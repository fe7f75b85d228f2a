------------------------------- MODULE GpuQueue -------------------------------
(***************************************************************************)
(* The GPU as the fence backends of src/utils/gpu_fence.hpp use it: queues  *)
(* that execute their commands in order and independently of one another,   *)
(* and monitored fences that a command sets to a value or waits for.        *)
(***************************************************************************)
EXTENDS Naturals, Sequences

CONSTANTS Queue,        \* command queues, or submission contexts
          Monitored,    \* monitored fence objects
          MaxWork       \* bound on the pieces of work submitted to each queue

VARIABLES
  commands,    \* what each queue has still to execute
  reached,     \* the value of each monitored fence
  submitted,   \* pieces of work given to each queue so far
  retired      \* pieces of work each queue has finished

gpu == <<commands, reached, submitted, retired>>

Work == [op |-> "work"]
SignalOf(f, v) == [op |-> "signal", fence |-> f, value |-> v]
WaitFor(f, v) == [op |-> "wait", fence |-> f, value |-> v]

GpuInit ==
  /\ commands = [q \in Queue |-> <<>>]
  /\ reached = [f \in Monitored |-> 0]
  /\ submitted = [q \in Queue |-> 0]
  /\ retired = [q \in Queue |-> 0]

\* The application submits a piece of work.
SubmitWork(q) ==
  /\ submitted[q] < MaxWork
  /\ submitted' = [submitted EXCEPT ![q] = @ + 1]
  /\ commands' = [commands EXCEPT ![q] = Append(@, Work)]
  /\ UNCHANGED <<reached, retired>>

\* Commands given to a queue by a fence backend.
Enqueue(q, cmds) == commands' = [commands EXCEPT ![q] = @ \o cmds]

\* A queue executes its next command; a wait holds it until the value is there.
Execute(q) ==
  /\ commands[q] # <<>>
  /\ LET cmd == Head(commands[q])
     IN  \/ /\ cmd.op = "work"
            /\ retired' = [retired EXCEPT ![q] = @ + 1]
            /\ UNCHANGED reached
         \/ /\ cmd.op = "signal"
            /\ reached' = [reached EXCEPT ![cmd.fence] = cmd.value]
            /\ UNCHANGED retired
         \/ /\ cmd.op = "wait" /\ reached[cmd.fence] >= cmd.value
            /\ UNCHANGED <<reached, retired>>
  /\ commands' = [commands EXCEPT ![q] = Tail(@)]
  /\ UNCHANGED submitted

=============================================================================
