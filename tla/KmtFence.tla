-------------------------------- MODULE KmtFence --------------------------------
(***************************************************************************)
(* The kernel-mode backend of src/utils/gpu_fence.hpp, used by D3D9 and     *)
(* D3D10.  Such a device submits to several contexts, and one point stands  *)
(* for the work of all of them: QueueFence signals a fence of its own on    *)
(* every joined context, makes the primary context wait for each, and       *)
(* signals the primary fence last.  A system call that fails in the middle  *)
(* leaves a partial submission behind.                                      *)
(***************************************************************************)
EXTENDS GpuQueue

CONSTANTS Joined,      \* number of joined contexts
          MaxPoints    \* bound on the number of points accepted

Primary == 0
Context == 0..Joined    \* also the queues and the fences of GpuQueue

VARIABLES
  value,    \* D3DKMTFence::value of the primary and of each joined fence
  next,     \* the context QueueFence signals next
  phase,    \* "idle": not in QueueFence; else the system call it makes next
  valid,    \* *binding_valid
  owed      \* history: the work submitted to each context before each point

fenceVars == <<value, next, phase, valid, owed>>
vars == <<gpu, fenceVars>>

Target == value[Primary] + 1

\* The contexts in the order of QueueFence: 1, 2, ..., and the primary at last.
After(c) == IF c < Joined THEN c + 1 ELSE Primary

\* No call of QueueFence is under way.
CallInit == next = Primary /\ phase = "idle" /\ valid = TRUE

ContextsInit ==
  /\ GpuInit
  /\ value = [c \in Context |-> 0]
  /\ owed = [p \in 1..MaxPoints |-> [c \in Context |-> 0]]

Init == CallInit /\ ContextsInit

\* Defect for comparison: the joined timelines are not checked.
QueueFenceUnchecked ==
  /\ phase = "idle" /\ valid
  /\ Target <= MaxPoints
  /\ phase' = "signal"
  /\ next' = After(Primary)
  /\ owed' = [owed EXCEPT ![Target] = submitted]
  /\ UNCHANGED <<gpu, value, valid>>

\* QueueFence checks the binding and every joined timeline before it submits
\* anything; otherwise it returns 0 and nothing changes.
QueueFence ==
  /\ phase = "idle" /\ valid
  /\ Target <= MaxPoints
  /\ \A c \in Context : value[c] < Target
  /\ phase' = "signal"
  /\ next' = After(Primary)
  /\ owed' = [owed EXCEPT ![Target] = submitted]
  /\ UNCHANGED <<gpu, value, valid>>

\* signal_context on a joined context, followed by the wait.
SignalJoined ==
  /\ phase = "signal" /\ next # Primary
  /\ Enqueue(next, <<SignalOf(next, Target)>>)
  /\ value' = [value EXCEPT ![next] = Target]
  /\ phase' = "wait"
  /\ UNCHANGED <<reached, submitted, retired, next, valid, owed>>

\* Defects for comparison: the primary context does not wait; it waits for the
\* value after the one that is signalled.
WaitSkipped ==
  /\ phase = "wait"
  /\ next' = After(next)
  /\ phase' = "signal"
  /\ UNCHANGED <<gpu, value, valid, owed>>

WaitOffByOne ==
  /\ phase = "wait"
  /\ Enqueue(Primary, <<WaitFor(next, Target + 1)>>)
  /\ next' = After(next)
  /\ phase' = "signal"
  /\ UNCHANGED <<reached, submitted, retired, value, valid, owed>>

WaitJoined ==
  /\ phase = "wait"
  /\ Enqueue(Primary, <<WaitFor(next, Target)>>)
  /\ next' = After(next)
  /\ phase' = "signal"
  /\ UNCHANGED <<reached, submitted, retired, value, valid, owed>>

\* signal_context(this): the point is accepted.
SignalPrimary ==
  /\ phase = "signal" /\ next = Primary
  /\ Enqueue(Primary, <<SignalOf(Primary, Target)>>)
  /\ value' = [value EXCEPT ![Primary] = Target]
  /\ phase' = "idle"
  /\ UNCHANGED <<reached, submitted, retired, next, valid, owed>>

\* Any of the system calls fails and QueueFence returns 0 at once.
QueueFenceFails ==
  /\ phase # "idle"
  /\ phase' = "idle"
  /\ UNCHANGED <<gpu, value, next, valid, owed>>

\* UntrackDevice, from the device's teardown.
Invalidate ==
  /\ valid
  /\ valid' = FALSE
  /\ UNCHANGED <<gpu, value, next, phase, owed>>

Gpu == \E q \in Queue : (SubmitWork(q) \/ Execute(q)) /\ UNCHANGED fenceVars

Next ==
  \/ QueueFence \/ SignalJoined \/ WaitJoined \/ SignalPrimary \/ QueueFenceFails
  \/ Invalidate \/ Gpu

Spec == Init /\ [][Next]_vars

-----------------------------------------------------------------------------
Command == {Work} \union {SignalOf(c, v) : c \in Context, v \in 1..MaxPoints}
                  \union {WaitFor(c, v) : c \in Context, v \in 1..MaxPoints}

\* The values the fence and the queues hold.
TypeOK ==
  /\ commands \in [Context -> Seq(Command)]
  /\ reached \in [Context -> 0..MaxPoints]
  /\ submitted \in [Context -> 0..MaxWork] /\ retired \in [Context -> 0..MaxWork]
  /\ value \in [Context -> 0..MaxPoints]
  /\ next \in Context /\ phase \in {"idle", "signal", "wait"} /\ valid \in BOOLEAN
  /\ owed \in [1..MaxPoints -> [Context -> 0..MaxWork]]

\* A joined fence ahead of the primary one is the trace of a partial submission.
Stranded == \E c \in Context : value[c] > value[Primary]
=============================================================================
