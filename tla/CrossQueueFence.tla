---------------------------- MODULE CrossQueueFence ----------------------------
(***************************************************************************)
(* The D3D11, D3D12 and Vulkan backends of src/utils/gpu_fence.hpp: one     *)
(* fence object signalled from the queues of a device.  The queues run      *)
(* independently, so a signal must be kept behind the one before it: D3D12  *)
(* waits for the previous point before every signal, Vulkan only when the   *)
(* queue is not the one that signalled last, and D3D11, which has one       *)
(* immediate context, never.                                                *)
(***************************************************************************)
EXTENDS GpuQueue

CONSTANTS MaxPoints,     \* bound on the number of points accepted
          MaxFailures,   \* bound on the number of submissions that fail
          Immediate,     \* the queue of D3D11's immediate context
          Fence,         \* the fence object
          NoQueue        \* a null queue pointer

VARIABLES
  backend,  \* "d3d11", "d3d12", or "vulkan": ReShadeFence
  value,    \* the last point accepted
  last,     \* ReShadeFence::queue
  failures, \* failed submissions so far
  owed      \* history: the work submitted to each queue before each point that
            \* the point stands for

fenceVars == <<value, last, failures, owed>>
vars == <<gpu, backend, fenceVars>>

\* The queues a fence of the backend is signalled from.
Source == IF backend = "d3d11" THEN {Immediate} ELSE Queue

\* Defect for comparison: no wait at all.
NeedsNoWait(q) == FALSE
NeedsWait(q) ==
  value # 0 /\ (backend = "d3d12" \/ (backend = "vulkan" /\ last # q))

NotesInit == last = NoQueue /\ failures = 0

QueuesInit ==
  /\ GpuInit
  /\ value = 0
  /\ owed = [p \in 1..MaxPoints |-> [q \in Queue |-> 0]]

Init == backend \in {"d3d11", "d3d12", "vulkan"} /\ NotesInit /\ QueuesInit

\* Defect for comparison: the queue waits for the point it is about to signal.
QueueFenceSelfWait(q) ==
  /\ value < MaxPoints
  /\ Enqueue(q, (IF NeedsWait(q) THEN <<WaitFor(Fence, value + 1)>> ELSE <<>>)
                  \o <<SignalOf(Fence, value + 1)>>)
  /\ value' = value + 1
  /\ last' = q
  /\ UNCHANGED <<reached, submitted, retired, failures, owed>>

\* The wait is enqueued if it is needed, and the signal behind it.
QueueFence(q) ==
  /\ value < MaxPoints
  /\ Enqueue(q, (IF NeedsWait(q) THEN <<WaitFor(Fence, value)>> ELSE <<>>)
                  \o <<SignalOf(Fence, value + 1)>>)
  /\ value' = value + 1
  /\ last' = q
  /\ owed' = [owed EXCEPT ![value + 1] =
                [r \in Queue |-> IF r = q THEN submitted[q]
                                 ELSE IF value = 0 THEN 0 ELSE owed[value][r]]]
  /\ UNCHANGED <<reached, submitted, retired, failures>>

\* Defect for comparison: the queue is noted although the wait failed.
QueueFenceNotesEarly(q) ==
  /\ failures < MaxFailures
  /\ failures' = failures + 1
  /\ last' = q
  /\ UNCHANGED <<gpu, value, owed>>

\* The wait fails: nothing has changed.  The signal fails: the wait stays in the
\* queue, and Vulkan has noted the queue.
QueueFenceFails(q) ==
  /\ failures < MaxFailures
  /\ failures' = failures + 1
  /\ IF NeedsWait(q) THEN Enqueue(q, <<WaitFor(Fence, value)>>) ELSE UNCHANGED commands
  /\ last' = q
  /\ UNCHANGED <<reached, submitted, retired, value, owed>>

Gpu == \E q \in Source : (SubmitWork(q) \/ Execute(q)) /\ UNCHANGED fenceVars

Next == ((\E q \in Source : QueueFence(q) \/ QueueFenceFails(q)) \/ Gpu)
        /\ UNCHANGED backend

Spec == Init /\ [][Next]_vars

-----------------------------------------------------------------------------
Command == {Work} \union {SignalOf(Fence, v) : v \in 1..MaxPoints}
                  \union {WaitFor(Fence, v) : v \in 1..MaxPoints}

\* The values the fence and the queues hold.
TypeOK ==
  /\ commands \in [Queue -> Seq(Command)]
  /\ reached \in [Monitored -> 0..MaxPoints]
  /\ submitted \in [Queue -> 0..MaxWork] /\ retired \in [Queue -> 0..MaxWork]
  /\ value \in 0..MaxPoints /\ last \in Queue \union {NoQueue}
  /\ failures \in 0..MaxFailures
  /\ owed \in [1..MaxPoints -> [Queue -> 0..MaxWork]]
=============================================================================
