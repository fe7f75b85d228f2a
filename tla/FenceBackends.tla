----------------------------- MODULE FenceBackends -----------------------------
(***************************************************************************)
(* The backends a Fence of src/utils/gpu_fence.hpp can have.  Its           *)
(* constructor chooses one by the API of the device; the rest of the class  *)
(* relies on what all of them promise, FenceTimeline.  A variable that the  *)
(* chosen backend does not use keeps its first value.                       *)
(***************************************************************************)
EXTENDS Naturals, Sequences, FiniteSets

CONSTANTS MaxSyncs,      \* bound on the sync objects of OpenGL
          Joined,        \* contexts of a D3D9 or D3D10 device beside the primary one
          KernelPoints,  \* bound on the points of such a device
          Parallel,      \* queues of a D3D12 or Vulkan device beside the first one
          QueuePoints,   \* bound on the points of D3D11, D3D12 and Vulkan
          MaxFailures,   \* bound on their failing submissions
          MaxWork,       \* bound on the pieces of work given to each queue
          Fence, NoQueue, NoSync

ASSUME BackendsAssumption ==
  /\ {MaxSyncs, Joined, KernelPoints, Parallel, QueuePoints, MaxFailures, MaxWork}
       \subseteq Nat
  /\ NoSync \notin 1..MaxSyncs /\ NoQueue \notin 0..Parallel

VARIABLES
  backend,     \* which alternative of the variant
  \* what GetCompletedValue and QueueFence work on
  value, owed,
  commands, reached, submitted, retired,
  \* OpenGLFence
  producer, held, ready, failed, stopping, pending, worker, current, completed,
  made, signalled, deletions,
  \* D3DKMTFence
  next, phase, valid,
  \* ReShadeFence
  last, failures

gpu == <<commands, reached, submitted, retired>>
threads == <<producer, held, ready, failed, stopping, pending, worker, current,
             completed, made, signalled, deletions>>
call == <<next, phase, valid>>
notes == <<last, failures>>
vars == <<backend, value, owed, gpu, threads, call, notes>>

OpenGL == INSTANCE OpenGLFence
Kernel == INSTANCE KmtFence
  WITH Queue <- 0..Joined, Monitored <- 0..Joined, MaxPoints <- KernelPoints
CrossQueue == INSTANCE CrossQueueFence
  WITH Queue <- 0..Parallel, Immediate <- 0, Monitored <- {Fence}, MaxPoints <- QueuePoints

NoGpu == /\ commands = <<>> /\ reached = <<>> /\ submitted = <<>> /\ retired = <<>>
         /\ owed = <<>>

\* Fence::Fence: the switch on the API, and the Initialize it calls.
Init ==
  /\ OpenGL!ThreadsInit /\ Kernel!CallInit /\ CrossQueue!NotesInit
  /\ \/ backend = "opengl" /\ value = 0 /\ NoGpu
     \/ backend = "kernel" /\ Kernel!ContextsInit
     \/ backend \in {"d3d11", "d3d12", "vulkan"} /\ CrossQueue!QueuesInit

Next ==
  \/ /\ backend = "opengl" /\ OpenGL!Next
     /\ UNCHANGED <<backend, owed, gpu, call, notes>>
  \/ /\ backend = "kernel" /\ Kernel!Next
     /\ UNCHANGED <<backend, threads, notes>>
  \/ /\ backend \in {"d3d11", "d3d12", "vulkan"} /\ CrossQueue!Next
     /\ UNCHANGED <<threads, call>>

Spec == Init /\ [][Next]_vars

Queues == (0..Joined) \union (0..Parallel)
Busy(q) == q \in DOMAIN commands /\ commands[q] # <<>>

\* A queue goes on with its next command, and OpenGL's threads with their next step.
Advance(q) == Busy(q) /\ CrossQueue!Execute(q)
                      /\ UNCHANGED <<backend, value, owed, threads, call, notes>>
Threads(step) == backend = "opengl" /\ step /\ UNCHANGED <<backend, owed, gpu, call, notes>>

\* Threads run on, and no queue of the GPU stands still while it has something to
\* execute.  OpenGL's GPU may hang, and nobody has to call anything.
FairSpec ==
  /\ Spec
  /\ WF_vars(Threads(OpenGL!Producer)) /\ WF_vars(Threads(OpenGL!Worker))
  /\ \A q \in Queues : WF_vars(Advance(q))

-----------------------------------------------------------------------------
TypeOK ==
  /\ backend \in {"opengl", "kernel", "d3d11", "d3d12", "vulkan"}
  /\ backend = "opengl" => OpenGL!TypeOK
  /\ backend = "kernel" => Kernel!TypeOK
  /\ backend \in {"d3d11", "d3d12", "vulkan"} => CrossQueue!TypeOK

\* The last point accepted.
Accepted ==
  CASE backend = "opengl" -> OpenGL!Accepted
    [] backend = "kernel" -> value[Kernel!Primary]
    [] OTHER -> value

\* Points are bounded by the largest of the bounds; one more is UINT64_MAX, which
\* stands for a device or a binding that is gone.
MaxPoints == CHOOSE m \in {MaxSyncs, KernelPoints, QueuePoints} :
               \A n \in {MaxSyncs, KernelPoints, QueuePoints} : m >= n

\* Fence::GetCompletedValue.
Completed ==
  CASE backend = "opengl" -> completed
    [] backend = "kernel" -> IF valid THEN reached[Kernel!Primary] ELSE MaxPoints + 1
    [] OTHER -> reached[Fence]

\* A partial submission that left a joined fence ahead halts the kernel backend for
\* good, since the next target would not exceed that fence's value.
Halted ==
  CASE backend = "opengl" -> stopping
    [] backend = "kernel" -> phase = "idle" /\ Kernel!Stranded
    [] OTHER -> FALSE

Timeline == INSTANCE FenceTimeline
  WITH accepted <- Accepted, completed <- Completed, halted <- Halted

\* Whichever backend a Fence has, it keeps the promise the class relies on: points
\* are accepted in order and none after a halt, and the completed value neither goes
\* back, although each queue sets it on its own, nor passes the last point accepted.
IsATimeline == Timeline!TimelineSpec

\* OpenGL: every sync object has exactly one holder, the producer's hand, the queue
\* or the worker, until it is deleted, and it is deleted once: glDeleteSync is called
\* from five places of two threads.
EverySyncHasOneHolder ==
  \A s \in 1..made :
    LET inQueue == {i \in 1..Len(pending) : pending[i][1] = s}
    IN  deletions[s] + Cardinality(inQueue)
          + (IF held = s THEN 1 ELSE 0) + (IF current[1] = s THEN 1 ELSE 0) = 1

\* OpenGL: when the destructor has joined the worker, and deletes the context the
\* sync objects live in, none of them is left: nothing can be queued behind the
\* worker's last look at the queue.
NoSyncOutlivesTheContext ==
  producer = "destroyed" => \A s \in 1..made : deletions[s] = 1

\* OpenGL: a completed point is never reported for a sync object that was deleted
\* unsignalled: stopping and failing drain the queue "without publishing completion".
CompletionNeedsASignal ==
  [][completed' # completed =>
       /\ \E s \in 1..signalled : deletions[s] = 0 /\ current = <<s, completed'>>
       /\ completed' = completed + 1]_vars

\* OpenGL: the destructor returns even if the GPU never signals, because the
\* worker's waits are bounded.
DestructorReturns == producer = "joining" ~> producer = "destroyed"

\* D3D9 and D3D10: a completed point covers all contexts: the work submitted to any
\* of them before QueueFence was called is retired. A call that fails between two
\* contexts leaves signals and waits behind and may not make a point complete that was
\* not accepted; a joined timeline is then ahead, and every later call is refused, so
\* that only a call whose first signal failed can be tried again.
CompletionCoversAllContexts ==
  backend = "kernel" =>
    \A p \in 1..reached[Kernel!Primary] : \A c \in 0..Joined : retired[c] >= owed[p][c]

\* D3D12 and Vulkan: a completed point covers the work submitted to its queue before
\* it, and what every earlier point covers, whichever queues they were signalled from
\* and whatever failed in between.
CompletionCoversTheQueues ==
  backend \in {"d3d11", "d3d12", "vulkan"} =>
    \A p \in 1..reached[Fence] : \A q \in DOMAIN commands : retired[q] >= owed[p][q]

\* Only a wait for a value that is not there yet holds a queue.
Runs(q) == Busy(q) /\ LET cmd == Head(commands[q])
                      IN  cmd.op = "wait" => reached[cmd.fence] >= cmd.value

\* The queues never wait for one another in a circle, nor for a signal that failed or
\* stands behind the wait: while one has something to execute, one can go on.
QueuesNeverLock == (\E q \in Queues : Busy(q)) => \E q \in Queues : Runs(q)

\* The queues get through with what they were given, again and again, so that
\* accepted points complete and a submission that failed half way hangs nothing: no
\* queue waits for a signal that never comes, or that stands behind the wait.
QueuesDrain == []<>(\A q \in Queues : ~Busy(q))
=============================================================================
