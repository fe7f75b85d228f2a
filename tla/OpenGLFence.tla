------------------------------ MODULE OpenGLFence ------------------------------
(***************************************************************************)
(* The OpenGL backend of src/utils/gpu_fence.hpp.  OpenGL has no timeline:  *)
(* the producer creates one sync object per point and hands it to a worker  *)
(* thread, which waits for the objects in order on a context of its own,    *)
(* publishes the point of each that is signalled, and deletes it.           *)
(*                                                                         *)
(* QueueFence and the destructor are called by one thread at a time, the    *)
(* producer ("externally serialize operations"); completed_value and the    *)
(* flags are read by others at any moment.                                  *)
(***************************************************************************)
EXTENDS Naturals, Sequences, FiniteSets

CONSTANTS MaxSyncs,    \* bound on the number of sync objects created
          NoSync       \* a Pending that holds nothing

Sync == 1..MaxSyncs    \* sync objects, in the order of their creation

VARIABLES
  producer,    \* where the calling thread is in QueueFence or the destructor
  held,        \* the sync object QueueFence has in hand
  value,       \* the last point accepted
  ready, failed, stopping,
  pending,     \* the queue: <<sync, point>>
  worker,      \* where the worker is
  current,     \* the registration it took: <<sync, point>>
  completed,   \* completed_value
  \* OpenGL (external)
  made,        \* number of sync objects created
  signalled,   \* the GPU has passed the first so many of them
  deletions    \* how often each was deleted

vars == <<producer, held, value, ready, failed, stopping, pending, worker,
          current, completed, made, signalled, deletions>>
flags == <<ready, failed, stopping>>
gl == <<made, signalled, deletions>>

Nothing == <<NoSync, 0>>

\* glDeleteSync.
Deleted(s) == [deletions EXCEPT ![s] = @ + 1]

\* condition.notify_one: the predicate changes under the mutex, so a worker
\* that is not parked will see the change by itself.
Notified == IF worker = "parked" THEN "wait" ELSE worker

\* The last point accepted.  The worker may publish a point before QueueFence has
\* counted it.
Accepted == value + (IF producer = "pushed" THEN 1 ELSE 0)

\* The producer and the worker before their first step.
ThreadsInit ==
  /\ producer = "idle" /\ held = NoSync
  /\ ready = FALSE /\ failed = FALSE /\ stopping = FALSE
  /\ pending = <<>> /\ worker = "binding" /\ current = Nothing
  /\ completed = 0
  /\ made = 0 /\ signalled = 0 /\ deletions = [s \in Sync |-> 0]

Init == ThreadsInit /\ value = 0

-----------------------------------------------------------------------------
\* QueueFence, first line: stopping is read without the mutex.
QueueCheck ==
  /\ producer = "idle" /\ ~stopping
  /\ producer' = "checked"
  /\ UNCHANGED <<held, value, flags, pending, worker, current, completed, gl>>

\* The worker has no context yet, the wrong context is current, or there is no
\* sync object to be had.
QueueRefuse ==
  /\ producer = "checked"
  /\ producer' = "idle"
  /\ UNCHANGED <<held, value, flags, pending, worker, current, completed, gl>>

QueueCreate ==
  /\ producer = "checked" /\ ready /\ made < MaxSyncs
  /\ made' = made + 1
  /\ held' = made + 1
  /\ producer' = "created"
  /\ UNCHANGED <<value, flags, pending, worker, current, completed, signalled, deletions>>

\* Defect for comparison: stopping is not looked at again under the mutex.
QueuePushUnchecked ==
  /\ producer = "created"
  /\ pending' = Append(pending, <<held, value + 1>>)
  /\ held' = NoSync
  /\ producer' = "pushed"
  /\ UNCHANGED <<value, flags, worker, current, completed, gl>>

\* The critical section: the queue takes the sync, unless the worker stopped in
\* the meantime.
QueuePush ==
  /\ producer = "created" /\ ~stopping
  /\ pending' = Append(pending, <<held, value + 1>>)
  /\ held' = NoSync
  /\ producer' = "pushed"
  /\ UNCHANGED <<value, flags, worker, current, completed, gl>>

\* Defect for comparison: the sync object is dropped.
QueueGiveUpLeaking ==
  /\ producer = "created"
  /\ held' = NoSync
  /\ producer' = "idle"
  /\ UNCHANGED <<value, flags, pending, worker, current, completed, gl>>

\* Stopped, or push_back threw: the sync is given up.
QueueGiveUp ==
  /\ producer = "created"
  /\ deletions' = Deleted(held)
  /\ held' = NoSync
  /\ producer' = "idle"
  /\ UNCHANGED <<value, flags, pending, worker, current, completed, made, signalled>>

QueueReturn ==
  /\ producer = "pushed"
  /\ value' = value + 1
  /\ worker' = Notified
  /\ producer' = "idle"
  /\ UNCHANGED <<held, flags, pending, current, completed, gl>>

\* The destructor: stop, notify, join, delete the worker's context.
Destroy ==
  /\ producer = "idle"
  /\ stopping' = TRUE
  /\ producer' = "stopped"
  /\ UNCHANGED <<held, value, ready, failed, pending, worker, current, completed, gl>>

DestroyNotify ==
  /\ producer = "stopped"
  /\ worker' = Notified
  /\ producer' = "joining"
  /\ UNCHANGED <<held, value, flags, pending, current, completed, gl>>

DestroyJoin ==
  /\ producer = "joining" /\ worker = "ended"
  /\ producer' = "destroyed"
  /\ UNCHANGED <<held, value, flags, pending, worker, current, completed, gl>>

-----------------------------------------------------------------------------
WorkerBind ==
  /\ worker = "binding"
  /\ ready' = TRUE
  /\ worker' = "wait"
  /\ UNCHANGED <<producer, held, value, failed, stopping, pending, current, completed, gl>>

WorkerBindFails ==
  /\ worker = "binding"
  /\ failed' = TRUE /\ stopping' = TRUE
  /\ worker' = "ended"
  /\ UNCHANGED <<producer, held, value, ready, pending, current, completed, gl>>

\* condition.wait and the critical section behind it.
WorkerTake ==
  /\ worker = "wait" /\ pending # <<>>
  /\ current' = Head(pending)
  /\ pending' = Tail(pending)
  /\ worker' = "poll"
  /\ UNCHANGED <<producer, held, value, flags, completed, gl>>

WorkerRest ==
  /\ worker = "wait" /\ pending = <<>>
  /\ worker' = IF stopping THEN "ended" ELSE "parked"
  /\ UNCHANGED <<producer, held, value, flags, pending, current, completed, gl>>

\* Defect for comparison: the inner loop waits without looking at stopping.
WorkerPollForever ==
  /\ worker = "poll"
  /\ worker' = "waiting"
  /\ UNCHANGED <<producer, held, value, flags, pending, current, completed, gl>>

\* The condition of the inner loop.
WorkerPoll ==
  /\ worker = "poll"
  /\ worker' = IF stopping THEN "delete" ELSE "waiting"
  /\ UNCHANGED <<producer, held, value, flags, pending, current, completed, gl>>

\* client_wait returns: signalled, timed out, or in error.
WorkerSignalled ==
  /\ worker = "waiting" /\ current[1] <= signalled
  /\ completed' = current[2]
  /\ worker' = "delete"
  /\ UNCHANGED <<producer, held, value, flags, pending, current, gl>>

WorkerTimeout ==
  /\ worker = "waiting" /\ current[1] > signalled
  /\ worker' = "poll"
  /\ UNCHANGED <<producer, held, value, flags, pending, current, completed, gl>>

WorkerError ==
  /\ worker = "waiting"
  /\ failed' = TRUE /\ stopping' = TRUE
  /\ worker' = "delete"
  /\ UNCHANGED <<producer, held, value, ready, pending, current, completed, gl>>

\* Defect for comparison: the drain publishes what it deletes.
WorkerDeletePublishing ==
  /\ worker = "delete"
  /\ deletions' = Deleted(current[1])
  /\ completed' = current[2]
  /\ current' = Nothing
  /\ worker' = "wait"
  /\ UNCHANGED <<producer, held, value, flags, pending, made, signalled>>

WorkerDelete ==
  /\ worker = "delete"
  /\ deletions' = Deleted(current[1])
  /\ current' = Nothing
  /\ worker' = "wait"
  /\ UNCHANGED <<producer, held, value, flags, pending, completed, made, signalled>>

\* The GPU passes the next sync object.
GpuSignals ==
  /\ signalled < made
  /\ signalled' = signalled + 1
  /\ UNCHANGED <<producer, held, value, flags, pending, worker, current, completed,
                 made, deletions>>

Producer ==
  \/ QueueRefuse \/ QueueCreate \/ QueuePush \/ QueueGiveUp \/ QueueReturn
  \/ DestroyNotify \/ DestroyJoin

Worker ==
  \/ WorkerBind \/ WorkerBindFails \/ WorkerTake \/ WorkerRest \/ WorkerPoll
  \/ WorkerSignalled \/ WorkerTimeout \/ WorkerError \/ WorkerDelete

Next == QueueCheck \/ Destroy \/ Producer \/ Worker \/ GpuSignals

Spec == Init /\ [][Next]_vars

-----------------------------------------------------------------------------
\* Where each thread can be and what it can hold there.
TypeOK ==
  /\ producer \in {"idle", "checked", "created", "pushed", "stopped", "joining", "destroyed"}
  /\ held \in Sync \union {NoSync}
  /\ value \in Nat
  /\ ready \in BOOLEAN /\ failed \in BOOLEAN /\ stopping \in BOOLEAN
  /\ pending \in Seq(Sync \X (Nat \ {0}))
  /\ worker \in {"binding", "wait", "parked", "poll", "waiting", "delete", "ended"}
  /\ current \in (Sync \X (Nat \ {0})) \union {Nothing}
  /\ completed \in Nat
  /\ made \in 0..MaxSyncs /\ signalled \in 0..made
  /\ deletions \in [Sync -> Nat]
=============================================================================
