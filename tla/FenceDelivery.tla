----------------------------- MODULE FenceDelivery -----------------------------
(***************************************************************************)
(* Fence of src/utils/gpu_fence.hpp: QueueSignal submits a point to the     *)
(* backend's timeline and may register a callback for it; a worker thread,  *)
(* started with the first callback, polls the timeline and runs the         *)
(* callbacks of completed points; the destructor cancels what is pending    *)
(* and joins the worker.                                                    *)
(*                                                                         *)
(* QueueSignal and the destructor are called by one thread at a time, the   *)
(* submitter, and never from a callback, as the header demands.             *)
(***************************************************************************)
EXTENDS FenceTimeline, Sequences, FiniteSets

CONSTANTS MaxCalls     \* bound on the number of QueueSignal calls

ASSUME CallsAssumption == MaxCalls \in Nat

Call == 1..MaxCalls
NoSignal == 0          \* NO_SIGNAL, the value of an entry that is only reserved
Entry == Call \X (0..MaxPoints)
NoEntry == <<0, NoSignal>>

VARIABLES
  submitter,     \* where the calling thread is
  call,          \* number of the call it makes
  hasCallback,   \* does the call bring a callback?
  delivery,      \* callback_delivery has been allocated
  stopping,
  pending,       \* the queue: <<call, point>>
  worker,        \* where the delivery worker is; "none": not joinable
  running,       \* the entry it took from the queue
  delivered      \* history: the last call whose callback returned

delivering == <<stopping, pending, worker, running, delivered>>
calling == <<submitter, call, hasCallback, delivery>>
vars == <<timeline, calling, delivering>>

\* CallbackDelivery::mutex is held across two steps only by QueueSignal, from
\* the reservation to the commit.
MutexFree == submitter # "reserved"

\* condition.notify: the predicate changes under the mutex.
Notified == IF worker = "parked" THEN "wait" ELSE worker

\* pending without its last entry.
Withdrawn == SubSeq(pending, 1, Len(pending) - 1)

Init ==
  /\ TimelineInit
  /\ submitter = "idle" /\ call = 0 /\ hasCallback = FALSE /\ delivery = FALSE
  /\ stopping = FALSE /\ pending = <<>> /\ worker = "none"
  /\ running = NoEntry /\ delivered = 0

-----------------------------------------------------------------------------
(***************************************************************************)
(* QueueSignal.                                                            *)
(***************************************************************************)

\* The entry: nothing is submitted once delivery has stopped.
SignalEnter(cb) ==
  /\ submitter = "idle" /\ call < MaxCalls
  /\ ~(delivery /\ stopping)
  /\ submitter' = "entered"
  /\ call' = call + 1
  /\ hasCallback' = cb
  /\ UNCHANGED <<timeline, delivery, delivering>>

\* The source does not own the timeline: an exception, or NO_SIGNAL.
SignalMismatch ==
  /\ submitter = "entered"
  /\ submitter' = "idle"
  /\ UNCHANGED <<timeline, call, hasCallback, delivery, delivering>>

\* The worker is created with the first callback, or the first after a failure
\* to create it; a worker that ended is still joinable and not replaced.
SignalPrepare ==
  /\ submitter = "entered"
  /\ delivery' = (delivery \/ hasCallback)
  /\ IF hasCallback /\ worker = "none"
       THEN \/ submitter' = "prepared" /\ worker' = "wait"
            \/ submitter' = "idle" /\ worker' = worker
       ELSE submitter' = "prepared" /\ worker' = worker
  /\ UNCHANGED <<timeline, call, hasCallback, stopping, pending, running, delivered>>

\* With the mutex held: give up if delivery stopped meanwhile, or if the queue
\* cannot grow.
SignalGiveUp ==
  /\ submitter = "prepared"
  /\ stopping \/ hasCallback
  /\ submitter' = "idle"
  /\ UNCHANGED <<timeline, call, hasCallback, delivery, delivering>>

SignalReserve ==
  /\ submitter = "prepared" /\ ~stopping
  /\ submitter' = "reserved"
  /\ pending' = IF hasCallback THEN Append(pending, <<call, NoSignal>>) ELSE pending
  /\ UNCHANGED <<timeline, call, hasCallback, delivery, stopping, worker, running, delivered>>

\* The backend accepts; the point is written into the entry and the mutex freed.
SignalCommit ==
  /\ submitter = "reserved"
  /\ Submit
  /\ pending' = IF hasCallback THEN Append(Withdrawn, <<call, accepted'>>) ELSE pending
  /\ submitter' = "committed"
  /\ UNCHANGED <<call, hasCallback, delivery, stopping, worker, running, delivered>>

\* Defect for comparison: the oldest entry goes instead of the reservation.
SignalWithdrawFront ==
  /\ submitter = "reserved"
  /\ pending' = IF hasCallback THEN Tail(pending) ELSE pending
  /\ submitter' = "idle"
  /\ UNCHANGED <<timeline, call, hasCallback, delivery, stopping, worker, running, delivered>>

\* The backend returns NO_SIGNAL or throws: only this call's entry is undone.
SignalWithdraw ==
  /\ submitter = "reserved"
  /\ pending' = IF hasCallback THEN Withdrawn ELSE pending
  /\ submitter' = "idle"
  /\ UNCHANGED <<timeline, call, hasCallback, delivery, stopping, worker, running, delivered>>

SignalReturn ==
  /\ submitter = "committed"
  /\ worker' = Notified
  /\ submitter' = "idle"
  /\ UNCHANGED <<timeline, call, hasCallback, delivery, stopping, pending, running, delivered>>

-----------------------------------------------------------------------------
(***************************************************************************)
(* ~Fence.                                                                 *)
(***************************************************************************)
Destroy ==
  /\ submitter = "idle"
  /\ stopping' = (stopping \/ delivery)
  /\ submitter' = IF delivery THEN "stopped" ELSE "destroyed"
  /\ UNCHANGED <<timeline, call, hasCallback, delivery, pending, worker, running, delivered>>

DestroyNotify ==
  /\ submitter = "stopped"
  /\ worker' = Notified
  /\ submitter' = "joining"
  /\ UNCHANGED <<timeline, call, hasCallback, delivery, stopping, pending, running, delivered>>

\* Defect for comparison: the worker is not joined.
DestroyDetach ==
  /\ submitter = "joining"
  /\ submitter' = "destroyed"
  /\ UNCHANGED <<timeline, call, hasCallback, delivery, delivering>>

DestroyJoin ==
  /\ submitter = "joining" /\ worker \in {"none", "ended"}
  /\ submitter' = "destroyed"
  /\ UNCHANGED <<timeline, call, hasCallback, delivery, delivering>>

-----------------------------------------------------------------------------
(***************************************************************************)
(* The delivery worker.                                                    *)
(***************************************************************************)

\* condition.wait: sleep, or go on, or end.
WorkerRest ==
  /\ worker = "wait" /\ MutexFree
  /\ stopping \/ pending = <<>>
  /\ worker' = IF stopping THEN "ended" ELSE "parked"
  /\ UNCHANGED <<timeline, calling, stopping, pending, running, delivered>>

\* The oldest point is not complete: wait_for a millisecond.
WorkerPoll ==
  /\ worker = "wait" /\ MutexFree
  /\ ~stopping /\ pending # <<>> /\ completed < Head(pending)[2]
  /\ worker' = "polling"
  /\ UNCHANGED <<timeline, calling, stopping, pending, running, delivered>>

\* Defect for comparison: the wait has no time limit.
WorkerPolledOnStop ==
  /\ worker = "polling" /\ MutexFree /\ stopping
  /\ worker' = "wait"
  /\ UNCHANGED <<timeline, calling, stopping, pending, running, delivered>>

WorkerPolled ==
  /\ worker = "polling" /\ MutexFree
  /\ worker' = "wait"
  /\ UNCHANGED <<timeline, calling, stopping, pending, running, delivered>>

\* Defect for comparison: a point counts as complete one step early.
WorkerTakeEarly ==
  /\ worker = "wait" /\ MutexFree
  /\ ~stopping /\ pending # <<>> /\ completed + 1 >= Head(pending)[2]
  /\ running' = Head(pending)
  /\ pending' = Tail(pending)
  /\ worker' = "running"
  /\ UNCHANGED <<timeline, calling, stopping, delivered>>

\* The oldest point is complete: its callback is taken and the mutex freed.
WorkerTake ==
  /\ worker = "wait" /\ MutexFree
  /\ ~stopping /\ pending # <<>> /\ completed >= Head(pending)[2]
  /\ running' = Head(pending)
  /\ pending' = Tail(pending)
  /\ worker' = "running"
  /\ UNCHANGED <<timeline, calling, stopping, delivered>>

\* The callback returns, or throws and is logged.
WorkerReturn ==
  /\ worker = "running" /\ MutexFree
  /\ delivered' = running[1]
  /\ running' = NoEntry
  /\ worker' = "wait"
  /\ UNCHANGED <<timeline, calling, stopping, pending>>

\* GetCompletedValue throws, which only a failed OpenGL backend does; unwinding
\* frees the mutex, and the handler takes it again.
WorkerThrows ==
  /\ worker = "wait" /\ MutexFree
  /\ ~stopping /\ pending # <<>> /\ halted
  /\ worker' = "unwound"
  /\ UNCHANGED <<timeline, calling, stopping, pending, running, delivered>>

WorkerCatch ==
  /\ worker = "unwound" /\ MutexFree
  /\ stopping' = TRUE
  /\ worker' = "ended"
  /\ UNCHANGED <<timeline, calling, pending, running, delivered>>

Submitter ==
  \/ SignalMismatch \/ SignalPrepare \/ SignalGiveUp \/ SignalReserve
  \/ SignalCommit \/ SignalWithdraw \/ SignalReturn
  \/ DestroyNotify \/ DestroyJoin

Worker ==
  \/ WorkerRest \/ WorkerPoll \/ WorkerPolled \/ WorkerTake \/ WorkerReturn
  \/ WorkerThrows \/ WorkerCatch

Backend == (Finish \/ Lose \/ Halt) /\ UNCHANGED <<calling, delivering>>

Next ==
  \/ \E cb \in BOOLEAN : SignalEnter(cb)
  \/ Destroy
  \/ Submitter \/ Worker \/ Backend

Spec == Init /\ [][Next]_vars

\* Threads run on and callbacks return.  The GPU need not make progress.
FairSpec == Spec /\ WF_vars(Submitter) /\ WF_vars(Worker)

-----------------------------------------------------------------------------
\* Where each thread can be and what the queue can hold.
TypeOK ==
  /\ accepted \in 0..MaxPoints /\ completed \in 0..Lost
  /\ submitter \in {"idle", "entered", "prepared", "reserved", "committed",
                    "stopped", "joining", "destroyed"}
  /\ call \in 0..MaxCalls
  /\ halted \in BOOLEAN /\ hasCallback \in BOOLEAN
  /\ delivery \in BOOLEAN /\ stopping \in BOOLEAN
  /\ pending \in Seq(Entry)
  /\ worker \in {"none", "wait", "parked", "polling", "running", "unwound", "ended"}
  /\ running \in Entry \union {NoEntry}
  /\ delivered \in 0..MaxCalls

\* A callback runs only for a point that was accepted and that the timeline has
\* passed; an entry that is only reserved is never taken.
OnlyCompletedPointsRun ==
  worker = "running" => running[2] # NoSignal /\ running[2] <= completed

\* Only the last entry can be a reservation, while the call that made it holds
\* the mutex, and accepted points are queued in order, so that looking at the
\* front alone never delays a completed point behind an incomplete one.
QueueIsInOrder ==
  \A i \in 1..Len(pending) :
    \/ /\ pending[i][2] # NoSignal
       /\ \A j \in 1..(i - 1) : pending[j][2] < pending[i][2]
    \/ i = Len(pending) /\ submitter = "reserved" /\ hasCallback /\ pending[i][1] = call

\* After the destructor returned no callback runs and no worker is left to
\* touch the fence.
QuietAfterDestruction ==
  submitter = "destroyed" => worker \in {"none", "ended"} /\ running = NoEntry

\* The accepted callbacks in the queue: all but a reservation.
Committed == IF submitter = "reserved" /\ hasCallback THEN Withdrawn ELSE pending

Calls(queue) == [i \in 1..Len(queue) |-> queue[i][1]]

Promise == INSTANCE CallbackPromise
  WITH waiting <- Calls(Committed),
       current <- running[1],
       done <- delivered,
       cancelled <- stopping

\* Callbacks run one at a time, in the order of their calls, each at most once;
\* a rejected submission's callback never runs, and none begins or is accepted
\* once delivery is stopped.
KeepsThePromise == Promise!PromiseSpec

\* A callback whose point the timeline has passed runs, unless delivery is
\* stopped: nobody tells the worker that the GPU has moved on.
CompletedAreDelivered ==
  \A c \in Call :
    (\E i \in 1..Len(Committed) : Committed[i][1] = c /\ Committed[i][2] <= completed)
      ~> delivered >= c \/ stopping
=============================================================================
