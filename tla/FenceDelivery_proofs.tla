-------------------------- MODULE FenceDelivery_proofs --------------------------
(***************************************************************************)
(* The safety properties of FenceDelivery hold for any number of points and *)
(* calls, and FenceDelivery implements CallbackPromise.                     *)
(***************************************************************************)
EXTENDS FenceDelivery, SequenceTheorems, TLAPS

\* What the queue holds: calls in the order they were made, for points that
\* were accepted, and at its end the reservation of the call under way.
QueueInv ==
  /\ \A i \in 1..Len(pending) : pending[i][2] <= accepted
  /\ \A i, j \in 1..Len(pending) : i < j => pending[i][1] < pending[j][1]
  /\ \A i \in 1..Len(pending) :
       /\ pending[i][1] <= call
       /\ submitter \in {"entered", "prepared", "reserved"} =>
            \/ pending[i][1] < call
            \/ i = Len(pending) /\ submitter = "reserved" /\ hasCallback
  /\ submitter = "reserved" /\ hasCallback =>
       pending # <<>> /\ pending[Len(pending)] = <<call, NoSignal>>

\* What the worker has taken: an older call than those in the queue, whose
\* point is complete.
WorkerInv ==
  /\ worker = "running" <=> running # NoEntry
  /\ worker = "running" => running[1] > 0 /\ running[2] # NoSignal /\ running[2] <= completed
  /\ \A i \in 1..Len(pending) : running[1] < pending[i][1] /\ delivered < pending[i][1]
  /\ running # NoEntry => delivered < running[1]
  /\ running[1] <= call /\ delivered <= call
  /\ submitter \in {"entered", "prepared", "reserved"} => running[1] < call /\ delivered < call

\* The mutex and the life of the worker.
LifeInv ==
  /\ submitter = "reserved" => ~stopping
  /\ ~delivery => worker = "none" /\ pending = <<>>
  /\ submitter = "destroyed" => worker \in {"none", "ended"}
  /\ submitter \in {"reserved", "prepared"} /\ hasCallback => delivery

Inv == TypeOK /\ QueueIsInOrder /\ QueueInv /\ WorkerInv /\ LifeInv

-----------------------------------------------------------------------------
\* Dropping the last entry keeps the others where they are.
LEMMA WithdrawnKeeps ==
  ASSUME NEW S, NEW s \in Seq(S), s # <<>>
  PROVE /\ SubSeq(s, 1, Len(s) - 1) \in Seq(S)
        /\ Len(SubSeq(s, 1, Len(s) - 1)) = Len(s) - 1
        /\ \A i \in 1..(Len(s) - 1) : SubSeq(s, 1, Len(s) - 1)[i] = s[i]
  <1> DEFINE n == Len(s) - 1
  <1>1. n \in Nat
    BY EmptySeq, LenProperties
  <1>2. \A i \in 1..n : s[i] \in S
    BY <1>1, ElementOfSeq
  <1> HIDE DEF n
  <1>3. /\ SubSeq(s, 1, n) \in Seq(S)
        /\ Len(SubSeq(s, 1, n)) = IF 1 <= n THEN n - 1 + 1 ELSE 0
        /\ \A i \in 1..(n - 1 + 1) : SubSeq(s, 1, n)[i] = s[1 + i - 1]
    BY <1>1, <1>2, SubSeqProperties
  <1>4. /\ SubSeq(s, 1, n) \in Seq(S)
        /\ Len(SubSeq(s, 1, n)) = n
        /\ \A i \in 1..n : SubSeq(s, 1, n)[i] = s[i]
    BY <1>1, <1>3
  <1> QED
    BY <1>4 DEF n

\* Nothing is queued, taken or under way.
LEMMA InitInv == Init => Inv
  <1> SUFFICES ASSUME Init PROVE Inv
    OBVIOUS
  <1> USE DEF Init, TimelineInit, NoEntry, NoSignal
  <1>1. TypeOK
    <2>1. pending \in Seq(Entry)
      BY EmptySeq
    <2>2. accepted \in 0..MaxPoints /\ completed \in 0..Lost
      BY PointsAssumption DEF Lost
    <2>3. call \in 0..MaxCalls /\ delivered \in 0..MaxCalls
      BY CallsAssumption
    <2>4. /\ halted \in BOOLEAN /\ hasCallback \in BOOLEAN
          /\ delivery \in BOOLEAN /\ stopping \in BOOLEAN
      BY Zenon
    <2> QED
      BY <2>1, <2>2, <2>3, <2>4 DEF TypeOK
  <1>2. QueueIsInOrder /\ QueueInv
    BY DEF QueueIsInOrder, QueueInv
  <1>3. WorkerInv
    BY DEF WorkerInv
  <1>4. LifeInv
    BY DEF LifeInv
  <1> QED
    BY <1>1, <1>2, <1>3, <1>4 DEF Inv

\* The entries have the parts TypeOK gives them.
LEMMA EntryParts ==
  ASSUME TypeOK
  PROVE /\ Len(pending) \in Nat
        /\ \A i \in 1..Len(pending) :
             pending[i] \in Entry /\ pending[i][1] \in Call /\ pending[i][2] \in 0..MaxPoints
  BY ElementOfSeq, LenProperties DEF TypeOK, Entry

\* A call that is turned away leaves the queue alone.
LEMMA SignalMismatchInv == Inv /\ SignalMismatch => Inv'
  BY DEF SignalMismatch, Inv, TypeOK, QueueIsInOrder, QueueInv, WorkerInv,
         LifeInv, timeline, delivering

\* The worker is created before anything is queued.
LEMMA SignalPrepareInv == Inv /\ SignalPrepare => Inv'
  BY DEF SignalPrepare, Inv, TypeOK, QueueIsInOrder, QueueInv, WorkerInv,
         LifeInv, timeline

\* A call that gives up has queued nothing.
LEMMA SignalGiveUpInv == Inv /\ SignalGiveUp => Inv'
  BY DEF SignalGiveUp, Inv, TypeOK, QueueIsInOrder, QueueInv, WorkerInv, LifeInv,
         timeline, delivering

\* Waking the worker changes neither the queue nor what it runs.
LEMMA SignalReturnInv == Inv /\ SignalReturn => Inv'
  BY DEF SignalReturn, Inv, TypeOK, QueueIsInOrder, QueueInv, WorkerInv, LifeInv,
         timeline, Notified

\* ~Fence only sets stopping, with the mutex free.
LEMMA DestroyInv == Inv /\ Destroy => Inv'
  BY DEF Destroy, Inv, TypeOK, QueueIsInOrder, QueueInv, WorkerInv, LifeInv, timeline

\* Nor does ~Fence's notification.
LEMMA DestroyNotifyInv == Inv /\ DestroyNotify => Inv'
  BY DEF DestroyNotify, Inv, TypeOK, QueueIsInOrder, QueueInv, WorkerInv,
         LifeInv, timeline, Notified

\* ~Fence returns only when the worker is gone.
LEMMA DestroyJoinInv == Inv /\ DestroyJoin => Inv'
  BY DEF DestroyJoin, Inv, TypeOK, QueueIsInOrder, QueueInv, WorkerInv, LifeInv,
         timeline, delivering

\* The worker sleeps or ends with nothing taken.
LEMMA WorkerRestInv == Inv /\ WorkerRest => Inv'
  BY DEF WorkerRest, Inv, TypeOK, QueueIsInOrder, QueueInv, WorkerInv, LifeInv,
         timeline, calling

\* The worker waits for the oldest point with nothing taken.
LEMMA WorkerPollInv == Inv /\ WorkerPoll => Inv'
  BY DEF WorkerPoll, Inv, TypeOK, QueueIsInOrder, QueueInv, WorkerInv, LifeInv,
         timeline, calling

\* The end of that wait.
LEMMA WorkerPolledInv == Inv /\ WorkerPolled => Inv'
  BY DEF WorkerPolled, Inv, TypeOK, QueueIsInOrder, QueueInv, WorkerInv, LifeInv,
         timeline, calling

\* A callback that returned is older than those in the queue.
LEMMA WorkerReturnInv == Inv /\ WorkerReturn => Inv'
  <1> SUFFICES ASSUME Inv, WorkerReturn PROVE Inv'
    OBVIOUS
  <1>1. /\ UNCHANGED <<timeline, calling, stopping, pending>>
        /\ worker = "running" /\ worker' = "wait" /\ submitter # "reserved"
        /\ delivered' = running[1] /\ running' = NoEntry
    BY DEF WorkerReturn, MutexFree
  <1>2. running \in Entry
    BY <1>1 DEF Inv, TypeOK, WorkerInv
  <1>3. TypeOK'
    BY <1>1, <1>2 DEF Inv, TypeOK, timeline, calling, Call, Entry
  <1>4. QueueIsInOrder' /\ QueueInv'
    BY <1>1 DEF Inv, QueueIsInOrder, QueueInv, timeline, calling
  <1>5. WorkerInv'
    <2>1. \A i \in 1..Len(pending') : running'[1] < pending'[i][1] /\ delivered' < pending'[i][1]
      BY <1>1, <1>2, CallsAssumption, EntryParts DEF Inv, WorkerInv, NoEntry, Entry, Call
    <2> QED
      BY <1>1, <1>2, <2>1, CallsAssumption DEF Inv, WorkerInv, NoEntry, calling, timeline, Entry, Call, TypeOK
  <1>6. LifeInv'
    BY <1>1 DEF Inv, LifeInv, calling
  <1> QED
    BY <1>3, <1>4, <1>5, <1>6 DEF Inv

\* A failed query takes nothing from the queue.
LEMMA WorkerThrowsInv == Inv /\ WorkerThrows => Inv'
  BY DEF WorkerThrows, Inv, TypeOK, QueueIsInOrder, QueueInv, WorkerInv, LifeInv,
         timeline, calling

\* Delivery stops only with the mutex free, so never during a submission.
LEMMA WorkerCatchInv == Inv /\ WorkerCatch => Inv'
  BY DEF WorkerCatch, Inv, TypeOK, QueueIsInOrder, QueueInv, WorkerInv, LifeInv,
         timeline, calling, MutexFree

\* A new call is younger than everything queued.
LEMMA SignalEnterInv == \A cb \in BOOLEAN : Inv /\ SignalEnter(cb) => Inv'
  <1> SUFFICES ASSUME NEW cb \in BOOLEAN, Inv, SignalEnter(cb) PROVE Inv'
    OBVIOUS
  <1>1. /\ submitter = "idle" /\ submitter' = "entered"
        /\ call' = call + 1 /\ call' \in 0..MaxCalls
        /\ UNCHANGED <<timeline, delivery, delivering>>
    BY CallsAssumption DEF SignalEnter, Inv, TypeOK
  <1>2. hasCallback' \in BOOLEAN
    BY Zenon DEF SignalEnter
  <1>3. /\ Len(pending) \in Nat /\ running[1] \in Nat /\ call \in Nat
        /\ \A i \in 1..Len(pending) : pending[i][1] \in Nat /\ pending[i][2] \in Nat
    BY CallsAssumption, ElementOfSeq, LenProperties DEF Inv, TypeOK, Entry, NoEntry, Call
  <1>4. TypeOK'
    BY <1>1, <1>2 DEF Inv, TypeOK, timeline, delivering
  <1>5. QueueIsInOrder'
    BY <1>1, <1>3 DEF Inv, QueueIsInOrder, delivering
  <1>6. QueueInv'
    <2>1. ASSUME NEW i \in 1..Len(pending)
          PROVE pending[i][1] < call'
      BY <1>1, <1>3 DEF Inv, QueueInv
    <2>2. pending' = pending /\ accepted' = accepted
      BY <1>1 DEF timeline, delivering
    <2>3. ASSUME NEW i \in 1..Len(pending)
          PROVE pending[i][2] <= accepted /\ pending[i][1] <= call'
      BY <1>1, <1>3, <2>1 DEF Inv, QueueInv
    <2>4. \A i, j \in 1..Len(pending) : i < j => pending[i][1] < pending[j][1]
      BY DEF Inv, QueueInv
    <2>5. submitter' # "reserved"
      BY <1>1
    <2> QED
      BY <2>1, <2>2, <2>3, <2>4, <2>5 DEF QueueInv
  <1>7. WorkerInv'
    BY <1>1, <1>3 DEF Inv, TypeOK, WorkerInv, timeline, delivering
  <1>8. LifeInv'
    BY <1>1 DEF Inv, LifeInv, delivering
  <1> QED
    BY <1>4, <1>5, <1>6, <1>7, <1>8 DEF Inv

\* The backend's own steps only let the completed value grow.
LEMMA BackendInv == Inv /\ Backend => Inv'
  <1> SUFFICES ASSUME Inv, Backend PROVE Inv'
    OBVIOUS
  <1>1. /\ UNCHANGED <<accepted, calling, delivering>>
        /\ completed' \in 0..Lost /\ completed <= completed' /\ halted' \in BOOLEAN
    <2> USE PointsAssumption DEF Backend, Inv, TypeOK, Lost
    <2>1. CASE Finish
      BY <2>1 DEF Finish
    <2>2. CASE Lose
      BY <2>2 DEF Lose
    <2>3. CASE Halt
      BY <2>3 DEF Halt
    <2> QED
      BY <2>1, <2>2, <2>3
  <1> QED
    BY <1>1, PointsAssumption, CallsAssumption DEF Inv, TypeOK, QueueIsInOrder, QueueInv, WorkerInv, LifeInv, NoEntry, NoSignal, Lost, Call, Entry, calling, delivering

\* The worker takes the oldest entry, which is no reservation and is complete.
LEMMA WorkerTakeInv == Inv /\ WorkerTake => Inv'
  <1> SUFFICES ASSUME Inv, WorkerTake PROVE Inv'
    OBVIOUS
  <1> USE PointsAssumption, CallsAssumption DEF Inv, NoSignal, NoEntry
  <1>1. /\ Len(pending) \in Nat
        /\ \A i \in 1..Len(pending) :
             pending[i] \in Entry /\ pending[i][1] \in Nat /\ pending[i][2] \in Nat
    BY EntryParts DEF Call
  <1>2. /\ submitter # "reserved" /\ ~stopping /\ Len(pending) > 0
        /\ UNCHANGED <<timeline, calling, stopping, delivered>>
        /\ running' = pending[1] /\ worker = "wait" /\ worker' = "running"
        /\ pending[1][2] <= completed
    BY <1>1, EmptySeq, HeadTailProperties DEF WorkerTake, MutexFree, TypeOK
  <1>3. /\ pending' \in Seq(Entry) /\ Len(pending') = Len(pending) - 1
        /\ \A i \in 1..Len(pending') : pending'[i] = pending[i + 1] /\ i + 1 \in 1..Len(pending)
    BY <1>1, HeadTailProperties, LenProperties DEF WorkerTake, TypeOK
  <1>4. \A i \in 1..Len(pending) :
          pending[i][2] # 0 /\ \A j \in 1..(i - 1) : pending[j][2] < pending[i][2]
    BY <1>2 DEF QueueIsInOrder
  <1>5. \A i, j \in 1..Len(pending) : i < j => pending[i][1] < pending[j][1]
    BY DEF QueueInv
  <1>6. TypeOK'
    BY <1>1, <1>2, <1>3 DEF TypeOK, timeline, calling
  <1>7. QueueIsInOrder'
    <2>1. ASSUME NEW i \in 1..Len(pending')
          PROVE pending'[i][2] # 0 /\ \A j \in 1..(i - 1) : pending'[j][2] < pending'[i][2]
      <3>1. pending'[i][2] # 0
        BY <1>3, <1>4
      <3>2. ASSUME NEW j \in 1..(i - 1)
            PROVE pending'[j][2] < pending'[i][2]
        <4>1. i \in Nat /\ j \in 1..Len(pending') /\ j + 1 \in 1..((i + 1) - 1)
          BY <1>1, <1>3
        <4>2. /\ i + 1 \in 1..Len(pending)
              /\ pending'[i] = pending[i + 1] /\ pending'[j] = pending[j + 1]
          BY <1>3, <4>1
        <4> QED
          BY <4>1, <4>2, <1>4
      <3> QED
        BY <3>1, <3>2
    <2> QED
      BY <2>1 DEF QueueIsInOrder
  <1>8. QueueInv'
    <2>1. \A i \in 1..Len(pending') : pending'[i][2] <= accepted'
      BY <1>1, <1>2, <1>3 DEF QueueInv, timeline
    <2>2. ASSUME NEW i \in 1..Len(pending'), NEW j \in 1..Len(pending'), i < j
          PROVE pending'[i][1] < pending'[j][1]
      <3>1. /\ i + 1 \in 1..Len(pending) /\ j + 1 \in 1..Len(pending) /\ i + 1 < j + 1
            /\ pending'[i] = pending[i + 1] /\ pending'[j] = pending[j + 1]
        BY <1>1, <1>3, <2>2
      <3> QED
        BY <3>1, <1>5
    <2>3. ASSUME NEW i \in 1..Len(pending')
          PROVE /\ pending'[i][1] <= call
                /\ submitter \in {"entered", "prepared", "reserved"} => pending'[i][1] < call
      BY <1>1, <1>2, <1>3 DEF QueueInv
    <2> QED
      BY <1>2, <2>1, <2>2, <2>3 DEF QueueInv, calling
  <1>9. WorkerInv'
    <2>1. running'[1] > 0 /\ running' # NoEntry /\ running'[2] # 0 /\ running'[2] <= completed'
      BY <1>1, <1>2, <1>4, EntryParts DEF timeline, Call
    <2>2. \A i \in 1..Len(pending') : running'[1] < pending'[i][1] /\ delivered' < pending'[i][1]
      <3>1. ASSUME NEW i \in 1..Len(pending')
            PROVE running'[1] < pending'[i][1] /\ delivered' < pending'[i][1]
        <4>1. /\ 1 \in 1..Len(pending) /\ i + 1 \in 1..Len(pending) /\ 1 < i + 1
              /\ pending'[i] = pending[i + 1] /\ running' = pending[1] /\ delivered' = delivered
          BY <1>1, <1>2, <1>3
        <4> QED
          BY <4>1, <1>5 DEF WorkerInv
      <3> QED
        BY <3>1
    <2>3. delivered' < running'[1]
      BY <1>1, <1>2 DEF WorkerInv
    <2>4. /\ running'[1] <= call /\ delivered' <= call
          /\ submitter \in {"entered", "prepared", "reserved"} => running'[1] < call /\ delivered' < call
      BY <1>1, <1>2 DEF WorkerInv, QueueInv
    <2> QED
      BY <1>2, <2>1, <2>2, <2>3, <2>4 DEF WorkerInv, calling
  <1>10. LifeInv'
    <2>1. delivery
      BY <1>2, EmptySeq DEF LifeInv
    <2> QED
      BY <1>2, <2>1 DEF LifeInv, calling
  <1> QED
    BY <1>6, <1>7, <1>8, <1>9, <1>10

\* The reservation is the youngest entry, and the last.
LEMMA SignalReserveInv == Inv /\ SignalReserve => Inv'
  <1> SUFFICES ASSUME Inv, SignalReserve PROVE Inv'
    OBVIOUS
  <1> USE PointsAssumption, CallsAssumption DEF Inv, NoSignal, NoEntry
  <1>1. /\ Len(pending) \in Nat
        /\ \A i \in 1..Len(pending) :
             pending[i] \in Entry /\ pending[i][1] \in Nat /\ pending[i][2] \in Nat
    BY EntryParts DEF Call
  <1>2. /\ submitter = "prepared" /\ submitter' = "reserved" /\ ~stopping
        /\ UNCHANGED <<timeline, call, hasCallback, delivery, stopping, worker, running, delivered>>
    BY DEF SignalReserve
  <1>3. CASE ~hasCallback
    <2>1. pending' = pending
      BY <1>3 DEF SignalReserve
    <2>2. TypeOK'
      BY <1>2, <2>1 DEF TypeOK, timeline
    <2>3. QueueIsInOrder'
      BY <1>2, <2>1 DEF QueueIsInOrder
    <2>4. QueueInv'
      BY <1>2, <1>3, <2>1 DEF QueueInv, timeline
    <2>5. WorkerInv'
      BY <1>2, <2>1 DEF WorkerInv, timeline
    <2>6. LifeInv'
      BY <1>2, <1>3, <2>1 DEF LifeInv
    <2> QED
      BY <2>2, <2>3, <2>4, <2>5, <2>6
  <1>4. CASE hasCallback
    <2>0. call \in Call
      BY <1>2 DEF WorkerInv, TypeOK, Call
    <2>1. <<call, 0>> \in Entry
      BY <2>0 DEF Entry
    <2>2. /\ pending' \in Seq(Entry) /\ Len(pending') = Len(pending) + 1
          /\ \A i \in 1..Len(pending) : pending'[i] = pending[i]
          /\ pending'[Len(pending) + 1] = <<call, 0>>
      BY <1>1, <1>4, <2>1, AppendProperties DEF SignalReserve, TypeOK
    <2>3. TypeOK'
      BY <1>2, <2>2 DEF TypeOK, timeline
    <2>4. QueueIsInOrder'
      <3>1. ASSUME NEW i \in 1..Len(pending')
            PROVE \/ /\ pending'[i][2] # 0
                     /\ \A j \in 1..(i - 1) : pending'[j][2] < pending'[i][2]
                  \/ i = Len(pending') /\ pending'[i][1] = call
        <4>1. CASE i = Len(pending')
          BY <4>1, <1>1, <2>2
        <4>2. CASE i < Len(pending')
          <5>1. /\ i \in 1..Len(pending) /\ pending'[i] = pending[i]
                /\ \A j \in 1..(i - 1) : pending'[j] = pending[j]
            BY <4>2, <1>1, <2>2
          <5> QED
            BY <5>1, <1>2 DEF QueueIsInOrder
        <4> QED
          BY <1>1, <2>2, <4>1, <4>2
      <3> QED
        BY <1>2, <1>4, <3>1 DEF QueueIsInOrder
    <2>5. QueueInv'
      <3>1. ASSUME NEW i \in 1..Len(pending')
            PROVE /\ pending'[i][2] <= accepted' /\ pending'[i][1] <= call
                  /\ pending'[i][1] < call \/ i = Len(pending')
        <4>1. CASE i = Len(pending')
          BY <4>1, <1>1, <1>2, <2>2 DEF TypeOK, timeline
        <4>2. CASE i < Len(pending')
          <5>1. i \in 1..Len(pending) /\ pending'[i] = pending[i]
            BY <4>2, <1>1, <2>2
          <5> QED
            BY <5>1, <1>2 DEF QueueInv, timeline
        <4> QED
          BY <1>1, <2>2, <4>1, <4>2
      <3>2. ASSUME NEW i \in 1..Len(pending'), NEW j \in 1..Len(pending'), i < j
            PROVE pending'[i][1] < pending'[j][1]
        <4>1. i \in 1..Len(pending) /\ pending'[i] = pending[i]
          BY <1>1, <2>2, <3>2
        <4>2. CASE j = Len(pending')
          <5>1. pending[i][1] < call
            BY <4>1, <1>2 DEF QueueInv
          <5> QED
            BY <4>1, <4>2, <5>1, <1>1, <2>2
        <4>3. CASE j < Len(pending')
          <5>1. j \in 1..Len(pending) /\ pending'[j] = pending[j]
            BY <4>3, <1>1, <2>2
          <5> QED
            BY <4>1, <5>1, <3>2 DEF QueueInv
        <4> QED
          BY <1>1, <2>2, <4>2, <4>3
      <3>3. pending' # <<>> /\ pending'[Len(pending')] = <<call, 0>>
        BY <1>1, <2>2, EmptySeq
      <3> QED
        BY <1>2, <1>4, <3>1, <3>2, <3>3 DEF QueueInv
    <2>6. WorkerInv'
      BY <1>1, <1>2, <1>4, <2>2 DEF WorkerInv, timeline
    <2>7. LifeInv'
      BY <1>2, <1>4 DEF LifeInv
    <2> QED
      BY <2>3, <2>4, <2>5, <2>6, <2>7
  <1> QED
    BY <1>3, <1>4 DEF TypeOK

\* The accepted point is the largest in the queue.
LEMMA SignalCommitInv == Inv /\ SignalCommit => Inv'
  <1> SUFFICES ASSUME Inv, SignalCommit PROVE Inv'
    OBVIOUS
  <1> USE PointsAssumption, CallsAssumption DEF Inv, NoSignal, NoEntry
  <1>1. /\ Len(pending) \in Nat
        /\ \A i \in 1..Len(pending) :
             pending[i] \in Entry /\ pending[i][1] \in Nat /\ pending[i][2] \in Nat
    BY EntryParts DEF Call
  <1>2. /\ submitter = "reserved" /\ submitter' = "committed"
        /\ UNCHANGED <<completed, halted, call, hasCallback, delivery, stopping, worker, running, delivered>>
        /\ accepted' = accepted + 1 /\ accepted' \in 0..MaxPoints
    BY DEF SignalCommit, TypeOK, Submit
  <1>3. CASE ~hasCallback
    <2>1. pending' = pending
      BY <1>3 DEF SignalCommit
    <2>2. TypeOK'
      BY <1>2, <2>1 DEF TypeOK
    <2>3. QueueIsInOrder'
      BY <1>2, <1>3, <2>1 DEF QueueIsInOrder
    <2>4. QueueInv'
      <3>1. ASSUME NEW i \in 1..Len(pending)
            PROVE pending[i][2] <= accepted' /\ pending[i][1] <= call
        BY <1>1, <1>2 DEF QueueInv, TypeOK
      <3> QED
        BY <1>2, <1>3, <2>1, <3>1 DEF QueueInv
    <2>5. WorkerInv'
      BY <1>2, <2>1 DEF WorkerInv
    <2>6. LifeInv'
      BY <1>2, <1>3, <2>1 DEF LifeInv
    <2> QED
      BY <2>2, <2>3, <2>4, <2>5, <2>6
  <1>4. CASE hasCallback
    <2>1. pending # <<>> /\ Len(pending) > 0
      BY <1>1, <1>2, <1>4, EmptySeq DEF QueueInv, TypeOK
    <2>2. /\ Withdrawn \in Seq(Entry) /\ Len(Withdrawn) = Len(pending) - 1
          /\ \A i \in 1..(Len(pending) - 1) : Withdrawn[i] = pending[i]
      BY <2>1, WithdrawnKeeps DEF Withdrawn, TypeOK
    <2>3. call \in Call /\ <<call, accepted'>> \in Entry
      BY <1>2 DEF WorkerInv, TypeOK, Call, Entry
    <2>4. /\ pending' \in Seq(Entry) /\ Len(pending') = Len(pending)
          /\ \A i \in 1..(Len(pending) - 1) : pending'[i] = pending[i]
          /\ pending'[Len(pending)] = <<call, accepted'>>
      BY <1>1, <1>4, <2>1, <2>2, <2>3, AppendProperties DEF SignalCommit
    <2>5. \A i \in 1..(Len(pending) - 1) :
            pending[i][2] # 0 /\ \A j \in 1..(i - 1) : pending[j][2] < pending[i][2]
      BY <1>1 DEF QueueIsInOrder
    <2>6. TypeOK'
      BY <1>2, <2>4 DEF TypeOK
    <2>7. QueueIsInOrder'
      <3>1. ASSUME NEW i \in 1..Len(pending')
            PROVE pending'[i][2] # 0 /\ \A j \in 1..(i - 1) : pending'[j][2] < pending'[i][2]
        <4>1. CASE i < Len(pending)
          <5>1. i \in 1..(Len(pending) - 1) /\ pending'[i] = pending[i]
            BY <4>1, <1>1, <2>4
          <5>2. \A j \in 1..(i - 1) : pending'[j] = pending[j]
            BY <1>1, <2>4, <5>1
          <5> QED
            BY <2>5, <5>1, <5>2
        <4>2. CASE i = Len(pending)
          <5>1. pending'[i][2] = accepted + 1
            BY <4>2, <1>2, <2>4
          <5>2. \A j \in 1..(Len(pending) - 1) : pending'[j][2] <= accepted
            BY <1>1, <2>4 DEF QueueInv
          <5> QED
            BY <4>2, <1>1, <2>4, <5>1, <5>2 DEF TypeOK
        <4> QED
          BY <1>1, <2>4, <4>1, <4>2
      <3> QED
        BY <3>1 DEF QueueIsInOrder
    <2>8. QueueInv'
      <3>1. ASSUME NEW i \in 1..Len(pending')
            PROVE pending'[i][2] <= accepted' /\ pending'[i][1] <= call
        <4>1. CASE i = Len(pending)
          BY <4>1, <1>2, <2>4 DEF TypeOK
        <4>2. CASE i < Len(pending)
          <5>1. i \in 1..Len(pending) /\ pending'[i] = pending[i] /\ pending[i][2] \in Nat
            BY <4>2, <1>1, <2>4
          <5>2. pending[i][2] <= accepted /\ pending[i][1] <= call
            BY <5>1 DEF QueueInv
          <5> QED
            BY <5>1, <5>2, <1>2 DEF TypeOK
        <4> QED
          BY <1>1, <2>4, <4>1, <4>2
      <3>2. ASSUME NEW i \in 1..Len(pending'), NEW j \in 1..Len(pending'), i < j
            PROVE pending'[i][1] < pending'[j][1]
        <4>1. CASE j = Len(pending)
          <5>1. pending'[j][1] = call /\ pending'[i] = pending[i] /\ i < Len(pending)
            BY <4>1, <1>1, <2>4, <3>2
          <5>2. pending[i][1] < call
            BY <5>1, <1>1, <1>2, <2>4 DEF QueueInv
          <5> QED
            BY <5>1, <5>2
        <4>2. CASE j < Len(pending)
          <5>1. /\ i \in 1..Len(pending) /\ j \in 1..Len(pending)
                /\ pending'[i] = pending[i] /\ pending'[j] = pending[j]
            BY <4>2, <1>1, <2>4, <3>2
          <5> QED
            BY <5>1, <3>2 DEF QueueInv
        <4> QED
          BY <1>1, <2>4, <4>1, <4>2
      <3> QED
        BY <1>2, <3>1, <3>2 DEF QueueInv
    <2>9. WorkerInv'
      BY <1>1, <1>2, <2>1, <2>4 DEF WorkerInv
    <2>10. LifeInv'
      BY <1>2, <1>4 DEF LifeInv
    <2> QED
      BY <2>6, <2>7, <2>8, <2>9, <2>10
  <1> QED
    BY <1>3, <1>4 DEF TypeOK

\* Undoing the reservation leaves the entries before it as they were.
LEMMA SignalWithdrawInv == Inv /\ SignalWithdraw => Inv'
  <1> SUFFICES ASSUME Inv, SignalWithdraw PROVE Inv'
    OBVIOUS
  <1> USE PointsAssumption, CallsAssumption DEF Inv, NoSignal, NoEntry
  <1>1. /\ Len(pending) \in Nat
        /\ \A i \in 1..Len(pending) :
             pending[i] \in Entry /\ pending[i][1] \in Nat /\ pending[i][2] \in Nat
    BY EntryParts DEF Call
  <1>2. /\ submitter = "reserved" /\ submitter' = "idle"
        /\ UNCHANGED <<completed, halted, call, hasCallback, delivery, stopping, worker, running, delivered>>
        /\ accepted' = accepted /\ accepted' \in 0..MaxPoints
    BY DEF SignalWithdraw, TypeOK, timeline
  <1>3. CASE ~hasCallback
    <2>1. pending' = pending
      BY <1>3 DEF SignalWithdraw
    <2>2. TypeOK'
      BY <1>2, <2>1 DEF TypeOK
    <2>3. QueueIsInOrder'
      BY <1>2, <1>3, <2>1 DEF QueueIsInOrder
    <2>4. QueueInv'
      <3>1. ASSUME NEW i \in 1..Len(pending)
            PROVE pending[i][2] <= accepted' /\ pending[i][1] <= call
        BY <1>1, <1>2 DEF QueueInv, TypeOK
      <3> QED
        BY <1>2, <1>3, <2>1, <3>1 DEF QueueInv
    <2>5. WorkerInv'
      BY <1>2, <2>1 DEF WorkerInv
    <2>6. LifeInv'
      BY <1>2, <1>3, <2>1 DEF LifeInv
    <2> QED
      BY <2>2, <2>3, <2>4, <2>5, <2>6
  <1>4. CASE hasCallback
    <2>1. pending # <<>> /\ Len(pending) > 0
      BY <1>1, <1>2, <1>4, EmptySeq DEF QueueInv, TypeOK
    <2>2. /\ Withdrawn \in Seq(Entry) /\ Len(Withdrawn) = Len(pending) - 1
          /\ \A i \in 1..(Len(pending) - 1) : Withdrawn[i] = pending[i]
      BY <2>1, WithdrawnKeeps DEF Withdrawn, TypeOK
    <2>4. /\ pending' \in Seq(Entry) /\ Len(pending') = Len(pending) - 1
          /\ \A i \in 1..(Len(pending) - 1) : pending'[i] = pending[i]
      BY <1>4, <2>2 DEF SignalWithdraw
    <2>5. \A i \in 1..(Len(pending) - 1) :
            pending[i][2] # 0 /\ \A j \in 1..(i - 1) : pending[j][2] < pending[i][2]
      BY <1>1 DEF QueueIsInOrder
    <2>6. TypeOK'
      BY <1>2, <2>4 DEF TypeOK
    <2>7. QueueIsInOrder'
      <3>1. ASSUME NEW i \in 1..Len(pending')
            PROVE pending'[i][2] # 0 /\ \A j \in 1..(i - 1) : pending'[j][2] < pending'[i][2]
        BY <1>1, <2>1, <2>4, <2>5
      <3> QED
        BY <3>1 DEF QueueIsInOrder
    <2>8. QueueInv'
      <3>1. ASSUME NEW i \in 1..Len(pending')
            PROVE pending'[i][2] <= accepted' /\ pending'[i][1] <= call
        BY <1>1, <1>2, <2>1, <2>4 DEF QueueInv
      <3>2. ASSUME NEW i \in 1..Len(pending'), NEW j \in 1..Len(pending'), i < j
            PROVE pending'[i][1] < pending'[j][1]
        BY <1>1, <2>1, <2>4, <3>2 DEF QueueInv
      <3> QED
        BY <1>2, <3>1, <3>2 DEF QueueInv
    <2>9. WorkerInv'
      BY <1>1, <1>2, <2>1, <2>4 DEF WorkerInv
    <2>10. LifeInv'
      BY <1>2, <1>4 DEF LifeInv
    <2> QED
      BY <2>6, <2>7, <2>8, <2>9, <2>10
  <1> QED
    BY <1>3, <1>4 DEF TypeOK

\* Every step keeps the invariant.
LEMMA StepInv == Inv /\ [Next]_vars => Inv'
  <1> SUFFICES ASSUME Inv, [Next]_vars PROVE Inv'
    OBVIOUS
  <1>1. CASE UNCHANGED vars
    BY <1>1 DEF vars, timeline, calling, delivering, Inv, TypeOK, QueueIsInOrder, QueueInv, WorkerInv, LifeInv
  <1>2. CASE \E cb \in BOOLEAN : SignalEnter(cb)
    BY <1>2, SignalEnterInv
  <1>3. CASE Destroy
    BY <1>3, DestroyInv
  <1>4. CASE Submitter
    BY <1>4, SignalMismatchInv, SignalPrepareInv, SignalGiveUpInv, SignalReserveInv, SignalCommitInv,
       SignalWithdrawInv, SignalReturnInv, DestroyNotifyInv, DestroyJoinInv DEF Submitter
  <1>5. CASE Worker
    BY <1>5, WorkerRestInv, WorkerPollInv, WorkerPolledInv, WorkerTakeInv, WorkerReturnInv,
       WorkerThrowsInv, WorkerCatchInv DEF Worker
  <1>6. CASE Backend
    BY <1>6, BackendInv
  <1> QED
    BY <1>1, <1>2, <1>3, <1>4, <1>5, <1>6 DEF Next

\* The invariant holds always.
LEMMA InvHolds == Spec => []Inv
  BY InitInv, StepInv, PTL DEF Spec

\* The variables keep their types: the numbers of calls and points stay within
\* their bounds, and what the queue holds is an entry.
THEOREM TypeCorrect == Spec => []TypeOK
  <1>1. Inv => TypeOK
    BY DEF Inv
  <1> QED
    BY <1>1, InvHolds, PTL

\* No callback begins before its point is accepted and passed, although the
\* entry is queued before the point is known.
THEOREM CompletedPointsCorrect == Spec => []OnlyCompletedPointsRun
  <1>1. Inv => OnlyCompletedPointsRun
    BY DEF Inv, WorkerInv, OnlyCompletedPointsRun
  <1> QED
    BY <1>1, InvHolds, PTL

\* The front of the queue is its oldest point, however submissions fail.
THEOREM QueueOrderCorrect == Spec => []QueueIsInOrder
  <1>1. Inv => QueueIsInOrder
    BY DEF Inv
  <1> QED
    BY <1>1, InvHolds, PTL

\* When ~Fence has returned, the worker runs nothing and touches nothing.
THEOREM DestructionCorrect == Spec => []QuietAfterDestruction
  <1>1. Inv => QuietAfterDestruction
    BY DEF Inv, TypeOK, LifeInv, WorkerInv, QuietAfterDestruction
  <1> QED
    BY <1>1, InvHolds, PTL

-----------------------------------------------------------------------------
(***************************************************************************)
(* The refinement.  The abstract queue is the queue without a reservation,  *)
(* seen as the calls that made the entries.                                 *)
(***************************************************************************)

\* The calls of a queue, one for each entry.
LEMMA CallsOfQueue ==
  ASSUME NEW q \in Seq(Entry)
  PROVE /\ Calls(q) \in Seq(Call) /\ Len(Calls(q)) = Len(q)
        /\ \A i \in 1..Len(q) : Calls(q)[i] = q[i][1]
  <1>1. Len(q) \in Nat /\ \A i \in 1..Len(q) : q[i][1] \in Call
    BY ElementOfSeq, LenProperties DEF Entry
  <1>2. Calls(q) \in [1..Len(q) -> Call]
    BY <1>1 DEF Calls
  <1>3. Calls(q) \in Seq(Call)
    BY <1>1, <1>2
  <1>4. Len(Calls(q)) = Len(q)
    BY <1>1, <1>2, <1>3, LenProperties
  <1> QED
    BY <1>3, <1>4 DEF Calls

\* An entry more is a call more.
LEMMA CallsOfAppend ==
  ASSUME NEW q \in Seq(Entry), NEW e \in Entry
  PROVE Calls(Append(q, e)) = Append(Calls(q), e[1])
  <1>1. /\ Append(q, e) \in Seq(Entry) /\ Len(Append(q, e)) = Len(q) + 1
        /\ \A i \in 1..Len(q) : Append(q, e)[i] = q[i]
        /\ Append(q, e)[Len(q) + 1] = e
    BY AppendProperties
  <1>2. e[1] \in Call /\ Len(q) \in Nat
    BY LenProperties DEF Entry
  <1>3. /\ Append(Calls(q), e[1]) \in Seq(Call) /\ Len(Append(Calls(q), e[1])) = Len(q) + 1
        /\ \A i \in 1..Len(q) : Append(Calls(q), e[1])[i] = q[i][1]
        /\ Append(Calls(q), e[1])[Len(q) + 1] = e[1]
    BY <1>2, CallsOfQueue, AppendProperties
  <1>4. /\ Calls(Append(q, e)) \in Seq(Call) /\ Len(Calls(Append(q, e))) = Len(q) + 1
        /\ \A i \in 1..(Len(q) + 1) : Calls(Append(q, e))[i] = Append(q, e)[i][1]
    BY <1>1, CallsOfQueue
  <1>5. ASSUME NEW i \in 1..(Len(q) + 1)
        PROVE Calls(Append(q, e))[i] = Append(Calls(q), e[1])[i]
    <2>1. CASE i \in 1..Len(q)
      BY <2>1, <1>1, <1>3, <1>4
    <2>2. CASE i = Len(q) + 1
      BY <2>2, <1>1, <1>3, <1>4
    <2>3. i \in 1..Len(q) \/ i = Len(q) + 1
      BY <1>2
    <2> QED
      BY <2>1, <2>2, <2>3
  <1> QED
    BY <1>3, <1>4, <1>5, SeqEqual

\* An entry less is a call less.
LEMMA CallsOfTail ==
  ASSUME NEW q \in Seq(Entry), q # <<>>
  PROVE /\ Calls(q) # <<>> /\ Head(Calls(q)) = q[1][1]
        /\ Calls(Tail(q)) = Tail(Calls(q))
  <1>1. Len(q) \in Nat \ {0}
    BY EmptySeq, LenProperties
  <1>2. Calls(q) \in Seq(Call) /\ Calls(q) # <<>> /\ Head(Calls(q)) = q[1][1]
    BY <1>1, CallsOfQueue, EmptySeq
  <1>3. /\ Tail(q) \in Seq(Entry) /\ Len(Tail(q)) = Len(q) - 1
        /\ \A i \in 1..(Len(q) - 1) : Tail(q)[i] = q[i + 1]
    BY HeadTailProperties
  <1>4. /\ Tail(Calls(q)) \in Seq(Call) /\ Len(Tail(Calls(q))) = Len(q) - 1
        /\ \A i \in 1..(Len(q) - 1) : Tail(Calls(q))[i] = Calls(q)[i + 1]
    BY <1>2, CallsOfQueue, HeadTailProperties
  <1>5. /\ Calls(Tail(q)) \in Seq(Call) /\ Len(Calls(Tail(q))) = Len(q) - 1
        /\ \A i \in 1..(Len(q) - 1) : Calls(Tail(q))[i] = Tail(q)[i][1]
    BY <1>3, CallsOfQueue
  <1>6. ASSUME NEW i \in 1..(Len(q) - 1)
        PROVE Calls(Tail(q))[i] = Tail(Calls(q))[i]
    <2>1. i + 1 \in 1..Len(q)
      BY <1>1
    <2> QED
      BY <2>1, <1>3, <1>4, <1>5, CallsOfQueue
  <1>7. Calls(Tail(q)) = Tail(Calls(q))
    BY <1>4, <1>5, <1>6, SeqEqual
  <1> QED
    BY <1>2, <1>7

\* Dropping what was just appended gives the queue back.
LEMMA WithdrawnAppend ==
  ASSUME NEW S, NEW q \in Seq(S), NEW e \in S
  PROVE SubSeq(Append(q, e), 1, Len(Append(q, e)) - 1) = q
  <1> DEFINE a == Append(q, e)
  <1>1. /\ a \in Seq(S) /\ Len(a) = Len(q) + 1 /\ Len(q) \in Nat
        /\ \A i \in 1..Len(q) : a[i] = q[i]
    BY AppendProperties, LenProperties
  <1> HIDE DEF a
  <1>2. a # <<>>
    BY <1>1, EmptySeq
  <1>3. /\ SubSeq(a, 1, Len(a) - 1) \in Seq(S) /\ Len(SubSeq(a, 1, Len(a) - 1)) = Len(a) - 1
        /\ \A i \in 1..(Len(a) - 1) : SubSeq(a, 1, Len(a) - 1)[i] = a[i]
    BY <1>1, <1>2, WithdrawnKeeps
  <1>4. Len(a) - 1 = Len(q)
    BY <1>1
  <1>5. SubSeq(a, 1, Len(a) - 1) = q
    BY <1>1, <1>3, <1>4, SeqEqual
  <1> QED
    BY <1>5 DEF a

\* A new fence has promised nothing.
LEMMA InitPromise == Init => Promise!PromiseInit
  <1> SUFFICES ASSUME Init PROVE Promise!PromiseInit
    OBVIOUS
  <1>1. Committed = <<>>
    BY DEF Init, Committed
  <1>2. Calls(<<>>) = <<>>
    BY EmptySeq, CallsOfQueue
  <1> QED
    BY <1>1, <1>2 DEF Init, Promise!PromiseInit, NoEntry

\* A step outside the reservation that leaves the queue and the callbacks alone.
LEMMA QuietStep ==
  ASSUME submitter # "reserved", submitter' # "reserved",
         UNCHANGED <<pending, running, delivered, stopping>>
  PROVE UNCHANGED Promise!promise
  BY DEF Committed, Promise!promise

\* Every step of the code is a step of the promise, or leaves it as it is.
LEMMA PromiseStep == Inv /\ [Next]_vars => [Promise!PromiseNext]_Promise!promise
  <1> SUFFICES ASSUME Inv, [Next]_vars PROVE [Promise!PromiseNext]_Promise!promise
    OBVIOUS
  <1>1. CASE UNCHANGED vars
    <2>1. UNCHANGED <<submitter, hasCallback, pending, running, delivered, stopping>>
      BY <1>1 DEF vars, calling, delivering
    <2>2. Committed' = Committed
      BY <2>1 DEF Committed, Withdrawn
    <2> QED
      BY <2>1, <2>2 DEF Promise!promise
  <1>2. CASE \E cb \in BOOLEAN : SignalEnter(cb)
    BY <1>2, QuietStep DEF SignalEnter, delivering
  <1>3. CASE Destroy
    BY <1>3 DEF Destroy, Committed, Promise!promise, Promise!PromiseNext, Promise!Cancel, Inv, TypeOK
  <1>4. CASE SignalMismatch
    BY <1>4, QuietStep DEF SignalMismatch, MutexFree, timeline, calling, delivering
  <1>5. CASE SignalPrepare
    BY <1>5, QuietStep DEF SignalPrepare, MutexFree, timeline, calling, delivering
  <1>6. CASE SignalGiveUp
    BY <1>6, QuietStep DEF SignalGiveUp, MutexFree, timeline, calling, delivering
  <1>7. CASE SignalReturn
    BY <1>7, QuietStep DEF SignalReturn, MutexFree, timeline, calling, delivering
  <1>8. CASE DestroyNotify
    BY <1>8, QuietStep DEF DestroyNotify, MutexFree, timeline, calling, delivering
  <1>9. CASE DestroyJoin
    BY <1>9, QuietStep DEF DestroyJoin, MutexFree, timeline, calling, delivering
  <1>10. CASE WorkerRest
    BY <1>10, QuietStep DEF WorkerRest, MutexFree, timeline, calling, delivering
  <1>11. CASE WorkerPoll
    BY <1>11, QuietStep DEF WorkerPoll, MutexFree, timeline, calling, delivering
  <1>12. CASE WorkerPolled
    BY <1>12, QuietStep DEF WorkerPolled, MutexFree, timeline, calling, delivering
  <1>13. CASE WorkerThrows
    BY <1>13, QuietStep DEF WorkerThrows, MutexFree, timeline, calling, delivering
  <1>14. CASE Backend
    <2>1. UNCHANGED <<submitter, hasCallback, pending, running, delivered, stopping>>
      BY <1>14 DEF Backend, calling, delivering
    <2>2. Committed' = Committed
      BY <2>1 DEF Committed, Withdrawn
    <2> QED
      BY <2>1, <2>2 DEF Promise!promise
  <1>15. CASE WorkerCatch
    BY <1>15 DEF WorkerCatch, MutexFree, calling, Committed, Promise!PromiseNext, Promise!Cancel
  <1>16. CASE SignalReserve
    <2>1. UNCHANGED <<running, delivered, stopping>> /\ Committed = pending
      BY <1>16 DEF SignalReserve, Committed
    <2>2. CASE ~hasCallback
      BY <1>16, <2>1, <2>2 DEF SignalReserve, Committed, Promise!promise
    <2>3. CASE hasCallback
      <3>1. pending \in Seq(Entry) /\ <<call, NoSignal>> \in Entry
        <4>1. call \in Call /\ NoSignal \in 0..MaxPoints
          BY <1>16, PointsAssumption, CallsAssumption
             DEF SignalReserve, Inv, TypeOK, WorkerInv, Call, NoSignal, NoEntry, Entry
        <4> QED
          BY <4>1 DEF Inv, TypeOK, Entry
      <3>2. Withdrawn' = pending
        BY <1>16, <2>3, <3>1, WithdrawnAppend DEF SignalReserve, Withdrawn
      <3>3. Committed' = pending
        BY <1>16, <2>3, <3>2 DEF SignalReserve, Committed
      <3> QED
        BY <2>1, <3>3 DEF Promise!promise
    <2> QED
      BY <2>2, <2>3
  <1>17. CASE SignalCommit
    <2>1. /\ submitter = "reserved" /\ submitter' = "committed" /\ ~stopping
          /\ UNCHANGED <<call, hasCallback, stopping, running, delivered>>
          /\ accepted' = accepted + 1 /\ accepted' \in 0..MaxPoints
      BY <1>17, PointsAssumption DEF SignalCommit, Submit, Inv, TypeOK, LifeInv
    <2>2. CASE ~hasCallback
      BY <1>17, <2>1, <2>2 DEF SignalCommit, Committed, Promise!promise
    <2>3. CASE hasCallback
      <3>1. /\ pending # <<>> /\ Len(pending) \in Nat \ {0}
            /\ Withdrawn \in Seq(Entry) /\ Len(Withdrawn) = Len(pending) - 1
            /\ \A i \in 1..(Len(pending) - 1) : Withdrawn[i] = pending[i]
        BY <2>1, <2>3, WithdrawnKeeps, EmptySeq, LenProperties DEF Inv, TypeOK, QueueInv, Withdrawn
      <3>2. /\ call \in 1..MaxCalls /\ running[1] < call /\ delivered < call
        BY <2>1, CallsAssumption DEF Inv, TypeOK, WorkerInv
      <3>3. <<call, accepted'>> \in Entry
        BY <2>1, <3>2 DEF Entry, Call
      <3>4. Committed = Withdrawn /\ Committed' = Append(Withdrawn, <<call, accepted'>>)
        BY <1>17, <2>1, <2>3 DEF SignalCommit, Committed
      <3>5. Calls(Committed)' = Append(Calls(Committed), call)
        BY <3>1, <3>3, <3>4, CallsOfAppend
      <3>6. ASSUME NEW i \in 1..Len(Calls(Committed))
            PROVE Calls(Committed)[i] < call
        <4>1. i \in 1..(Len(pending) - 1) /\ Calls(Committed)[i] = pending[i][1]
          BY <3>1, <3>4, CallsOfQueue
        <4> QED
          BY <4>1, <3>1, <2>1 DEF Inv, QueueInv
      <3>7. Promise!Accept(call)
        BY <2>1, <3>2, <3>5, <3>6 DEF Promise!Accept
      <3> QED
        BY <3>2, <3>7 DEF Promise!PromiseNext
    <2> QED
      BY <2>2, <2>3
  <1>18. CASE SignalWithdraw
    <2>1. Committed' = Committed
      BY <1>18 DEF SignalWithdraw, Committed
    <2> QED
      BY <1>18, <2>1 DEF SignalWithdraw, Promise!promise
  <1>19. CASE WorkerTake
    <2>1. /\ worker = "wait" /\ submitter # "reserved" /\ submitter' # "reserved" /\ ~stopping
          /\ pending # <<>> /\ pending \in Seq(Entry)
          /\ UNCHANGED <<stopping, delivered>>
          /\ running' = Head(pending) /\ pending' = Tail(pending)
      BY <1>19 DEF WorkerTake, MutexFree, calling, Inv, TypeOK
    <2>2. running[1] = 0
      BY <2>1 DEF Inv, WorkerInv, NoEntry
    <2>3. Committed = pending /\ Committed' = Tail(pending)
      BY <2>1 DEF Committed
    <2>4. /\ Calls(Committed) # <<>> /\ running'[1] = Head(Calls(Committed))
          /\ Calls(Committed)' = Tail(Calls(Committed))
      BY <2>1, <2>3, CallsOfTail
    <2>5. Promise!Begin
      BY <2>1, <2>2, <2>4 DEF Promise!Begin
    <2> QED
      BY <2>5 DEF Promise!PromiseNext
  <1>20. CASE WorkerReturn
    <2>1. Committed' = Committed /\ stopping' = stopping
      BY <1>20 DEF WorkerReturn, MutexFree, calling, Committed
    <2>2. running[1] # 0 /\ delivered' = running[1] /\ running'[1] = 0
      BY <1>20 DEF WorkerReturn, Inv, TypeOK, WorkerInv, NoEntry, Entry, Call
    <2>3. Promise!Return
      BY <2>1, <2>2 DEF Promise!Return
    <2> QED
      BY <2>3 DEF Promise!PromiseNext
  <1> QED
    BY <1>1, <1>2, <1>3, <1>4, <1>5, <1>6, <1>7, <1>8, <1>9, <1>10, <1>11, <1>12,
       <1>13, <1>14, <1>15, <1>16, <1>17, <1>18, <1>19, <1>20 DEF Next, Submitter, Worker

\* FenceDelivery implements what QueueSignal promises: callbacks run one at a
\* time, in the order of their calls and at most once each, none of a rejected
\* submission, and none begins or is accepted once delivery is cancelled.
THEOREM DeliveryKeepsThePromise == Spec => KeepsThePromise
  BY InitPromise, PromiseStep, InvHolds, PTL DEF Spec, KeepsThePromise, Promise!PromiseSpec

=============================================================================
