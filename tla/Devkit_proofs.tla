--------------------------- MODULE Devkit_proofs ---------------------------
(***************************************************************************)
(* The dev kit.  No answer lies about what was done, for any number of      *)
(* devices, callers and requests, and however the devices move in their     *)
(* list.  The indexes a snapshot keeps name the draws they are meant for,   *)
(* for any number of command lists, shaders, draws and submissions, and     *)
(* whatever arrangement the sort ends with.                                *)
(***************************************************************************)
EXTENDS DevkitRequests, SnapshotCapture, SequenceTheorems, TLAPS

(* The requests: DevkitRequests. *)
Kinds == {"analysis", "live"}

\* A request lies in deques of the device it was put to, and nowhere before that.
InPlace(s, d) ==
  \A i \in DOMAIN s : addressee[s[i]] = d /\ call[s[i]] \notin {"idle", "resolved", "unavailable"}

Placed ==
  /\ \A d \in Devices : InPlace(taken[d], d) /\ \A k \in Kinds : InPlace(queue[k][d], d)
  /\ \A d \in Devices : running[d] # None =>
       running[d] \in started /\ addressee[running[d]] = d /\ taken[d] # <<>>
  /\ \A d \in Devices : present[d] = "out" => taken[d] = <<>>

\* What the flags say of a request and of its caller.
Flagged ==
  \A r \in Requests :
    /\ r \in started => /\ r \notin canceled
                        /\ call[r] \notin {"idle", "resolved", "unavailable"}
                        /\ served[r] = <<addressee[r]>>
                        /\ r \notin completed => running[addressee[r]] = r
                        /\ addressee[r] \in Devices
    /\ r \notin started => served[r] = <<>>
    /\ r \in canceled <=> call[r] \in {"canceling", "timed out"}
    /\ r \in completed => r \in started \cup canceled
    /\ call[r] = "answered" => r \in started

Inv == TypeOK /\ Placed /\ Flagged

-----------------------------------------------------------------------------
\* What is left of a list when something is taken out of it was in it before.
LEMMA WithoutType ==
  ASSUME NEW S, NEW s \in Seq(S), NEW e
  PROVE  /\ Without(s, e) \in Seq(S)
         /\ \A i \in DOMAIN Without(s, e) : \E j \in DOMAIN s : Without(s, e)[i] = s[j]
<1>1. CASE e \notin Range(s)
  BY <1>1 DEF Without
<1>2. CASE e \in Range(s)
  <2> DEFINE p == CHOOSE i \in DOMAIN s : s[i] = e
  <2>1. p \in 1..Len(s)
    BY <1>2 DEF Range
  <2>2. Without(s, e) = SubSeq(s, 1, p - 1) \o SubSeq(s, p + 1, Len(s))
    BY <1>2 DEF Without, RemoveAt
  <2> HIDE DEF p
  <2> DEFINE A == SubSeq(s, 1, p - 1)
             B == SubSeq(s, p + 1, Len(s))
  <2>3. A \in Seq(S) /\ Len(A) = p - 1 /\ \A i \in 1..(p - 1) : A[i] = s[i]
    BY <2>1
  <2>4. B \in Seq(S) /\ Len(B) = Len(s) - p /\ \A i \in 1..(Len(s) - p) : B[i] = s[i + p]
    BY <2>1
  <2>5. Without(s, e) = A \o B
    BY <2>2
  <2> HIDE DEF A, B
  <2>6. /\ A \o B \in Seq(S) /\ Len(A \o B) = Len(s) - 1
        /\ DOMAIN (A \o B) = 1..(Len(s) - 1) /\ Len(s) \in Nat
    <3>1. A \o B \in Seq(S) /\ Len(A \o B) = Len(A) + Len(B)
      BY <2>3, <2>4, ConcatProperties
    <3>2. Len(A) + Len(B) = Len(s) - 1 /\ Len(s) \in Nat
      BY <2>1, <2>3, <2>4
    <3> QED
      BY <3>1, <3>2
  <2>7. ASSUME NEW i \in 1..(Len(s) - 1)
        PROVE  (A \o B)[i] = s[IF i < p THEN i ELSE i + 1]
    <3>1. CASE i < p
      BY <2>1, <2>3, <2>4, <2>6, <3>1, ConcatProperties
    <3>2. CASE i >= p
      <4> DEFINE j == i - (p - 1)
      <4>1. j \in 1..(Len(s) - p) /\ j + p = i + 1 /\ i > p - 1 /\ i <= (p - 1) + (Len(s) - p)
        BY <2>1, <2>6, <3>2
      <4>2. (A \o B)[i] = B[j]
        <5>1. /\ i \in 1..(Len(A) + Len(B)) /\ ~(i <= Len(A)) /\ i - Len(A) = j
              /\ A \in Seq(S) /\ B \in Seq(S)
          BY <2>1, <2>3, <2>4, <2>6, <4>1
        <5> HIDE DEF j
        <5> QED
          BY <5>1, ConcatProperties
      <4>3. B[j] = s[j + p]
        BY <2>4, <4>1
      <4> QED
        BY <2>1, <3>2, <4>1, <4>2, <4>3
    <3> QED
      BY <2>1, <2>6, <3>1, <3>2
  <2>8. ASSUME NEW i \in DOMAIN (A \o B) PROVE \E j \in DOMAIN s : (A \o B)[i] = s[j]
    <3>1. i \in 1..(Len(s) - 1)
      BY <2>6
    <3>2. (IF i < p THEN i ELSE i + 1) \in DOMAIN s
      BY <2>1, <3>1
    <3> QED
      BY <2>7, <3>1, <3>2
  <2> QED
    BY <2>5, <2>6, <2>8
<1> QED
  BY <1>1, <1>2

LEMMA InitInv == Init => Inv
BY RequestsAssumption DEF Init, Inv, TypeOK, Placed, InPlace, Flagged, Kinds

-----------------------------------------------------------------------------
LEMMA Position ==
  ASSUME NEW n \in Nat, NEW i \in 1..n
  PROVE  i \in Nat \ {0}
OBVIOUS

LEMMA Resolved ==
  ASSUME list \in Seq(Devices), index \in [Requests -> Nat \ {0}], NEW r \in Requests,
         ~(index[r] > Len(list))
  PROVE  list[index[r]] \in Devices
<1>1. index[r] \in 1..Len(list)
  <2>1. index[r] \in Nat \ {0} /\ Len(list) \in Nat
    OBVIOUS
  <2> QED
    BY <2>1
<1> QED
  BY <1>1

\* What a request may do to one deque.
LEMMA QueueUpdate ==
  ASSUME queue \in [Kinds -> [Devices -> Seq(Requests)]],
         NEW k \in Kinds, NEW d \in Devices, NEW s \in Seq(Requests),
         queue' = [queue EXCEPT ![k][d] = s]
  PROVE  /\ queue' \in [Kinds -> [Devices -> Seq(Requests)]]
         /\ queue'[k][d] = s
         /\ \A l \in Kinds, e \in Devices : l # k \/ e # d => queue'[l][e] = queue[l][e]
OBVIOUS

\* The request a present looks at, and those that are left.
LEMMA Served ==
  ASSUME taken \in [Devices -> Seq(Requests)], NEW d \in Devices, taken[d] # <<>>
  PROVE  /\ 1 \in DOMAIN taken[d] /\ Head(taken[d]) = taken[d][1] /\ Head(taken[d]) \in Requests
         /\ Tail(taken[d]) \in Seq(Requests)
         /\ \A i \in DOMAIN Tail(taken[d]) :
              i + 1 \in DOMAIN taken[d] /\ Tail(taken[d])[i] = taken[d][i + 1]
<1> DEFINE s == taken[d]
<1>1. s \in Seq(Requests) /\ s # <<>>
  OBVIOUS
<1> HIDE DEF s
<1>2. /\ 1 \in DOMAIN s /\ Head(s) = s[1] /\ Head(s) \in Requests
      /\ Tail(s) \in Seq(Requests)
      /\ \A i \in DOMAIN Tail(s) : i + 1 \in DOMAIN s /\ Tail(s)[i] = s[i + 1]
  BY <1>1
<1> QED
  BY <1>2 DEF s

\* The destruction of a device empties its deques.
LEMMA Emptied ==
  ASSUME queue \in [Kinds -> [Devices -> Seq(Requests)]], NEW d \in Devices,
         queue' = [k \in DOMAIN queue |-> [queue[k] EXCEPT ![d] = <<>>]]
  PROVE  /\ queue' \in [Kinds -> [Devices -> Seq(Requests)]]
         /\ \A k \in Kinds, e \in Devices :
              queue'[k][e] = IF e = d THEN <<>> ELSE queue[k][e]
<1>1. <<>> \in Seq(Requests)
  OBVIOUS
<1> QED
  BY <1>1

LEMMA EnqueueQueues ==
  ASSUME TypeOK, NEW r \in Requests, Enqueue(r), ~(index[r] > Len(list))
  PROVE  /\ queue' \in [Kinds -> [Devices -> Seq(Requests)]]
         /\ \A k \in Kinds, d \in Devices :
              \A i \in DOMAIN queue'[k][d] :
                \/ i \in DOMAIN queue[k][d] /\ queue'[k][d][i] = queue[k][d][i]
                \/ d = list[index[r]] /\ queue'[k][d][i] = r
<1>1. /\ list \in Seq(Devices) /\ index \in [Requests -> Nat \ {0}]
      /\ queue \in [Kinds -> [Devices -> Seq(Requests)]]
  BY DEF TypeOK, Kinds
<1> DEFINE d == list[index[r]]
           longer == Append(queue[Kind(r)][d], r)
<1>2. d \in Devices /\ Kind(r) \in Kinds
  BY <1>1, Resolved DEF Kind, Kinds
<1>3. queue' = [queue EXCEPT ![Kind(r)][d] = longer]
  BY <1>1, <1>2 DEF Enqueue
<1>4. /\ longer \in Seq(Requests)
      /\ \A i \in DOMAIN longer :
           \/ i \in DOMAIN queue[Kind(r)][d] /\ longer[i] = queue[Kind(r)][d][i]
           \/ longer[i] = r
  <2>1. queue[Kind(r)][d] \in Seq(Requests)
    BY <1>1, <1>2
  <2> QED
    BY <2>1
<1> HIDE DEF d, longer
<1>5. queue' \in [Kinds -> [Devices -> Seq(Requests)]] /\ queue'[Kind(r)][d] = longer
      /\ \A l \in Kinds, e \in Devices : l # Kind(r) \/ e # d => queue'[l][e] = queue[l][e]
  BY <1>1, <1>2, <1>3, <1>4, QueueUpdate
<1>6. ASSUME NEW k \in Kinds, NEW e \in Devices, NEW i \in DOMAIN queue'[k][e]
      PROVE  \/ i \in DOMAIN queue[k][e] /\ queue'[k][e][i] = queue[k][e][i]
             \/ e = d /\ queue'[k][e][i] = r
  BY <1>4, <1>5
<1> QED
  BY <1>5, <1>6 DEF d

LEMMA CancelQueues ==
  ASSUME TypeOK, NEW r \in Requests, Cancel(r)
  PROVE  /\ queue' \in [Kinds -> [Devices -> Seq(Requests)]]
         /\ \A k \in Kinds, d \in Devices :
              \A i \in DOMAIN queue'[k][d] :
                \E j \in DOMAIN queue[k][d] : queue'[k][d][i] = queue[k][d][j]
<1>1. /\ list \in Seq(Devices) /\ index \in [Requests -> Nat \ {0}]
      /\ queue \in [Kinds -> [Devices -> Seq(Requests)]]
  BY DEF TypeOK, Kinds
<1>2. CASE queue' = queue
  BY <1>1, <1>2
<1>3. CASE /\ ~(index[r] > Len(list))
           /\ queue' = [queue EXCEPT ![Kind(r)][list[index[r]]] = Without(@, r)]
  <2> DEFINE d == list[index[r]]
             rest == Without(queue[Kind(r)][d], r)
  <2>1. d \in Devices /\ Kind(r) \in Kinds
    BY <1>1, <1>3, Resolved DEF Kind, Kinds
  <2>2. queue' = [queue EXCEPT ![Kind(r)][d] = rest]
    BY <1>1, <1>3, <2>1
  <2> HIDE DEF d
  <2>3. /\ rest \in Seq(Requests)
        /\ \A i \in DOMAIN rest : \E j \in DOMAIN queue[Kind(r)][d] : rest[i] = queue[Kind(r)][d][j]
    BY <1>1, <2>1, WithoutType
  <2> HIDE DEF rest
  <2> QED
    BY <1>1, <2>1, <2>2, <2>3, QueueUpdate
<1> QED
  BY <1>2, <1>3 DEF Cancel

LEMMA TypeStep == TypeOK /\ Placed /\ [Next]_vars => TypeOK'
<1> SUFFICES ASSUME TypeOK, Placed, [Next]_vars PROVE TypeOK'
  OBVIOUS
<1> USE DEF TypeOK, caller, frame, flags
<1>1. ASSUME NEW d \in Devices, InitDevice(d) PROVE TypeOK'
  <2>1. list' \in Seq(Devices)
    BY <1>1, AppendProperties DEF InitDevice
  <2> QED
    BY <1>1, <2>1 DEF InitDevice
<1>2. ASSUME NEW d \in Devices, DestroyDevice(d) PROVE TypeOK'
  <2>1. list' \in Seq(Devices)
    <3>1. list \in Seq(Devices) /\ list' = Without(list, d)
      BY <1>2 DEF DestroyDevice
    <3> QED
      BY <3>1, WithoutType
  <2>2. queue' \in [Kinds -> [Devices -> Seq(Requests)]]
    BY <1>2, Emptied DEF DestroyDevice, Kinds
  <2> QED
    BY <1>2, <2>1, <2>2 DEF DestroyDevice, Kinds
<1>3. ASSUME NEW r \in Requests, Resolve(r) PROVE TypeOK'
  <2>1. PICK i \in 1..Len(list) : index' = [index EXCEPT ![r] = i]
    BY <1>3 DEF Resolve
  <2>2. i \in Nat \ {0}
    <3>1. Len(list) \in Nat
      BY LenProperties
    <3> QED
      BY <3>1, Position
  <2> QED
    BY <1>3, <2>1, <2>2 DEF Resolve
<1>4. ASSUME NEW r \in Requests, Enqueue(r) PROVE TypeOK'
  <2>1. CASE index[r] > Len(list)
    BY <1>4, <2>1 DEF Enqueue
  <2>2. CASE ~(index[r] > Len(list))
    <3> DEFINE d == list[index[r]]
    <3>1. d \in Devices
      BY <2>2, Resolved
    <3>2. /\ call' = [call EXCEPT ![r] = "waiting"]
          /\ addressee' = [addressee EXCEPT ![r] = d]
          /\ UNCHANGED <<list, index, frame, flags, served>>
      BY <1>4, <2>2 DEF Enqueue
    <3> HIDE DEF d
    <3>3. queue' \in [Kinds -> [Devices -> Seq(Requests)]]
      BY <1>4, <2>2, EnqueueQueues
    <3> QED
      BY <3>1, <3>2, <3>3 DEF Kinds
  <2> QED
    BY <2>1, <2>2
<1>5. ASSUME NEW r \in Requests, Timeout(r) \/ Return(r) PROVE TypeOK'
  BY <1>5 DEF Timeout, Return
<1>6. ASSUME NEW r \in Requests, Cancel(r) PROVE TypeOK'
  <2>1. queue' \in [Kinds -> [Devices -> Seq(Requests)]]
    BY <1>6, CancelQueues DEF Kinds
  <2> QED
    BY <1>6, <2>1 DEF Cancel, Kinds
<1>7. ASSUME NEW d \in Devices, BeginPresent(d) \/ NextDeque(d) PROVE TypeOK'
  <2>1. PICK k \in Kinds : TakeOver(d, k)
    BY <1>7 DEF BeginPresent, NextDeque, Kinds
  <2>2. UNCHANGED <<list, caller, running, flags, served>>
    BY <1>7 DEF BeginPresent, NextDeque
  <2>3. queue[k][d] \in Seq(Requests) /\ <<>> \in Seq(Requests)
    <3>1. queue[k][d] \in Seq(Requests)
      BY DEF Kinds
    <3> QED
      BY <3>1, EmptySeq
  <2>4. queue' \in [Kinds -> [Devices -> Seq(Requests)]]
    BY <2>1, <2>3, QueueUpdate DEF TakeOver, Kinds
  <2>5. taken' \in [Devices -> Seq(Requests)] /\ present' \in [Devices -> {"out", "analysis", "live"}]
    BY <2>1, <2>3 DEF TakeOver, Kinds
  <2> QED
    BY <2>2, <2>4, <2>5 DEF Kinds
<1>8. ASSUME NEW d \in Devices, Skip(d) PROVE TypeOK'
  <2>1. Head(taken[d]) \in Requests /\ Tail(taken[d]) \in Seq(Requests)
    BY <1>8, Served DEF Skip
  <2> QED
    BY <1>8, <2>1 DEF Skip
<1>9. ASSUME NEW d \in Devices, Complete(d) PROVE TypeOK'
  <2>1. taken[d] # <<>> /\ running[d] \in Requests
    BY <1>9 DEF Placed, Complete
  <2>2. Tail(taken[d]) \in Seq(Requests)
    BY <2>1, Served
  <2>3. completed' \subseteq Requests
    BY <1>9, <2>1 DEF Complete
  <2> QED
    BY <1>9, <2>2, <2>3 DEF Complete
<1>10. ASSUME NEW d \in Devices, Start(d) PROVE TypeOK'
  <2> DEFINE r == Head(taken[d])
  <2>1. r \in Requests
    BY <1>10, Served DEF Start
  <2>2. /\ started' = started \cup {r} /\ running' = [running EXCEPT ![d] = r]
        /\ served' = [served EXCEPT ![r] = Append(served[r], d)]
        /\ UNCHANGED <<list, caller, queue, present, taken, canceled, completed>>
    BY <1>10, <2>1 DEF Start
  <2> HIDE DEF r
  <2>3. Append(served[r], d) \in Seq(Devices)
    <3>1. served[r] \in Seq(Devices)
      BY <2>1
    <3> QED
      BY <3>1, AppendProperties
  <2> QED
    BY <2>1, <2>2, <2>3
<1>11. ASSUME NEW d \in Devices, EndPresent(d) PROVE TypeOK'
  BY <1>11 DEF EndPresent
<1>12. CASE UNCHANGED vars
  BY <1>12 DEF vars
<1> QED
  BY <1>1, <1>2, <1>3, <1>4, <1>5, <1>6, <1>7, <1>8, <1>9, <1>10, <1>11, <1>12 DEF Next

-----------------------------------------------------------------------------
LEMMA FlaggedStep == Inv /\ [Next]_vars => Flagged'
<1> SUFFICES ASSUME Inv, [Next]_vars PROVE Flagged'
  OBVIOUS
<1> USE DEF Inv, caller, frame, flags
<1>1. CASE UNCHANGED <<call, addressee, running, started, canceled, completed, served>>
  BY <1>1 DEF Flagged
<1>2. ASSUME NEW d \in Devices,
             \/ InitDevice(d) \/ DestroyDevice(d) \/ BeginPresent(d) \/ NextDeque(d) \/ EndPresent(d)
      PROVE  Flagged'
  BY <1>1, <1>2 DEF InitDevice, DestroyDevice, BeginPresent, NextDeque, EndPresent
<1>3. ASSUME NEW r \in Requests, Resolve(r) PROVE Flagged'
  BY <1>3 DEF TypeOK, Flagged, Resolve
<1>4. ASSUME NEW r \in Requests, Enqueue(r) PROVE Flagged'
  <2>1. /\ call' \in {[call EXCEPT ![r] = c] : c \in {"unavailable", "waiting"}}
        /\ call[r] = "resolved" /\ \A q \in Requests : q # r => addressee'[q] = addressee[q]
        /\ UNCHANGED <<frame, flags, served>>
    BY <1>4 DEF TypeOK, Enqueue
  <2>2. /\ call'[r] \in {"unavailable", "waiting"}
        /\ \A q \in Requests : q # r => call'[q] = call[q] /\ addressee'[q] = addressee[q]
    BY <2>1 DEF TypeOK
  <2>3. r \notin started /\ r \notin canceled /\ r \notin completed
    BY <2>1 DEF Flagged
  <2> QED
    BY <2>1, <2>2, <2>3 DEF Flagged
<1>5. ASSUME NEW r \in Requests, Timeout(r) PROVE Flagged'
  BY <1>5 DEF TypeOK, Flagged, Timeout
<1>6. ASSUME NEW r \in Requests, Cancel(r) PROVE Flagged'
  BY <1>6 DEF TypeOK, Flagged, Cancel
<1>7. ASSUME NEW r \in Requests, Return(r) PROVE Flagged'
  BY <1>7 DEF TypeOK, Flagged, Return
<1>8. ASSUME NEW d \in Devices, Skip(d) PROVE Flagged'
  <2>1. Head(taken[d]) \in Requests
    BY <1>8, Served DEF TypeOK, Skip
  <2>2. /\ completed' = completed \cup {Head(taken[d])}
        /\ Head(taken[d]) \in completed \cup canceled
        /\ UNCHANGED <<caller, running, started, canceled, served>>
    BY <1>8 DEF Skip, MayStart
  <2> HIDE DEF Inv
  <2> QED
    BY <2>1, <2>2 DEF Inv, Flagged
<1>9. ASSUME NEW d \in Devices, Complete(d) PROVE Flagged'
  <2>1. /\ running[d] # None /\ completed' = completed \cup {running[d]}
        /\ running' = [running EXCEPT ![d] = None]
        /\ UNCHANGED <<caller, started, canceled, served>>
    BY <1>9 DEF Complete
  <2>2. running[d] \in started /\ addressee[running[d]] = d
    BY <2>1 DEF Placed
  <2> QED
    BY <2>1, <2>2 DEF TypeOK, Flagged
<1>10. ASSUME NEW d \in Devices, Start(d) PROVE Flagged'
  <2> DEFINE r == Head(taken[d])
  <2>1. /\ r \in Requests /\ running[d] = None /\ r \notin completed \cup canceled
        /\ started' = started \cup {r} /\ running' = [running EXCEPT ![d] = r]
        /\ served' = [served EXCEPT ![r] = Append(served[r], d)]
        /\ UNCHANGED <<caller, canceled, completed>>
    BY <1>10, Served DEF TypeOK, Start, MayStart
  <2>2. addressee[r] = d /\ call[r] \notin {"idle", "resolved", "unavailable"}
    <3>1. taken[d] # <<>> /\ taken \in [Devices -> Seq(Requests)]
      BY <1>10 DEF TypeOK, Start
    <3> QED
      BY <3>1, Served DEF Placed, InPlace
  <2> HIDE DEF r
  <2>3. r \notin started
    BY <2>1, <2>2, RequestsAssumption DEF Flagged
  <2>4. served'[r] = <<d>>
    <3>1. served[r] = <<>>
      BY <2>1, <2>3 DEF Flagged
    <3>2. served'[r] = Append(<<>>, d)
      BY <2>1, <3>1 DEF TypeOK
    <3> QED
      BY <3>2
  <2>5. \A q \in Requests : q # r => served'[q] = served[q]
    BY <2>1 DEF TypeOK
  <2>6. ASSUME NEW q \in started \ completed
        PROVE  addressee[q] # d /\ running'[addressee[q]] = q
    <3>1. q \in Requests /\ q # None
      BY RequestsAssumption DEF TypeOK
    <3>2. running[addressee[q]] = q /\ addressee[q] \in Devices
      BY <3>1 DEF Flagged
    <3>3. addressee[q] # d
      BY <2>1, <3>1, <3>2
    <3> QED
      BY <2>1, <3>2, <3>3 DEF TypeOK
  <2>7. running'[d] = r
    BY <2>1 DEF TypeOK
  <2> QED
    BY <2>1, <2>2, <2>3, <2>4, <2>5, <2>6, <2>7 DEF TypeOK, Flagged
<1>11. CASE UNCHANGED vars
  BY <1>1, <1>11 DEF vars
<1> QED
  BY <1>2, <1>3, <1>4, <1>5, <1>6, <1>7, <1>8, <1>9, <1>10, <1>11 DEF Next

-----------------------------------------------------------------------------
LEMMA PlacedStep == Inv /\ [Next]_vars => Placed'
<1> SUFFICES ASSUME Inv, [Next]_vars PROVE Placed'
  OBVIOUS
<1> USE DEF caller, frame, flags
<1> DEFINE Outside == {"idle", "resolved", "unavailable"}
           Keeps(q) == call[q] \notin Outside =>
                         call'[q] \notin Outside /\ addressee'[q] = addressee[q]
           Known(q, k, d) == \E j \in DOMAIN queue[k][d] : q = queue[k][d][j]
           Here(q, d) == addressee'[q] = d /\ call'[q] \notin Outside
<1>1. /\ \A d \in Devices : \A i \in DOMAIN taken[d] : taken[d][i] \in Requests
      /\ \A k \in Kinds, d \in Devices : \A j \in DOMAIN queue[k][d] : queue[k][d][j] \in Requests
      /\ started \subseteq Requests
  <2>1. ASSUME NEW d \in Devices, NEW i \in DOMAIN taken[d] PROVE taken[d][i] \in Requests
    <3>1. taken[d] \in Seq(Requests)
      BY DEF Inv, TypeOK
    <3> QED
      BY <3>1
  <2>2. ASSUME NEW k \in Kinds, NEW d \in Devices, NEW j \in DOMAIN queue[k][d]
        PROVE  queue[k][d][j] \in Requests
    <3>1. queue[k][d] \in Seq(Requests)
      BY DEF Inv, TypeOK, Kinds
    <3> QED
      BY <3>1
  <2> QED
    BY <2>1, <2>2 DEF Inv, TypeOK
<1>2. ASSUME UNCHANGED <<frame, started>>,
             \A q \in Requests : Keeps(q),
             \A k \in Kinds, d \in Devices : \A i \in DOMAIN queue'[k][d] :
               Known(queue'[k][d][i], k, d) \/ Here(queue'[k][d][i], d)
      PROVE  Placed'
  <2>1. ASSUME NEW d \in Devices PROVE InPlace(taken[d], d)'
    BY <1>1, <1>2 DEF Inv, Placed, InPlace
  <2>2. ASSUME NEW d \in Devices, NEW k \in Kinds PROVE InPlace(queue[k][d], d)'
    BY <1>1, <1>2 DEF Inv, Placed, InPlace
  <2>3. ASSUME NEW d \in Devices, running'[d] # None
        PROVE  running'[d] \in started' /\ addressee'[running'[d]] = d /\ taken'[d] # <<>>
    BY <1>1, <1>2, <2>3 DEF Inv, Placed, Flagged
  <2>4. \A d \in Devices : present'[d] = "out" => taken'[d] = <<>>
    BY <1>2 DEF Inv, Placed
  <2> QED
    BY <2>1, <2>2, <2>3, <2>4 DEF Placed
<1>3. ASSUME UNCHANGED <<frame, started, call, addressee, queue>> PROVE Placed'
  BY <1>2, <1>3
<1>4. ASSUME NEW d \in Devices, InitDevice(d) PROVE Placed'
  BY <1>3, <1>4 DEF InitDevice
<1>5. ASSUME NEW d \in Devices, DestroyDevice(d) PROVE Placed'
  <2>1. /\ queue \in [Kinds -> [Devices -> Seq(Requests)]]
        /\ queue' = [k \in DOMAIN queue |-> [queue[k] EXCEPT ![d] = <<>>]]
        /\ UNCHANGED <<frame, started, call, addressee>>
    BY <1>5 DEF DestroyDevice, Inv, TypeOK, Kinds
  <2>2. \A k \in Kinds, e \in Devices : queue'[k][e] = IF e = d THEN <<>> ELSE queue[k][e]
    BY <2>1, Emptied
  <2>3. \A k \in Kinds, e \in Devices : \A i \in DOMAIN queue'[k][e] :
          Known(queue'[k][e][i], k, e)
    BY <2>2
  <2> QED
    BY <1>2, <2>1, <2>3
<1>6. ASSUME NEW r \in Requests, Resolve(r) \/ Timeout(r) \/ Return(r) PROVE Placed'
  <2>1. \A q \in Requests : Keeps(q)
    BY <1>6 DEF Inv, TypeOK, Resolve, Timeout, Return
  <2>2. UNCHANGED <<frame, queue, started>>
    BY <1>6 DEF Resolve, Timeout, Return
  <2> QED
    BY <1>2, <2>1, <2>2
<1>7. ASSUME NEW r \in Requests, Cancel(r) PROVE Placed'
  <2>1. \A q \in Requests : Keeps(q)
    BY <1>7 DEF Inv, TypeOK, Cancel
  <2>2. UNCHANGED <<frame, started>>
    BY <1>7 DEF Cancel
  <2>3. \A k \in Kinds, d \in Devices : \A i \in DOMAIN queue'[k][d] :
          Known(queue'[k][d][i], k, d)
    BY <1>7, CancelQueues DEF Inv
  <2> QED
    BY <1>2, <2>1, <2>2, <2>3
<1>8. ASSUME NEW r \in Requests, Enqueue(r) PROVE Placed'
  <2>1. \A q \in Requests : Keeps(q)
    BY <1>8 DEF Inv, TypeOK, Enqueue
  <2>2. UNCHANGED <<frame, started>>
    BY <1>8 DEF Enqueue
  <2>3. CASE index[r] > Len(list)
    BY <1>2, <1>8, <2>1, <2>2, <2>3 DEF Enqueue
  <2>4. CASE ~(index[r] > Len(list))
    <3>1. addressee'[r] = list[index[r]] /\ call'[r] = "waiting"
      BY <1>8, <2>4 DEF Enqueue, Inv, TypeOK
    <3>2. \A k \in Kinds, d \in Devices : \A i \in DOMAIN queue'[k][d] :
            Known(queue'[k][d][i], k, d) \/ Here(queue'[k][d][i], d)
      BY <1>8, <2>4, <3>1, EnqueueQueues DEF Inv
    <3> QED
      BY <1>2, <2>1, <2>2, <3>2
  <2> QED
    BY <2>3, <2>4
<1>9. ASSUME UNCHANGED <<call, addressee>>,
             \A k \in Kinds, d \in Devices : queue'[k][d] \in {queue[k][d], <<>>},
             \A d \in Devices : \A i \in DOMAIN taken'[d] :
               \/ \E j \in DOMAIN taken[d] : taken'[d][i] = taken[d][j]
               \/ \E k \in Kinds : Known(taken'[d][i], k, d),
             \A d \in Devices : running'[d] # None =>
               running'[d] \in started' /\ addressee[running'[d]] = d /\ taken'[d] # <<>>,
             \A d \in Devices : present'[d] = "out" => taken'[d] = <<>>
      PROVE  Placed'
  <2>1. ASSUME NEW d \in Devices PROVE InPlace(taken[d], d)'
    BY <1>9 DEF Inv, Placed, InPlace
  <2>2. ASSUME NEW d \in Devices, NEW k \in Kinds PROVE InPlace(queue[k][d], d)'
    BY <1>9 DEF Inv, Placed, InPlace
  <2> QED
    BY <1>9, <2>1, <2>2 DEF Placed
<1>10. ASSUME NEW d \in Devices, BeginPresent(d) \/ NextDeque(d) PROVE Placed'
  <2>1. PICK k \in Kinds : TakeOver(d, k)
    BY <1>10 DEF BeginPresent, NextDeque, Kinds
  <2>2. UNCHANGED <<call, addressee, running, started>> /\ running[d] = None
    BY <1>10 DEF Inv, Placed, BeginPresent, NextDeque
  <2>3. /\ queue[k][d] \in Seq(Requests) /\ <<>> \in Seq(Requests)
        /\ queue \in [Kinds -> [Devices -> Seq(Requests)]]
    <3>1. queue \in [Kinds -> [Devices -> Seq(Requests)]]
      BY DEF Inv, TypeOK, Kinds
    <3> QED
      BY <3>1, EmptySeq
  <2>4. \A l \in Kinds, e \in Devices : queue'[l][e] \in {queue[l][e], <<>>}
    BY <2>1, <2>3, QueueUpdate DEF TakeOver
  <2>5. /\ taken'[d] = queue[k][d] /\ present'[d] # "out"
        /\ \A e \in Devices : e # d => taken'[e] = taken[e] /\ present'[e] = present[e]
    BY <2>1 DEF Inv, TypeOK, TakeOver, Kinds
  <2>6. \A e \in Devices : running'[e] # None =>
          running'[e] \in started' /\ addressee[running'[e]] = e /\ taken'[e] # <<>>
    BY <2>2, <2>5 DEF Inv, Placed
  <2>7. \A e \in Devices : present'[e] = "out" => taken'[e] = <<>>
    BY <2>5 DEF Inv, Placed
  <2> QED
    BY <1>9, <2>2, <2>4, <2>5, <2>6, <2>7
<1>11. ASSUME NEW d \in Devices, Skip(d) \/ Complete(d) PROVE Placed'
  <2>1. /\ UNCHANGED <<call, addressee, queue, started, present>>
        /\ taken' = [taken EXCEPT ![d] = Tail(taken[d])]
        /\ running'[d] = None /\ \A e \in Devices : e # d => running'[e] = running[e]
    BY <1>11 DEF Inv, TypeOK, Skip, Complete
  <2>2. taken[d] # <<>> /\ taken \in [Devices -> Seq(Requests)]
    BY <1>11 DEF Inv, TypeOK, Placed, Skip, Complete
  <2>3. \A i \in DOMAIN Tail(taken[d]) : \E j \in DOMAIN taken[d] : Tail(taken[d])[i] = taken[d][j]
    BY <2>2, Served
  <2>4. taken'[d] = Tail(taken[d]) /\ \A e \in Devices : e # d => taken'[e] = taken[e]
    BY <2>1, <2>2
  <2>5. present[d] # "out"
    BY <2>2 DEF Inv, Placed
  <2>6. \A e \in Devices : running'[e] # None =>
          running'[e] \in started' /\ addressee[running'[e]] = e /\ taken'[e] # <<>>
    BY <2>1, <2>4 DEF Inv, Placed
  <2>7. \A e \in Devices : present'[e] = "out" => taken'[e] = <<>>
    BY <2>1, <2>4, <2>5 DEF Inv, Placed
  <2>8. \A e \in Devices : \A i \in DOMAIN taken'[e] :
          \E j \in DOMAIN taken[e] : taken'[e][i] = taken[e][j]
    <3>1. ASSUME NEW e \in Devices, NEW i \in DOMAIN taken'[e]
          PROVE  \E j \in DOMAIN taken[e] : taken'[e][i] = taken[e][j]
      <4>1. CASE e = d
        BY <2>3, <2>4, <4>1
      <4>2. CASE e # d
        BY <2>4, <4>2
      <4> QED
        BY <4>1, <4>2
    <3> QED
      BY <3>1
  <2> QED
    BY <1>9, <2>1, <2>6, <2>7, <2>8
<1>12. ASSUME NEW d \in Devices, Start(d) PROVE Placed'
  <2> DEFINE r == Head(taken[d])
  <2>1. /\ UNCHANGED <<call, addressee, queue, taken, present>> /\ taken[d] # <<>>
        /\ started' = started \cup {r} /\ running' = [running EXCEPT ![d] = r]
    BY <1>12 DEF Start
  <2>2. addressee[r] = d
    <3>1. taken \in [Devices -> Seq(Requests)]
      BY DEF Inv, TypeOK
    <3> QED
      BY <2>1, <3>1, Served DEF Inv, Placed, InPlace
  <2> HIDE DEF r
  <2>3. \A e \in Devices : running'[e] # None =>
          running'[e] \in started' /\ addressee[running'[e]] = e /\ taken'[e] # <<>>
    BY <2>1, <2>2 DEF Inv, TypeOK, Placed
  <2>4. \A e \in Devices : present'[e] = "out" => taken'[e] = <<>>
    BY <2>1 DEF Inv, Placed
  <2> QED
    BY <1>9, <2>1, <2>3, <2>4
<1>13. ASSUME NEW d \in Devices, EndPresent(d) PROVE Placed'
  <2>1. /\ UNCHANGED <<call, addressee, queue, taken, running, started>> /\ taken[d] = <<>>
        /\ \A e \in Devices : e # d => present'[e] = present[e]
    BY <1>13 DEF EndPresent, Inv, TypeOK
  <2>2. \A e \in Devices : present'[e] = "out" => taken'[e] = <<>>
    BY <2>1 DEF Inv, Placed
  <2>3. \A e \in Devices : running'[e] # None =>
          running'[e] \in started' /\ addressee[running'[e]] = e /\ taken'[e] # <<>>
    BY <2>1 DEF Inv, Placed
  <2> QED
    BY <1>9, <2>1, <2>2, <2>3
<1>14. CASE UNCHANGED vars
  BY <1>3, <1>14 DEF vars
<1> QED
  BY <1>4, <1>5, <1>6, <1>7, <1>8, <1>10, <1>11, <1>12, <1>13, <1>14 DEF Next

-----------------------------------------------------------------------------
LEMMA Invariance == Spec => []Inv
<1>1. Inv /\ [Next]_vars => Inv'
  BY TypeStep, PlacedStep, FlaggedStep DEF Inv
<1> QED
  BY <1>1, InitInv, PTL DEF Spec

\* Types, for any number of devices and requests.
THEOREM Types == Spec => []TypeOK
<1>1. Inv => TypeOK
  BY DEF Inv
<1> QED
  BY <1>1, Invariance, PTL

\* A tool that reports a time-out speaks of a request that was not begun and never
\* will be; a tool that reports a result speaks of a request that was performed once,
\* by the device it was put to (started and canceled, and the withdrawal by index).
THEOREM AnswersCorrect == Spec => []AnswersAreTruthful
<1>1. Inv => AnswersAreTruthful
  BY DEF Inv, Flagged, AnswersAreTruthful
<1> QED
  BY <1>1, Invariance, PTL

-----------------------------------------------------------------------------
(* The draws of a snapshot: SnapshotCapture. *)

\* A draw on its way to the lock has been counted.
CaptureInv ==
  /\ CaptureTypeOK
  /\ \A l \in Lists : at[l] = "drawing" => counter[l] > 0
  /\ BatchesNameTheirDraws
  /\ UsageFitsTheDraws

\* Whatever the sort does, it moves the draws of the capture, and no others come in.
LEMMA ArrangementType ==
  ASSUME NEW s \in Seq(Draws), NEW a \in Arrangements(s)
  PROVE  a \in Seq(Draws)
<1>1. PICK p \in [DOMAIN s -> DOMAIN s] : a = [i \in DOMAIN s |-> s[p[i]]]
  BY DEF Arrangements
<1>2. DOMAIN s = 1..Len(s) /\ Len(s) \in Nat
  OBVIOUS
<1>3. \A i \in 1..Len(s) : s[p[i]] \in Draws
  BY <1>2
<1>4. a \in [1..Len(s) -> Draws]
  BY <1>1, <1>2, <1>3
<1> QED
  BY <1>2, <1>4

LEMMA SequenceType ==
  ASSUME NEW S, NEW n \in Nat, NEW f \in [1..n -> S]
  PROVE  f \in Seq(S) /\ DOMAIN f = 1..n
OBVIOUS

LEMMA CaptureInitInv == CaptureInit => CaptureInv
<1> SUFFICES ASSUME CaptureInit PROVE CaptureInv
  OBVIOUS
<1>1. draws \in Seq(Draws)
  BY DEF CaptureInit
<1> QED
  BY <1>1 DEF CaptureInit, CaptureInv, CaptureTypeOK, NoBatch, BatchesNameTheirDraws, UsageFitsTheDraws

LEMMA CaptureStepInv == CaptureInv /\ [CaptureNext]_captureVars => CaptureInv'
<1> SUFFICES ASSUME CaptureInv, [CaptureNext]_captureVars PROVE CaptureInv'
  OBVIOUS
<1> USE DEF CaptureInv, CaptureTypeOK, capture, cache
<1>1. ASSUME NEW l \in Lists, Draw(l) PROVE CaptureInv'
  <2>1. /\ at' = [at EXCEPT ![l] = "drawing"]
        /\ counter' = [counter EXCEPT ![l] = @ + 1]
        /\ UNCHANGED <<capture, cache, submits, ticket>>
    BY <1>1 DEF Draw
  <2>2. /\ counter' \in [Lists -> Nat] /\ counter'[l] > 0
        /\ \A k \in Lists : counter'[k] >= counter[k]
    BY <2>1
  <2>3. CaptureTypeOK'
    BY <2>1, <2>2
  <2>4. BatchesNameTheirDraws'
    <3>1. ASSUME NEW k \in Lists, NEW i \in batch[k]
          PROVE  /\ i \in DOMAIN draws /\ draws[i].list = k
                 /\ draws[i].nth < counter'[k] /\ draws[i].order = 0
      <4>1. i \in DOMAIN draws /\ draws[i].list = k /\ draws[i].nth < counter[k] /\ draws[i].order = 0
        BY DEF BatchesNameTheirDraws
      <4>2. draws[i] \in Draws
        BY <4>1
      <4>3. draws[i].nth \in Nat /\ counter[k] \in Nat /\ counter'[k] \in Nat
        BY <4>2, <2>2 DEF Draws
      <4> QED
        BY <4>1, <4>3, <2>2
    <3> QED
      BY <2>1, <3>1 DEF BatchesNameTheirDraws
  <2> QED
    BY <2>1, <2>2, <2>3, <2>4 DEF UsageFitsTheDraws
<1>2. ASSUME NEW l \in Lists, NEW s \in Shaders, AppendDraw(l, s) PROVE CaptureInv'
  <2> DEFINE new == [list |-> l, nth |-> counter[l] - 1, shader |-> s,
                     time |-> Len(draws), order |-> 0]
  <2>1. new \in Draws /\ counter[l] > 0
    BY <1>2 DEF AppendDraw, Draws
  <2>2. /\ draws' = Append(draws, new)
        /\ batch' = [batch EXCEPT ![l] = @ \cup {Len(draws) + 1}]
        /\ at' = [at EXCEPT ![l] = "open"]
        /\ UNCHANGED <<capture, usage, submits, counter, ticket>>
    BY <1>2 DEF AppendDraw
  <2> HIDE DEF new
  <2>3. /\ draws' \in Seq(Draws) /\ Len(draws') = Len(draws) + 1
        /\ draws'[Len(draws) + 1] = new
        /\ \A i \in DOMAIN draws : i \in DOMAIN draws' /\ draws'[i] = draws[i]
        /\ Len(draws) + 1 \in DOMAIN draws'
    BY <2>1, <2>2
  <2>4. CaptureTypeOK'
    BY <2>2, <2>3
  <2>5. new.list = l /\ new.nth < counter[l] /\ new.order = 0
    BY <2>1 DEF new
  <2>6. BatchesNameTheirDraws'
    BY <2>2, <2>3, <2>5 DEF BatchesNameTheirDraws
  <2>7. UsageFitsTheDraws'
    BY <2>2, <2>3 DEF UsageFitsTheDraws
  <2> QED
    BY <2>2, <2>4, <2>6, <2>7
<1>3. ASSUME NEW l \in Lists, Close(l) PROVE CaptureInv'
  BY <1>3 DEF Close, BatchesNameTheirDraws, UsageFitsTheDraws
<1>4. ASSUME NEW l \in Lists, Submit(l) PROVE CaptureInv'
  BY <1>4 DEF Submit, BatchesNameTheirDraws, UsageFitsTheDraws
<1>5. ASSUME NEW l \in Lists, Stamp(l) PROVE CaptureInv'
  <2>1. /\ draws' = [i \in DOMAIN draws |->
                       IF i \in batch[l] /\ draws[i].order = 0
                       THEN [draws[i] EXCEPT !.order = ticket[l]] ELSE draws[i]]
        /\ batch' = [batch EXCEPT ![l] = {}]
        /\ at' = [at EXCEPT ![l] = "closed"] /\ ticket' = [ticket EXCEPT ![l] = 0]
        /\ UNCHANGED <<capture, usage, submits, counter>>
    BY <1>5 DEF Stamp
  <2>2. ASSUME NEW i \in DOMAIN draws
        PROVE  /\ draws'[i] \in Draws
               /\ draws'[i].list = draws[i].list /\ draws'[i].nth = draws[i].nth
               /\ draws'[i].shader = draws[i].shader
               /\ i \notin batch[l] => draws'[i] = draws[i]
    <3>1. draws[i] \in Draws /\ ticket[l] \in Nat
      OBVIOUS
    <3> QED
      BY <2>1, <3>1 DEF Draws
  <2>3. draws' \in Seq(Draws) /\ DOMAIN draws' = DOMAIN draws
    <3>1. DOMAIN draws = 1..Len(draws) /\ Len(draws) \in Nat
      OBVIOUS
    <3>2. draws' \in [1..Len(draws) -> Draws]
      BY <2>1, <2>2, <3>1
    <3> QED
      BY <3>1, <3>2, SequenceType
  <2>4. CaptureTypeOK'
    BY <2>1, <2>3
  <2>5. ASSUME NEW k \in Lists, NEW i \in batch'[k]
        PROVE  /\ i \in DOMAIN draws' /\ draws'[i].list = k
               /\ draws'[i].nth < counter'[k] /\ draws'[i].order = 0
    <3>1. k # l /\ i \in batch[k] /\ counter'[k] = counter[k]
      BY <2>1, <2>5
    <3>2. i \in DOMAIN draws /\ draws[i].list = k /\ draws[i].nth < counter[k] /\ draws[i].order = 0
      BY <3>1 DEF BatchesNameTheirDraws
    <3>3. i \notin batch[l]
      BY <3>1, <3>2 DEF BatchesNameTheirDraws
    <3> QED
      BY <2>2, <2>3, <3>1, <3>2, <3>3
  <2>6. BatchesNameTheirDraws'
    BY <2>5 DEF BatchesNameTheirDraws
  <2>7. UsageFitsTheDraws'
    BY <2>1, <2>2, <2>3 DEF UsageFitsTheDraws
  <2> QED
    BY <2>1, <2>4, <2>6, <2>7
<1>6. ASSUME NEW l \in Lists, Reset(l) PROVE CaptureInv'
  BY <1>6 DEF Reset, BatchesNameTheirDraws, UsageFitsTheDraws
<1>7. CASE Begin
  BY <1>7 DEF Begin, NoBatch, BatchesNameTheirDraws, UsageFitsTheDraws
<1>8. CASE StopCapturing
  BY <1>8 DEF StopCapturing, BatchesNameTheirDraws, UsageFitsTheDraws
<1>9. CASE Finish
  <2>1. PICK s \in Arrangements(draws) : draws' = s /\ usage' = UsageOf(s)
    BY <1>9 DEF Finish
  <2>2. /\ finishing' = FALSE /\ batch' = NoBatch
        /\ UNCHANGED <<active, submits, at, counter, ticket>>
    BY <1>9 DEF Finish
  <2>3. draws' \in Seq(Draws)
    BY <2>1, ArrangementType
  <2>4. DOMAIN draws' = 1..Len(draws') /\ Len(draws') \in Nat
    BY <2>3
  <2>5. usage' \in [Shaders -> SUBSET Nat]
    BY <2>1, <2>4 DEF UsageOf
  <2>6. UsageFitsTheDraws'
    BY <2>1 DEF UsageOf, UsageFitsTheDraws
  <2> QED
    BY <2>2, <2>3, <2>5, <2>6 DEF NoBatch, BatchesNameTheirDraws
<1>10. CASE UNCHANGED captureVars
  BY <1>10 DEF captureVars, BatchesNameTheirDraws, UsageFitsTheDraws
<1> QED
  BY <1>1, <1>2, <1>3, <1>4, <1>5, <1>6, <1>7, <1>8, <1>9, <1>10 DEF CaptureNext

LEMMA CaptureInvariance == CaptureSpec => []CaptureInv
BY CaptureInitInv, CaptureStepInv, PTL DEF CaptureSpec

\* CaptureTypes, whatever the sort does with the draws.
THEOREM CaptureTypes == CaptureSpec => []CaptureTypeOK
<1>1. CaptureInv => CaptureTypeOK
  BY DEF CaptureInv
<1> QED
  BY <1>1, CaptureInvariance, PTL

\* The indexes that a submission stamps (draw_detail_indexes_by_cmd_list) are those
\* of draws of its list, recorded since its reset and not yet submitted: draws that
\* are appended after the capture's end, lists that are submitted in a later capture,
\* and the sort do not change that.
THEOREM BatchesCorrect == CaptureSpec => []BatchesNameTheirDraws
<1>1. CaptureInv => BatchesNameTheirDraws
  BY DEF CaptureInv
<1> QED
  BY <1>1, CaptureInvariance, PTL

\* shader_draw_indexes, which the overlay's buttons follow, names draws that use
\* the shader whenever no capture is on, late draws included.
THEOREM UsageCorrect == CaptureSpec => []UsageFitsTheDraws
<1>1. CaptureInv => UsageFitsTheDraws
  BY DEF CaptureInv
<1> QED
  BY <1>1, CaptureInvariance, PTL
=============================================================================
