-------------------------- MODULE FenceBackends_proofs --------------------------
(***************************************************************************)
(* The safety properties of FenceBackends hold for any number of sync       *)
(* objects, contexts, queues, points and failures, and whichever backend a  *)
(* fence has implements FenceTimeline.                                      *)
(***************************************************************************)
EXTENDS FenceBackends, FiniteSetTheorems, SequenceTheorems, TLAPS

(***************************************************************************)
(* OpenGL.                                                                 *)
(***************************************************************************)

\* The points accepted that the worker has taken from the queue.
Taken == OpenGL!Accepted - Len(pending)

\* Points are queued without a gap.  Until delivery stops the worker publishes
\* each before it takes the next; afterwards it may only publish the one it waits for.
GLPoints ==
  /\ Len(pending) <= OpenGL!Accepted
  /\ OpenGL!Accepted + (IF producer = "created" THEN 1 ELSE 0) <= made
  /\ \A i \in 1..Len(pending) : pending[i][2] = Taken + i
  /\ worker \in {"poll", "waiting", "delete"} => current[2] = Taken
  /\ completed <= Taken
  /\ worker = "waiting" => completed + 1 = Taken
  /\ ~stopping => completed + (IF worker \in {"poll", "waiting"} THEN 1 ELSE 0) = Taken

\* What the place of a thread says of what it holds, and of what it left behind.
GLThreads ==
  /\ worker \in {"poll", "waiting", "delete"} => current \in (1..made) \X Nat
  /\ worker \notin {"poll", "waiting", "delete"} => current = OpenGL!Nothing
  /\ producer = "created" => held = made /\ made > 0
  /\ producer # "created" => held = NoSync
  /\ worker = "binding" => ~ready
  /\ ~ready => made = 0
  /\ worker = "ended" => stopping /\ pending = <<>>
  /\ producer \in {"stopped", "joining", "destroyed"} => stopping
  /\ producer = "destroyed" => worker = "ended"

\* A sync object that somebody holds.
Alive(s) == s = held \/ s = current[1] \/ \E i \in 1..Len(pending) : pending[i][1] = s

\* Sync objects pass from the producer through the queue to the worker in the order
\* of their creation, and are deleted when they are let go of.
GLSyncs ==
  /\ \A i \in 1..Len(pending) : pending[i][1] \in 1..made
  /\ \A i, j \in 1..Len(pending) : i < j => pending[i][1] < pending[j][1]
  /\ worker \in {"poll", "waiting", "delete"} =>
       \A i \in 1..Len(pending) : current[1] < pending[i][1]
  /\ producer = "created" =>
       /\ \A i \in 1..Len(pending) : pending[i][1] < held
       /\ worker \in {"poll", "waiting", "delete"} => current[1] < held
  /\ \A s \in 1..made : deletions[s] = IF Alive(s) THEN 0 ELSE 1
  /\ \A s \in 1..MaxSyncs : s > made => deletions[s] = 0

GLInv == OpenGL!TypeOK /\ GLPoints /\ GLThreads /\ GLSyncs

(***************************************************************************)
(* What a queue will have retired when it comes to each of its commands.    *)
(***************************************************************************)

\* g[i] is the number of pieces of work retired once the first i commands are executed.
Meter(cmds, g, done, given) ==
  /\ g \in [Nat -> Nat] /\ g[0] = done /\ g[Len(cmds)] = given
  /\ \A i \in 1..Len(cmds) :
       g[i] = g[i - 1] + (IF cmds[i].op = "work" THEN 1 ELSE 0) /\ g[i] <= given

(***************************************************************************)
(* D3D9 and D3D10.                                                         *)
(***************************************************************************)

\* A signal in a queue comes after the work that any point up to its value stands for.
KernelWork ==
  \A c \in 0..Joined :
    /\ \E g \in [Nat -> Nat] :
         /\ Meter(commands[c], g, retired[c], submitted[c])
         /\ \A i \in 1..Len(commands[c]) : commands[c][i].op = "signal" =>
              \A p \in 1..commands[c][i].value : owed[p][c] <= g[i]
    /\ \A p \in 1..reached[c] : owed[p][c] <= retired[c]
    /\ \A p \in 1..KernelPoints : owed[p][c] <= submitted[c]
    /\ retired[c] <= submitted[c]

\* A context signals only its own fence, with growing values; only the primary one waits.
KernelSignals ==
  \A c \in 0..Joined :
    /\ reached[c] <= value[c]
    /\ reached[c] < value[c] => \E i \in 1..Len(commands[c]) :
         commands[c][i] = Kernel!SignalOf(c, value[c])
    /\ \A i \in 1..Len(commands[c]) :
         /\ commands[c][i].op = "signal" =>
              /\ commands[c][i].fence = c
              /\ reached[c] < commands[c][i].value /\ commands[c][i].value <= value[c]
              /\ \A j \in 1..(i - 1) : commands[c][j].op = "signal" =>
                   commands[c][j].value < commands[c][i].value
         /\ commands[c][i].op = "wait" =>
              /\ c = 0 /\ commands[c][i].fence \in 1..Joined
              /\ commands[c][i].value <= value[commands[c][i].fence]

\* The value is there, or the primary context waits for it before its i-th command.
Awaited(c, v, i) ==
  \/ reached[c] >= v
  \/ \E j \in 1..(i - 1) : commands[0][j] = Kernel!WaitFor(c, v)

\* The primary context signals a point only after it waited for all others.
KernelWaits ==
  /\ \A c \in 1..Joined : reached[0] <= reached[c]
  /\ \A i \in 1..Len(commands[0]) : commands[0][i].op = "signal" =>
       \A c \in 1..Joined : Awaited(c, commands[0][i].value, i)

\* The call of QueueFence under way: the contexts before "next" are done with.
KernelCall ==
  phase # "idle" =>
    /\ Kernel!Target <= KernelPoints
    /\ \A c \in 0..Joined : value[c] <= Kernel!Target
    /\ phase = "wait" => next # 0 /\ value[next] = Kernel!Target
    /\ next # 0 => /\ \A c \in (next + 1)..Joined : value[c] < Kernel!Target
                   /\ phase = "signal" => value[next] < Kernel!Target
    /\ \A c \in 1..Joined : (next # 0 => c < next) =>
         Awaited(c, Kernel!Target, Len(commands[0]) + 1)

KernelInv == Kernel!TypeOK /\ KernelWork /\ KernelSignals /\ KernelWaits /\ KernelCall

(***************************************************************************)
(* D3D11, D3D12 and Vulkan.                                                *)
(***************************************************************************)

\* A signal comes after the work its point stands for on its own queue.
CrossWork ==
  \A q \in 0..Parallel :
    /\ \E g \in [Nat -> Nat] :
         /\ Meter(commands[q], g, retired[q], submitted[q])
         /\ \A i \in 1..Len(commands[q]) : commands[q][i].op = "signal" =>
              owed[commands[q][i].value][q] <= g[i]
    /\ \A p \in 1..reached[Fence] : owed[p][q] <= retired[q]
    /\ retired[q] <= submitted[q]

\* What a point stands for elsewhere, the point before it stands for as well.
CrossElsewhere ==
  \A q \in 0..Parallel : \A i \in 1..Len(commands[q]) : commands[q][i].op = "signal" =>
    \A r \in 0..Parallel : r # q =>
      owed[commands[q][i].value][r] =
        IF commands[q][i].value = 1 THEN 0 ELSE owed[commands[q][i].value - 1][r]

\* Every point that is accepted and not reached is signalled once.
CrossSignals ==
  /\ reached[Fence] <= value
  /\ \A v \in (reached[Fence] + 1)..value : \E q \in 0..Parallel :
       \E i \in 1..Len(commands[q]) : commands[q][i] = CrossQueue!SignalOf(Fence, v)
  /\ \A q \in 0..Parallel : \A i \in 1..Len(commands[q]) : commands[q][i].op = "signal" =>
       /\ commands[q][i].fence = Fence
       /\ reached[Fence] < commands[q][i].value /\ commands[q][i].value <= value
       /\ \A r \in 0..Parallel : \A j \in 1..Len(commands[r]) :
            commands[r][j].op = "signal" /\ commands[r][j].value = commands[q][i].value =>
              r = q /\ j = i

\* The i-th command of the queue comes after the point.
Behind(q, v, i) ==
  \/ reached[Fence] >= v
  \/ \E j \in 1..(i - 1) :
       commands[q][j] \in {CrossQueue!WaitFor(Fence, v), CrossQueue!SignalOf(Fence, v)}

\* Every signal comes after the point before its own; a wait that comes before a
\* signal of the same queue is for an earlier point.
CrossOrder ==
  \A q \in 0..Parallel : \A i \in 1..Len(commands[q]) :
    /\ commands[q][i].op = "signal" => Behind(q, commands[q][i].value - 1, i)
    /\ commands[q][i].op = "wait" =>
         /\ commands[q][i].fence = Fence /\ commands[q][i].value <= value
         /\ \A j \in (i + 1)..Len(commands[q]) : commands[q][j].op = "signal" =>
              commands[q][i].value < commands[q][j].value

\* Whatever the queue that is noted as the last one executes next comes after the last
\* point, even without another wait.
CrossLast ==
  value # 0 =>
    /\ backend = "d3d11" => last = 0
    /\ \A q \in 0..Parallel : last = q => Behind(q, value, Len(commands[q]) + 1)

CrossInv ==
  CrossQueue!TypeOK /\ CrossWork /\ CrossElsewhere /\ CrossSignals /\ CrossOrder /\ CrossLast

(***************************************************************************)
(* OpenGL: the invariant.                                                  *)
(***************************************************************************)

\* The part of the assumption on the constants that OpenGL needs.
LEMMA SyncBound == MaxSyncs \in Nat /\ NoSync \notin 1..MaxSyncs
BY BackendsAssumption

\* The first states of the two threads.
LEMMA GLInit ==
  ASSUME OpenGL!ThreadsInit, value = 0
  PROVE  GLInv
<1>1. OpenGL!TypeOK
  <2>1. pending \in Seq(OpenGL!Sync \X (Nat \ {0}))
    BY EmptySeq DEF OpenGL!ThreadsInit
  <2>2. ready \in BOOLEAN /\ failed \in BOOLEAN /\ stopping \in BOOLEAN
    BY Zenon DEF OpenGL!ThreadsInit
  <2>3. made \in 0..MaxSyncs /\ signalled \in 0..made /\ deletions \in [OpenGL!Sync -> Nat]
    BY SyncBound DEF OpenGL!ThreadsInit
  <2> QED
    BY <2>1, <2>2, <2>3 DEF OpenGL!TypeOK, OpenGL!ThreadsInit, OpenGL!Nothing
<1>2. Len(pending) = 0
  BY DEF OpenGL!ThreadsInit
<1>3. GLPoints
  <2>1. OpenGL!Accepted = 0
    BY DEF OpenGL!Accepted, OpenGL!ThreadsInit
  <2>2. Taken = 0
    BY <1>2, <2>1 DEF Taken
  <2> QED
    BY <1>2, <2>1, <2>2 DEF GLPoints, OpenGL!ThreadsInit
<1>4. GLThreads /\ GLSyncs
  BY <1>2 DEF GLThreads, GLSyncs, OpenGL!ThreadsInit, OpenGL!Nothing, OpenGL!Sync
<1> QED
  BY <1>1, <1>3, <1>4 DEF GLInv

\* The steps of the producer's thread.
LEMMA GLProducer ==
  ASSUME GLInv, OpenGL!QueueCheck \/ OpenGL!Destroy \/ OpenGL!Producer
  PROVE  GLInv'
<1> USE SyncBound
    DEF GLInv, OpenGL!Nothing, OpenGL!Sync, OpenGL!flags, OpenGL!gl, OpenGL!Notified
<1>1. CASE OpenGL!QueueCheck
  <2>1. OpenGL!TypeOK'
    BY <1>1 DEF OpenGL!QueueCheck, OpenGL!TypeOK, OpenGL!Deleted
  <2>2. GLPoints'
    BY <1>1 DEF OpenGL!QueueCheck, OpenGL!TypeOK, GLPoints, Taken, OpenGL!Accepted
  <2>3. GLThreads'
    BY <1>1 DEF OpenGL!QueueCheck, OpenGL!TypeOK, GLThreads
  <2>4. GLSyncs'
    BY <1>1 DEF OpenGL!QueueCheck, OpenGL!TypeOK, GLThreads, GLSyncs, Alive, OpenGL!Deleted
  <2> QED
    BY <2>1, <2>2, <2>3, <2>4
<1>2. CASE OpenGL!Destroy
  <2>1. OpenGL!TypeOK'
    BY <1>2 DEF OpenGL!Destroy, OpenGL!TypeOK, OpenGL!Deleted
  <2>2. GLPoints'
    BY <1>2 DEF OpenGL!Destroy, OpenGL!TypeOK, GLPoints, Taken, OpenGL!Accepted
  <2>3. GLThreads'
    BY <1>2 DEF OpenGL!Destroy, OpenGL!TypeOK, GLThreads
  <2>4. GLSyncs'
    BY <1>2 DEF OpenGL!Destroy, OpenGL!TypeOK, GLThreads, GLSyncs, Alive, OpenGL!Deleted
  <2> QED
    BY <2>1, <2>2, <2>3, <2>4
<1>3. CASE OpenGL!QueueRefuse
  <2>1. OpenGL!TypeOK'
    BY <1>3 DEF OpenGL!QueueRefuse, OpenGL!TypeOK, OpenGL!Deleted
  <2>2. GLPoints'
    BY <1>3 DEF OpenGL!QueueRefuse, OpenGL!TypeOK, GLPoints, Taken, OpenGL!Accepted
  <2>3. GLThreads'
    BY <1>3 DEF OpenGL!QueueRefuse, OpenGL!TypeOK, GLThreads
  <2>4. GLSyncs'
    BY <1>3 DEF OpenGL!QueueRefuse, OpenGL!TypeOK, GLThreads, GLSyncs, Alive, OpenGL!Deleted
  <2> QED
    BY <2>1, <2>2, <2>3, <2>4
<1>4. CASE OpenGL!QueueCreate
  <2>1. OpenGL!TypeOK'
    BY <1>4 DEF OpenGL!QueueCreate, OpenGL!TypeOK, OpenGL!Deleted
  <2>2. GLPoints'
    BY <1>4 DEF OpenGL!QueueCreate, OpenGL!TypeOK, GLPoints, Taken, OpenGL!Accepted
  <2>3. GLThreads'
    BY <1>4 DEF OpenGL!QueueCreate, OpenGL!TypeOK, GLThreads
  <2>4. GLSyncs'
    <3>1. /\ producer = "checked" /\ producer' = "created" /\ held = NoSync
          /\ made' = made + 1 /\ held' = made + 1 /\ made \in Nat /\ made + 1 \in 1..MaxSyncs
          /\ UNCHANGED <<pending, worker, current, deletions>>
      BY <1>4 DEF OpenGL!QueueCreate, OpenGL!TypeOK, GLThreads
    <3>2. worker \in {"poll", "waiting", "delete"} => current[1] \in 1..made
      BY DEF GLThreads
    <3>3. worker \notin {"poll", "waiting", "delete"} => current[1] = NoSync
      BY DEF GLThreads
    <3>4. \A i \in 1..Len(pending) : pending[i][1] \in 1..made
      BY DEF GLSyncs
    <3>5. ASSUME NEW s \in 1..made' PROVE deletions'[s] = IF Alive(s)' THEN 0 ELSE 1
      <4>1. CASE s = made + 1
        BY <3>1, <4>1 DEF GLSyncs, Alive
      <4>2. CASE s \in 1..made
        <5>1. Alive(s)' <=> Alive(s)
          BY <3>1, <4>2 DEF Alive
        <5> QED
          BY <3>1, <4>2, <5>1 DEF GLSyncs
      <4> QED
        BY <3>1, <4>1, <4>2
    <3>6. \A s \in 1..MaxSyncs : s > made' => deletions'[s] = 0
      BY <3>1 DEF GLSyncs
    <3> QED
      BY <3>1, <3>2, <3>3, <3>4, <3>5, <3>6 DEF GLSyncs
  <2> QED
    BY <2>1, <2>2, <2>3, <2>4
<1>5. CASE OpenGL!QueuePush
  <2> DEFINE n == Len(pending)
  <2>1. /\ producer = "created" /\ producer' = "pushed" /\ ~stopping
        /\ held = made /\ made > 0 /\ made \in 1..MaxSyncs /\ held' = NoSync
        /\ pending' = Append(pending, <<held, value + 1>>) /\ value \in Nat
        /\ UNCHANGED <<value, ready, failed, stopping, worker, current, completed, made,
                       signalled, deletions>>
    BY <1>5 DEF OpenGL!QueuePush, OpenGL!TypeOK, GLThreads
  <2>2. <<held, value + 1>> \in OpenGL!Sync \X (Nat \ {0})
    BY <2>1
  <2>3. /\ pending \in Seq(OpenGL!Sync \X (Nat \ {0})) /\ n \in Nat
        /\ pending' \in Seq(OpenGL!Sync \X (Nat \ {0})) /\ Len(pending') = n + 1
        /\ pending'[n + 1] = <<held, value + 1>> /\ \A i \in 1..n : pending'[i] = pending[i]
    BY <2>1, <2>2 DEF OpenGL!TypeOK
  <2> HIDE DEF n
  <2>4. OpenGL!TypeOK'
    BY <2>1, <2>3 DEF OpenGL!TypeOK
  <2>5. GLPoints'
    <3>1. OpenGL!Accepted = value /\ OpenGL!Accepted' = value + 1
      BY <2>1 DEF OpenGL!Accepted
    <3>2. Taken = value - n /\ Taken' = Taken
      BY <2>1, <2>3, <3>1 DEF Taken, n
    <3>3. ASSUME NEW i \in 1..(n + 1) PROVE pending'[i][2] = Taken + i
      <4>1. CASE i = n + 1
        BY <2>1, <2>3, <3>2, <4>1
      <4>2. CASE i \in 1..n
        <5>1. pending[i][2] = Taken + i
          BY <4>2 DEF GLPoints, n
        <5> QED
          BY <2>3, <4>2, <5>1
      <4> QED
        BY <2>3, <4>1, <4>2
    <3> QED
      BY <2>1, <2>3, <3>1, <3>2, <3>3 DEF GLPoints, n
  <2>6. GLThreads'
    BY <2>1, <2>3 DEF GLThreads, n
  <2>7. GLSyncs'
    <3>1. \A i \in 1..n : pending[i][1] \in 1..made /\ pending[i][1] < made
      BY <2>1 DEF GLSyncs, n
    <3>2. ASSUME NEW i \in 1..(n + 1)
          PROVE  /\ pending'[i][1] \in 1..made
                 /\ i \in 1..n => pending'[i][1] = pending[i][1] /\ pending'[i][1] < made
                 /\ i = n + 1 => pending'[i][1] = made
      BY <2>1, <2>3, <3>1, SMTT(30)
    <3>3. ASSUME NEW s \in 1..made PROVE Alive(s)' <=> Alive(s)
      <4>1. Alive(s) <=> s = made \/ s = current[1] \/ \E i \in 1..n : pending[i][1] = s
        BY <2>1 DEF Alive, n
      <4>2. Alive(s)' <=> s = NoSync \/ s = current[1] \/ \E i \in 1..(n + 1) : pending'[i][1] = s
        BY <2>1, <2>3 DEF Alive
      <4>3. s # NoSync
        BY <2>1
      <4>4. \A i \in 1..n : i \in 1..(n + 1) /\ pending'[i][1] = pending[i][1]
        BY <2>3, SMTT(30)
      <4>5. n + 1 \in 1..(n + 1) /\ pending'[n + 1][1] = made
        BY <2>1, <2>3
      <4>6. \A i \in 1..(n + 1) : i = n + 1 \/ i \in 1..n
        BY <2>3
      <4> QED
        BY <4>1, <4>2, <4>3, <4>4, <4>5, <4>6, Zenon
    <3>4. ASSUME NEW i \in 1..(n + 1), NEW j \in 1..(n + 1), i < j
          PROVE  pending'[i][1] < pending'[j][1]
      <4>1. CASE j = n + 1
        BY <2>3, <3>2, <3>4, <4>1
      <4>2. CASE j \in 1..n
        <5>1. i \in 1..n
          BY <2>3, <3>4, <4>2
        <5>2. pending[i][1] < pending[j][1]
          BY <3>4, <4>2, <5>1 DEF GLSyncs, n
        <5> QED
          BY <2>3, <4>2, <5>1, <5>2
      <4> QED
        BY <2>3, <4>1, <4>2
    <3>5. worker \in {"poll", "waiting", "delete"} =>
            \A i \in 1..(n + 1) : current[1] < pending'[i][1]
      <4>1. worker \in {"poll", "waiting", "delete"} =>
              current[1] < made /\ \A i \in 1..n : current[1] < pending[i][1]
        BY <2>1 DEF GLSyncs, n
      <4> QED
        BY <2>3, <3>2, <4>1
    <3>6. \A s \in 1..made : deletions[s] = IF Alive(s)' THEN 0 ELSE 1
      BY <3>3 DEF GLSyncs
    <3> QED
      BY <2>1, <2>3, <3>2, <3>4, <3>5, <3>6 DEF GLSyncs
  <2> QED
    BY <2>4, <2>5, <2>6, <2>7
<1>6. CASE OpenGL!QueueGiveUp
  <2>1. /\ producer = "created" /\ producer' = "idle" /\ held = made /\ held' = NoSync
        /\ made \in 1..MaxSyncs /\ deletions \in [1..MaxSyncs -> Nat]
        /\ deletions' = [deletions EXCEPT ![made] = @ + 1]
        /\ UNCHANGED <<value, ready, failed, stopping, pending, worker, current, completed,
                       made, signalled>>
    BY <1>6 DEF OpenGL!QueueGiveUp, OpenGL!TypeOK, OpenGL!Deleted, GLThreads
  <2>2. OpenGL!TypeOK'
    <3>1. deletions' \in [1..MaxSyncs -> Nat]
      BY <2>1
    <3> QED
      BY <2>1, <3>1 DEF OpenGL!TypeOK
  <2>3. GLPoints'
    BY <2>1 DEF OpenGL!TypeOK, GLPoints, Taken, OpenGL!Accepted
  <2>4. GLThreads'
    BY <2>1 DEF GLThreads
  <2>5. GLSyncs'
    <3>1. worker \in {"poll", "waiting", "delete"} => current[1] \in 1..made /\ current[1] < made
      BY <2>1 DEF GLThreads, GLSyncs
    <3>2. worker \notin {"poll", "waiting", "delete"} => current[1] = NoSync
      BY DEF GLThreads
    <3>3. \A i \in 1..Len(pending) : pending[i][1] \in 1..made /\ pending[i][1] < made
      BY <2>1 DEF GLSyncs
    <3>4. ~Alive(made)' /\ Alive(made)
      BY <2>1, <3>1, <3>2, <3>3 DEF Alive
    <3>5. \A s \in 1..made : s # made => (Alive(s)' <=> Alive(s))
      BY <2>1 DEF Alive
    <3>6. deletions'[made] = 1 /\ \A s \in 1..MaxSyncs : s # made => deletions'[s] = deletions[s]
      BY <2>1, <3>4 DEF GLSyncs
    <3>7. \A s \in 1..made : deletions'[s] = IF Alive(s)' THEN 0 ELSE 1
      BY <2>1, <3>4, <3>5, <3>6 DEF GLSyncs
    <3> QED
      BY <2>1, <3>6, <3>7 DEF GLSyncs
  <2> QED
    BY <2>2, <2>3, <2>4, <2>5
<1>7. CASE OpenGL!QueueReturn
  <2>1. OpenGL!TypeOK'
    BY <1>7 DEF OpenGL!QueueReturn, OpenGL!TypeOK, OpenGL!Deleted
  <2>2. GLPoints'
    BY <1>7 DEF OpenGL!QueueReturn, OpenGL!TypeOK, GLPoints, Taken, OpenGL!Accepted
  <2>3. GLThreads'
    BY <1>7 DEF OpenGL!QueueReturn, OpenGL!TypeOK, GLThreads
  <2>4. GLSyncs'
    BY <1>7 DEF OpenGL!QueueReturn, OpenGL!TypeOK, GLThreads, GLSyncs, Alive, OpenGL!Deleted
  <2> QED
    BY <2>1, <2>2, <2>3, <2>4
<1>8. CASE OpenGL!DestroyNotify
  <2>1. OpenGL!TypeOK'
    BY <1>8 DEF OpenGL!DestroyNotify, OpenGL!TypeOK, OpenGL!Deleted
  <2>2. GLPoints'
    BY <1>8 DEF OpenGL!DestroyNotify, OpenGL!TypeOK, GLPoints, Taken, OpenGL!Accepted
  <2>3. GLThreads'
    BY <1>8 DEF OpenGL!DestroyNotify, OpenGL!TypeOK, GLThreads
  <2>4. GLSyncs'
    BY <1>8 DEF OpenGL!DestroyNotify, OpenGL!TypeOK, GLThreads, GLSyncs, Alive, OpenGL!Deleted
  <2> QED
    BY <2>1, <2>2, <2>3, <2>4
<1>9. CASE OpenGL!DestroyJoin
  <2>1. OpenGL!TypeOK'
    BY <1>9 DEF OpenGL!DestroyJoin, OpenGL!TypeOK, OpenGL!Deleted
  <2>2. GLPoints'
    BY <1>9 DEF OpenGL!DestroyJoin, OpenGL!TypeOK, GLPoints, Taken, OpenGL!Accepted
  <2>3. GLThreads'
    BY <1>9 DEF OpenGL!DestroyJoin, OpenGL!TypeOK, GLThreads
  <2>4. GLSyncs'
    BY <1>9 DEF OpenGL!DestroyJoin, OpenGL!TypeOK, GLThreads, GLSyncs, Alive, OpenGL!Deleted
  <2> QED
    BY <2>1, <2>2, <2>3, <2>4
<1> QED
  BY <1>1, <1>2, <1>3, <1>4, <1>5, <1>6, <1>7, <1>8, <1>9 DEF OpenGL!Producer

\* The steps of the worker's thread.
LEMMA GLWorker ==
  ASSUME GLInv, OpenGL!Worker
  PROVE  GLInv'
<1> USE SyncBound
    DEF GLInv, OpenGL!Nothing, OpenGL!Sync, OpenGL!flags, OpenGL!gl
<1>1. CASE OpenGL!WorkerBind
  <2>1. OpenGL!TypeOK'
    BY <1>1 DEF OpenGL!WorkerBind, OpenGL!TypeOK
  <2>2. GLPoints'
    BY <1>1 DEF OpenGL!WorkerBind, OpenGL!TypeOK, GLPoints, Taken, OpenGL!Accepted
  <2>3. GLThreads'
    BY <1>1 DEF OpenGL!WorkerBind, OpenGL!TypeOK, GLThreads, GLSyncs
  <2>4. GLSyncs'
    BY <1>1 DEF OpenGL!WorkerBind, OpenGL!TypeOK, GLThreads, GLSyncs, Alive
  <2> QED
    BY <2>1, <2>2, <2>3, <2>4
<1>2. CASE OpenGL!WorkerBindFails
  <2>1. OpenGL!TypeOK'
    BY <1>2 DEF OpenGL!WorkerBindFails, OpenGL!TypeOK
  <2>2. GLPoints'
    BY <1>2 DEF OpenGL!WorkerBindFails, OpenGL!TypeOK, GLPoints, Taken, OpenGL!Accepted
  <2>3. GLThreads'
    BY <1>2, SMTT(30) DEF OpenGL!WorkerBindFails, OpenGL!TypeOK, GLThreads, GLSyncs
  <2>4. GLSyncs'
    BY <1>2 DEF OpenGL!WorkerBindFails, OpenGL!TypeOK, GLThreads, GLSyncs, Alive
  <2> QED
    BY <2>1, <2>2, <2>3, <2>4
<1>3. CASE OpenGL!WorkerTake
  <2> DEFINE n == Len(pending)
  <2>1. /\ worker = "wait" /\ worker' = "poll" /\ pending # <<>> /\ current = <<NoSync, 0>>
        /\ current' = pending[1] /\ pending' = Tail(pending)
        /\ UNCHANGED <<producer, held, value, ready, failed, stopping, completed, made,
                       signalled, deletions>>
    BY <1>3 DEF OpenGL!WorkerTake, OpenGL!TypeOK, GLThreads
  <2>2. /\ pending \in Seq(OpenGL!Sync \X (Nat \ {0})) /\ n \in Nat \ {0}
        /\ pending' \in Seq(OpenGL!Sync \X (Nat \ {0})) /\ Len(pending') = n - 1
        /\ \A i \in 1..(n - 1) : i + 1 \in 1..n /\ pending'[i] = pending[i + 1]
        /\ pending[1] \in OpenGL!Sync \X (Nat \ {0})
    BY <2>1 DEF OpenGL!TypeOK
  <2>3. /\ \A i \in 1..n : pending[i][1] \in 1..made
        /\ \A i, j \in 1..n : i < j => pending[i][1] < pending[j][1]
    BY DEF GLSyncs
  <2> HIDE DEF n
  <2>4. OpenGL!TypeOK'
    BY <2>1, <2>2 DEF OpenGL!TypeOK
  <2>5. GLPoints'
    <3>1. /\ OpenGL!Accepted' = OpenGL!Accepted /\ OpenGL!Accepted \in Nat
          /\ Taken = OpenGL!Accepted - n /\ Taken' = Taken + 1
      <4>1. OpenGL!Accepted' = OpenGL!Accepted /\ OpenGL!Accepted \in Nat
        BY <2>1 DEF OpenGL!Accepted, OpenGL!TypeOK
      <4> QED
        BY <2>2, <4>1 DEF Taken, n
    <3>2. n <= OpenGL!Accepted /\ \A i \in 1..n : pending[i][2] = Taken + i
      BY DEF GLPoints, n
    <3>3. \A i \in 1..(n - 1) : pending'[i][2] = (Taken + 1) + i
      <4> SUFFICES ASSUME NEW i \in 1..(n - 1) PROVE pending'[i][2] = (Taken + 1) + i
        OBVIOUS
      <4>1. pending'[i] = pending[i + 1] /\ pending[i + 1][2] = Taken + (i + 1)
        BY <2>2, <3>2
      <4>2. Taken \in Int
        BY <2>2, <3>1
      <4> QED
        BY <4>1, <4>2
    <3>4. current'[2] = Taken + 1
      BY <2>1, <2>2, <3>2
    <3>5. completed <= Taken /\ (~stopping => completed = Taken) /\ completed \in Nat
      BY <2>1 DEF GLPoints, OpenGL!TypeOK
    <3>6. OpenGL!Accepted + (IF producer = "created" THEN 1 ELSE 0) <= made
      BY DEF GLPoints
    <3> QED
      BY <2>1, <2>2, <3>1, <3>2, <3>3, <3>4, <3>5, <3>6 DEF GLPoints
  <2>6. GLThreads'
    BY <2>1, <2>2, <2>3 DEF GLThreads
  <2>7. GLSyncs'
    <3>1. ASSUME NEW i \in 1..(n - 1)
          PROVE  pending'[i][1] \in 1..made /\ current'[1] < pending'[i][1]
      <4>1. n \in Nat /\ i + 1 \in 1..n /\ pending'[i] = pending[i + 1]
        BY <2>2
      <4>2. 1 \in 1..n /\ 1 < i + 1
        BY <4>1
      <4> QED
        BY <2>1, <2>3, <4>1, <4>2
    <3>2. ASSUME NEW i \in 1..(n - 1), NEW j \in 1..(n - 1), i < j
          PROVE  pending'[i][1] < pending'[j][1]
      <4>1. /\ i + 1 \in 1..n /\ j + 1 \in 1..n
            /\ pending'[i] = pending[i + 1] /\ pending'[j] = pending[j + 1]
        BY <2>2
      <4>2. i + 1 < j + 1
        BY <2>2, <3>2
      <4> QED
        BY <2>3, <4>1, <4>2
    <3>3. ASSUME NEW s \in 1..made PROVE Alive(s)' <=> Alive(s)
      <4>1. Alive(s) <=> s = held \/ \E i \in 1..n : pending[i][1] = s
        <5>1. current[1] # s
          BY <2>1 DEF OpenGL!TypeOK
        <5> QED
          BY <5>1, Zenon DEF Alive, n
      <4>2. Alive(s)' <=> s = held \/ s = pending[1][1] \/ \E i \in 1..(n - 1) : pending'[i][1] = s
        BY <2>1, <2>2 DEF Alive
      <4>3. \A i \in 1..(n - 1) : i + 1 \in 1..n /\ pending'[i][1] = pending[i + 1][1]
        BY <2>2
      <4>4. ASSUME NEW i \in 1..n
            PROVE  i = 1 \/ (i - 1 \in 1..(n - 1) /\ pending'[i - 1][1] = pending[i][1])
        <5>1. i = 1 \/ (i - 1 \in 1..(n - 1) /\ (i - 1) + 1 = i)
          BY <2>2
        <5> QED
          BY <4>3, <5>1
      <4>5. 1 \in 1..n
        BY <2>2
      <4> QED
        BY <4>1, <4>2, <4>3, <4>4, <4>5, Zenon
    <3>4. \A s \in 1..made : deletions[s] = IF Alive(s)' THEN 0 ELSE 1
      BY <3>3 DEF GLSyncs
    <3>5. producer = "created" =>
            current'[1] < held /\ \A i \in 1..(n - 1) : pending'[i][1] < held
      <4>1. producer = "created" => \A i \in 1..n : pending[i][1] < held
        BY DEF GLSyncs, n
      <4>2. 1 \in 1..n
        BY <2>2
      <4> QED
        BY <2>1, <2>2, <4>1, <4>2
    <3> QED
      BY <2>1, <2>2, <3>1, <3>2, <3>4, <3>5 DEF GLSyncs
  <2> QED
    BY <2>4, <2>5, <2>6, <2>7
<1>4. CASE OpenGL!WorkerRest
  <2>1. OpenGL!TypeOK'
    BY <1>4 DEF OpenGL!WorkerRest, OpenGL!TypeOK
  <2>2. GLPoints'
    BY <1>4 DEF OpenGL!WorkerRest, OpenGL!TypeOK, GLPoints, Taken, OpenGL!Accepted
  <2>3. GLThreads'
    BY <1>4 DEF OpenGL!WorkerRest, OpenGL!TypeOK, GLThreads, GLSyncs
  <2>4. GLSyncs'
    BY <1>4 DEF OpenGL!WorkerRest, OpenGL!TypeOK, GLThreads, GLSyncs, Alive
  <2> QED
    BY <2>1, <2>2, <2>3, <2>4
<1>5. CASE OpenGL!WorkerPoll
  <2>1. OpenGL!TypeOK'
    BY <1>5 DEF OpenGL!WorkerPoll, OpenGL!TypeOK
  <2>2. GLPoints'
    BY <1>5 DEF OpenGL!WorkerPoll, OpenGL!TypeOK, GLPoints, Taken, OpenGL!Accepted
  <2>3. GLThreads'
    BY <1>5 DEF OpenGL!WorkerPoll, OpenGL!TypeOK, GLThreads, GLSyncs
  <2>4. GLSyncs'
    BY <1>5 DEF OpenGL!WorkerPoll, OpenGL!TypeOK, GLThreads, GLSyncs, Alive
  <2> QED
    BY <2>1, <2>2, <2>3, <2>4
<1>6. CASE OpenGL!WorkerSignalled
  <2>1. OpenGL!TypeOK'
    BY <1>6 DEF OpenGL!WorkerSignalled, OpenGL!TypeOK
  <2>2. GLPoints'
    BY <1>6 DEF OpenGL!WorkerSignalled, OpenGL!TypeOK, GLPoints, Taken, OpenGL!Accepted
  <2>3. GLThreads'
    BY <1>6 DEF OpenGL!WorkerSignalled, OpenGL!TypeOK, GLThreads, GLSyncs
  <2>4. GLSyncs'
    BY <1>6 DEF OpenGL!WorkerSignalled, OpenGL!TypeOK, GLThreads, GLSyncs, Alive
  <2> QED
    BY <2>1, <2>2, <2>3, <2>4
<1>7. CASE OpenGL!WorkerTimeout
  <2>1. OpenGL!TypeOK'
    BY <1>7 DEF OpenGL!WorkerTimeout, OpenGL!TypeOK
  <2>2. GLPoints'
    BY <1>7 DEF OpenGL!WorkerTimeout, OpenGL!TypeOK, GLPoints, Taken, OpenGL!Accepted
  <2>3. GLThreads'
    BY <1>7 DEF OpenGL!WorkerTimeout, OpenGL!TypeOK, GLThreads, GLSyncs
  <2>4. GLSyncs'
    BY <1>7 DEF OpenGL!WorkerTimeout, OpenGL!TypeOK, GLThreads, GLSyncs, Alive
  <2> QED
    BY <2>1, <2>2, <2>3, <2>4
<1>8. CASE OpenGL!WorkerError
  <2>1. OpenGL!TypeOK'
    BY <1>8 DEF OpenGL!WorkerError, OpenGL!TypeOK
  <2>2. GLPoints'
    BY <1>8 DEF OpenGL!WorkerError, OpenGL!TypeOK, GLPoints, Taken, OpenGL!Accepted
  <2>3. GLThreads'
    BY <1>8 DEF OpenGL!WorkerError, OpenGL!TypeOK, GLThreads, GLSyncs
  <2>4. GLSyncs'
    BY <1>8 DEF OpenGL!WorkerError, OpenGL!TypeOK, GLThreads, GLSyncs, Alive
  <2> QED
    BY <2>1, <2>2, <2>3, <2>4
<1>9. CASE OpenGL!WorkerDelete
  <2> PICK c : c = current[1]
    OBVIOUS
  <2>1. /\ worker = "delete" /\ worker' = "wait" /\ current' = <<NoSync, 0>>
        /\ c \in 1..made /\ made \in 0..MaxSyncs /\ c \in 1..MaxSyncs
        /\ deletions \in [1..MaxSyncs -> Nat] /\ deletions' = [deletions EXCEPT ![c] = @ + 1]
        /\ UNCHANGED <<producer, held, value, ready, failed, stopping, pending, completed, made,
                       signalled>>
    BY <1>9 DEF OpenGL!WorkerDelete, OpenGL!TypeOK, OpenGL!Deleted, GLThreads
  <2>2. OpenGL!TypeOK'
    <3>1. deletions' \in [1..MaxSyncs -> Nat]
      BY <2>1
    <3> QED
      BY <2>1, <3>1 DEF OpenGL!TypeOK
  <2>3. GLPoints'
    BY <2>1 DEF OpenGL!TypeOK, GLPoints, Taken, OpenGL!Accepted
  <2>4. GLThreads'
    BY <2>1 DEF GLThreads
  <2>5. GLSyncs'
    <3>1. \A i \in 1..Len(pending) : pending[i][1] \in 1..made /\ c < pending[i][1]
      BY <2>1 DEF GLSyncs
    <3>2. held # c
      <4>1. producer = "created" => c < held
        BY <2>1 DEF GLSyncs
      <4> QED
        BY <2>1, <4>1 DEF GLThreads
    <3>3. ~Alive(c)' /\ \A s \in 1..made : s # c => (Alive(s)' <=> Alive(s))
      <4>1. \A s : Alive(s)' <=> s = held \/ s = NoSync \/ \E i \in 1..Len(pending) : pending[i][1] = s
        BY <2>1 DEF Alive
      <4>2. \A s : Alive(s) <=> s = held \/ s = c \/ \E i \in 1..Len(pending) : pending[i][1] = s
        BY DEF Alive
      <4>3. c # NoSync /\ \A s \in 1..made : s # NoSync
        BY <2>1
      <4>4. \A i \in 1..Len(pending) : pending[i][1] # c
        BY <2>1, <3>1
      <4> QED
        BY <2>1, <3>2, <4>1, <4>2, <4>3, <4>4, Zenon
    <3>4. deletions[c] = 0
      BY <2>1 DEF GLSyncs, Alive
    <3>5. deletions'[c] = 1 /\ \A s \in 1..MaxSyncs : s # c => deletions'[s] = deletions[s]
      BY <2>1, <3>4
    <3>6. ASSUME NEW s \in 1..made PROVE deletions'[s] = IF Alive(s)' THEN 0 ELSE 1
      <4>1. s \in 1..MaxSyncs /\ deletions[s] = IF Alive(s) THEN 0 ELSE 1
        BY <2>1 DEF GLSyncs
      <4> QED
        BY <3>3, <3>5, <4>1, Zenon
    <3> QED
      BY <2>1, <3>5, <3>6 DEF GLSyncs
  <2> QED
    BY <2>2, <2>3, <2>4, <2>5
<1> QED
  BY <1>1, <1>2, <1>3, <1>4, <1>5, <1>6, <1>7, <1>8, <1>9 DEF OpenGL!Worker

\* Every step of the backend.
LEMMA GLStep ==
  ASSUME GLInv, OpenGL!Next
  PROVE  GLInv'
<1>1. CASE OpenGL!GpuSignals
  <2>1. OpenGL!TypeOK'
    BY <1>1, SyncBound DEF OpenGL!GpuSignals, OpenGL!flags, GLInv, OpenGL!TypeOK
  <2> QED
    BY <1>1, <2>1 DEF OpenGL!GpuSignals, OpenGL!flags, GLInv, GLPoints, Taken, OpenGL!Accepted,
                     GLThreads, OpenGL!Nothing, GLSyncs, Alive
<1> QED
  BY <1>1, GLProducer, GLWorker DEF OpenGL!Next

\* A sync object lies in the queue once at most, and is nowhere else then.
LEMMA GLHolder == GLInv => EverySyncHasOneHolder
<1> SUFFICES ASSUME GLInv, NEW s \in 1..made
             PROVE  LET inQueue == {i \in 1..Len(pending) : pending[i][1] = s}
                    IN  deletions[s] + Cardinality(inQueue)
                          + (IF held = s THEN 1 ELSE 0) + (IF current[1] = s THEN 1 ELSE 0) = 1
  BY DEF EverySyncHasOneHolder
<1> DEFINE inQueue == {i \in 1..Len(pending) : pending[i][1] = s}
<1>1. deletions[s] = IF Alive(s) THEN 0 ELSE 1
  BY DEF GLInv, GLSyncs
<1>2. s \in Nat /\ s # NoSync
  BY SyncBound DEF GLInv, OpenGL!TypeOK
<1>3. Len(pending) \in Nat /\ \A i \in 1..Len(pending) : pending[i][1] \in Nat
  <2>1. pending \in Seq(OpenGL!Sync \X (Nat \ {0}))
    BY DEF GLInv, OpenGL!TypeOK
  <2> QED
    BY <2>1 DEF OpenGL!Sync
<1>4. CASE \E i \in 1..Len(pending) : pending[i][1] = s
  <2>1. PICK i \in 1..Len(pending) : pending[i][1] = s
    BY <1>4
  <2>2. ASSUME NEW j \in 1..Len(pending), pending[j][1] = s PROVE j = i
    <3>1. \A k, l \in 1..Len(pending) : k < l => pending[k][1] < pending[l][1]
      BY DEF GLInv, GLSyncs
    <3>2. ~(i < j) /\ ~(j < i)
      BY <1>2, <2>1, <2>2, <3>1
    <3> QED
      BY <1>3, <3>2
  <2>3. inQueue = {i}
    BY <2>1, <2>2
  <2>4. Cardinality(inQueue) = 1
    BY <2>3, FS_Singleton
  <2>5. held # s
    <3>1. producer = "created" => pending[i][1] < held
      BY DEF GLInv, GLSyncs
    <3> QED
      BY <1>2, <2>1, <3>1 DEF GLInv, GLThreads
  <2>6. current[1] # s
    <3>1. worker \in {"poll", "waiting", "delete"} => current[1] < pending[i][1]
      BY DEF GLInv, GLSyncs
    <3>2. worker \notin {"poll", "waiting", "delete"} => current[1] = NoSync
      BY DEF GLInv, GLThreads, OpenGL!Nothing
    <3> QED
      BY <1>2, <2>1, <3>1, <3>2
  <2>7. Alive(s)
    BY <2>1 DEF Alive
  <2>8. deletions[s] = 0
    BY <1>1, <2>7
  <2> QED
    BY <2>4, <2>5, <2>6, <2>8
<1>5. CASE ~\E i \in 1..Len(pending) : pending[i][1] = s
  <2>1. inQueue = {}
    BY <1>5
  <2>2. Cardinality(inQueue) = 0
    BY <2>1, FS_EmptySet
  <2>3. Alive(s) <=> held = s \/ current[1] = s
    BY <1>5 DEF Alive
  <2>4. ~(held = s /\ current[1] = s)
    <3>1. producer = "created" /\ worker \in {"poll", "waiting", "delete"} => current[1] < held
      BY DEF GLInv, GLSyncs
    <3>2. worker \notin {"poll", "waiting", "delete"} => current[1] = NoSync
      BY DEF GLInv, GLThreads, OpenGL!Nothing
    <3>3. producer # "created" => held = NoSync
      BY DEF GLInv, GLThreads
    <3> QED
      BY <1>2, <3>1, <3>2, <3>3
  <2> QED
    BY <1>1, <2>2, <2>3, <2>4
<1> QED
  BY <1>4, <1>5

\* The worker that has ended holds nothing, nor does the queue or the destructor.
LEMMA GLGone == GLInv => NoSyncOutlivesTheContext
<1> SUFFICES ASSUME GLInv, producer = "destroyed", NEW s \in 1..made
             PROVE  deletions[s] = 1
  BY DEF NoSyncOutlivesTheContext
<1>1. worker = "ended" /\ pending = <<>> /\ held = NoSync /\ current[1] = NoSync
  BY DEF GLInv, GLThreads, OpenGL!Nothing
<1>2. s # NoSync
  BY SyncBound DEF GLInv, OpenGL!TypeOK
<1>3. ~Alive(s)
  BY <1>1, <1>2 DEF Alive
<1> QED
  BY <1>3 DEF GLInv, GLSyncs

\* Only a signal the worker has seen completes a point, and it completes the next one.
LEMMA GLCompletes ==
  ASSUME GLInv, OpenGL!Next, completed' # completed
  PROVE  /\ worker = "waiting" /\ current[1] \in 1..signalled /\ deletions[current[1]] = 0
         /\ current = <<current[1], completed'>> /\ completed' = completed + 1
         /\ completed' <= OpenGL!Accepted
         /\ UNCHANGED <<OpenGL!Accepted, stopping>>
<1>1. OpenGL!WorkerSignalled
  BY DEF OpenGL!Next, OpenGL!Producer, OpenGL!Worker, OpenGL!QueueCheck, OpenGL!Destroy,
         OpenGL!QueueRefuse, OpenGL!QueueCreate, OpenGL!QueuePush, OpenGL!QueueGiveUp,
         OpenGL!QueueReturn, OpenGL!DestroyNotify, OpenGL!DestroyJoin, OpenGL!WorkerBind,
         OpenGL!WorkerBindFails, OpenGL!WorkerTake, OpenGL!WorkerRest, OpenGL!WorkerPoll,
         OpenGL!WorkerTimeout, OpenGL!WorkerError, OpenGL!WorkerDelete, OpenGL!GpuSignals
<1>2. /\ worker = "waiting" /\ current[1] <= signalled /\ completed' = current[2]
      /\ UNCHANGED <<producer, value, stopping>>
  BY <1>1 DEF OpenGL!WorkerSignalled, OpenGL!flags
<1>3. current \in (1..made) \X Nat /\ signalled \in 0..made /\ made \in Nat
  BY <1>2 DEF GLInv, GLThreads, OpenGL!TypeOK
<1>4. current[1] \in 1..signalled /\ current = <<current[1], completed'>>
  BY <1>2, <1>3
<1>5. deletions[current[1]] = 0
  BY <1>3 DEF GLInv, GLSyncs, Alive
<1>6. current[2] = Taken /\ completed + 1 = Taken
  BY <1>2 DEF GLInv, GLPoints
<1>7. Len(pending) \in Nat /\ OpenGL!Accepted \in Nat
  BY DEF GLInv, OpenGL!TypeOK, OpenGL!Accepted
<1>8. Taken <= OpenGL!Accepted
  BY <1>7 DEF Taken
<1>9. UNCHANGED OpenGL!Accepted
  BY <1>2 DEF OpenGL!Accepted
<1> QED
  BY <1>2, <1>4, <1>5, <1>6, <1>8, <1>9

(***************************************************************************)
(* Queues: how a meter follows what is put into a queue and taken out.      *)
(***************************************************************************)

\* The parts of a queue without its first command.
LEMMA TailParts ==
  ASSUME NEW S, NEW cmds \in Seq(S), cmds # <<>>
  PROVE  /\ Len(cmds) \in Nat \ {0} /\ Tail(cmds) \in Seq(S)
         /\ Len(Tail(cmds)) = Len(cmds) - 1 /\ Head(cmds) = cmds[1] /\ cmds[1] \in S
         /\ \A i \in 1..(Len(cmds) - 1) : i + 1 \in 1..Len(cmds) /\ Tail(cmds)[i] = cmds[i + 1]
OBVIOUS

\* The parts of a queue to which commands are added.
LEMMA AddedParts ==
  ASSUME NEW S, NEW cmds \in Seq(S), NEW new \in Seq(S)
  PROVE  /\ cmds \o new \in Seq(S) /\ Len(cmds) \in Nat /\ Len(new) \in Nat
         /\ Len(cmds \o new) = Len(cmds) + Len(new)
         /\ \A i \in 1..Len(cmds) : (cmds \o new)[i] = cmds[i]
         /\ \A i \in 1..Len(new) : (cmds \o new)[Len(cmds) + i] = new[i]
OBVIOUS

\* A queue without its first command.
Shorter(cmds, rest) ==
  /\ Len(cmds) \in Nat \ {0} /\ Len(rest) = Len(cmds) - 1
  /\ \A i \in 1..Len(rest) : i + 1 \in 1..Len(cmds) /\ rest[i] = cmds[i + 1]

Shifted(h, g) == \A i \in Nat : h[i] = g[i + 1]

\* The meter has counted the first command when it is executed.
LEMMA MeterTail ==
  ASSUME NEW cmds, NEW rest, NEW done \in Nat, NEW given \in Nat, NEW g \in [Nat -> Nat],
         Shorter(cmds, rest), Meter(cmds, g, done, given)
  PROVE  \E h \in [Nat -> Nat] : Meter(rest, h, g[1], given) /\ Shifted(h, g)
<1> DEFINE h == [i \in Nat |-> g[i + 1]]
           n == Len(cmds)
<1>1. /\ n \in Nat \ {0} /\ Len(rest) = n - 1
      /\ \A i \in 1..(n - 1) : i + 1 \in 1..n /\ rest[i] = cmds[i + 1]
  BY DEF Shorter
<1>2. /\ g \in [Nat -> Nat] /\ g[0] = done /\ g[n] = given
      /\ \A i \in 1..n : g[i] = g[i - 1] + (IF cmds[i].op = "work" THEN 1 ELSE 0) /\ g[i] <= given
  BY DEF Meter
<1>3. n \in Nat \ {0}
  BY <1>1
<1>4. h \in [Nat -> Nat] /\ h[0] = g[1] /\ h[n - 1] = given
  <2>1. \A i \in Nat : i + 1 \in Nat
    OBVIOUS
  <2>2. h \in [Nat -> Nat]
    BY <1>2, <2>1
  <2>3. n - 1 \in Nat /\ (n - 1) + 1 = n
    BY <1>1
  <2>4. h[n - 1] = g[n]
    BY <2>3
  <2>5. h[0] = g[1]
    OBVIOUS
  <2> QED
    BY <1>2, <2>2, <2>4, <2>5
<1>5. \A i \in Nat : h[i] = g[i + 1]
  OBVIOUS
<1> HIDE DEF h, n
<1>6. ASSUME NEW i \in 1..(n - 1)
      PROVE  h[i] = h[i - 1] + (IF rest[i].op = "work" THEN 1 ELSE 0) /\ h[i] <= given
  <2>1. i + 1 \in 1..n /\ rest[i] = cmds[i + 1]
    BY <1>1
  <2>2. i \in Nat /\ i - 1 \in Nat /\ (i - 1) + 1 = i /\ (i + 1) - 1 = i
    BY <1>3
  <2>3. h[i] = g[i + 1] /\ h[i - 1] = g[i]
    BY <1>5, <2>2
  <2>4. /\ g[i + 1] = g[(i + 1) - 1] + (IF cmds[i + 1].op = "work" THEN 1 ELSE 0)
        /\ g[i + 1] <= given
    BY <1>2, <2>1
  <2> QED
    BY <2>1, <2>2, <2>3, <2>4
<1>7. Meter(rest, h, g[1], given)
  BY <1>1, <1>4, <1>6 DEF Meter
<1>8. Shifted(h, g)
  BY <1>5 DEF Shifted
<1> QED
  BY <1>4, <1>7, <1>8

\* Commands are added to a queue, k of them work, and that one comes first.
Longer(cmds, all, k) ==
  /\ Len(cmds) \in Nat /\ Len(all) \in Nat /\ Len(cmds) < Len(all)
  /\ \A i \in 1..Len(cmds) : all[i] = cmds[i]
  /\ all[Len(cmds) + 1].op = "work" <=> k = 1
  /\ \A i \in (Len(cmds) + 2)..Len(all) : all[i].op # "work"

\* The meter of the longer queue goes on where the other one ends.
GoesOn(h, g, cmds, all, total) ==
  /\ \A i \in 1..Len(cmds) : h[i] = g[i]
  /\ \A i \in (Len(cmds) + 1)..Len(all) : h[i] = total

\* The meter goes on to count where commands are added.
LEMMA MeterAdd ==
  ASSUME NEW cmds, NEW all, NEW done \in Nat, NEW given \in Nat, NEW k \in {0, 1}, NEW g,
         Longer(cmds, all, k), Meter(cmds, g, done, given)
  PROVE  \E h \in [Nat -> Nat] :
           Meter(all, h, done, given + k) /\ GoesOn(h, g, cmds, all, given + k)
<1> DEFINE h == [i \in Nat |-> IF i <= Len(cmds) THEN g[i] ELSE given + k]
           n == Len(cmds)
           m == Len(all)
<1>1. n \in Nat /\ m \in Nat /\ n < m /\ given + k \in Nat /\ given <= given + k
  BY DEF Longer
<1>2. /\ g \in [Nat -> Nat] /\ g[0] = done /\ g[n] = given
      /\ \A i \in 1..n : g[i] = g[i - 1] + (IF cmds[i].op = "work" THEN 1 ELSE 0) /\ g[i] <= given
  BY DEF Meter
<1>3. \A i \in Nat : h[i] = IF i <= n THEN g[i] ELSE given + k
  OBVIOUS
<1>4. h \in [Nat -> Nat]
  BY <1>1, <1>2
<1>5. \A i \in 1..n : all[i] = cmds[i]
  BY DEF Longer
<1>6. all[n + 1].op = "work" <=> k = 1
  BY DEF Longer
<1>7. \A i \in (n + 2)..m : all[i].op # "work"
  BY DEF Longer
<1> HIDE DEF h, n, m
<1>8. \A i \in Nat : (i <= n => h[i] = g[i]) /\ (i > n => h[i] = given + k)
  <2>1. \A i \in Nat : i > n => ~(i <= n)
    BY <1>1
  <2> QED
    BY <1>3, <2>1
<1>9. \A i \in (n + 1)..m : h[i] = given + k
  <2>1. \A i \in (n + 1)..m : i \in Nat /\ i > n
    BY <1>1
  <2> QED
    BY <1>8, <2>1
<1>10. \A i \in 1..n : h[i] = g[i] /\ h[i - 1] = g[i - 1]
  <2>1. \A i \in 1..n : i \in Nat /\ i <= n /\ i - 1 \in Nat /\ i - 1 <= n
    BY <1>1
  <2> QED
    BY <1>8, <2>1
<1>11. h[0] = done /\ h[n] = given /\ h[m] = given + k
  <2>1. 0 \in Nat /\ 0 <= n /\ n <= n /\ m > n
    BY <1>1
  <2> QED
    BY <1>1, <1>2, <1>8, <2>1
<1>12. ASSUME NEW i \in 1..m
       PROVE  h[i] = h[i - 1] + (IF all[i].op = "work" THEN 1 ELSE 0) /\ h[i] <= given + k
  <2>1. CASE i \in 1..n
    <3>1. h[i] = g[i] /\ h[i - 1] = g[i - 1] /\ all[i] = cmds[i]
      BY <1>5, <1>10, <2>1
    <3>2. g[i] = g[i - 1] + (IF cmds[i].op = "work" THEN 1 ELSE 0) /\ g[i] <= given
      BY <1>2, <2>1
    <3>3. i \in Nat /\ g[i] \in Nat
      <4>1. i \in Nat
        BY <1>1, <2>1
      <4> QED
        BY <1>2, <4>1
    <3>4. g[i] <= given + k
      BY <3>2, <3>3
    <3> QED
      BY <3>1, <3>2, <3>4
  <2>2. CASE i = n + 1
    <3>1. i - 1 = n /\ i \in (n + 1)..m
      BY <1>1, <2>2
    <3>2. h[i - 1] = given /\ h[i] = given + k
      BY <1>9, <1>11, <3>1
    <3>3. all[i].op = "work" <=> k = 1
      BY <1>6, <2>2
    <3>4. given + k = given + (IF all[i].op = "work" THEN 1 ELSE 0)
      BY <3>3
    <3> QED
      BY <1>1, <3>2, <3>4
  <2>3. CASE i \in (n + 2)..m
    <3>1. i \in (n + 1)..m /\ i - 1 \in (n + 1)..m
      BY <1>1, <2>3
    <3>2. h[i] = given + k /\ h[i - 1] = given + k
      BY <1>9, <3>1
    <3>3. all[i].op # "work"
      BY <1>7, <2>3
    <3> QED
      BY <1>1, <3>2, <3>3
  <2> QED
    BY <1>1, <2>1, <2>2, <2>3
<1>13. Meter(all, h, done, given + k)
  BY <1>4, <1>11, <1>12 DEF Meter, m
<1>14. GoesOn(h, g, cmds, all, given + k)
  BY <1>9, <1>10 DEF GoesOn, n, m
<1> QED
  BY <1>4, <1>13, <1>14

\* Commands are added to one of the queues.
LEMMA Added ==
  ASSUME NEW Q, NEW S, NEW cs \in [Q -> Seq(S)], NEW q \in Q, NEW new \in Seq(S), NEW ds,
         ds = [cs EXCEPT ![q] = @ \o new]
  PROVE  /\ ds \in [Q -> Seq(S)] /\ ds[q] = cs[q] \o new
         /\ Len(cs[q]) \in Nat /\ Len(new) \in Nat /\ Len(ds[q]) = Len(cs[q]) + Len(new)
         /\ \A i \in 1..Len(cs[q]) : ds[q][i] = cs[q][i]
         /\ \A i \in 1..Len(new) : ds[q][Len(cs[q]) + i] = new[i]
         /\ \A c \in Q : c # q => ds[c] = cs[c]
<1>1. cs[q] \in Seq(S) /\ cs[q] \o new \in Seq(S)
  BY AddedParts
<1>2. ds[q] = cs[q] \o new /\ \A c \in Q : c # q => ds[c] = cs[c]
  OBVIOUS
<1>3. ds \in [Q -> Seq(S)]
  BY <1>1
<1> QED
  BY <1>1, <1>2, <1>3, AddedParts

\* One of the queues loses its first command.
LEMMA Removed ==
  ASSUME NEW Q, NEW S, NEW cs \in [Q -> Seq(S)], NEW q \in Q, cs[q] # <<>>, NEW ds,
         ds = [cs EXCEPT ![q] = Tail(@)]
  PROVE  /\ ds \in [Q -> Seq(S)] /\ ds[q] = Tail(cs[q]) /\ Head(cs[q]) = cs[q][1]
         /\ cs[q][1] \in S /\ Len(cs[q]) \in Nat \ {0} /\ Len(ds[q]) = Len(cs[q]) - 1
         /\ \A i \in 1..Len(ds[q]) : i + 1 \in 1..Len(cs[q]) /\ ds[q][i] = cs[q][i + 1]
         /\ \A c \in Q : c # q => ds[c] = cs[c]
<1>1. cs[q] \in Seq(S) /\ Tail(cs[q]) \in Seq(S)
  BY TailParts
<1>2. ds[q] = Tail(cs[q]) /\ \A c \in Q : c # q => ds[c] = cs[c]
  OBVIOUS
<1>3. ds \in [Q -> Seq(S)]
  BY <1>1
<1> QED
  BY <1>1, <1>2, <1>3, TailParts

(***************************************************************************)
(* D3D9 and D3D10: the invariant.                                          *)
(***************************************************************************)

\* The part of the assumption on the constants that this backend needs.
LEMMA KernelBound == Joined \in Nat /\ KernelPoints \in Nat /\ MaxWork \in Nat
BY BackendsAssumption

\* The commands of a context, by what they do.
LEMMA KernelCommands ==
  ASSUME NEW x \in Kernel!Command
  PROVE  /\ x.op \in {"work", "signal", "wait"}
         /\ x.op = "signal" => /\ x.fence \in 0..Joined /\ x.value \in 1..KernelPoints
                               /\ x = Kernel!SignalOf(x.fence, x.value)
         /\ x.op = "wait" => /\ x.fence \in 0..Joined /\ x.value \in 1..KernelPoints
                             /\ x = Kernel!WaitFor(x.fence, x.value)
BY DEF Kernel!Command, Kernel!Work, Kernel!SignalOf, Kernel!WaitFor, Kernel!Context

\* Nothing is submitted yet.
LEMMA KernelFirst ==
  ASSUME Kernel!CallInit, Kernel!ContextsInit
  PROVE  KernelInv
<1> USE KernelBound
<1>1. /\ commands = [c \in 0..Joined |-> <<>>] /\ reached = [c \in 0..Joined |-> 0]
      /\ submitted = [c \in 0..Joined |-> 0] /\ retired = [c \in 0..Joined |-> 0]
      /\ value = [c \in 0..Joined |-> 0]
      /\ owed = [p \in 1..KernelPoints |-> [c \in 0..Joined |-> 0]]
      /\ next = 0 /\ phase = "idle" /\ valid = TRUE
  BY DEF Kernel!CallInit, Kernel!ContextsInit, Kernel!GpuInit, Kernel!Context, Kernel!Primary
<1>2. Kernel!TypeOK
  <2>1. <<>> \in Seq(Kernel!Command)
    BY EmptySeq
  <2>2. commands \in [0..Joined -> Seq(Kernel!Command)]
    BY <1>1, <2>1
  <2>3. valid \in BOOLEAN
    BY <1>1, Zenon
  <2>4. 0 \in 0..Joined /\ 0 \in 0..KernelPoints /\ 0 \in 0..MaxWork
    OBVIOUS
  <2> QED
    BY <1>1, <2>2, <2>3, <2>4 DEF Kernel!TypeOK, Kernel!Context
<1>3. \A c \in 0..Joined : commands[c] = <<>> /\ Len(commands[c]) = 0
  BY <1>1
<1>4. KernelWork
  <2> DEFINE g == [i \in Nat |-> 0]
  <2>1. \A c \in 0..Joined : Meter(commands[c], g, retired[c], submitted[c])
    <3>1. g \in [Nat -> Nat] /\ g[0] = 0
      OBVIOUS
    <3>2. \A c \in 0..Joined : retired[c] = 0 /\ submitted[c] = 0 /\ Len(commands[c]) = 0
      BY <1>1, <1>3
    <3> QED
      BY <3>1, <3>2 DEF Meter
  <2>2. g \in [Nat -> Nat]
    OBVIOUS
  <2> HIDE DEF g
  <2>3. \A c \in 0..Joined : retired[c] = 0 /\ submitted[c] = 0 /\ reached[c] = 0
                             /\ \A p \in 1..KernelPoints : owed[p][c] = 0
    BY <1>1
  <2>4. ASSUME NEW c \in 0..Joined
        PROVE  \E k \in [Nat -> Nat] :
                 /\ Meter(commands[c], k, retired[c], submitted[c])
                 /\ \A i \in 1..Len(commands[c]) : commands[c][i].op = "signal" =>
                      \A p \in 1..commands[c][i].value : owed[p][c] <= k[i]
    <3>1. \A i \in 1..Len(commands[c]) : FALSE
      BY <1>3
    <3> QED
      BY <2>1, <2>2, <3>1, Zenon
  <2>5. ASSUME NEW c \in 0..Joined
        PROVE  /\ \A p \in 1..reached[c] : owed[p][c] <= retired[c]
               /\ \A p \in 1..KernelPoints : owed[p][c] <= submitted[c]
               /\ retired[c] <= submitted[c]
    BY <2>3
  <2> QED
    BY <2>4, <2>5, Zenon DEF KernelWork
<1>5. KernelSignals /\ KernelWaits /\ KernelCall
  <2>1. \A c \in 0..Joined : reached[c] = 0 /\ value[c] = 0
    BY <1>1
  <2> QED
    BY <1>1, <1>3, <2>1 DEF KernelSignals, KernelWaits, KernelCall
<1> QED
  BY <1>2, <1>4, <1>5 DEF KernelInv

\* The types of the backend's variables, over the contexts themselves.
LEMMA KernelTypes ==
  KernelInv =>
    /\ commands \in [0..Joined -> Seq(Kernel!Command)]
    /\ reached \in [0..Joined -> 0..KernelPoints] /\ value \in [0..Joined -> 0..KernelPoints]
    /\ submitted \in [0..Joined -> 0..MaxWork] /\ retired \in [0..Joined -> 0..MaxWork]
    /\ owed \in [1..KernelPoints -> [0..Joined -> 0..MaxWork]]
    /\ next \in 0..Joined /\ phase \in {"idle", "signal", "wait"}
BY DEF KernelInv, Kernel!TypeOK, Kernel!Context

\* What is counted for each context.
LEMMA KernelNumbers ==
  ASSUME KernelInv, NEW c \in 0..Joined
  PROVE  /\ commands[c] \in Seq(Kernel!Command) /\ reached[c] \in Nat /\ value[c] \in Nat
         /\ submitted[c] \in Nat /\ retired[c] \in Nat
         /\ reached[c] <= value[c] /\ value[c] <= KernelPoints /\ submitted[c] <= MaxWork
<1>1. commands[c] \in Seq(Kernel!Command)
  BY KernelTypes
<1>2. reached[c] \in 0..KernelPoints /\ value[c] \in 0..KernelPoints
  BY KernelTypes
<1>3. submitted[c] \in 0..MaxWork /\ retired[c] \in 0..MaxWork
  BY KernelTypes
<1>4. reached[c] <= value[c]
  BY Zenon DEF KernelInv, KernelSignals
<1>5. \A n \in Nat : \A k \in 0..n : k \in Nat /\ k <= n
  OBVIOUS
<1> QED
  BY <1>1, <1>2, <1>3, <1>4, <1>5, KernelBound, Zenon

\* A command in the queue of a context.
LEMMA KernelQueued ==
  ASSUME KernelInv, NEW c \in 0..Joined, NEW i \in 1..Len(commands[c])
  PROVE  commands[c][i] \in Kernel!Command
<1>1. commands[c] \in Seq(Kernel!Command)
  BY KernelTypes
<1> QED
  BY <1>1

\* The points up to one are points up to a later one.
LEMMA Within ==
  ASSUME NEW a \in Nat, NEW b \in Nat, a <= b
  PROVE  \A p \in 1..a : p \in 1..b
OBVIOUS

\* One more than the end of an interval.
LEMMA Upto ==
  ASSUME NEW n \in Nat
  PROVE  (\A z \in 1..n : z \in 1..(n + 1)) /\ n + 1 \in 1..(n + 1) /\ (n + 1) - 1 = n
OBVIOUS

\* A value that has grown is still as large.
LEMMA StillThere ==
  ASSUME NEW a \in Nat, NEW b \in Nat, NEW v \in Nat, a >= v, a <= b
  PROVE  b >= v
OBVIOUS

\* The type invariant after a step, over the contexts themselves.
LEMMA KernelTyped ==
  ASSUME commands' \in [0..Joined -> Seq(Kernel!Command)],
         reached' \in [0..Joined -> 0..KernelPoints], value' \in [0..Joined -> 0..KernelPoints],
         submitted' \in [0..Joined -> 0..MaxWork], retired' \in [0..Joined -> 0..MaxWork],
         owed' \in [1..KernelPoints -> [0..Joined -> 0..MaxWork]],
         next' \in 0..Joined, phase' \in {"idle", "signal", "wait"}, valid' \in BOOLEAN
  PROVE  Kernel!TypeOK'
BY Zenon DEF Kernel!TypeOK, Kernel!Context

\* A point is given to a context, or a wait: what the contexts' queues hold then.
LEMMA KernelAdd ==
  ASSUME KernelInv, NEW q \in 0..Joined, NEW x \in Kernel!Command, x.op # "work",
         Kernel!Enqueue(q, <<x>>),
         UNCHANGED <<reached, submitted, retired, owed>>
  PROVE  /\ commands' \in [0..Joined -> Seq(Kernel!Command)]
         /\ Len(commands[q]) \in Nat /\ Len(commands'[q]) = Len(commands[q]) + 1
         /\ commands'[q][Len(commands[q]) + 1] = x
         /\ \A i \in 1..Len(commands[q]) : commands'[q][i] = commands[q][i]
         /\ \A c \in 0..Joined : c # q => commands'[c] = commands[c]
         /\ KernelWork'
<1> DEFINE n == Len(commands[q])
           m == commands'[q]
<1>1. commands \in [0..Joined -> Seq(Kernel!Command)]
  BY DEF KernelInv, Kernel!TypeOK, Kernel!Context
<1>2. commands' = [commands EXCEPT ![q] = @ \o <<x>>] /\ <<x>> \in Seq(Kernel!Command)
  BY DEF Kernel!Enqueue
<1>3. Len(<<x>>) = 1 /\ <<x>>[1] = x
  OBVIOUS
<1>4. /\ commands' \in [0..Joined -> Seq(Kernel!Command)] /\ m = commands[q] \o <<x>>
      /\ n \in Nat /\ Len(m) = n + 1 /\ m[n + 1] = x
      /\ \A i \in 1..n : m[i] = commands[q][i]
      /\ \A c \in 0..Joined : c # q => commands'[c] = commands[c]
  BY <1>1, <1>2, <1>3, Added
<1>5. ASSUME NEW c \in 0..Joined
      PROVE  /\ \E g \in [Nat -> Nat] :
                 /\ Meter(commands'[c], g, retired'[c], submitted'[c])
                 /\ \A i \in 1..Len(commands'[c]) : commands'[c][i].op = "signal" =>
                      \A p \in 1..commands'[c][i].value : owed'[p][c] <= g[i]
             /\ \A p \in 1..reached'[c] : owed'[p][c] <= retired'[c]
             /\ \A p \in 1..KernelPoints : owed'[p][c] <= submitted'[c]
             /\ retired'[c] <= submitted'[c]
  <2>1. CASE c # q
    <3>1. /\ commands'[c] = commands[c] /\ retired'[c] = retired[c]
          /\ submitted'[c] = submitted[c] /\ reached'[c] = reached[c] /\ owed' = owed
      BY <1>4, <2>1
    <3>2. /\ \E g \in [Nat -> Nat] :
              /\ Meter(commands[c], g, retired[c], submitted[c])
              /\ \A i \in 1..Len(commands[c]) : commands[c][i].op = "signal" =>
                   \A p \in 1..commands[c][i].value : owed[p][c] <= g[i]
          /\ \A p \in 1..reached[c] : owed[p][c] <= retired[c]
          /\ \A p \in 1..KernelPoints : owed[p][c] <= submitted[c]
          /\ retired[c] <= submitted[c]
      BY Zenon DEF KernelInv, KernelWork
    <3> QED
      BY <3>1, <3>2
  <2>2. \E g \in [Nat -> Nat] :
          /\ Meter(m, g, retired[q], submitted[q])
          /\ \A i \in 1..(n + 1) : m[i].op = "signal" =>
               \A p \in 1..m[i].value : owed[p][q] <= g[i]
    <3>1. PICK g \in [Nat -> Nat] :
            /\ Meter(commands[q], g, retired[q], submitted[q])
            /\ \A i \in 1..n : commands[q][i].op = "signal" =>
                 \A p \in 1..commands[q][i].value : owed[p][q] <= g[i]
      BY DEF KernelInv, KernelWork
    <3>2. retired[q] \in Nat /\ submitted[q] \in Nat
      BY KernelNumbers
    <3>3. n + 1 \in (n + 1)..Len(m) /\ n < Len(m) /\ \A i \in (n + 2)..Len(m) : FALSE
      <4>1. n \in Nat /\ Len(m) = n + 1
        BY <1>4
      <4> HIDE DEF n, m
      <4> QED
        BY <4>1
    <3>4. Longer(commands[q], m, 0) /\ 0 \in {0, 1}
      <4>1. m[n + 1].op # "work"
        BY <1>4
      <4>2. Len(m) \in Nat
        BY <1>4, SMTT(30)
      <4> HIDE DEF m
      <4> QED
        BY <1>4, <3>3, <4>1, <4>2 DEF Longer
    <3>5. PICK h \in [Nat -> Nat] :
            /\ Meter(m, h, retired[q], submitted[q] + 0)
            /\ GoesOn(h, g, commands[q], m, submitted[q] + 0)
      BY <3>1, <3>2, <3>4, MeterAdd
    <3> HIDE DEF n, m
    <3>6. /\ h[n + 1] = submitted[q] /\ submitted[q] + 0 = submitted[q]
          /\ \A i \in 1..n : h[i] = g[i]
      <4>1. \A i \in 1..n : h[i] = g[i]
        BY <3>5 DEF GoesOn, n
      <4>2. h[n + 1] = submitted[q] + 0
        BY <3>3, <3>5 DEF GoesOn, n
      <4> QED
        BY <3>2, <4>1, <4>2
    <3>7. ASSUME NEW i \in 1..(n + 1), m[i].op = "signal", NEW p \in 1..m[i].value
          PROVE  owed[p][q] <= h[i]
      <4>1. CASE i \in 1..n
        <5>1. m[i] = commands[q][i] /\ h[i] = g[i]
          BY <1>4, <3>6, <4>1
        <5> QED
          BY <3>1, <3>7, <4>1, <5>1
      <4>2. CASE i = n + 1
        <5>1. x.value \in 1..KernelPoints
          BY <1>4, <3>7, <4>2, KernelCommands
        <5>2. p \in 1..x.value
          BY <1>4, <3>7, <4>2
        <5>3. p \in 1..KernelPoints
          BY <5>1, <5>2, KernelBound
        <5> QED
          BY <3>6, <4>2, <5>3 DEF KernelInv, KernelWork
      <4> QED
        BY <1>4, <4>1, <4>2
    <3> QED
      BY <3>5, <3>6, <3>7
  <2>3. CASE c = q
    <3>1. /\ \A p \in 1..reached[q] : owed[p][q] <= retired[q]
          /\ \A p \in 1..KernelPoints : owed[p][q] <= submitted[q]
          /\ retired[q] <= submitted[q]
      BY Zenon DEF KernelInv, KernelWork
    <3> QED
      BY <1>4, <2>2, <2>3, <3>1
  <2> QED
    BY <2>1, <2>3
<1>6. KernelWork'
  BY <1>5, Zenon DEF KernelWork
<1> QED
  BY <1>4, <1>6

\* QueueFence begins: the point stands for what is submitted by now.
LEMMA KernelQueueFence ==
  ASSUME KernelInv, Kernel!QueueFence
  PROVE  KernelInv'
<1> DEFINE T == value[0] + 1
<1>1. /\ T <= KernelPoints /\ \A c \in 0..Joined : value[c] < T
      /\ phase' = "signal" /\ next' = IF 0 < Joined THEN 1 ELSE 0
      /\ owed' = [owed EXCEPT ![T] = submitted]
      /\ commands' = commands /\ reached' = reached /\ submitted' = submitted
      /\ retired' = retired /\ value' = value /\ valid' = valid
  BY DEF Kernel!QueueFence, Kernel!Target, Kernel!Context, Kernel!gpu, Kernel!After,
         Kernel!Primary
<1>2. /\ value \in [0..Joined -> 0..KernelPoints] /\ reached \in [0..Joined -> 0..KernelPoints]
      /\ submitted \in [0..Joined -> 0..MaxWork]
      /\ owed \in [1..KernelPoints -> [0..Joined -> 0..MaxWork]]
  BY KernelTypes
<1>3. T \in 1..KernelPoints
  BY <1>1, <1>2, KernelBound, SMTT(30)
<1> HIDE DEF T
<1>4. /\ owed' \in [1..KernelPoints -> [0..Joined -> 0..MaxWork]]
      /\ owed'[T] = submitted /\ \A p \in 1..KernelPoints : p # T => owed'[p] = owed[p]
  BY <1>1, <1>2, <1>3
<1>5. Kernel!TypeOK'
  <2>1. valid' \in BOOLEAN
    BY <1>1, Zenon DEF KernelInv, Kernel!TypeOK
  <2>2. next' \in 0..Joined
    BY <1>1, KernelBound
  <2> QED
    BY <1>1, <1>4, <2>1, <2>2, KernelTypes, KernelTyped
<1>6. KernelWork'
  <2>1. ASSUME NEW c \in 0..Joined
        PROVE  /\ \E g \in [Nat -> Nat] :
                   /\ Meter(commands[c], g, retired[c], submitted[c])
                   /\ \A i \in 1..Len(commands[c]) : commands[c][i].op = "signal" =>
                        \A p \in 1..commands[c][i].value : owed'[p][c] <= g[i]
               /\ \A p \in 1..reached[c] : owed'[p][c] <= retired[c]
               /\ \A p \in 1..KernelPoints : owed'[p][c] <= submitted[c]
               /\ retired[c] <= submitted[c]
    <3>1. \A p \in 1..value[c] : owed'[p][c] = owed[p][c]
      <4>1. \A p \in 1..value[c] : p \in 1..KernelPoints /\ p # T
        BY <1>1, <1>2, <1>3, KernelBound, SMTT(30)
      <4> QED
        BY <1>4, <4>1
    <3>2. PICK g \in [Nat -> Nat] :
            /\ Meter(commands[c], g, retired[c], submitted[c])
            /\ \A i \in 1..Len(commands[c]) : commands[c][i].op = "signal" =>
                 \A p \in 1..commands[c][i].value : owed[p][c] <= g[i]
      BY Zenon DEF KernelInv, KernelWork
    <3>3. ASSUME NEW i \in 1..Len(commands[c]), commands[c][i].op = "signal",
                 NEW p \in 1..commands[c][i].value
          PROVE  owed'[p][c] <= g[i]
      <4>1. commands[c][i].value <= value[c]
        BY <3>3 DEF KernelInv, KernelSignals
      <4>3. commands[c][i] \in Kernel!Command
        BY KernelQueued
      <4>4. commands[c][i].value \in 1..KernelPoints
        BY <3>3, <4>3, KernelCommands
      <4>5. value[c] \in Nat /\ commands[c][i].value \in Nat
        <5>1. value[c] \in Nat
          BY KernelNumbers
        <5>2. \A k \in 1..KernelPoints : k \in Nat
          OBVIOUS
        <5> QED
          BY <4>4, <5>1, <5>2, Zenon
      <4>6. p \in 1..value[c]
        BY <3>3, <4>1, <4>5, Within, Zenon
      <4>7. owed[p][c] <= g[i]
        BY <3>2, <3>3
      <4> QED
        BY <3>1, <4>6, <4>7
    <3>4. \A p \in 1..reached[c] : owed'[p][c] <= retired[c]
      <4>1. reached[c] <= value[c] /\ reached[c] \in Nat /\ value[c] \in Nat
        BY KernelNumbers
      <4>2. \A p \in 1..reached[c] : p \in 1..value[c]
        BY <4>1, Within, Zenon
      <4>3. \A p \in 1..reached[c] : owed[p][c] <= retired[c]
        BY Zenon DEF KernelInv, KernelWork
      <4> QED
        BY <3>1, <4>2, <4>3
    <3>5. \A p \in 1..KernelPoints : owed'[p][c] <= submitted[c]
      <4>1. submitted[c] \in Nat
        BY KernelNumbers
      <4>2. \A p \in 1..KernelPoints : owed[p][c] <= submitted[c]
        BY Zenon DEF KernelInv, KernelWork
      <4>3. submitted[c] <= submitted[c]
        BY <4>1
      <4> QED
        BY <1>4, <4>2, <4>3, Zenon
    <3>6. retired[c] <= submitted[c]
      BY DEF KernelInv, KernelWork
    <3> QED
      BY <3>2, <3>3, <3>4, <3>5, <3>6
  <2> QED
    BY <1>1, <2>1, Zenon DEF KernelWork
<1>7. KernelSignals' /\ KernelWaits'
  <2>1. KernelSignals'
    BY <1>1, Zenon DEF KernelInv, KernelSignals, Kernel!SignalOf
  <2>2. KernelWaits'
    BY <1>1, Zenon DEF KernelInv, KernelWaits, Awaited, Kernel!WaitFor
  <2> QED
    BY <2>1, <2>2
<1>8. KernelCall'
  <2>1. Kernel!Target' = T
    BY <1>1 DEF Kernel!Target, Kernel!Primary, T
  <2>2. \A c \in 0..Joined : value'[c] <= T /\ value'[c] < T
    BY <1>1, <1>2, <1>3
  <2>3. \A c \in 1..Joined : c \in 0..Joined /\ ~(next' # 0 => c < next')
    BY <1>1, KernelBound
  <2>4. \A c \in (next' + 1)..Joined : next' # 0 => c \in 0..Joined
    BY <1>1, KernelBound
  <2>5. next' # 0 => next' \in 0..Joined
    BY <1>1, KernelBound
  <2> QED
    BY <1>1, <2>1, <2>2, <2>3, <2>4, <2>5 DEF KernelCall
<1> QED
  BY <1>5, <1>6, <1>7, <1>8 DEF KernelInv

\* A call that is given up leaves the point for the next one; the binding may go at
\* any moment.
LEMMA KernelGivesUp ==
  ASSUME KernelInv, Kernel!QueueFenceFails \/ Kernel!Invalidate
  PROVE  KernelInv'
<1>1. /\ commands' = commands /\ reached' = reached /\ submitted' = submitted
      /\ retired' = retired /\ value' = value /\ owed' = owed /\ next' = next
      /\ phase' = "idle" \/ phase' = phase
  BY DEF Kernel!QueueFenceFails, Kernel!Invalidate, Kernel!gpu
<1>2. valid' \in BOOLEAN
  BY Zenon DEF KernelInv, Kernel!TypeOK, Kernel!QueueFenceFails, Kernel!Invalidate
<1>3. Kernel!TypeOK'
  BY <1>1, <1>2, KernelTypes, KernelTyped
<1>4. KernelWork' /\ KernelSignals' /\ KernelWaits'
  <2>1. KernelWork'
    BY <1>1, Zenon DEF KernelInv, KernelWork
  <2>2. KernelSignals'
    BY <1>1, ZenonT(30) DEF KernelInv, KernelSignals, Kernel!SignalOf
  <2>3. KernelWaits'
    BY <1>1, Zenon DEF KernelInv, KernelWaits, Awaited, Kernel!WaitFor
  <2> QED
    BY <2>1, <2>2, <2>3
<1>5. KernelCall'
  <2>1. CASE phase' = "idle"
    BY <2>1 DEF KernelCall
  <2>2. CASE phase' = phase
    BY <1>1, <2>2, Zenon DEF KernelInv, KernelCall, Awaited, Kernel!Target
  <2> QED
    BY <1>1, <2>1, <2>2
<1> QED
  BY <1>3, <1>4, <1>5 DEF KernelInv

\* A context is given a signal of its own fence, for the next point.
LEMMA KernelSignalled ==
  ASSUME KernelInv, NEW q \in 0..Joined, NEW T \in 1..KernelPoints, value[q] < T,
         Kernel!Enqueue(q, <<Kernel!SignalOf(q, T)>>), value' = [value EXCEPT ![q] = T],
         reached' = reached, submitted' = submitted, retired' = retired, owed' = owed
  PROVE  /\ commands' \in [0..Joined -> Seq(Kernel!Command)]
         /\ value' \in [0..Joined -> 0..KernelPoints]
         /\ Len(commands[q]) \in Nat /\ Len(commands'[q]) = Len(commands[q]) + 1
         /\ commands'[q][Len(commands[q]) + 1] = Kernel!SignalOf(q, T)
         /\ \A i \in 1..Len(commands[q]) : commands'[q][i] = commands[q][i]
         /\ value'[q] = T
         /\ \A c \in 0..Joined : c # q => commands'[c] = commands[c] /\ value'[c] = value[c]
         /\ KernelWork' /\ KernelSignals'
<1> DEFINE x == Kernel!SignalOf(q, T)
           n == Len(commands[q])
<1>1. x \in Kernel!Command /\ x.op = "signal" /\ x.fence = q /\ x.value = T
  BY DEF Kernel!Command, Kernel!SignalOf, Kernel!Context
<1>2. x.op # "work"
  BY <1>1
<1>3. /\ commands' \in [0..Joined -> Seq(Kernel!Command)] /\ n \in Nat
      /\ Len(commands'[q]) = n + 1 /\ commands'[q][n + 1] = x
      /\ \A i \in 1..n : commands'[q][i] = commands[q][i]
      /\ \A c \in 0..Joined : c # q => commands'[c] = commands[c]
      /\ KernelWork'
  BY <1>1, <1>2, KernelAdd
<1>4. /\ value' \in [0..Joined -> 0..KernelPoints] /\ value'[q] = T
      /\ \A c \in 0..Joined : c # q => value'[c] = value[c]
  BY KernelTypes
<1> HIDE DEF x, n
<1>5. \A c \in 0..Joined : value[c] \in Nat /\ value'[c] \in Nat /\ value[c] <= value'[c]
                           /\ reached[c] \in Nat /\ reached[c] <= value[c]
  <2>1. \A c \in 0..Joined : value[c] \in Nat /\ reached[c] \in Nat /\ reached[c] <= value[c]
    BY KernelNumbers
  <2> QED
    BY <1>4, <2>1
<1>6. ASSUME NEW c \in 0..Joined
      PROVE  /\ reached[c] <= value'[c]
             /\ reached[c] < value'[c] => \E i \in 1..Len(commands'[c]) :
                  commands'[c][i] = Kernel!SignalOf(c, value'[c])
             /\ \A i \in 1..Len(commands'[c]) :
                  /\ commands'[c][i].op = "signal" =>
                       /\ commands'[c][i].fence = c
                       /\ reached[c] < commands'[c][i].value
                       /\ commands'[c][i].value <= value'[c]
                       /\ \A j \in 1..(i - 1) : commands'[c][j].op = "signal" =>
                            commands'[c][j].value < commands'[c][i].value
                  /\ commands'[c][i].op = "wait" =>
                       /\ c = 0 /\ commands'[c][i].fence \in 1..Joined
                       /\ commands'[c][i].value <= value'[commands'[c][i].fence]
  <2>1. reached[c] <= value'[c]
    BY <1>5
  <2>2. ASSUME NEW i \in 1..Len(commands[c]), commands'[c][i] = commands[c][i],
               commands[c][i].op = "wait"
        PROVE  /\ c = 0 /\ commands'[c][i].fence \in 1..Joined
               /\ commands'[c][i].value <= value'[commands'[c][i].fence]
    <3>1. /\ c = 0 /\ commands[c][i].fence \in 1..Joined
          /\ commands[c][i].value <= value[commands[c][i].fence]
      BY <2>2, Zenon DEF KernelInv, KernelSignals
    <3>2. commands[c][i] \in Kernel!Command
      BY KernelQueued
    <3>3. commands[c][i].value \in Nat
      BY <2>2, <3>2, KernelCommands
    <3>4. commands[c][i].fence \in 0..Joined
      BY <3>1, KernelBound
    <3>5. commands[c][i].value <= value'[commands[c][i].fence]
      BY <1>5, <3>1, <3>3, <3>4
    <3> QED
      BY <2>2, <3>1, <3>5
  <2>3. ASSUME NEW i \in 1..Len(commands[c]), commands[c][i].op = "signal"
        PROVE  /\ commands[c][i].fence = c /\ commands[c][i].value \in Nat
               /\ reached[c] < commands[c][i].value /\ commands[c][i].value <= value[c]
               /\ \A j \in 1..(i - 1) : commands[c][j].op = "signal" =>
                    commands[c][j].value < commands[c][i].value
    <3>1. commands[c][i] \in Kernel!Command
      BY KernelQueued
    <3>2. commands[c][i].value \in Nat
      BY <2>3, <3>1, KernelCommands
    <3> QED
      BY <2>3, <3>2, Zenon DEF KernelInv, KernelSignals
  <2>4. CASE c # q
    <3>1. commands'[c] = commands[c] /\ value'[c] = value[c]
      BY <1>3, <1>4, <2>4
    <3>2. reached[c] < value[c] => \E i \in 1..Len(commands[c]) :
            commands[c][i] = Kernel!SignalOf(c, value[c])
      BY Zenon DEF KernelInv, KernelSignals
    <3> QED
      BY <2>1, <2>2, <2>3, <3>1, <3>2, Zenon
  <2>5. CASE c = q
    <3>1. \E i \in 1..Len(commands'[c]) : commands'[c][i] = Kernel!SignalOf(c, value'[c])
      BY <1>3, <1>4, <2>5 DEF x
    <3>2. ASSUME NEW i \in 1..Len(commands'[c])
          PROVE  /\ commands'[c][i].op = "signal" =>
                      /\ commands'[c][i].fence = c
                      /\ reached[c] < commands'[c][i].value
                      /\ commands'[c][i].value <= value'[c]
                      /\ \A j \in 1..(i - 1) : commands'[c][j].op = "signal" =>
                           commands'[c][j].value < commands'[c][i].value
                 /\ commands'[c][i].op = "wait" =>
                      /\ c = 0 /\ commands'[c][i].fence \in 1..Joined
                      /\ commands'[c][i].value <= value'[commands'[c][i].fence]
      <4>1. \A j \in 1..(i - 1) : j \in 1..n
        BY <1>3, <2>5
      <4>2. CASE i \in 1..n
        <5>1. /\ commands'[c][i] = commands[c][i] /\ i \in 1..Len(commands[c])
              /\ \A j \in 1..(i - 1) : commands'[c][j] = commands[c][j]
          BY <1>3, <2>5, <4>1, <4>2 DEF n
        <5>2. ASSUME commands[c][i].op = "signal"
              PROVE  /\ commands'[c][i].fence = c
                     /\ reached[c] < commands'[c][i].value
                     /\ commands'[c][i].value <= value'[c]
                     /\ \A j \in 1..(i - 1) : commands'[c][j].op = "signal" =>
                          commands'[c][j].value < commands'[c][i].value
          <6>1. /\ commands[c][i].fence = c /\ commands[c][i].value \in Nat
                /\ reached[c] < commands[c][i].value /\ commands[c][i].value <= value[c]
                /\ \A j \in 1..(i - 1) : commands[c][j].op = "signal" =>
                     commands[c][j].value < commands[c][i].value
            BY <2>3, <5>1, <5>2
          <6>2. commands[c][i].value <= value'[c]
            BY <1>5, <6>1
          <6> QED
            BY <5>1, <6>1, <6>2, Zenon
        <5> QED
          BY <2>2, <5>1, <5>2, Zenon
      <4>3. CASE i = n + 1
        <5>1. commands'[c][i] = x
          BY <1>3, <2>5, <4>3
        <5>2. reached[c] < T /\ T <= value'[c]
          BY <1>4, <1>5, <2>5
        <5>3. ASSUME NEW j \in 1..(i - 1), commands'[c][j].op = "signal"
              PROVE  commands'[c][j].value < T
          <6>1. j \in 1..Len(commands[c]) /\ commands'[c][j] = commands[c][j]
            BY <1>3, <2>5, <4>1 DEF n
          <6>2. commands[c][j].value \in Nat /\ commands[c][j].value <= value[c]
            BY <2>3, <5>3, <6>1
          <6> QED
            BY <1>5, <2>5, <6>1, <6>2
        <5>4. commands'[c][i].op # "wait"
          BY <1>1, <5>1
        <5> QED
          BY <1>1, <2>5, <5>1, <5>2, <5>3, <5>4, Zenon
      <4> QED
        BY <1>3, <2>5, <4>2, <4>3
    <3> QED
      BY <2>1, <3>1, <3>2, Zenon
  <2> QED
    BY <2>4, <2>5
<1>7. KernelSignals'
  BY <1>6, Zenon DEF KernelSignals, Kernel!SignalOf
<1> QED
  BY <1>3, <1>4, <1>7, Zenon DEF x, n

\* A joined context is given its signal, the wait for which is still to come.
LEMMA KernelSignalJoined ==
  ASSUME KernelInv, Kernel!SignalJoined
  PROVE  KernelInv'
<1> DEFINE T == value[0] + 1
<1>1. /\ next # 0 /\ phase = "signal" /\ phase' = "wait" /\ next' = next /\ valid' = valid
      /\ Kernel!Enqueue(next, <<Kernel!SignalOf(next, T)>>)
      /\ value' = [value EXCEPT ![next] = T]
      /\ reached' = reached /\ submitted' = submitted /\ retired' = retired /\ owed' = owed
  BY DEF Kernel!SignalJoined, Kernel!Primary, Kernel!Target
<1>2. next \in 0..Joined /\ value[0] \in Nat
  <2>1. 0 \in 0..Joined
    BY KernelBound
  <2> QED
    BY <2>1, KernelTypes, KernelNumbers
<1>3. /\ T <= KernelPoints /\ \A c \in 0..Joined : value[c] <= T
      /\ \A c \in (next + 1)..Joined : value[c] < T
      /\ value[next] < T
      /\ \A c \in 1..Joined : c < next => Awaited(c, T, Len(commands[0]) + 1)
  BY <1>1 DEF KernelInv, KernelCall, Kernel!Target, Kernel!Primary
<1>4. T \in 1..KernelPoints
  BY <1>2, <1>3, KernelBound
<1> HIDE DEF T
<1>5. /\ commands' \in [0..Joined -> Seq(Kernel!Command)]
      /\ value' \in [0..Joined -> 0..KernelPoints]
      /\ value'[next] = T
      /\ \A c \in 0..Joined : c # next => commands'[c] = commands[c] /\ value'[c] = value[c]
      /\ KernelWork' /\ KernelSignals'
  BY <1>1, <1>2, <1>3, <1>4, KernelSignalled
<1>6. commands'[0] = commands[0] /\ value'[0] = value[0]
  BY <1>1, <1>5, KernelBound
<1>7. Kernel!TypeOK'
  <2>1. valid' \in BOOLEAN
    BY <1>1, Zenon DEF KernelInv, Kernel!TypeOK
  <2> QED
    BY <1>1, <1>5, <2>1, KernelTypes, KernelTyped
<1>8. KernelWaits'
  BY <1>1, <1>6, Zenon DEF KernelInv, KernelWaits, Awaited, Kernel!WaitFor
<1>9. KernelCall'
  <2>1. Kernel!Target' = T
    BY <1>6 DEF Kernel!Target, Kernel!Primary, T
  <2>2. \A c \in 0..Joined : value'[c] <= T
    BY <1>2, <1>3, <1>4, <1>5
  <2>3. \A c \in (next + 1)..Joined : value'[c] < T
    <3>1. \A c \in (next + 1)..Joined : c \in 0..Joined /\ c # next
      BY <1>2, KernelBound
    <3> QED
      BY <1>3, <1>5, <3>1
  <2>4. \A c \in 1..Joined : c < next' => Awaited(c, T, Len(commands[0]) + 1)'
    <3>1. T' = T
      BY <1>6 DEF T
    <3>2. \A c \in 1..Joined : c < next => Awaited(c, T, Len(commands[0]) + 1)
      BY <1>3
    <3> QED
      BY <1>1, <1>6, <3>1, <3>2, Zenon DEF Awaited, Kernel!WaitFor
  <2>5. \A c \in 1..Joined :
          c < next' => (Awaited(c, Kernel!Target, Len(commands[0]) + 1))'
    <3>1. T' = T
      BY <1>6 DEF T
    <3> QED
      BY <2>1, <2>4, <3>1, Zenon DEF Awaited, Kernel!WaitFor
  <2> QED
    BY <1>1, <1>3, <1>5, <2>1, <2>2, <2>3, <2>5 DEF KernelCall
<1> QED
  BY <1>5, <1>7, <1>8, <1>9 DEF KernelInv

\* The primary context is given its signal: it has waited for every other one by then.
LEMMA KernelSignalPrimary ==
  ASSUME KernelInv, Kernel!SignalPrimary
  PROVE  KernelInv'
<1> DEFINE T == value[0] + 1
           n == Len(commands[0])
<1>1. /\ next = 0 /\ phase = "signal" /\ phase' = "idle" /\ next' = next /\ valid' = valid
      /\ Kernel!Enqueue(0, <<Kernel!SignalOf(0, T)>>)
      /\ value' = [value EXCEPT ![0] = T]
      /\ reached' = reached /\ submitted' = submitted /\ retired' = retired /\ owed' = owed
  BY DEF Kernel!SignalPrimary, Kernel!Primary, Kernel!Target
<1>2. 0 \in 0..Joined /\ value[0] \in Nat
  <2>1. 0 \in 0..Joined
    BY KernelBound
  <2> QED
    BY <2>1, KernelNumbers
<1>3. T <= KernelPoints /\ \A c \in 1..Joined : Awaited(c, T, n + 1)
  BY <1>1 DEF KernelInv, KernelCall, Kernel!Target, Kernel!Primary
<1>4. T \in 1..KernelPoints /\ value[0] < T
  BY <1>2, <1>3, KernelBound
<1> HIDE DEF T
<1>5. /\ commands' \in [0..Joined -> Seq(Kernel!Command)]
      /\ value' \in [0..Joined -> 0..KernelPoints]
      /\ n \in Nat /\ Len(commands'[0]) = n + 1
      /\ commands'[0][n + 1] = Kernel!SignalOf(0, T)
      /\ \A i \in 1..n : commands'[0][i] = commands[0][i]
      /\ KernelWork' /\ KernelSignals'
  BY <1>1, <1>2, <1>4, KernelSignalled
<1> HIDE DEF n
<1>6. Kernel!TypeOK'
  <2>1. valid' \in BOOLEAN
    BY <1>1, Zenon DEF KernelInv, Kernel!TypeOK
  <2> QED
    BY <1>1, <1>5, <2>1, KernelTypes, KernelTyped
<1>7. KernelWaits'
  <2>1. \A c \in 1..Joined : reached[0] <= reached[c]
    BY Zenon DEF KernelInv, KernelWaits
  <2>2. ASSUME NEW i \in 1..(n + 1), commands'[0][i].op = "signal", NEW c \in 1..Joined
        PROVE  \/ reached[c] >= commands'[0][i].value
               \/ \E j \in 1..(i - 1) :
                    commands'[0][j] = Kernel!WaitFor(c, commands'[0][i].value)
    <3>1. \A j \in 1..(i - 1) : j \in 1..n
      BY <1>5
    <3>2. CASE i \in 1..n
      <4>1. commands'[0][i] = commands[0][i]
        BY <1>5, <3>2
      <4>2. Awaited(c, commands[0][i].value, i)
        BY <2>2, <3>2, <4>1 DEF KernelInv, KernelWaits, n
      <4> QED
        BY <1>5, <3>1, <4>1, <4>2, Zenon DEF Awaited
    <3>3. CASE i = n + 1
      <4>1. commands'[0][i].value = T
        BY <1>5, <3>3 DEF Kernel!SignalOf
      <4>2. Awaited(c, T, i)
        BY <1>3, <3>3
      <4> QED
        BY <1>5, <3>1, <4>1, <4>2, Zenon DEF Awaited
    <3> QED
      BY <1>5, <3>2, <3>3
  <2> QED
    BY <1>1, <1>5, <2>1, <2>2, Zenon DEF KernelWaits, Awaited, Kernel!WaitFor
<1>8. KernelCall'
  BY <1>1 DEF KernelCall
<1> QED
  BY <1>5, <1>6, <1>7, <1>8 DEF KernelInv

\* The primary context is given the wait for a joined one.
LEMMA KernelWaitJoined ==
  ASSUME KernelInv, Kernel!WaitJoined
  PROVE  KernelInv'
<1> DEFINE T == value[0] + 1
           n == Len(commands[0])
           x == Kernel!WaitFor(next, T)
<1>1. /\ phase = "wait" /\ phase' = "signal" /\ valid' = valid /\ value' = value
      /\ Kernel!Enqueue(0, <<x>>)
      /\ next' = IF next < Joined THEN next + 1 ELSE 0
      /\ reached' = reached /\ submitted' = submitted /\ retired' = retired /\ owed' = owed
  BY DEF Kernel!WaitJoined, Kernel!Primary, Kernel!Target, Kernel!After
<1>2. 0 \in 0..Joined /\ value[0] \in Nat /\ next \in 0..Joined
  <2>1. 0 \in 0..Joined
    BY KernelBound
  <2> QED
    BY <2>1, KernelNumbers, KernelTypes
<1>3. /\ next # 0 /\ value[next] = T /\ T <= KernelPoints
      /\ \A c \in 0..Joined : value[c] <= T
      /\ \A c \in (next + 1)..Joined : value[c] < T
      /\ \A c \in 1..Joined : c < next => Awaited(c, T, n + 1)
  BY <1>1 DEF KernelInv, KernelCall, Kernel!Target, Kernel!Primary
<1>4. T \in 1..KernelPoints /\ next \in 1..Joined
  BY <1>2, <1>3, KernelBound
<1> HIDE DEF T
<1>5. /\ x \in Kernel!Command /\ x.op = "wait" /\ x.op # "work" /\ x.op # "signal"
      /\ x.fence = next /\ x.value = T
  BY <1>2, <1>4 DEF Kernel!Command, Kernel!WaitFor, Kernel!Context
<1> HIDE DEF x
<1>6. /\ commands' \in [0..Joined -> Seq(Kernel!Command)]
      /\ n \in Nat /\ Len(commands'[0]) = n + 1 /\ commands'[0][n + 1] = x
      /\ \A i \in 1..n : commands'[0][i] = commands[0][i]
      /\ \A c \in 0..Joined : c # 0 => commands'[c] = commands[c]
      /\ KernelWork'
  BY <1>1, <1>2, <1>5, KernelAdd
<1> HIDE DEF n
<1>7. Kernel!TypeOK'
  <2>1. valid' \in BOOLEAN
    BY <1>1, Zenon DEF KernelInv, Kernel!TypeOK
  <2>2. next' \in 0..Joined
    BY <1>1, <1>4, KernelBound
  <2> QED
    BY <1>1, <1>6, <2>1, <2>2, KernelTypes, KernelTyped
<1>8. ASSUME NEW c \in 0..Joined
      PROVE  /\ reached[c] <= value[c]
             /\ reached[c] < value[c] => \E i \in 1..Len(commands'[c]) :
                  commands'[c][i] = Kernel!SignalOf(c, value[c])
             /\ \A i \in 1..Len(commands'[c]) :
                  /\ commands'[c][i].op = "signal" =>
                       /\ commands'[c][i].fence = c
                       /\ reached[c] < commands'[c][i].value
                       /\ commands'[c][i].value <= value[c]
                       /\ \A j \in 1..(i - 1) : commands'[c][j].op = "signal" =>
                            commands'[c][j].value < commands'[c][i].value
                  /\ commands'[c][i].op = "wait" =>
                       /\ c = 0 /\ commands'[c][i].fence \in 1..Joined
                       /\ commands'[c][i].value <= value[commands'[c][i].fence]
  <2>1. /\ reached[c] <= value[c]
        /\ reached[c] < value[c] => \E i \in 1..Len(commands[c]) :
             commands[c][i] = Kernel!SignalOf(c, value[c])
        /\ \A i \in 1..Len(commands[c]) :
             /\ commands[c][i].op = "signal" =>
                  /\ commands[c][i].fence = c
                  /\ reached[c] < commands[c][i].value
                  /\ commands[c][i].value <= value[c]
                  /\ \A j \in 1..(i - 1) : commands[c][j].op = "signal" =>
                       commands[c][j].value < commands[c][i].value
             /\ commands[c][i].op = "wait" =>
                  /\ c = 0 /\ commands[c][i].fence \in 1..Joined
                  /\ commands[c][i].value <= value[commands[c][i].fence]
    BY Zenon DEF KernelInv, KernelSignals
  <2>2. CASE c # 0
    <3>1. commands'[c] = commands[c]
      BY <1>6, <2>2
    <3> QED
      BY <2>1, <3>1, Zenon
  <2>3. CASE c = 0
    <3>1. Len(commands[c]) = n /\ \A i \in 1..n : i \in 1..(n + 1)
      BY <1>6, <2>3 DEF n
    <3>2. reached[c] < value[c] => \E i \in 1..Len(commands'[c]) :
            commands'[c][i] = Kernel!SignalOf(c, value[c])
      BY <1>6, <2>1, <2>3, <3>1, Zenon
    <3>3. ASSUME NEW i \in 1..(n + 1)
          PROVE  /\ commands'[c][i].op = "signal" =>
                      /\ commands'[c][i].fence = c
                      /\ reached[c] < commands'[c][i].value
                      /\ commands'[c][i].value <= value[c]
                      /\ \A j \in 1..(i - 1) : commands'[c][j].op = "signal" =>
                           commands'[c][j].value < commands'[c][i].value
                 /\ commands'[c][i].op = "wait" =>
                      /\ c = 0 /\ commands'[c][i].fence \in 1..Joined
                      /\ commands'[c][i].value <= value[commands'[c][i].fence]
      <4>1. CASE i \in 1..n
        <5>1. \A j \in 1..(i - 1) : j \in 1..n
          BY <1>6, <4>1
        <5>2. commands'[c][i] = commands[c][i]
              /\ \A j \in 1..(i - 1) : commands'[c][j] = commands[c][j]
          BY <1>6, <2>3, <4>1, <5>1
        <5> QED
          BY <2>1, <3>1, <4>1, <5>2, Zenon
      <4>2. CASE i = n + 1
        <5>1. commands'[c][i] = x
          BY <1>6, <2>3, <4>2
        <5>2. x.value <= value[x.fence]
          BY <1>2, <1>3, <1>5 DEF T
        <5> QED
          BY <1>4, <1>5, <2>3, <5>1, <5>2, Zenon
      <4> QED
        BY <1>6, <4>1, <4>2
    <3> QED
      BY <1>6, <2>1, <2>3, <3>2, <3>3, Zenon
  <2> QED
    BY <2>2, <2>3
<1>9. KernelSignals'
  BY <1>1, <1>8, Zenon DEF KernelSignals, Kernel!SignalOf
<1>10. KernelWaits'
  <2>1. \A c \in 1..Joined : reached'[0] <= reached'[c]
    BY <1>1, Zenon DEF KernelInv, KernelWaits
  <2>2. ASSUME NEW i \in 1..(n + 1), commands'[0][i].op = "signal", NEW c \in 1..Joined
        PROVE  \/ reached'[c] >= commands'[0][i].value
               \/ \E j \in 1..(i - 1) :
                    commands'[0][j] = Kernel!WaitFor(c, commands'[0][i].value)
    <3>1. i # n + 1
      BY <1>5, <1>6, <2>2
    <3>2. i \in 1..n
      BY <1>6, <3>1
    <3>3. commands'[0][i] = commands[0][i]
      BY <1>6, <3>2
    <3>4. Awaited(c, commands[0][i].value, i)
      BY <2>2, <3>2, <3>3 DEF KernelInv, KernelWaits, n
    <3>5. \A j \in 1..(i - 1) : j \in 1..n
      BY <1>6, <3>2
    <3> QED
      BY <1>1, <1>6, <3>3, <3>4, <3>5, Zenon DEF Awaited
  <2> QED
    BY <1>1, <1>6, <2>1, <2>2, Zenon DEF KernelWaits, Awaited, Kernel!WaitFor
<1>11. KernelCall'
  <2>1. T' = T /\ Kernel!Target' = T
    BY <1>1 DEF Kernel!Target, Kernel!Primary, T
  <2>2. \A c \in 0..Joined : value'[c] <= T
    BY <1>1, <1>3
  <2>3. next' # 0 =>
          (\A c \in (next' + 1)..Joined : value'[c] < T) /\ value'[next'] < T
    <3>1. \A c \in ((next + 1) + 1)..Joined : c \in (next + 1)..Joined
      BY <1>4, KernelBound
    <3>2. next < Joined => next + 1 \in (next + 1)..Joined
      BY <1>4, KernelBound
    <3> QED
      BY <1>1, <1>3, <3>1, <3>2
  <2>4. ASSUME NEW c \in 1..Joined, next' # 0 => c < next'
        PROVE  \/ reached'[c] >= T
               \/ \E j \in 1..((Len(commands'[0]) + 1) - 1) :
                    commands'[0][j] = Kernel!WaitFor(c, T)
    <3>1. c < next \/ c = next
      BY <1>1, <1>4, <2>4, KernelBound
    <3>2. (Len(commands'[0]) + 1) - 1 = n + 1 /\ (n + 1) - 1 = n
          /\ \A j \in 1..n : j \in 1..(n + 1)
      BY <1>6
    <3>3. CASE c < next
      <4>1. Awaited(c, T, n + 1)
        BY <1>3, <3>3
      <4>2. reached[c] >= T \/ \E j \in 1..n : commands[0][j] = Kernel!WaitFor(c, T)
        BY <3>2, <4>1 DEF Awaited
      <4> QED
        BY <1>1, <1>6, <3>2, <4>2, Zenon
    <3>4. CASE c = next
      <4>1. n + 1 \in 1..(n + 1)
        BY <1>6
      <4> QED
        BY <1>6, <3>2, <3>4, <4>1, Zenon DEF x
    <3> QED
      BY <3>1, <3>3, <3>4
  <2>5. \A c \in 1..Joined : (next' # 0 => c < next') =>
          (Awaited(c, Kernel!Target, Len(commands[0]) + 1))'
    BY <2>1, <2>4, Zenon DEF Awaited, Kernel!WaitFor
  <2> QED
    BY <1>1, <1>3, <2>1, <2>2, <2>3, <2>5 DEF KernelCall
<1> QED
  BY <1>6, <1>7, <1>9, <1>10, <1>11 DEF KernelInv

\* The application submits work to a context.
LEMMA KernelSubmit ==
  ASSUME KernelInv, NEW q \in 0..Joined, Kernel!SubmitWork(q), UNCHANGED Kernel!fenceVars
  PROVE  KernelInv'
<1> DEFINE n == Len(commands[q])
           x == Kernel!Work
<1>1. /\ submitted[q] < MaxWork /\ submitted' = [submitted EXCEPT ![q] = @ + 1]
      /\ commands' = [commands EXCEPT ![q] = Append(@, x)]
      /\ reached' = reached /\ retired' = retired /\ value' = value /\ next' = next
      /\ phase' = phase /\ valid' = valid /\ owed' = owed
  BY DEF Kernel!SubmitWork, Kernel!fenceVars
<1>2. x \in Kernel!Command /\ x.op = "work" /\ x.op # "signal" /\ x.op # "wait"
  BY DEF Kernel!Command, Kernel!Work
<1> HIDE DEF x
<1>3. commands \in [0..Joined -> Seq(Kernel!Command)] /\ commands[q] \in Seq(Kernel!Command)
  BY KernelTypes
<1>4. /\ Append(commands[q], x) = commands[q] \o <<x>> /\ <<x>> \in Seq(Kernel!Command)
      /\ Len(<<x>>) = 1 /\ <<x>>[1] = x
  BY <1>2, <1>3
<1>5. /\ commands' \in [0..Joined -> Seq(Kernel!Command)]
      /\ commands'[q] = Append(commands[q], x)
      /\ n \in Nat /\ Len(commands'[q]) = n + 1 /\ commands'[q][n + 1] = x
      /\ \A i \in 1..n : commands'[q][i] = commands[q][i]
      /\ \A c \in 0..Joined : c # q => commands'[c] = commands[c]
  <2>1. commands' = [commands EXCEPT ![q] = @ \o <<x>>]
    BY <1>1, <1>3, <1>4
  <2> QED
    BY <1>3, <1>4, <2>1, Added
<1>6. /\ submitted[q] \in Nat /\ retired[q] \in Nat /\ submitted'[q] = submitted[q] + 1
      /\ submitted'[q] \in 0..MaxWork
      /\ \A c \in 0..Joined : c # q => submitted'[c] = submitted[c]
      /\ submitted' \in [0..Joined -> 0..MaxWork]
  <2>1. submitted[q] \in Nat /\ retired[q] \in Nat
    BY KernelNumbers
  <2>2. submitted[q] + 1 \in 0..MaxWork
    BY <1>1, <2>1, KernelBound
  <2>3. submitted \in [0..Joined -> 0..MaxWork]
    BY KernelTypes
  <2> QED
    BY <1>1, <2>1, <2>2, <2>3
<1>7. Kernel!TypeOK'
  <2>1. valid' \in BOOLEAN
    BY <1>1, Zenon DEF KernelInv, Kernel!TypeOK
  <2> QED
    BY <1>1, <1>5, <1>6, <2>1, KernelTypes, KernelTyped
<1>8. KernelWork'
  <2>1. ASSUME NEW c \in 0..Joined
        PROVE  /\ \E g \in [Nat -> Nat] :
                   /\ Meter(commands'[c], g, retired[c], submitted'[c])
                   /\ \A i \in 1..Len(commands'[c]) : commands'[c][i].op = "signal" =>
                        \A p \in 1..commands'[c][i].value : owed[p][c] <= g[i]
               /\ \A p \in 1..reached[c] : owed[p][c] <= retired[c]
               /\ \A p \in 1..KernelPoints : owed[p][c] <= submitted'[c]
               /\ retired[c] <= submitted'[c]
    <3>1. /\ \E g \in [Nat -> Nat] :
               /\ Meter(commands[c], g, retired[c], submitted[c])
               /\ \A i \in 1..Len(commands[c]) : commands[c][i].op = "signal" =>
                    \A p \in 1..commands[c][i].value : owed[p][c] <= g[i]
          /\ \A p \in 1..reached[c] : owed[p][c] <= retired[c]
          /\ \A p \in 1..KernelPoints : owed[p][c] <= submitted[c]
          /\ retired[c] <= submitted[c]
      BY Zenon DEF KernelInv, KernelWork
    <3>2. CASE c # q
      BY <1>5, <1>6, <3>1, <3>2, Zenon
    <3>3. \E k \in [Nat -> Nat] :
            /\ Meter(commands'[q], k, retired[q], submitted[q] + 1)
            /\ \A i \in 1..(n + 1) : commands'[q][i].op = "signal" =>
                 \A p \in 1..commands'[q][i].value : owed[p][q] <= k[i]
      <4>1. PICK g \in [Nat -> Nat] :
              /\ Meter(commands[q], g, retired[q], submitted[q])
              /\ \A i \in 1..n : commands[q][i].op = "signal" =>
                   \A p \in 1..commands[q][i].value : owed[p][q] <= g[i]
        BY DEF KernelInv, KernelWork
      <4>2. Longer(commands[q], commands'[q], 1) /\ 1 \in {0, 1}
        <5>1. 1 \in {0, 1} /\ n + 1 \in Nat /\ n < n + 1 /\ \A i \in (n + 2)..(n + 1) : FALSE
          <6>1. n \in Nat
            BY <1>5
          <6> HIDE DEF n
          <6> QED
            BY <6>1
        <5> QED
          BY <1>2, <1>5, <5>1 DEF Longer
      <4>3. PICK h \in [Nat -> Nat] :
              /\ Meter(commands'[q], h, retired[q], submitted[q] + 1)
              /\ GoesOn(h, g, commands[q], commands'[q], submitted[q] + 1)
        BY <1>6, <4>1, <4>2, MeterAdd
      <4> HIDE DEF n
      <4>4. ASSUME NEW i \in 1..(n + 1), commands'[q][i].op = "signal"
            PROVE  \A p \in 1..commands'[q][i].value : owed[p][q] <= h[i]
        <5>1. i # n + 1
          BY <1>2, <1>5, <4>4
        <5>2. i \in 1..n
          BY <1>5, <5>1
        <5>3. commands'[q][i] = commands[q][i] /\ h[i] = g[i]
          BY <1>5, <4>3, <5>2 DEF GoesOn, n
        <5> QED
          BY <4>1, <4>4, <5>2, <5>3, Zenon
      <4> QED
        BY <4>3, <4>4, Zenon
    <3>4. CASE c = q
      <4>1. \A p \in 1..KernelPoints : owed[p][c] \in Nat
        <5>1. owed \in [1..KernelPoints -> [0..Joined -> 0..MaxWork]]
          BY KernelTypes
        <5>2. \A p \in 1..KernelPoints : owed[p][c] \in 0..MaxWork
          BY <5>1
        <5> QED
          BY <5>2, KernelBound
      <4>2. submitted'[c] = submitted[c] + 1 /\ submitted[c] \in Nat /\ retired[c] \in Nat
        BY <1>6, <3>4
      <4>3. (\A p \in 1..KernelPoints : owed[p][c] <= submitted'[c]) /\ retired[c] <= submitted'[c]
        <5>1. (\A p \in 1..KernelPoints : owed[p][c] <= submitted[c]) /\ retired[c] <= submitted[c]
          BY <3>1, Zenon
        <5> QED
          BY <4>1, <4>2, <5>1
      <4> QED
        BY <1>5, <1>6, <3>1, <3>3, <3>4, <4>3, ZenonT(30)
    <3> QED
      BY <3>2, <3>4
  <2> QED
    BY <1>1, <2>1, Zenon DEF KernelWork
<1>9. \A c \in 0..Joined : \A i \in 1..Len(commands'[c]) :
        commands'[c][i].op # "work" => i \in 1..Len(commands[c])
                                       /\ commands'[c][i] = commands[c][i]
  <2>1. ASSUME NEW c \in 0..Joined, NEW i \in 1..Len(commands'[c]), commands'[c][i].op # "work"
        PROVE  i \in 1..Len(commands[c]) /\ commands'[c][i] = commands[c][i]
    <3>1. CASE c # q
      BY <1>5, <3>1
    <3>2. CASE c = q
      <4>1. i \in 1..(n + 1) /\ i # n + 1
        BY <1>2, <1>5, <2>1, <3>2
      <4>2. i \in 1..n
        BY <1>5, <4>1
      <4> QED
        BY <1>5, <3>2, <4>2
    <3> QED
      BY <3>1, <3>2
  <2> QED
    BY <2>1, Zenon
<1>10. \A c \in 0..Joined : \A i \in 1..Len(commands[c]) :
        i \in 1..Len(commands'[c]) /\ commands'[c][i] = commands[c][i]
  <2>1. \A i \in 1..n : i \in 1..(n + 1)
    <3>1. n \in Nat
      BY <1>5
    <3> HIDE DEF n
    <3> QED
      BY <3>1
  <2> QED
    BY <1>5, <2>1, Zenon
<1>11. KernelSignals'
  <2>1. ASSUME NEW c \in 0..Joined
        PROVE  /\ reached[c] <= value[c]
               /\ reached[c] < value[c] => \E i \in 1..Len(commands'[c]) :
                    commands'[c][i] = Kernel!SignalOf(c, value[c])
    <3>1. /\ reached[c] <= value[c]
          /\ reached[c] < value[c] => \E i \in 1..Len(commands[c]) :
               commands[c][i] = Kernel!SignalOf(c, value[c])
      BY Zenon DEF KernelInv, KernelSignals
    <3> QED
      BY <1>10, <3>1, Zenon
  <2>2. ASSUME NEW c \in 0..Joined, NEW i \in 1..Len(commands'[c])
        PROVE  /\ commands'[c][i].op = "signal" =>
                    /\ commands'[c][i].fence = c
                    /\ reached[c] < commands'[c][i].value
                    /\ commands'[c][i].value <= value[c]
                    /\ \A j \in 1..(i - 1) : commands'[c][j].op = "signal" =>
                         commands'[c][j].value < commands'[c][i].value
               /\ commands'[c][i].op = "wait" =>
                    /\ c = 0 /\ commands'[c][i].fence \in 1..Joined
                    /\ commands'[c][i].value <= value[commands'[c][i].fence]
    <3>1. CASE commands'[c][i].op = "work"
      BY <3>1
    <3>2. CASE commands'[c][i].op # "work"
      <4>1. i \in 1..Len(commands[c]) /\ commands'[c][i] = commands[c][i]
        BY <1>9, <3>2
      <4>2. \A j \in 1..(i - 1) : commands'[c][j] = commands[c][j]
        <5>1. Len(commands[c]) \in Nat
          BY KernelNumbers
        <5>2. \A j \in 1..(i - 1) : j \in 1..Len(commands[c])
          BY <4>1, <5>1
        <5> QED
          BY <1>10, <5>2
      <4>3. /\ commands[c][i].op = "signal" =>
                    /\ commands[c][i].fence = c
                    /\ reached[c] < commands[c][i].value
                    /\ commands[c][i].value <= value[c]
                    /\ \A j \in 1..(i - 1) : commands[c][j].op = "signal" =>
                         commands[c][j].value < commands[c][i].value
            /\ commands[c][i].op = "wait" =>
                    /\ c = 0 /\ commands[c][i].fence \in 1..Joined
                    /\ commands[c][i].value <= value[commands[c][i].fence]
        BY <4>1, Zenon DEF KernelInv, KernelSignals
      <4> QED
        BY <4>1, <4>2, <4>3, Zenon
    <3> QED
      BY <3>1, <3>2
  <2>3. ASSUME NEW c \in 0..Joined
        PROVE  /\ reached'[c] <= value'[c]
               /\ reached'[c] < value'[c] => \E i \in 1..Len(commands'[c]) :
                    commands'[c][i] = Kernel!SignalOf(c, value'[c])
               /\ \A i \in 1..Len(commands'[c]) :
                  /\ commands'[c][i].op = "signal" =>
                    /\ commands'[c][i].fence = c
                    /\ reached'[c] < commands'[c][i].value
                    /\ commands'[c][i].value <= value'[c]
                    /\ \A j \in 1..(i - 1) : commands'[c][j].op = "signal" =>
                         commands'[c][j].value < commands'[c][i].value
                  /\ commands'[c][i].op = "wait" =>
                    /\ c = 0 /\ commands'[c][i].fence \in 1..Joined
                    /\ commands'[c][i].value <= value'[commands'[c][i].fence]
    <3>1. reached' = reached /\ value' = value
      BY <1>1
    <3> QED
      BY <2>1, <2>2, <3>1
  <2> QED
    BY <2>3, Zenon DEF KernelSignals, Kernel!SignalOf
<1>12. 0 \in 0..Joined
  BY KernelBound
<1>13. KernelWaits'
  <2>1. \A c \in 1..Joined : reached'[0] <= reached'[c]
    BY <1>1, Zenon DEF KernelInv, KernelWaits
  <2>2. ASSUME NEW i \in 1..Len(commands'[0]), commands'[0][i].op = "signal", NEW c \in 1..Joined
        PROVE  \/ reached'[c] >= commands'[0][i].value
               \/ \E j \in 1..(i - 1) :
                    commands'[0][j] = Kernel!WaitFor(c, commands'[0][i].value)
    <3>1. i \in 1..Len(commands[0]) /\ commands'[0][i] = commands[0][i]
      BY <1>9, <1>12, <2>2
    <3>2. Awaited(c, commands[0][i].value, i)
      BY <2>2, <3>1 DEF KernelInv, KernelWaits
    <3>3. \A j \in 1..(i - 1) : commands'[0][j] = commands[0][j]
      <4>1. Len(commands[0]) \in Nat
        BY <1>12, KernelNumbers
      <4>2. \A j \in 1..(i - 1) : j \in 1..Len(commands[0])
        BY <3>1, <4>1
      <4> QED
        BY <1>10, <1>12, <4>2
    <3> QED
      BY <1>1, <3>1, <3>2, <3>3, Zenon DEF Awaited
  <2> QED
    BY <1>1, <2>1, <2>2, Zenon DEF KernelWaits, Awaited, Kernel!WaitFor
<1>14. KernelCall'
  <2>1. \A c \in 1..Joined : Awaited(c, Kernel!Target, Len(commands[0]) + 1)
          => (Awaited(c, Kernel!Target, Len(commands[0]) + 1))'
    <3>1. \A j \in 1..((Len(commands[0]) + 1) - 1) :
            j \in 1..((Len(commands'[0]) + 1) - 1) /\ commands'[0][j] = commands[0][j]
      <4>1. Len(commands[0]) \in Nat /\ Len(commands'[0]) \in Nat
        BY <1>5, <1>12, KernelNumbers
      <4> QED
        BY <1>10, <1>12, <4>1
    <3>2. Kernel!Target' = Kernel!Target
      BY <1>1 DEF Kernel!Target
    <3> QED
      BY <1>1, <3>1, <3>2, Zenon DEF Awaited, Kernel!WaitFor
  <2>2. Kernel!Target' = Kernel!Target
    BY <1>1 DEF Kernel!Target
  <2> QED
    BY <1>1, <2>1, <2>2, Zenon DEF KernelInv, KernelCall
<1> QED
  BY <1>7, <1>8, <1>11, <1>13, <1>14 DEF KernelInv

\* A queue executes its next command: what the other commands of the queues stand for.
LEMMA KernelExecuted ==
  ASSUME KernelInv, NEW q \in 0..Joined, Kernel!Execute(q), UNCHANGED Kernel!fenceVars
  PROVE  LET x == commands[q][1] IN
         /\ x \in Kernel!Command /\ Len(commands[q]) \in Nat \ {0}
         /\ commands' \in [0..Joined -> Seq(Kernel!Command)]
         /\ Len(commands'[q]) = Len(commands[q]) - 1
         /\ \A i \in 1..Len(commands'[q]) :
              i + 1 \in 1..Len(commands[q]) /\ commands'[q][i] = commands[q][i + 1]
         /\ \A c \in 0..Joined : c # q => commands'[c] = commands[c]
         /\ \/ x.op = "work" /\ retired' = [retired EXCEPT ![q] = @ + 1] /\ reached' = reached
            \/ x.op = "signal" /\ x.fence = q /\ x.value \in 1..KernelPoints
               /\ reached' = [reached EXCEPT ![q] = x.value] /\ retired' = retired
            \/ x.op = "wait" /\ q = 0 /\ x.fence \in 1..Joined /\ x.value \in 1..KernelPoints
               /\ x = Kernel!WaitFor(x.fence, x.value)
               /\ reached[x.fence] >= x.value /\ reached' = reached /\ retired' = retired
         /\ submitted' = submitted /\ value' = value /\ next' = next /\ phase' = phase
         /\ valid' = valid /\ owed' = owed
<1> DEFINE x == commands[q][1]
<1>1. /\ commands \in [0..Joined -> Seq(Kernel!Command)] /\ commands[q] # <<>>
      /\ commands' = [commands EXCEPT ![q] = Tail(@)] /\ submitted' = submitted
      /\ value' = value /\ next' = next /\ phase' = phase /\ valid' = valid /\ owed' = owed
  BY KernelTypes DEF Kernel!Execute, Kernel!fenceVars
<1>2. /\ commands' \in [0..Joined -> Seq(Kernel!Command)] /\ Head(commands[q]) = x
      /\ x \in Kernel!Command /\ Len(commands[q]) \in Nat \ {0}
      /\ Len(commands'[q]) = Len(commands[q]) - 1
      /\ \A i \in 1..Len(commands'[q]) :
           i + 1 \in 1..Len(commands[q]) /\ commands'[q][i] = commands[q][i + 1]
      /\ \A c \in 0..Joined : c # q => commands'[c] = commands[c]
  BY <1>1, Removed
<1>3. 1 \in 1..Len(commands[q])
  BY <1>2
<1>4. /\ x.op = "signal" => x.fence = q
      /\ x.op = "wait" => q = 0 /\ x.fence \in 1..Joined
  BY <1>3, Zenon DEF KernelInv, KernelSignals
<1>5. /\ x.op \in {"signal", "wait"} => x.value \in 1..KernelPoints
      /\ x.op = "wait" => x = Kernel!WaitFor(x.fence, x.value)
  BY <1>2, KernelCommands
<1> HIDE DEF x
<1>6. \/ x.op = "work" /\ retired' = [retired EXCEPT ![q] = retired[q] + 1] /\ reached' = reached
      \/ x.op = "signal" /\ reached' = [reached EXCEPT ![x.fence] = x.value] /\ retired' = retired
      \/ x.op = "wait" /\ reached[x.fence] >= x.value /\ reached' = reached /\ retired' = retired
  BY <1>2 DEF Kernel!Execute
<1> QED
  BY <1>1, <1>2, <1>4, <1>5, <1>6 DEF x

\* A queue executes its next command: the invariant.
LEMMA KernelExecute ==
  ASSUME KernelInv, NEW q \in 0..Joined, Kernel!Execute(q), UNCHANGED Kernel!fenceVars
  PROVE  KernelInv'
<1> DEFINE x == commands[q][1]
           n == Len(commands[q])
<1>1. /\ x \in Kernel!Command /\ n \in Nat \ {0}
      /\ commands' \in [0..Joined -> Seq(Kernel!Command)] /\ Len(commands'[q]) = n - 1
      /\ \A i \in 1..Len(commands'[q]) :
           i + 1 \in 1..n /\ commands'[q][i] = commands[q][i + 1]
      /\ \A c \in 0..Joined : c # q => commands'[c] = commands[c]
      /\ \/ x.op = "work" /\ retired' = [retired EXCEPT ![q] = @ + 1] /\ reached' = reached
         \/ x.op = "signal" /\ x.fence = q /\ x.value \in 1..KernelPoints
            /\ reached' = [reached EXCEPT ![q] = x.value] /\ retired' = retired
         \/ x.op = "wait" /\ q = 0 /\ x.fence \in 1..Joined /\ x.value \in 1..KernelPoints
            /\ x = Kernel!WaitFor(x.fence, x.value)
            /\ reached[x.fence] >= x.value /\ reached' = reached /\ retired' = retired
      /\ submitted' = submitted /\ value' = value /\ next' = next /\ phase' = phase
      /\ valid' = valid /\ owed' = owed
  BY KernelExecuted
<1>2. \A i \in 2..n : i - 1 \in 1..(n - 1) /\ commands'[q][i - 1] = commands[q][i]
  <2>1. n \in Nat \ {0}
    BY <1>1
  <2> HIDE DEF n
  <2>2. \A i \in 2..n : i - 1 \in 1..(n - 1) /\ (i - 1) + 1 = i
    BY <2>1
  <2> QED
    BY <1>1, <2>2
<1>3. 0 \in 0..Joined /\ 1 \in 1..n
  <2>1. n \in Nat \ {0}
    BY <1>1
  <2> HIDE DEF n
  <2> QED
    BY <2>1, KernelBound
<1> HIDE DEF x, n
<1>effect.
      /\ x.op = "work" => retired' = [retired EXCEPT ![q] = @ + 1]
      /\ x.op # "work" => retired' = retired
      /\ x.op = "signal" => reached' = [reached EXCEPT ![q] = x.value] /\ x.value \in 1..KernelPoints
      /\ x.op # "signal" => reached' = reached
  BY <1>1
<1>length. Len(commands[0]) \in Nat
  <2>1. commands[0] \in Seq(Kernel!Command)
    BY <1>3, KernelNumbers
  <2> QED
    BY <2>1
<1>4. x.op = "signal" =>
        reached[q] < x.value /\ x.value <= value[q]
        /\ \A i \in 2..n : commands[q][i].op = "signal" => x.value < commands[q][i].value
  <2>1. ASSUME x.op = "signal"
        PROVE  reached[q] < x.value /\ x.value <= value[q]
    BY <1>3, <2>1, Zenon DEF KernelInv, KernelSignals, x, n
  <2>2. ASSUME x.op = "signal", NEW i \in 2..n, commands[q][i].op = "signal"
        PROVE  x.value < commands[q][i].value
    <3>1. i \in 1..n /\ 1 \in 1..(i - 1)
      BY <1>1
    <3> QED
      BY <2>2, <3>1, Zenon DEF KernelInv, KernelSignals, x, n
  <2> QED
    BY <2>1, <2>2
<1>5. \A c \in 0..Joined :
        /\ reached[c] \in Nat /\ reached'[c] \in Nat /\ reached[c] <= reached'[c]
        /\ value[c] \in Nat /\ reached'[c] <= value[c]
  <2>1. \A c \in 0..Joined : reached[c] \in Nat /\ value[c] \in Nat /\ reached[c] <= value[c]
    BY KernelNumbers
  <2>2. reached \in [0..Joined -> 0..KernelPoints]
    BY KernelTypes
  <2>3. x.op = "signal" => x.value \in Nat
    BY <1>effect, KernelBound
  <2>4. CASE x.op = "signal"
    <3>1. \A c \in 0..Joined : reached'[c] = IF c = q THEN x.value ELSE reached[c]
      BY <1>effect, <2>2, <2>4
    <3> QED
      BY <1>4, <2>1, <2>3, <2>4, <3>1
  <2>5. CASE x.op # "signal"
    BY <1>effect, <2>1, <2>5
  <2> QED
    BY <2>4, <2>5
<1>6. /\ reached' \in [0..Joined -> 0..KernelPoints]
      /\ \A c \in 0..Joined : c # q => reached'[c] = reached[c] /\ retired'[c] = retired[c]
  <2>1. reached \in [0..Joined -> 0..KernelPoints]
    BY KernelTypes
  <2>2. retired \in [0..Joined -> 0..MaxWork]
    BY KernelTypes
  <2>3. \A v \in 1..KernelPoints : v \in 0..KernelPoints
    BY KernelBound
  <2> QED
    BY <1>1, <2>1, <2>2, <2>3
<1>7. /\ x.op = "work" => retired'[q] = retired[q] + 1
      /\ x.op # "work" => retired'[q] = retired[q]
      /\ retired[q] \in Nat
  <2>1. retired \in [0..Joined -> 0..MaxWork] /\ retired[q] \in Nat
    BY KernelTypes, KernelNumbers
  <2>2. CASE x.op = "work"
    BY <1>effect, <2>1, <2>2
  <2>3. CASE x.op # "work"
    <3>1. retired' = retired
      BY <1>effect, <2>3
    <3> QED
      BY <2>1, <2>3, <3>1
  <2> QED
    BY <2>2, <2>3
<1>8. PICK g \in [Nat -> Nat] :
        /\ Meter(commands[q], g, retired[q], submitted[q])
        /\ \A i \in 1..n : commands[q][i].op = "signal" =>
             \A p \in 1..commands[q][i].value : owed[p][q] <= g[i]
  BY DEF KernelInv, KernelWork, n
<1>9. Shorter(commands[q], commands'[q])
  BY <1>1 DEF Shorter, n
<1>10. /\ g[1] = retired'[q] /\ g[1] <= submitted[q]
       /\ \E h \in [Nat -> Nat] : Meter(commands'[q], h, g[1], submitted[q]) /\ Shifted(h, g)
  <2>1. retired[q] \in Nat /\ submitted[q] \in Nat
    BY KernelNumbers
  <2>2. Meter(commands[q], g, retired[q], submitted[q])
    BY <1>8
  <2>3. /\ commands[q][1].op = "work" => g[1] = retired[q] + 1
        /\ commands[q][1].op # "work" => g[1] = retired[q]
        /\ g[1] <= submitted[q]
    <3>1. /\ g[0] = retired[q] /\ g[1] <= submitted[q]
          /\ g[1] = g[1 - 1] + (IF commands[q][1].op = "work" THEN 1 ELSE 0)
      BY <1>3, <2>2 DEF Meter, n
    <3>2. 1 - 1 = 0
      OBVIOUS
    <3> QED
      BY <2>1, <3>1, <3>2
  <2>4. \E h \in [Nat -> Nat] : Meter(commands'[q], h, g[1], submitted[q]) /\ Shifted(h, g)
    BY <1>9, <2>1, <2>2, MeterTail
  <2> QED
    BY <1>7, <2>3, <2>4 DEF x
<1>11. PICK h \in [Nat -> Nat] : Meter(commands'[q], h, retired'[q], submitted[q]) /\ Shifted(h, g)
  BY <1>10
<1>12. Kernel!TypeOK'
  <2>1. valid' \in BOOLEAN
    BY <1>1, Zenon DEF KernelInv, Kernel!TypeOK
  <2>2. retired'[q] \in 0..MaxWork
    <3>1. submitted[q] \in Nat /\ submitted[q] <= MaxWork
      BY KernelNumbers
    <3>2. retired'[q] \in Nat
      BY <1>7
    <3> QED
      BY <1>10, <3>1, <3>2, KernelBound
  <2>3. retired' \in [0..Joined -> 0..MaxWork]
    <3>1. retired \in [0..Joined -> 0..MaxWork]
      BY KernelTypes
    <3>2. retired' = [retired EXCEPT ![q] = retired'[q]]
      BY <1>1, <3>1
    <3> QED
      BY <2>2, <3>1, <3>2
  <2> QED
    BY <1>1, <1>6, <2>1, <2>3, KernelTypes, KernelTyped
<1>13. KernelWork'
  <2>1. ASSUME NEW c \in 0..Joined
        PROVE  /\ \E k \in [Nat -> Nat] :
                   /\ Meter(commands'[c], k, retired'[c], submitted[c])
                   /\ \A i \in 1..Len(commands'[c]) : commands'[c][i].op = "signal" =>
                        \A p \in 1..commands'[c][i].value : owed[p][c] <= k[i]
               /\ \A p \in 1..reached'[c] : owed[p][c] <= retired'[c]
               /\ \A p \in 1..KernelPoints : owed[p][c] <= submitted[c]
               /\ retired'[c] <= submitted[c]
    <3>1. /\ \E k \in [Nat -> Nat] :
               /\ Meter(commands[c], k, retired[c], submitted[c])
               /\ \A i \in 1..Len(commands[c]) : commands[c][i].op = "signal" =>
                    \A p \in 1..commands[c][i].value : owed[p][c] <= k[i]
          /\ \A p \in 1..reached[c] : owed[p][c] <= retired[c]
          /\ \A p \in 1..KernelPoints : owed[p][c] <= submitted[c]
          /\ retired[c] <= submitted[c]
      BY Zenon DEF KernelInv, KernelWork
    <3>2. CASE c # q
      <4>1. /\ commands'[c] = commands[c] /\ reached'[c] = reached[c]
            /\ retired'[c] = retired[c]
        BY <1>1, <1>6, <3>2
      <4> QED
        BY <3>1, <4>1
    <3>3. ASSUME NEW i \in 1..Len(commands'[q]), commands'[q][i].op = "signal"
          PROVE  \A p \in 1..commands'[q][i].value : owed[p][q] <= h[i]
      <4>1. i + 1 \in 1..n /\ commands'[q][i] = commands[q][i + 1] /\ i \in Nat
        BY <1>1
      <4>2. h[i] = g[i + 1]
        BY <1>11, <4>1 DEF Shifted
      <4> QED
        BY <1>8, <3>3, <4>1, <4>2, Zenon
    <3>4. \A p \in 1..reached'[q] : owed[p][q] <= retired'[q]
      <4>1. CASE x.op = "signal"
        <5>1. \A p \in 1..x.value : owed[p][q] <= g[1]
          BY <1>3, <1>8, <4>1, Zenon DEF x
        <5>2. reached'[q] = x.value
          <6>1. reached \in [0..Joined -> 0..KernelPoints]
            BY KernelTypes
          <6> QED
            BY <1>1, <4>1, <6>1
        <5> QED
          BY <1>10, <5>1, <5>2
      <4>2. CASE x.op # "signal"
        <5>1. reached' = reached
          BY <1>1, <4>2
        <5>2. ASSUME NEW p \in 1..reached[q] PROVE owed[p][q] <= retired'[q]
          <6>1. owed[p][q] <= retired[q]
            BY <5>2, Zenon DEF KernelInv, KernelWork
          <6>2. owed[p][q] \in Nat
            <7>1. p \in 1..KernelPoints
              <8>1. reached[q] \in 0..KernelPoints
                BY KernelTypes
              <8> QED
                BY <8>1, KernelBound
            <7>2. owed \in [1..KernelPoints -> [0..Joined -> 0..MaxWork]]
              BY KernelTypes
            <7>3. owed[p][q] \in 0..MaxWork
              BY <7>1, <7>2
            <7> QED
              BY <7>3, KernelBound
          <6>3. retired[q] <= retired'[q] /\ retired'[q] \in Nat
            BY <1>7
          <6> QED
            BY <1>7, <6>1, <6>2, <6>3
        <5> QED
          BY <5>1, <5>2
      <4> QED
        BY <4>1, <4>2
    <3>5. CASE c = q
      BY <1>10, <1>11, <3>1, <3>3, <3>4, <3>5
    <3> QED
      BY <3>2, <3>5
  <2> QED
    BY <1>1, <2>1, ZenonT(30) DEF KernelWork
<1>14. KernelSignals'
  <2>1. ASSUME NEW c \in 0..Joined
        PROVE  /\ reached'[c] <= value[c]
               /\ reached'[c] < value[c] => \E i \in 1..Len(commands'[c]) :
                    commands'[c][i] = Kernel!SignalOf(c, value[c])
               /\ \A i \in 1..Len(commands'[c]) :
                    /\ commands'[c][i].op = "signal" =>
                         /\ commands'[c][i].fence = c
                         /\ reached'[c] < commands'[c][i].value
                         /\ commands'[c][i].value <= value[c]
                         /\ \A j \in 1..(i - 1) : commands'[c][j].op = "signal" =>
                              commands'[c][j].value < commands'[c][i].value
                    /\ commands'[c][i].op = "wait" =>
                         /\ c = 0 /\ commands'[c][i].fence \in 1..Joined
                         /\ commands'[c][i].value <= value[commands'[c][i].fence]
    <3>1. /\ reached[c] <= value[c]
          /\ reached[c] < value[c] => \E i \in 1..Len(commands[c]) :
               commands[c][i] = Kernel!SignalOf(c, value[c])
          /\ \A i \in 1..Len(commands[c]) :
               /\ commands[c][i].op = "signal" =>
                    /\ commands[c][i].fence = c
                    /\ reached[c] < commands[c][i].value
                    /\ commands[c][i].value <= value[c]
                    /\ \A j \in 1..(i - 1) : commands[c][j].op = "signal" =>
                         commands[c][j].value < commands[c][i].value
               /\ commands[c][i].op = "wait" =>
                    /\ c = 0 /\ commands[c][i].fence \in 1..Joined
                    /\ commands[c][i].value <= value[commands[c][i].fence]
      BY Zenon DEF KernelInv, KernelSignals
    <3>2. CASE c # q
      <4>1. commands'[c] = commands[c] /\ reached'[c] = reached[c]
        BY <1>1, <1>6, <3>2
      <4> QED
        BY <3>1, <4>1
    <3>3. CASE c = q
      <4>1. ASSUME reached'[c] < value[c]
            PROVE  \E i \in 1..Len(commands'[c]) :
                     commands'[c][i] = Kernel!SignalOf(c, value[c])
        <5>1. reached[c] < value[c]
          BY <1>5, <4>1
        <5>2. PICK i \in 1..n : commands[q][i] = Kernel!SignalOf(q, value[q])
          BY <3>1, <3>3, <5>1 DEF n
        <5>3. i # 1
          <6>1. SUFFICES ASSUME i = 1 PROVE FALSE
            OBVIOUS
          <6>2. x.op = "signal" /\ x.value = value[q]
            BY <5>2, <6>1 DEF x, Kernel!SignalOf
          <6>3. reached'[q] = x.value
            <7>1. reached \in [0..Joined -> 0..KernelPoints]
              BY KernelTypes
            <7> QED
              BY <1>1, <6>2, <7>1
          <6> QED
            BY <1>5, <3>3, <4>1, <6>2, <6>3
        <5>4. i \in 2..n
          BY <1>1, <5>3
        <5>5. i - 1 \in 1..Len(commands'[q]) /\ commands'[q][i - 1] = commands[q][i]
          BY <1>1, <1>2, <5>4
        <5> QED
          BY <3>3, <5>2, <5>5
      <4>2. ASSUME NEW i \in 1..Len(commands'[c]), commands'[c][i].op = "signal"
            PROVE  /\ commands'[c][i].fence = c
                   /\ reached'[c] < commands'[c][i].value
                   /\ commands'[c][i].value <= value[c]
                   /\ \A j \in 1..(i - 1) : commands'[c][j].op = "signal" =>
                        commands'[c][j].value < commands'[c][i].value
        <5>1. i + 1 \in 1..n /\ i + 1 \in 2..n /\ commands'[q][i] = commands[q][i + 1]
          BY <1>1, <3>3
        <5>2. /\ commands[q][i + 1].fence = c
              /\ reached[q] < commands[q][i + 1].value
              /\ commands[q][i + 1].value <= value[q]
              /\ \A j \in 1..((i + 1) - 1) : commands[q][j].op = "signal" =>
                   commands[q][j].value < commands[q][i + 1].value
          BY <3>1, <3>3, <4>2, <5>1 DEF n
        <5>3. reached'[q] < commands[q][i + 1].value
          <6>1. CASE x.op = "signal"
            <7>1. reached \in [0..Joined -> 0..KernelPoints]
              BY KernelTypes
            <7>2. reached'[q] = x.value
              BY <1>1, <6>1, <7>1
            <7> QED
              BY <1>4, <3>3, <4>2, <5>1, <6>1, <7>2
          <6>2. CASE x.op # "signal"
            BY <1>1, <5>2, <6>2
          <6> QED
            BY <6>1, <6>2
        <5>4. ASSUME NEW j \in 1..(i - 1), commands'[q][j].op = "signal"
              PROVE  commands'[q][j].value < commands'[q][i].value
          <6>1. j \in 1..Len(commands'[q]) /\ j + 1 \in 1..((i + 1) - 1)
            BY <1>1, <3>3
          <6>2. commands'[q][j] = commands[q][j + 1]
            BY <1>1, <6>1
          <6> QED
            BY <5>1, <5>2, <5>4, <6>1, <6>2
        <5> QED
          BY <3>3, <5>1, <5>2, <5>3, <5>4
      <4>3. ASSUME NEW i \in 1..Len(commands'[c]), commands'[c][i].op = "wait"
            PROVE  /\ c = 0 /\ commands'[c][i].fence \in 1..Joined
                   /\ commands'[c][i].value <= value[commands'[c][i].fence]
        <5>1. i + 1 \in 1..n /\ commands'[q][i] = commands[q][i + 1]
          BY <1>1, <3>3
        <5> QED
          BY <3>1, <3>3, <4>3, <5>1 DEF n
      <4>4. reached'[c] <= value[c]
        BY <1>5
      <4> QED
        BY <4>1, <4>2, <4>3, <4>4, Zenon
    <3> QED
      BY <3>2, <3>3
  <2> QED
    BY <1>1, <2>1, Zenon DEF KernelSignals, Kernel!SignalOf
<1>15. ASSUME NEW c \in 1..Joined, NEW v \in Nat, NEW i \in 1..(Len(commands[0]) + 1),
              Awaited(c, v, i)
       PROVE  \/ reached'[c] >= v
              \/ \E j \in 1..((IF q = 0 THEN i - 1 ELSE i) - 1) :
                   commands'[0][j] = Kernel!WaitFor(c, v)
  <2>1. c \in 0..Joined
    BY KernelBound
  <2>2. CASE reached[c] >= v
    <3>1. reached[c] \in Nat /\ reached'[c] \in Nat /\ reached[c] <= reached'[c]
      BY <1>5, <2>1
    <3> QED
      BY <2>2, <3>1, StillThere, Zenon
  <2>3. CASE \E j \in 1..(i - 1) : commands[0][j] = Kernel!WaitFor(c, v)
    <3>1. PICK j \in 1..(i - 1) : commands[0][j] = Kernel!WaitFor(c, v)
      BY <2>3
    <3>2. CASE q # 0
      BY <1>1, <1>3, <3>1, <3>2
    <3>3. CASE q = 0 /\ j = 1
      <4>1. x = Kernel!WaitFor(c, v)
        BY <3>1, <3>3 DEF x
      <4>2. x.op = "wait" /\ x.fence = c /\ x.value = v
        BY <4>1 DEF Kernel!WaitFor
      <4> QED
        BY <1>1, <4>2
    <3>4. CASE q = 0 /\ j # 1
      <4>1. j \in 2..n /\ j - 1 \in 1..((i - 1) - 1)
        <5>1. n = Len(commands[0])
          BY <3>4 DEF n
        <5>2. i \in 1..(n + 1) /\ n \in Nat
          BY <1>length, <5>1
        <5> QED
          BY <3>4, <5>2
      <4>2. commands'[0][j - 1] = commands[0][j]
        BY <1>2, <3>4, <4>1
      <4> QED
        BY <3>1, <3>4, <4>1, <4>2
    <3> QED
      BY <3>2, <3>3, <3>4
  <2> QED
    BY <1>15, <2>2, <2>3, Zenon DEF Awaited
<1>16. KernelWaits'
  <2>1. ASSUME NEW c \in 1..Joined PROVE reached'[0] <= reached'[c]
    <3>1. c \in 0..Joined /\ c # 0
      BY KernelBound
    <3>2. CASE q = 0 /\ x.op = "signal"
      <4>1. Awaited(c, x.value, 1)
        BY <1>3, <3>2, Zenon DEF KernelInv, KernelWaits, x, n
      <4>2. reached[c] >= x.value
        BY <4>1 DEF Awaited
      <4>3. reached'[0] = x.value
        <5>1. reached \in [0..Joined -> 0..KernelPoints]
          BY KernelTypes
        <5> QED
          BY <1>1, <3>2, <5>1
      <4> QED
        BY <1>6, <3>1, <3>2, <4>2, <4>3
    <3>3. CASE ~(q = 0 /\ x.op = "signal")
      <4>1. reached'[0] = reached[0]
        BY <1>1, <1>3, <1>6, <3>3
      <4>2. reached[0] <= reached[c]
        BY Zenon DEF KernelInv, KernelWaits
      <4> QED
        BY <1>3, <1>5, <3>1, <4>1, <4>2
    <3> QED
      BY <3>2, <3>3
  <2>2. ASSUME NEW i \in 1..Len(commands'[0]), commands'[0][i].op = "signal", NEW c \in 1..Joined
        PROVE  \/ reached'[c] >= commands'[0][i].value
               \/ \E j \in 1..(i - 1) :
                    commands'[0][j] = Kernel!WaitFor(c, commands'[0][i].value)
    <3> DEFINE k == IF q = 0 THEN i + 1 ELSE i
    <3>1. k \in 1..Len(commands[0]) /\ commands'[0][i] = commands[0][k]
      BY <1>1, <1>3 DEF n
    <3>2. commands[0][k] \in Kernel!Command
      <4> HIDE DEF k
      <4> QED
        BY <1>3, <3>1, KernelQueued
    <3>3. commands'[0][i].value \in Nat
      <4>1. commands'[0][i].value \in 1..KernelPoints
        <5> HIDE DEF k
        <5> QED
          BY <2>2, <3>1, <3>2, KernelCommands
      <4>2. \A z \in 1..KernelPoints : z \in Nat
        OBVIOUS
      <4> QED
        BY <4>1, <4>2, Zenon
    <3>4. Awaited(c, commands'[0][i].value, k)
      <4> HIDE DEF k
      <4> QED
        BY <2>2, <3>1 DEF KernelInv, KernelWaits
    <3>5. k \in 1..(Len(commands[0]) + 1) /\ (IF q = 0 THEN k - 1 ELSE k) = i
      <4>1. \A z \in 1..Len(commands[0]) : z \in 1..(Len(commands[0]) + 1)
        BY <1>length, Upto, Zenon
      <4>2. k \in 1..(Len(commands[0]) + 1)
        BY <3>1, <4>1, Zenon
      <4>3. i \in Int /\ (i + 1) - 1 = i
        OBVIOUS
      <4> QED
        BY <4>2, <4>3
    <3> HIDE DEF k
    <3> QED
      BY <1>15, <3>3, <3>4, <3>5
  <2> QED
    BY <2>1, <2>2, Zenon DEF KernelWaits, Awaited, Kernel!WaitFor
<1>17. KernelCall'
  <2>1. Kernel!Target' = Kernel!Target
    BY <1>1 DEF Kernel!Target
  <2>2. Kernel!Target \in Nat
    <3>1. value[0] \in Nat
      BY <1>3, KernelNumbers
    <3> QED
      BY <3>1 DEF Kernel!Target, Kernel!Primary
  <2>3. ASSUME NEW c \in 1..Joined, Awaited(c, Kernel!Target, Len(commands[0]) + 1)
        PROVE  \/ reached'[c] >= Kernel!Target
               \/ \E j \in 1..((Len(commands'[0]) + 1) - 1) :
                    commands'[0][j] = Kernel!WaitFor(c, Kernel!Target)
    <3> DEFINE k == Len(commands[0]) + 1
    <3>1. k \in 1..(Len(commands[0]) + 1) /\ k - 1 = Len(commands[0])
      BY <1>length, Upto, Zenon
    <3>2. (IF q = 0 THEN k - 1 ELSE k) = Len(commands'[0]) + 1
      <4>1. ASSUME q = 0 PROVE k - 1 = Len(commands'[0]) + 1
        <5>1. n = Len(commands[0]) /\ Len(commands'[0]) = n - 1 /\ n \in Nat
          BY <1>1, <4>1 DEF n
        <5>2. (n - 1) + 1 = n
          BY <5>1
        <5> QED
          BY <3>1, <5>1, <5>2
      <4>2. q # 0 => Len(commands'[0]) = Len(commands[0])
        BY <1>1, <1>3
      <4> QED
        BY <4>1, <4>2
    <3>3. Awaited(c, Kernel!Target, k)
      BY <2>3
    <3> HIDE DEF k
    <3> QED
      BY <1>15, <2>2, <3>1, <3>2, <3>3
  <2>4. \A c \in 1..Joined : Awaited(c, Kernel!Target, Len(commands[0]) + 1)
          => (Awaited(c, Kernel!Target, Len(commands[0]) + 1))'
    BY <2>1, <2>3, Zenon DEF Awaited, Kernel!WaitFor
  <2> QED
    BY <1>1, <2>1, <2>4, Zenon DEF KernelInv, KernelCall
<1> QED
  BY <1>12, <1>13, <1>14, <1>16, <1>17 DEF KernelInv

\* Every step of the kernel backend.
LEMMA KernelStep ==
  ASSUME KernelInv, Kernel!Next
  PROVE  KernelInv'
<1>1. CASE Kernel!QueueFence
  BY <1>1, KernelQueueFence
<1>2. CASE Kernel!SignalJoined
  BY <1>2, KernelSignalJoined
<1>3. CASE Kernel!WaitJoined
  BY <1>3, KernelWaitJoined
<1>4. CASE Kernel!SignalPrimary
  BY <1>4, KernelSignalPrimary
<1>5. CASE Kernel!QueueFenceFails \/ Kernel!Invalidate
  BY <1>5, KernelGivesUp
<1>6. CASE Kernel!Gpu
  <2>1. PICK q \in 0..Joined :
          (Kernel!SubmitWork(q) \/ Kernel!Execute(q)) /\ UNCHANGED Kernel!fenceVars
    BY <1>6 DEF Kernel!Gpu
  <2>2. CASE Kernel!SubmitWork(q)
    BY <2>1, <2>2, KernelSubmit
  <2>3. CASE Kernel!Execute(q)
    BY <2>1, <2>3, KernelExecute
  <2> QED
    BY <2>1, <2>2, <2>3
<1> QED
  BY <1>1, <1>2, <1>3, <1>4, <1>5, <1>6 DEF Kernel!Next

\* A point of the primary context is a point of all.
LEMMA KernelCovers ==
  ASSUME KernelInv, NEW p \in 1..reached[0], NEW c \in 0..Joined
  PROVE  retired[c] >= owed[p][c]
<1>1. 0 \in 0..Joined
  BY KernelBound
<1>2. reached[0] \in Nat /\ reached[c] \in Nat
  BY <1>1, KernelNumbers
<1>3. reached[0] <= reached[c]
  <2>1. CASE c = 0
    BY <1>2, <2>1
  <2>2. CASE c # 0
    <3>1. c \in 1..Joined
      BY <2>2, KernelBound
    <3> QED
      BY <3>1, Zenon DEF KernelInv, KernelWaits
  <2> QED
    BY <2>1, <2>2
<1>4. p \in 1..reached[c]
  BY <1>2, <1>3, Within, Zenon
<1>5. owed[p][c] <= retired[c]
  BY <1>4, Zenon DEF KernelInv, KernelWork
<1>6. p \in 1..KernelPoints
  <2>1. reached[c] \in 0..KernelPoints
    BY KernelTypes
  <2> QED
    BY <1>4, <2>1, KernelBound
<1>7. owed[p][c] \in Nat
  <2>1. owed \in [1..KernelPoints -> [0..Joined -> 0..MaxWork]]
    BY KernelTypes
  <2>2. owed[p][c] \in 0..MaxWork
    BY <1>6, <2>1
  <2> QED
    BY <2>2, KernelBound
<1>8. retired[c] \in Nat
  BY KernelNumbers
<1> QED
  BY <1>5, <1>7, <1>8

\* A joined context never waits, and the primary one only for a value that is
\* signalled: it is there once the joined context has nothing left to execute.
LEMMA KernelGoesOn ==
  ASSUME KernelInv, NEW q \in 0..Joined, commands[q] # <<>>
  PROVE  \E c \in 0..Joined : /\ commands[c] # <<>>
                              /\ Head(commands[c]).op = "wait" =>
                                   reached[Head(commands[c]).fence] >= Head(commands[c]).value
<1>1. ASSUME NEW c \in 0..Joined, commands[c] # <<>>
      PROVE  /\ Head(commands[c]) = commands[c][1] /\ 1 \in 1..Len(commands[c])
             /\ commands[c][1].op = "wait" =>
                  /\ c = 0 /\ commands[c][1].fence \in 1..Joined
                  /\ commands[c][1].value <= value[commands[c][1].fence]
  <2>1. Head(commands[c]) = commands[c][1] /\ 1 \in 1..Len(commands[c])
    <3>1. commands[c] \in Seq(Kernel!Command)
      BY KernelTypes
    <3> QED
      BY <1>1, <3>1
  <2> QED
    BY <2>1, Zenon DEF KernelInv, KernelSignals
<1>2. CASE \E c \in 1..Joined : commands[c] # <<>>
  <2>1. PICK c \in 1..Joined : commands[c] # <<>>
    BY <1>2
  <2>2. c \in 0..Joined /\ c # 0
    BY KernelBound
  <2> QED
    BY <1>1, <2>1, <2>2
<1>3. CASE \A c \in 1..Joined : commands[c] = <<>>
  <2>1. q = 0
    BY <1>3, KernelBound
  <2>2. ASSUME commands[0][1].op = "wait"
        PROVE  reached[commands[0][1].fence] >= commands[0][1].value
    <3> DEFINE f == commands[0][1].fence
               v == commands[0][1].value
    <3>1. f \in 1..Joined /\ v <= value[f]
      BY <1>1, <2>1, <2>2
    <3>2. f \in 0..Joined
      BY <3>1, KernelBound
    <3>3. v \in Nat
      <4>1. commands[0][1] \in Kernel!Command
        BY <1>1, <2>1, KernelQueued
      <4>2. v \in 1..KernelPoints
        BY <2>2, <4>1, KernelCommands
      <4> QED
        BY <4>2, KernelBound
    <3> HIDE DEF f, v
    <3>4. reached[f] \in Nat /\ value[f] \in Nat /\ reached[f] <= value[f]
      BY <3>2, KernelNumbers
    <3>5. Len(commands[f]) = 0
      BY <1>3, <3>1
    <3>6. ~(reached[f] < value[f])
      <4>1. reached[f] < value[f] => \E i \in 1..Len(commands[f]) :
              commands[f][i] = Kernel!SignalOf(f, value[f])
        BY <3>2, Zenon DEF KernelInv, KernelSignals
      <4> QED
        BY <3>5, <4>1
    <3>7. reached[f] >= v
      BY <3>1, <3>3, <3>4, <3>6
    <3> QED
      BY <3>7 DEF f, v
  <2> QED
    BY <1>1, <2>1, <2>2
<1> QED
  BY <1>2, <1>3

(***************************************************************************)
(* D3D11, D3D12 and Vulkan: the invariant.                                 *)
(***************************************************************************)

\* The part of the assumption on the constants that these backends need.
LEMMA CrossBound ==
  /\ Parallel \in Nat /\ QueuePoints \in Nat /\ MaxFailures \in Nat /\ MaxWork \in Nat
  /\ NoQueue \notin 0..Parallel
BY BackendsAssumption

\* The commands of a queue, by what they do.
LEMMA CrossCommands ==
  ASSUME NEW x \in CrossQueue!Command
  PROVE  /\ x.op \in {"work", "signal", "wait"}
         /\ x.op = "signal" => /\ x.fence = Fence /\ x.value \in 1..QueuePoints
                               /\ x = CrossQueue!SignalOf(Fence, x.value)
         /\ x.op = "wait" => /\ x.fence = Fence /\ x.value \in 1..QueuePoints
                             /\ x = CrossQueue!WaitFor(Fence, x.value)
BY DEF CrossQueue!Command, CrossQueue!Work, CrossQueue!SignalOf, CrossQueue!WaitFor

\* The types of the backends' variables.
LEMMA CrossTypes ==
  CrossInv =>
    /\ commands \in [0..Parallel -> Seq(CrossQueue!Command)]
    /\ reached \in [{Fence} -> 0..QueuePoints] /\ value \in 0..QueuePoints
    /\ submitted \in [0..Parallel -> 0..MaxWork] /\ retired \in [0..Parallel -> 0..MaxWork]
    /\ owed \in [1..QueuePoints -> [0..Parallel -> 0..MaxWork]]
    /\ last \in (0..Parallel) \union {NoQueue} /\ failures \in 0..MaxFailures
BY DEF CrossInv, CrossQueue!TypeOK

\* What is counted for each queue.
LEMMA CrossNumbers ==
  ASSUME CrossInv
  PROVE  /\ value \in Nat /\ reached[Fence] \in Nat
         /\ reached[Fence] <= value /\ value <= QueuePoints
         /\ \A q \in 0..Parallel : /\ commands[q] \in Seq(CrossQueue!Command)
                                   /\ submitted[q] \in Nat /\ submitted[q] <= MaxWork
                                   /\ retired[q] \in Nat
<1>1. value \in Nat /\ value <= QueuePoints
  BY CrossTypes, CrossBound
<1>2. reached[Fence] \in Nat
  <2>1. reached[Fence] \in 0..QueuePoints
    BY CrossTypes
  <2> QED
    BY <2>1, CrossBound
<1>3. reached[Fence] <= value
  BY Zenon DEF CrossInv, CrossSignals
<1>4. ASSUME NEW q \in 0..Parallel
      PROVE  /\ commands[q] \in Seq(CrossQueue!Command)
             /\ submitted[q] \in Nat /\ submitted[q] <= MaxWork /\ retired[q] \in Nat
  <2>1. commands[q] \in Seq(CrossQueue!Command)
    BY CrossTypes
  <2>2. submitted[q] \in 0..MaxWork /\ retired[q] \in 0..MaxWork
    BY CrossTypes
  <2>3. \A n \in Nat : \A k \in 0..n : k \in Nat /\ k <= n
    OBVIOUS
  <2> QED
    BY <2>1, <2>2, <2>3, CrossBound, Zenon
<1> QED
  BY <1>1, <1>2, <1>3, <1>4

\* What a point stands for is counted.
LEMMA CrossOwed ==
  ASSUME CrossInv, NEW p \in 1..QueuePoints, NEW q \in 0..Parallel
  PROVE  owed[p][q] \in 0..MaxWork /\ owed[p][q] \in Nat
<1>1. owed \in [1..QueuePoints -> [0..Parallel -> 0..MaxWork]]
  BY CrossTypes
<1>2. owed[p][q] \in 0..MaxWork
  BY <1>1
<1> QED
  BY <1>2, CrossBound

\* A command in a queue.
LEMMA CrossQueued ==
  ASSUME CrossInv, NEW q \in 0..Parallel, NEW i \in 1..Len(commands[q])
  PROVE  commands[q][i] \in CrossQueue!Command
<1>1. commands[q] \in Seq(CrossQueue!Command)
  BY CrossNumbers
<1> QED
  BY <1>1

\* A signal in a queue is for a point that is accepted and not reached.
LEMMA CrossSignalled ==
  ASSUME CrossInv, NEW q \in 0..Parallel, NEW i \in 1..Len(commands[q]),
         commands[q][i].op = "signal"
  PROVE  /\ commands[q][i] = CrossQueue!SignalOf(Fence, commands[q][i].value)
         /\ commands[q][i].value \in 1..QueuePoints /\ commands[q][i].value \in Nat
         /\ commands[q][i].fence = Fence
         /\ reached[Fence] < commands[q][i].value /\ commands[q][i].value <= value
<1>1. commands[q][i] \in CrossQueue!Command
  BY CrossQueued
<1>2. /\ commands[q][i] = CrossQueue!SignalOf(Fence, commands[q][i].value)
      /\ commands[q][i].value \in 1..QueuePoints
  BY <1>1, CrossCommands
<1>3. /\ commands[q][i].fence = Fence
      /\ reached[Fence] < commands[q][i].value /\ commands[q][i].value <= value
  BY Zenon DEF CrossInv, CrossSignals
<1>4. \A z \in 1..QueuePoints : z \in Nat
  OBVIOUS
<1> QED
  BY <1>2, <1>3, <1>4, Zenon

\* Nothing is submitted yet.
LEMMA CrossFirst ==
  ASSUME CrossQueue!NotesInit, CrossQueue!QueuesInit
  PROVE  CrossInv
<1> USE CrossBound
<1>1. /\ commands = [q \in 0..Parallel |-> <<>>] /\ reached = [f \in {Fence} |-> 0]
      /\ submitted = [q \in 0..Parallel |-> 0] /\ retired = [q \in 0..Parallel |-> 0]
      /\ value = 0 /\ last = NoQueue /\ failures = 0
      /\ owed = [p \in 1..QueuePoints |-> [q \in 0..Parallel |-> 0]]
  BY DEF CrossQueue!NotesInit, CrossQueue!QueuesInit, CrossQueue!GpuInit
<1>2. CrossQueue!TypeOK
  <2>1. <<>> \in Seq(CrossQueue!Command)
    BY EmptySeq
  <2>2. commands \in [0..Parallel -> Seq(CrossQueue!Command)]
    BY <1>1, <2>1
  <2>3. 0 \in 0..QueuePoints /\ 0 \in 0..MaxWork /\ 0 \in 0..MaxFailures
    OBVIOUS
  <2> QED
    BY <1>1, <2>2, <2>3 DEF CrossQueue!TypeOK
<1>3. \A q \in 0..Parallel : commands[q] = <<>> /\ Len(commands[q]) = 0
  BY <1>1
<1>4. reached[Fence] = 0
  BY <1>1
<1>5. CrossWork
  <2> DEFINE g == [i \in Nat |-> 0]
  <2>1. \A q \in 0..Parallel : retired[q] = 0 /\ submitted[q] = 0
    BY <1>1
  <2>2. \A q \in 0..Parallel : Meter(commands[q], g, retired[q], submitted[q])
    <3>1. g \in [Nat -> Nat] /\ g[0] = 0
      OBVIOUS
    <3> QED
      BY <1>3, <2>1, <3>1 DEF Meter
  <2>3. g \in [Nat -> Nat]
    OBVIOUS
  <2> HIDE DEF g
  <2>4. ASSUME NEW q \in 0..Parallel
        PROVE  \E k \in [Nat -> Nat] :
                 /\ Meter(commands[q], k, retired[q], submitted[q])
                 /\ \A i \in 1..Len(commands[q]) : commands[q][i].op = "signal" =>
                      owed[commands[q][i].value][q] <= k[i]
    <3>1. \A i \in 1..Len(commands[q]) : FALSE
      BY <1>3
    <3> QED
      BY <2>2, <2>3, <3>1, Zenon
  <2>5. ASSUME NEW q \in 0..Parallel
        PROVE  (\A p \in 1..reached[Fence] : owed[p][q] <= retired[q]) /\ retired[q] <= submitted[q]
    BY <1>4, <2>1
  <2> QED
    BY <2>4, <2>5, Zenon DEF CrossWork
<1>6. CrossElsewhere /\ CrossSignals /\ CrossOrder /\ CrossLast
  BY <1>1, <1>3, <1>4 DEF CrossElsewhere, CrossSignals, CrossOrder, CrossLast
<1> QED
  BY <1>2, <1>5, <1>6 DEF CrossInv

\* The type invariant after a step, over the queues themselves.
LEMMA CrossTyped ==
  ASSUME commands' \in [0..Parallel -> Seq(CrossQueue!Command)],
         reached' \in [{Fence} -> 0..QueuePoints], value' \in 0..QueuePoints,
         submitted' \in [0..Parallel -> 0..MaxWork], retired' \in [0..Parallel -> 0..MaxWork],
         owed' \in [1..QueuePoints -> [0..Parallel -> 0..MaxWork]],
         last' \in (0..Parallel) \union {NoQueue}, failures' \in 0..MaxFailures
  PROVE  CrossQueue!TypeOK'
BY Zenon DEF CrossQueue!TypeOK

\* The commands of a queue up to one of them.
LEMMA Before ==
  ASSUME NEW n \in Nat, NEW i \in 1..(n + 1)
  PROVE  i \in Nat /\ \A j \in 1..(i - 1) : j \in 1..n
OBVIOUS

\* A point is signalled by one command only.
LEMMA CrossOnce ==
  ASSUME CrossInv, NEW q \in 0..Parallel, NEW i \in 1..Len(commands[q]),
         NEW r \in 0..Parallel, NEW j \in 1..Len(commands[r]),
         commands[q][i].op = "signal", commands[r][j].op = "signal",
         commands[r][j].value = commands[q][i].value
  PROVE  r = q /\ j = i
<1>1. \A s \in 0..Parallel : \A k \in 1..Len(commands[s]) :
        commands[s][k].op = "signal" /\ commands[s][k].value = commands[q][i].value =>
          s = q /\ k = i
  BY Zenon DEF CrossInv, CrossSignals
<1> QED
  BY <1>1, Zenon

\* A command that is not a signal is added to a queue.
LEMMA CrossQuiet ==
  ASSUME CrossInv, NEW q \in 0..Parallel, NEW x \in CrossQueue!Command, NEW k \in {0, 1},
         x.op # "signal", x.op = "wait" => x.value <= value, x.op = "work" <=> k = 1,
         commands' = [commands EXCEPT ![q] = @ \o <<x>>],
         reached' = reached, retired' = retired, value' = value, owed' = owed,
         submitted'[q] = submitted[q] + k,
         \A r \in 0..Parallel : r # q => submitted'[r] = submitted[r]
  PROVE  /\ commands' \in [0..Parallel -> Seq(CrossQueue!Command)]
         /\ CrossWork' /\ CrossElsewhere' /\ CrossSignals' /\ CrossOrder'
         /\ Len(commands[q]) \in Nat /\ Len(commands'[q]) = Len(commands[q]) + 1
         /\ commands'[q][Len(commands[q]) + 1] = x
         /\ \A r \in 0..Parallel : \A v \in Nat :
              Behind(r, v, Len(commands[r]) + 1) => (Behind(r, v, Len(commands[r]) + 1))'
<1> DEFINE n == Len(commands[q])
<1>1. /\ commands' \in [0..Parallel -> Seq(CrossQueue!Command)]
      /\ n \in Nat /\ Len(commands'[q]) = n + 1 /\ commands'[q][n + 1] = x
      /\ \A i \in 1..n : commands'[q][i] = commands[q][i]
      /\ \A r \in 0..Parallel : r # q => commands'[r] = commands[r]
  <2>1. <<x>> \in Seq(CrossQueue!Command) /\ Len(<<x>>) = 1 /\ <<x>>[1] = x
    OBVIOUS
  <2>2. commands \in [0..Parallel -> Seq(CrossQueue!Command)]
    BY CrossTypes
  <2> QED
    BY <2>1, <2>2, Added
<1> HIDE DEF n
<1>2. (\A i \in 1..n : i \in 1..(n + 1)) /\ \A i \in 1..(n + 1) : i = n + 1 \/ i \in 1..n
  BY <1>1
<1>3. \A r \in 0..Parallel : \A i \in 1..Len(commands[r]) :
        i \in 1..Len(commands'[r]) /\ commands'[r][i] = commands[r][i]
  BY <1>1, <1>2, Zenon DEF n
<1>4. ASSUME NEW r \in 0..Parallel, NEW i \in 1..Len(commands'[r])
      PROVE  \/ i \in 1..Len(commands[r]) /\ commands'[r][i] = commands[r][i]
             \/ r = q /\ i = n + 1 /\ commands'[r][i] = x
  BY <1>1, <1>2, Zenon DEF n
<1>5. ASSUME NEW r \in 0..Parallel, NEW i \in 1..Len(commands'[r]), commands'[r][i].op = "signal"
      PROVE  i \in 1..Len(commands[r]) /\ commands'[r][i] = commands[r][i]
  BY <1>4, <1>5, Zenon
<1>6. ASSUME NEW r \in 0..Parallel, NEW i \in 1..(Len(commands[r]) + 1)
      PROVE  \A j \in 1..(i - 1) :
               j \in 1..Len(commands[r]) /\ commands'[r][j] = commands[r][j]
  <2>1. Len(commands[r]) \in Nat
    BY CrossNumbers
  <2>2. \A j \in 1..(i - 1) : j \in 1..Len(commands[r])
    BY <2>1, Before, Zenon
  <2> QED
    BY <1>3, <2>2, Zenon
<1>7. CrossWork'
  <2>1. ASSUME NEW r \in 0..Parallel
        PROVE  /\ \E g \in [Nat -> Nat] :
                   /\ Meter(commands'[r], g, retired'[r], submitted'[r])
                   /\ \A i \in 1..Len(commands'[r]) : commands'[r][i].op = "signal" =>
                        owed'[commands'[r][i].value][r] <= g[i]
               /\ \A p \in 1..reached'[Fence] : owed'[p][r] <= retired'[r]
               /\ retired'[r] <= submitted'[r]
    <3>1. /\ \E g \in [Nat -> Nat] :
               /\ Meter(commands[r], g, retired[r], submitted[r])
               /\ \A i \in 1..Len(commands[r]) : commands[r][i].op = "signal" =>
                    owed[commands[r][i].value][r] <= g[i]
          /\ \A p \in 1..reached[Fence] : owed[p][r] <= retired[r]
          /\ retired[r] <= submitted[r]
      BY Zenon DEF CrossInv, CrossWork
    <3>2. CASE r # q
      BY <1>1, <3>1, <3>2, Zenon
    <3>3. CASE r = q
      <4>1. PICK g \in [Nat -> Nat] :
              /\ Meter(commands[q], g, retired[q], submitted[q])
              /\ \A i \in 1..n : commands[q][i].op = "signal" =>
                   owed[commands[q][i].value][q] <= g[i]
        BY <3>1, <3>3 DEF n
      <4>2. retired[q] \in Nat /\ submitted[q] \in Nat
        BY CrossNumbers
      <4>3. Longer(commands[q], commands'[q], k)
        <5>1. n + 1 \in Nat /\ n < n + 1 /\ \A i \in (n + 2)..(n + 1) : FALSE
          BY <1>1
        <5> QED
          BY <1>1, <5>1 DEF Longer, n
      <4>4. PICK h \in [Nat -> Nat] :
              /\ Meter(commands'[q], h, retired[q], submitted[q] + k)
              /\ GoesOn(h, g, commands[q], commands'[q], submitted[q] + k)
        BY <4>1, <4>2, <4>3, MeterAdd
      <4>5. ASSUME NEW i \in 1..Len(commands'[q]), commands'[q][i].op = "signal"
            PROVE  owed[commands'[q][i].value][q] <= h[i]
        <5>1. i \in 1..n /\ commands'[q][i] = commands[q][i]
          BY <1>5, <4>5 DEF n
        <5>2. h[i] = g[i]
          BY <4>4, <5>1 DEF GoesOn, n
        <5> QED
          BY <4>1, <4>5, <5>1, <5>2, Zenon
      <4>6. Meter(commands'[q], h, retired[q], submitted'[q])
        BY <4>4, Zenon
      <4>7. retired[q] <= submitted'[q]
        <5>1. retired[q] <= submitted[q]
          BY <3>1, <3>3, Zenon
        <5>2. \A a, b, c \in Nat : a <= b => a <= b + c
          OBVIOUS
        <5>3. k \in Nat
          OBVIOUS
        <5> QED
          BY <4>2, <5>1, <5>2, <5>3, Zenon
      <4> QED
        BY <3>1, <3>3, <4>4, <4>5, <4>6, <4>7, Zenon
    <3> QED
      BY <3>2, <3>3
  <2> QED
    BY <2>1, Zenon DEF CrossWork
<1>8. CrossElsewhere'
  <2>1. ASSUME NEW r \in 0..Parallel, NEW i \in 1..Len(commands'[r]),
               commands'[r][i].op = "signal", NEW s \in 0..Parallel, s # r
        PROVE  owed'[commands'[r][i].value][s] =
                 IF commands'[r][i].value = 1 THEN 0 ELSE owed'[commands'[r][i].value - 1][s]
    <3>1. i \in 1..Len(commands[r]) /\ commands'[r][i] = commands[r][i]
      BY <1>5, <2>1
    <3>2. owed[commands[r][i].value][s] =
            IF commands[r][i].value = 1 THEN 0 ELSE owed[commands[r][i].value - 1][s]
      BY <2>1, <3>1, ZenonT(30) DEF CrossInv, CrossElsewhere
    <3> QED
      BY <3>1, <3>2
  <2> QED
    BY <2>1, Zenon DEF CrossElsewhere
<1>9. CrossSignals'
  <2>1. reached'[Fence] <= value'
    BY Zenon DEF CrossInv, CrossSignals
  <2>2. ASSUME NEW v \in (reached'[Fence] + 1)..value'
        PROVE  \E r \in 0..Parallel : \E i \in 1..Len(commands'[r]) :
                 commands'[r][i] = CrossQueue!SignalOf(Fence, v)
    <3>1. PICK r \in 0..Parallel : \E i \in 1..Len(commands[r]) :
            commands[r][i] = CrossQueue!SignalOf(Fence, v)
      BY Zenon DEF CrossInv, CrossSignals
    <3> QED
      BY <1>3, <3>1, ZenonT(30)
  <2>3. ASSUME NEW r \in 0..Parallel, NEW i \in 1..Len(commands'[r]), commands'[r][i].op = "signal"
        PROVE  /\ commands'[r][i].fence = Fence
               /\ reached'[Fence] < commands'[r][i].value /\ commands'[r][i].value <= value'
               /\ \A s \in 0..Parallel : \A j \in 1..Len(commands'[s]) :
                    commands'[s][j].op = "signal" /\ commands'[s][j].value = commands'[r][i].value
                      => s = r /\ j = i
    <3>1. i \in 1..Len(commands[r]) /\ commands'[r][i] = commands[r][i]
      BY <1>5, <2>3
    <3>2. /\ commands[r][i].fence = Fence
          /\ reached[Fence] < commands[r][i].value /\ commands[r][i].value <= value
      BY <2>3, <3>1, Zenon DEF CrossInv, CrossSignals
    <3>3. ASSUME NEW s \in 0..Parallel, NEW j \in 1..Len(commands'[s]),
                 commands'[s][j].op = "signal", commands'[s][j].value = commands'[r][i].value
          PROVE  s = r /\ j = i
      <4>1. j \in 1..Len(commands[s]) /\ commands'[s][j] = commands[s][j]
        BY <1>5, <3>3
      <4>2. commands[s][j].op = "signal" /\ commands[s][j].value = commands[r][i].value
            /\ commands[r][i].op = "signal"
        BY <2>3, <3>1, <3>3, <4>1
      <4> QED
        BY <3>1, <4>1, <4>2, CrossOnce
    <3> QED
      BY <3>1, <3>2, <3>3, Zenon
  <2> QED
    BY <2>1, <2>2, <2>3, Zenon DEF CrossSignals, CrossQueue!SignalOf
<1>10. CrossOrder'
  <2>1. ASSUME NEW r \in 0..Parallel, NEW i \in 1..Len(commands'[r]), commands'[r][i].op = "signal"
        PROVE  \/ reached'[Fence] >= commands'[r][i].value - 1
               \/ \E j \in 1..(i - 1) :
                    commands'[r][j] \in
                      {CrossQueue!WaitFor(Fence, commands'[r][i].value - 1),
                       CrossQueue!SignalOf(Fence, commands'[r][i].value - 1)}
    <3>1. i \in 1..Len(commands[r]) /\ commands'[r][i] = commands[r][i]
      BY <1>5, <2>1
    <3>2. Behind(r, commands[r][i].value - 1, i)
      BY <2>1, <3>1, Zenon DEF CrossInv, CrossOrder
    <3>3. i \in 1..(Len(commands[r]) + 1)
      <4>1. Len(commands[r]) \in Nat
        BY CrossNumbers
      <4> QED
        BY <3>1, <4>1, Upto, Zenon
    <3>4. \A j \in 1..(i - 1) : commands'[r][j] = commands[r][j]
      BY <1>6, <3>3, Zenon
    <3> QED
      BY <3>1, <3>2, <3>4, Zenon DEF Behind
  <2>2. ASSUME NEW r \in 0..Parallel, NEW i \in 1..Len(commands'[r]), commands'[r][i].op = "wait"
        PROVE  /\ commands'[r][i].fence = Fence /\ commands'[r][i].value <= value'
               /\ \A j \in (i + 1)..Len(commands'[r]) : commands'[r][j].op = "signal" =>
                    commands'[r][i].value < commands'[r][j].value
    <3>1. CASE i \in 1..Len(commands[r]) /\ commands'[r][i] = commands[r][i]
      <4>1. /\ commands[r][i].fence = Fence /\ commands[r][i].value <= value
            /\ \A j \in (i + 1)..Len(commands[r]) : commands[r][j].op = "signal" =>
                 commands[r][i].value < commands[r][j].value
        BY <2>2, <3>1, Zenon DEF CrossInv, CrossOrder
      <4>2. ASSUME NEW j \in (i + 1)..Len(commands'[r]), commands'[r][j].op = "signal"
            PROVE  j \in (i + 1)..Len(commands[r]) /\ commands'[r][j] = commands[r][j]
        <5>1. j \in 1..Len(commands'[r])
          BY <2>2
        <5>2. j \in 1..Len(commands[r]) /\ commands'[r][j] = commands[r][j]
          BY <1>5, <4>2, <5>1
        <5>3. Len(commands[r]) \in Nat
          BY CrossNumbers
        <5> QED
          BY <2>2, <4>2, <5>2, <5>3
      <4> QED
        BY <3>1, <4>1, <4>2, Zenon
    <3>2. CASE r = q /\ i = n + 1 /\ commands'[r][i] = x
      <4>1. x.fence = Fence /\ x.value <= value'
        BY <2>2, <3>2, CrossCommands
      <4>2. \A j \in (i + 1)..Len(commands'[r]) : FALSE
        BY <1>1, <3>2
      <4> QED
        BY <3>2, <4>1, <4>2, Zenon
    <3> QED
      BY <1>4, <3>1, <3>2
  <2> QED
    BY <2>1, <2>2, Zenon DEF CrossOrder, Behind, CrossQueue!SignalOf, CrossQueue!WaitFor
<1>11. ASSUME NEW r \in 0..Parallel, NEW v \in Nat, Behind(r, v, Len(commands[r]) + 1)
       PROVE  (Behind(r, v, Len(commands[r]) + 1))'
  <2>1. Len(commands[r]) \in Nat
    BY CrossNumbers
  <2>2. Len(commands'[r]) \in Nat
    <3>1. commands'[r] \in Seq(CrossQueue!Command)
      BY <1>1
    <3> QED
      BY <3>1
  <2>3. \A j \in 1..((Len(commands[r]) + 1) - 1) :
          j \in 1..((Len(commands'[r]) + 1) - 1) /\ commands'[r][j] = commands[r][j]
    BY <1>3, <2>1, <2>2, Upto, Zenon
  <2> QED
    BY <1>11, <2>3, Zenon DEF Behind, CrossQueue!SignalOf, CrossQueue!WaitFor
<1> QED
  BY <1>1, <1>7, <1>8, <1>9, <1>10, <1>11 DEF n

\* The note of the last queue after a command that is not a signal.
LEMMA CrossNoted ==
  ASSUME CrossInv, value' = value, backend' = backend,
         value # 0 /\ backend' = "d3d11" => last' = 0,
         \A r \in 0..Parallel : value # 0 /\ last' = r =>
           (Behind(r, value, Len(commands[r]) + 1))'
  PROVE  CrossLast'
BY Zenon DEF CrossLast

\* The application submits work to a queue.
LEMMA CrossSubmit ==
  ASSUME CrossInv, NEW q \in 0..Parallel, CrossQueue!SubmitWork(q),
         UNCHANGED CrossQueue!fenceVars, backend' = backend
  PROVE  CrossInv'
<1> DEFINE x == CrossQueue!Work
<1>1. /\ submitted[q] < MaxWork /\ submitted' = [submitted EXCEPT ![q] = @ + 1]
      /\ commands' = [commands EXCEPT ![q] = Append(@, x)]
      /\ reached' = reached /\ retired' = retired /\ value' = value /\ last' = last
      /\ failures' = failures /\ owed' = owed
  BY DEF CrossQueue!SubmitWork, CrossQueue!fenceVars
<1>2. x \in CrossQueue!Command /\ x.op = "work" /\ x.op # "signal" /\ x.op # "wait"
  BY DEF CrossQueue!Command, CrossQueue!Work
<1> HIDE DEF x
<1>3. commands' = [commands EXCEPT ![q] = @ \o <<x>>]
  <2>1. commands[q] \in Seq(CrossQueue!Command)
    BY CrossNumbers
  <2>2. Append(commands[q], x) = commands[q] \o <<x>>
    BY <1>2, <2>1
  <2> QED
    BY <1>1, <2>2
<1>4. /\ submitted'[q] = submitted[q] + 1
      /\ \A r \in 0..Parallel : r # q => submitted'[r] = submitted[r]
      /\ submitted' \in [0..Parallel -> 0..MaxWork]
  <2>1. submitted \in [0..Parallel -> 0..MaxWork] /\ submitted[q] \in Nat
    BY CrossTypes, CrossNumbers
  <2>2. submitted[q] + 1 \in 0..MaxWork
    BY <1>1, <2>1, CrossBound
  <2> QED
    BY <1>1, <2>1, <2>2
<1>5. /\ commands' \in [0..Parallel -> Seq(CrossQueue!Command)]
      /\ CrossWork' /\ CrossElsewhere' /\ CrossSignals' /\ CrossOrder'
      /\ \A r \in 0..Parallel : \A v \in Nat :
           Behind(r, v, Len(commands[r]) + 1) => (Behind(r, v, Len(commands[r]) + 1))'
  BY <1>1, <1>2, <1>3, <1>4, CrossQuiet
<1>6. CrossQueue!TypeOK'
  BY <1>1, <1>4, <1>5, CrossTypes, CrossTyped
<1>7. CrossLast'
  <2>1. value \in Nat
    BY CrossNumbers
  <2>2. ASSUME NEW r \in 0..Parallel, value # 0, last' = r
        PROVE  (Behind(r, value, Len(commands[r]) + 1))'
    <3>1. Behind(r, value, Len(commands[r]) + 1)
      BY <1>1, <2>2, Zenon DEF CrossInv, CrossLast
    <3> QED
      BY <1>1, <1>5, <2>1, <3>1
  <2>3. value # 0 /\ backend' = "d3d11" => last' = 0
    BY <1>1, Zenon DEF CrossInv, CrossLast
  <2> QED
    BY <1>1, <2>2, <2>3, CrossNoted
<1> QED
  BY <1>5, <1>6, <1>7 DEF CrossInv

\* A submission fails before the wait is given to the queue, or behind it.
LEMMA CrossFails ==
  ASSUME CrossInv, backend \in {"d3d11", "d3d12", "vulkan"}, backend' = backend,
         NEW q \in CrossQueue!Source, CrossQueue!QueueFenceFails(q)
  PROVE  CrossInv'
<1>1. q \in 0..Parallel /\ (backend = "d3d11" => q = 0)
  BY CrossBound DEF CrossQueue!Source
<1>2. /\ reached' = reached /\ submitted' = submitted /\ retired' = retired /\ value' = value
      /\ owed' = owed /\ last' = q /\ failures < MaxFailures /\ failures' = failures + 1
  BY DEF CrossQueue!QueueFenceFails
<1>3. failures' \in 0..MaxFailures /\ last' \in (0..Parallel) \union {NoQueue} /\ value \in Nat
  <2>1. failures \in 0..MaxFailures
    BY CrossTypes
  <2> QED
    BY <1>1, <1>2, <2>1, CrossBound, CrossNumbers
<1>4. CASE CrossQueue!NeedsWait(q)
  <2> DEFINE x == CrossQueue!WaitFor(Fence, value)
  <2>1. value # 0 /\ commands' = [commands EXCEPT ![q] = @ \o <<x>>]
    BY <1>4 DEF CrossQueue!QueueFenceFails, CrossQueue!NeedsWait, CrossQueue!Enqueue
  <2>2. x \in CrossQueue!Command /\ x.op = "wait" /\ x.op # "signal" /\ x.op # "work"
        /\ x.value = value
    <3>1. value \in 1..QueuePoints
      BY <2>1, CrossTypes, CrossBound
    <3> QED
      BY <3>1 DEF CrossQueue!Command, CrossQueue!WaitFor
  <2>3. submitted'[q] = submitted[q] + 0 /\ 0 \in {0, 1} /\ 0 # 1 /\ value <= value
    BY <1>1, <1>2, <1>3, CrossNumbers
  <2> HIDE DEF x
  <2>4. /\ commands' \in [0..Parallel -> Seq(CrossQueue!Command)]
        /\ CrossWork' /\ CrossElsewhere' /\ CrossSignals' /\ CrossOrder'
        /\ Len(commands[q]) \in Nat /\ Len(commands'[q]) = Len(commands[q]) + 1
        /\ commands'[q][Len(commands[q]) + 1] = x
    <3>1. \A r \in 0..Parallel : r # q => submitted'[r] = submitted[r]
      BY <1>2
    <3>2. x.op = "wait" => x.value <= value
      BY <2>2, <2>3
    <3>3. x.op = "work" <=> 0 = 1
      BY <2>2
    <3> QED
      BY <1>1, <1>2, <2>1, <2>2, <2>3, <3>1, <3>2, <3>3, CrossQuiet
  <2>5. CrossQueue!TypeOK'
    BY <1>2, <1>3, <2>4, CrossTypes, CrossTyped
  <2>6. ASSUME NEW r \in 0..Parallel, last' = r
        PROVE  \E j \in 1..((Len(commands'[r]) + 1) - 1) : commands'[r][j] = x
    <3>1. r = q
      BY <1>2, <2>6
    <3> DEFINE n == Len(commands[q])
    <3>2. n \in Nat /\ Len(commands'[q]) = n + 1 /\ commands'[q][n + 1] = x
      BY <2>4
    <3> HIDE DEF n
    <3>3. n + 1 \in 1..(((n + 1) + 1) - 1)
      BY <3>2
    <3> QED
      BY <3>1, <3>2, <3>3
  <2>7. CrossLast'
    <3>1. \A r \in 0..Parallel : value # 0 /\ last' = r =>
           (Behind(r, value, Len(commands[r]) + 1))'
      BY <1>2, <2>6, Zenon DEF Behind, x, CrossQueue!WaitFor
    <3>2. value # 0 /\ backend' = "d3d11" => last' = 0
      BY <1>1, <1>2
    <3> QED
      BY <1>1, <1>2, <3>1, <3>2, CrossNoted
  <2> QED
    BY <2>4, <2>5, <2>7 DEF CrossInv
<1>5. CASE ~CrossQueue!NeedsWait(q)
  <2>1. commands' = commands
    BY <1>5 DEF CrossQueue!QueueFenceFails
  <2>2. CrossQueue!TypeOK'
    BY <1>2, <1>3, <2>1, CrossTypes, CrossTyped
  <2>3. CrossWork' /\ CrossElsewhere'
    <3>1. CrossWork'
      BY <1>2, <2>1 DEF CrossInv, CrossWork
    <3>2. CrossElsewhere'
      BY <1>2, <2>1 DEF CrossInv, CrossElsewhere
    <3> QED
      BY <3>1, <3>2
  <2>4. CrossSignals' /\ CrossOrder'
    <3>1. CrossSignals'
      BY <1>2, <2>1 DEF CrossInv, CrossSignals, CrossQueue!SignalOf
    <3>2. CrossOrder'
      BY <1>2, <2>1 DEF CrossInv, CrossOrder, Behind, CrossQueue!SignalOf, CrossQueue!WaitFor
    <3> QED
      BY <3>1, <3>2
  <2>5. CrossLast'
    <3>1. value # 0 => backend = "d3d11" \/ (backend = "vulkan" /\ last = q)
      BY <1>5 DEF CrossQueue!NeedsWait
    <3>2. value # 0 => last = q
      BY <1>1, <3>1, Zenon DEF CrossInv, CrossLast
    <3>3. \A r \in 0..Parallel : value # 0 /\ last' = r =>
           Behind(r, value, Len(commands[r]) + 1)
      BY <1>2, <3>2, Zenon DEF CrossInv, CrossLast
    <3>4. \A r \in 0..Parallel : value # 0 /\ last' = r =>
           (Behind(r, value, Len(commands[r]) + 1))'
      BY <1>2, <2>1, <3>3, Zenon DEF Behind, CrossQueue!SignalOf, CrossQueue!WaitFor
    <3>5. value # 0 /\ backend' = "d3d11" => last' = 0
      BY <1>1, <1>2
    <3> QED
      BY <1>1, <1>2, <3>4, <3>5, CrossNoted
  <2> QED
    BY <2>2, <2>3, <2>4, <2>5 DEF CrossInv
<1> QED
  BY <1>4, <1>5

\* A queue of two commands.
LEMMA TwoParts ==
  ASSUME NEW S, NEW u \in Seq(S), NEW v \in Seq(S)
  PROVE  Len(u) = 1 /\ Len(v) = 1 =>
           u \o v \in Seq(S) /\ Len(u \o v) = 2 /\ (u \o v)[1] = u[1] /\ (u \o v)[2] = v[1]
<1>1. /\ u \o v \in Seq(S) /\ Len(u \o v) = Len(u) + Len(v)
      /\ \A i \in 1..Len(u) : (u \o v)[i] = u[i]
      /\ \A i \in 1..Len(v) : (u \o v)[Len(u) + i] = v[i]
  OBVIOUS
<1> DEFINE m == Len(u)
           n == Len(v)
           all == u \o v
<1> HIDE DEF m, n, all
<1>2. ASSUME m = 1, n = 1 PROVE Len(all) = 2 /\ all[1] = u[1] /\ all[2] = v[1]
  <2>1. 1 \in 1..m /\ 1 \in 1..n /\ m + 1 = 2 /\ m + n = 2
    BY <1>2
  <2>2. Len(all) = m + n /\ all[1] = u[1] /\ all[m + 1] = v[1]
    BY <1>1, <2>1, Zenon DEF m, n, all
  <2> QED
    BY <2>1, <2>2
<1> QED
  BY <1>1, <1>2 DEF m, n, all

\* QueueFence gives a queue the wait it needs and the signal: what the queues hold then.
LEMMA CrossGiven ==
  ASSUME CrossInv, backend \in {"d3d11", "d3d12", "vulkan"},
         NEW q \in 0..Parallel, CrossQueue!QueueFence(q)
  PROVE  LET n == Len(commands[q])
             N == Len(commands'[q])
         IN  /\ commands' \in [0..Parallel -> Seq(CrossQueue!Command)]
             /\ n \in Nat /\ N \in Nat /\ n < N
             /\ \A r \in 0..Parallel : r # q => commands'[r] = commands[r]
             /\ \A i \in 1..n : commands'[q][i] = commands[q][i]
             /\ commands'[q][N] = CrossQueue!SignalOf(Fence, value + 1)
             /\ \A i \in (n + 1)..N : i # N =>
                  commands'[q][i] = CrossQueue!WaitFor(Fence, value) /\ value # 0
             /\ CrossQueue!NeedsWait(q) =>
                  N = n + 2 /\ commands'[q][n + 1] = CrossQueue!WaitFor(Fence, value)
<1> DEFINE n == Len(commands[q])
           N == Len(commands'[q])
           s == CrossQueue!SignalOf(Fence, value + 1)
           w == CrossQueue!WaitFor(Fence, value)
<1>1. /\ value < QueuePoints /\ value \in Nat
      /\ commands \in [0..Parallel -> Seq(CrossQueue!Command)]
  BY CrossTypes, CrossNumbers DEF CrossQueue!QueueFence
<1>2. s \in CrossQueue!Command
  <2>1. value + 1 \in 1..QueuePoints
    BY <1>1, CrossBound
  <2> QED
    BY <2>1 DEF CrossQueue!Command
<1>3. value # 0 => w \in CrossQueue!Command
  <2>1. value # 0 => value \in 1..QueuePoints
    BY <1>1, CrossBound
  <2> QED
    BY <2>1 DEF CrossQueue!Command
<1>4. CASE CrossQueue!NeedsWait(q)
  <2>1. value # 0 /\ commands' = [commands EXCEPT ![q] = @ \o (<<w>> \o <<s>>)]
    BY <1>4 DEF CrossQueue!QueueFence, CrossQueue!Enqueue, CrossQueue!NeedsWait
  <2> HIDE DEF s, w
  <2> DEFINE u == <<w>>
             v == <<s>>
  <2>2. /\ u \in Seq(CrossQueue!Command) /\ Len(u) = 1 /\ u[1] = w
        /\ v \in Seq(CrossQueue!Command) /\ Len(v) = 1 /\ v[1] = s
    BY <1>2, <1>3, <2>1
  <2> DEFINE new == u \o v
  <2>3. /\ commands' \in [0..Parallel -> Seq(CrossQueue!Command)] /\ n \in Nat
        /\ N = n + 2 /\ commands'[q][n + 1] = w /\ commands'[q][n + 2] = s
        /\ \A i \in 1..n : commands'[q][i] = commands[q][i]
        /\ \A r \in 0..Parallel : r # q => commands'[r] = commands[r]
    <3>1. commands' = [commands EXCEPT ![q] = @ \o new]
      BY <2>1
    <3> HIDE DEF u, v
    <3>2. /\ new \in Seq(CrossQueue!Command) /\ Len(new) = 2 /\ new[1] = w /\ new[2] = s
          /\ 1 \in 1..2 /\ 2 \in 1..2
      BY <2>2, TwoParts
    <3> HIDE DEF new
    <3>4. new \in Seq(CrossQueue!Command)
      BY <3>2
    <3>3. /\ commands' \in [0..Parallel -> Seq(CrossQueue!Command)]
          /\ n \in Nat /\ Len(new) \in Nat /\ N = n + Len(new)
          /\ \A i \in 1..Len(commands[q]) : commands'[q][i] = commands[q][i]
          /\ \A i \in 1..Len(new) : commands'[q][n + i] = new[i]
          /\ \A r \in 0..Parallel : r # q => commands'[r] = commands[r]
      <4>1. /\ commands' \in [0..Parallel -> Seq(CrossQueue!Command)]
            /\ Len(commands[q]) \in Nat /\ Len(new) \in Nat
            /\ Len(commands'[q]) = Len(commands[q]) + Len(new)
            /\ \A i \in 1..Len(commands[q]) : commands'[q][i] = commands[q][i]
            /\ \A i \in 1..Len(new) : commands'[q][Len(commands[q]) + i] = new[i]
            /\ \A c \in 0..Parallel : c # q => commands'[c] = commands[c]
        BY <1>1, <3>1, <3>4, Added
      <4> QED
        BY <4>1
    <3> HIDE DEF n, N
    <3> QED
      BY <3>2, <3>3 DEF n, N
  <2> HIDE DEF n, N
  <2>4. N \in Nat /\ n < N /\ \A i \in (n + 1)..N : i # N => i = n + 1
    BY <2>3
  <2> QED
    BY <2>1, <2>3, <2>4 DEF n, N, s, w
<1>5. CASE ~CrossQueue!NeedsWait(q)
  <2>1. commands' = [commands EXCEPT ![q] = @ \o (<<>> \o <<s>>)]
    BY <1>5 DEF CrossQueue!QueueFence, CrossQueue!Enqueue
  <2> HIDE DEF s, w
  <2>2. <<>> \o <<s>> = <<s>> /\ <<s>> \in Seq(CrossQueue!Command) /\ Len(<<s>>) = 1 /\ <<s>>[1] = s
    BY <1>2
  <2>3. /\ commands' \in [0..Parallel -> Seq(CrossQueue!Command)] /\ n \in Nat
        /\ N = n + 1 /\ commands'[q][n + 1] = s
        /\ \A i \in 1..n : commands'[q][i] = commands[q][i]
        /\ \A r \in 0..Parallel : r # q => commands'[r] = commands[r]
    <3>1. commands' = [commands EXCEPT ![q] = @ \o <<s>>]
      BY <2>1, <2>2
    <3> QED
      BY <1>1, <2>2, <3>1, Added
  <2> HIDE DEF n, N
  <2>4. N \in Nat /\ n < N /\ \A i \in (n + 1)..N : i # N => FALSE
    BY <2>3
  <2> QED
    BY <1>5, <2>3, <2>4 DEF n, N, s, w
<1> QED
  BY <1>4, <1>5

\* QueueFence accepts a point: the invariant.
LEMMA CrossQueueFence ==
  ASSUME CrossInv, backend \in {"d3d11", "d3d12", "vulkan"}, backend' = backend,
         NEW q \in CrossQueue!Source, CrossQueue!QueueFence(q)
  PROVE  CrossInv'
<1> DEFINE n == Len(commands[q])
           N == Len(commands'[q])
           v == value + 1
<1>1. q \in 0..Parallel /\ (backend = "d3d11" => q = 0)
  BY CrossBound DEF CrossQueue!Source
<1>2. /\ commands' \in [0..Parallel -> Seq(CrossQueue!Command)]
      /\ n \in Nat /\ N \in Nat /\ n < N
      /\ \A r \in 0..Parallel : r # q => commands'[r] = commands[r]
      /\ \A i \in 1..n : commands'[q][i] = commands[q][i]
      /\ commands'[q][N] = CrossQueue!SignalOf(Fence, v)
      /\ \A i \in (n + 1)..N : i # N =>
           commands'[q][i] = CrossQueue!WaitFor(Fence, value) /\ value # 0
      /\ CrossQueue!NeedsWait(q) =>
           N = n + 2 /\ commands'[q][n + 1] = CrossQueue!WaitFor(Fence, value)
  BY <1>1, CrossGiven
<1>3. /\ value < QueuePoints /\ value' = v /\ last' = q /\ reached' = reached
      /\ submitted' = submitted /\ retired' = retired /\ failures' = failures
      /\ owed' = [owed EXCEPT ![v] =
                    [r \in 0..Parallel |-> IF r = q THEN submitted[q]
                                           ELSE IF value = 0 THEN 0 ELSE owed[value][r]]]
  BY DEF CrossQueue!QueueFence
<1> HIDE DEF n, N, v
<1>4. /\ v = value + 1 /\ value \in Nat /\ v \in 1..QueuePoints /\ reached[Fence] \in Nat
      /\ reached[Fence] <= value /\ v - 1 = value /\ value < v /\ v # 0
      /\ (v = 1 <=> value = 0) /\ \A p \in 1..value : p \in 1..QueuePoints /\ p # v
  <2>1. /\ value \in Nat /\ value < QueuePoints /\ reached[Fence] \in Nat
        /\ reached[Fence] <= value
    BY <1>3, CrossNumbers
  <2> QED
    BY <2>1, CrossBound DEF v
<1>5. /\ owed' \in [1..QueuePoints -> [0..Parallel -> 0..MaxWork]]
      /\ \A p \in 1..QueuePoints : p # v => owed'[p] = owed[p]
      /\ owed'[v][q] = submitted[q]
      /\ \A r \in 0..Parallel : r # q => owed'[v][r] = IF value = 0 THEN 0 ELSE owed[value][r]
  <2> DEFINE f == [r \in 0..Parallel |-> IF r = q THEN submitted[q]
                                         ELSE IF value = 0 THEN 0 ELSE owed[value][r]]
  <2>1. owed \in [1..QueuePoints -> [0..Parallel -> 0..MaxWork]]
    BY CrossTypes
  <2>2. f \in [0..Parallel -> 0..MaxWork]
    <3>1. submitted \in [0..Parallel -> 0..MaxWork]
      BY CrossTypes
    <3>2. value # 0 => value \in 1..QueuePoints
      BY <1>3, <1>4, CrossBound
    <3>3. value # 0 => \A r \in 0..Parallel : owed[value][r] \in 0..MaxWork
      BY <2>1, <3>2
    <3>4. 0 \in 0..MaxWork
      BY CrossBound
    <3> QED
      BY <1>1, <3>1, <3>3, <3>4
  <2>3. f[q] = submitted[q]
        /\ \A r \in 0..Parallel : r # q => f[r] = IF value = 0 THEN 0 ELSE owed[value][r]
    BY <1>1
  <2>4. owed' = [owed EXCEPT ![v] = f]
    BY <1>3
  <2> HIDE DEF f
  <2>5. /\ owed' \in [1..QueuePoints -> [0..Parallel -> 0..MaxWork]] /\ owed'[v] = f
        /\ \A p \in 1..QueuePoints : p # v => owed'[p] = owed[p]
    BY <1>4, <2>1, <2>2, <2>4
  <2> QED
    BY <2>3, <2>5
<1>6. /\ CrossQueue!SignalOf(Fence, v).op = "signal"
      /\ CrossQueue!SignalOf(Fence, v).fence = Fence /\ CrossQueue!SignalOf(Fence, v).value = v
      /\ CrossQueue!WaitFor(Fence, value).op = "wait"
      /\ CrossQueue!WaitFor(Fence, value).fence = Fence
      /\ CrossQueue!WaitFor(Fence, value).value = value
  BY DEF CrossQueue!SignalOf, CrossQueue!WaitFor
<1> DEFINE s == CrossQueue!SignalOf(Fence, v)
           w == CrossQueue!WaitFor(Fence, value)
<1> HIDE DEF s, w
<1>7. /\ \A i \in 1..n : i \in 1..N
      /\ \A i \in 1..N : i = N \/ i \in 1..n \/ (i \in (n + 1)..N /\ i # N)
      /\ N \in 1..N /\ N \in (n + 1)..N /\ N \in Nat
  BY <1>2
<1>8. \A r \in 0..Parallel : \A i \in 1..Len(commands[r]) :
        i \in 1..Len(commands'[r]) /\ commands'[r][i] = commands[r][i]
  BY <1>2, <1>7, Zenon DEF n, N
<1>9. ASSUME NEW r \in 0..Parallel, NEW i \in 1..Len(commands'[r])
      PROVE  \/ i \in 1..Len(commands[r]) /\ commands'[r][i] = commands[r][i]
             \/ r = q /\ i = N /\ commands'[r][i] = s
             \/ r = q /\ i \in (n + 1)..N /\ i # N /\ commands'[r][i] = w
  BY <1>2, <1>7, Zenon DEF n, N, s, w
<1>10. ASSUME NEW r \in 0..Parallel, NEW i \in 1..Len(commands'[r]),
              commands'[r][i].op = "signal"
       PROVE  \/ /\ i \in 1..Len(commands[r]) /\ commands'[r][i] = commands[r][i]
                 /\ commands[r][i].op = "signal"
              \/ r = q /\ i = N /\ commands'[r][i] = s
  <2>1. w.op # "signal"
    BY <1>6 DEF w
  <2> QED
    BY <1>9, <1>10, <2>1, Zenon
<1>11. ASSUME NEW r \in 0..Parallel, NEW i \in 1..Len(commands[r]), commands[r][i].op = "signal"
       PROVE  /\ commands[r][i].value \in Nat /\ commands[r][i].value <= value
              /\ reached[Fence] < commands[r][i].value
              /\ commands[r][i].value # v /\ commands[r][i].fence = Fence
              /\ \A c \in 0..Parallel :
                   owed'[commands[r][i].value][c] = owed[commands[r][i].value][c]
              /\ commands[r][i].value # 1 => \A c \in 0..Parallel :
                   owed'[commands[r][i].value - 1][c] = owed[commands[r][i].value - 1][c]
  <2> DEFINE u == commands[r][i].value
  <2>1. u \in Nat /\ reached[Fence] < u /\ u <= value /\ commands[r][i].fence = Fence
    BY <1>11, CrossSignalled
  <2> HIDE DEF u
  <2>2. u # v /\ u \in 1..value /\ (u # 1 => u - 1 \in 1..value)
    BY <1>4, <2>1
  <2>3. owed'[u] = owed[u] /\ (u # 1 => owed'[u - 1] = owed[u - 1])
    BY <1>4, <1>5, <2>2, Zenon
  <2> QED
    BY <2>1, <2>2, <2>3 DEF u
<1>12. CrossQueue!TypeOK'
  <2>1. value' \in 0..QueuePoints /\ last' \in (0..Parallel) \union {NoQueue}
    BY <1>1, <1>3, <1>4, CrossBound
  <2> QED
    BY <1>2, <1>3, <1>5, <2>1, CrossTypes, CrossTyped
<1>13. CrossWork'
  <2>1. ASSUME NEW r \in 0..Parallel
        PROVE  /\ \E g \in [Nat -> Nat] :
                   /\ Meter(commands'[r], g, retired'[r], submitted'[r])
                   /\ \A i \in 1..Len(commands'[r]) : commands'[r][i].op = "signal" =>
                        owed'[commands'[r][i].value][r] <= g[i]
               /\ \A p \in 1..reached'[Fence] : owed'[p][r] <= retired'[r]
               /\ retired'[r] <= submitted'[r]
    <3>1. /\ \E g \in [Nat -> Nat] :
               /\ Meter(commands[r], g, retired[r], submitted[r])
               /\ \A i \in 1..Len(commands[r]) : commands[r][i].op = "signal" =>
                    owed[commands[r][i].value][r] <= g[i]
          /\ \A p \in 1..reached[Fence] : owed[p][r] <= retired[r]
          /\ retired[r] <= submitted[r]
      BY Zenon DEF CrossInv, CrossWork
    <3>2. ASSUME NEW p \in 1..reached[Fence] PROVE owed'[p][r] <= retired'[r]
      <4>1. p \in 1..value
        BY <1>4, Within, Zenon
      <4>2. owed'[p] = owed[p]
        BY <1>4, <1>5, <4>1, Zenon
      <4> QED
        BY <1>3, <3>1, <4>2
    <3>3. \E g \in [Nat -> Nat] :
            /\ Meter(commands'[r], g, retired[r], submitted[r])
            /\ \A i \in 1..Len(commands'[r]) : commands'[r][i].op = "signal" =>
                 owed'[commands'[r][i].value][r] <= g[i]
      <4>1. PICK g \in [Nat -> Nat] :
              /\ Meter(commands[r], g, retired[r], submitted[r])
              /\ \A i \in 1..Len(commands[r]) : commands[r][i].op = "signal" =>
                   owed[commands[r][i].value][r] <= g[i]
        BY <3>1
      <4>2. CASE r # q
        <5>1. commands'[r] = commands[r]
          BY <1>2, <4>2
        <5>2. ASSUME NEW i \in 1..Len(commands'[r]), commands'[r][i].op = "signal"
              PROVE  owed'[commands'[r][i].value][r] <= g[i]
          <6>1. i \in 1..Len(commands[r]) /\ commands[r][i].op = "signal"
            BY <5>1, <5>2
          <6>2. owed'[commands[r][i].value][r] = owed[commands[r][i].value][r]
            BY <1>11, <6>1
          <6> QED
            BY <4>1, <5>1, <6>1, <6>2
        <5> QED
          BY <4>1, <5>1, <5>2
      <4>3. CASE r = q
        <5>1. retired[q] \in Nat /\ submitted[q] \in Nat
          BY <1>1, CrossNumbers
        <5>2. Longer(commands[q], commands'[q], 0) /\ 0 \in {0, 1}
          <6>1. ASSUME NEW i \in (n + 1)..N PROVE commands'[q][i].op # "work"
            BY <1>2, <1>6
          <6>2. n + 1 \in (n + 1)..N /\ \A i \in (n + 2)..N : i \in (n + 1)..N
            BY <1>2
          <6>3. commands'[q][n + 1].op # "work"
            BY <6>1, <6>2
          <6>4. \A i \in (n + 2)..N : commands'[q][i].op # "work"
            BY <6>1, <6>2
          <6> QED
            BY <1>2, <6>3, <6>4 DEF Longer, n, N
        <5>3. PICK h \in [Nat -> Nat] :
                /\ Meter(commands'[q], h, retired[q], submitted[q] + 0)
                /\ GoesOn(h, g, commands[q], commands'[q], submitted[q] + 0)
          BY <4>1, <4>3, <5>1, <5>2, MeterAdd
        <5>4. submitted[q] + 0 = submitted[q]
          BY <5>1
        <5>5. h[N] = submitted[q] /\ \A i \in 1..n : h[i] = g[i]
          <6>1. N \in (n + 1)..N
            BY <1>7
          <6> QED
            BY <5>3, <5>4, <6>1 DEF GoesOn, n, N
        <5>6. ASSUME NEW i \in 1..Len(commands'[q]), commands'[q][i].op = "signal"
              PROVE  owed'[commands'[q][i].value][q] <= h[i]
          <6>1. CASE i = N /\ commands'[q][i] = s
            <7>1. owed'[commands'[q][i].value][q] = submitted[q]
              BY <1>5, <1>6, <6>1 DEF s
            <7> QED
              BY <5>1, <5>5, <6>1, <7>1
          <6>2. CASE /\ i \in 1..Len(commands[q]) /\ commands'[q][i] = commands[q][i]
                     /\ commands[q][i].op = "signal"
            <7>1. owed'[commands[q][i].value][q] = owed[commands[q][i].value][q]
              BY <1>1, <1>11, <6>2
            <7>2. h[i] = g[i]
              BY <5>5, <6>2 DEF n
            <7> QED
              BY <4>1, <4>3, <6>2, <7>1, <7>2
          <6> QED
            BY <1>1, <1>10, <5>6, <6>1, <6>2
        <5>7. Meter(commands'[q], h, retired[q], submitted[q])
          BY <5>3, <5>4
        <5> QED
          BY <4>3, <5>6, <5>7
      <4> QED
        BY <4>2, <4>3
    <3> QED
      BY <1>3, <3>1, <3>2, <3>3
  <2> QED
    BY <2>1, Zenon DEF CrossWork
<1>14. CrossElsewhere'
  <2>1. ASSUME NEW r \in 0..Parallel, NEW i \in 1..Len(commands'[r]),
               commands'[r][i].op = "signal", NEW c \in 0..Parallel, c # r
        PROVE  owed'[commands'[r][i].value][c] =
                 IF commands'[r][i].value = 1 THEN 0 ELSE owed'[commands'[r][i].value - 1][c]
    <3>1. CASE r = q /\ i = N /\ commands'[r][i] = s
      <4>1. commands'[r][i].value = v
        BY <1>6, <3>1 DEF s
      <4>2. owed'[v][c] = IF value = 0 THEN 0 ELSE owed[value][c]
        BY <1>5, <2>1, <3>1
      <4>3. value # 0 => owed'[v - 1][c] = owed[value][c]
        <5>1. value # 0 => value \in 1..value
          BY <1>4
        <5>2. value # 0 => owed'[value] = owed[value]
          BY <1>4, <1>5, <5>1, Zenon
        <5> QED
          BY <1>4, <5>2
      <4> QED
        BY <1>4, <4>1, <4>2, <4>3
    <3>2. CASE /\ i \in 1..Len(commands[r]) /\ commands'[r][i] = commands[r][i]
               /\ commands[r][i].op = "signal"
      <4>1. owed[commands[r][i].value][c] =
              IF commands[r][i].value = 1 THEN 0 ELSE owed[commands[r][i].value - 1][c]
        BY <2>1, <3>2, Zenon DEF CrossInv, CrossElsewhere
      <4>2. /\ owed'[commands[r][i].value][c] = owed[commands[r][i].value][c]
            /\ commands[r][i].value # 1 =>
                 owed'[commands[r][i].value - 1][c] = owed[commands[r][i].value - 1][c]
        BY <1>11, <3>2
      <4> QED
        BY <3>2, <4>1, <4>2
    <3> QED
      BY <1>10, <2>1, <3>1, <3>2
  <2> QED
    BY <2>1, Zenon DEF CrossElsewhere
<1>15. CrossSignals'
  <2>1. reached'[Fence] <= value'
    BY <1>3, <1>4
  <2>2. ASSUME NEW p \in (reached'[Fence] + 1)..value'
        PROVE  \E r \in 0..Parallel : \E i \in 1..Len(commands'[r]) :
                 commands'[r][i] = CrossQueue!SignalOf(Fence, p)
    <3>1. CASE p = v
      BY <1>1, <1>2, <1>7, <3>1 DEF N
    <3>2. CASE p # v
      <4>1. p \in (reached[Fence] + 1)..value
        BY <1>3, <1>4, <3>2
      <4>2. PICK r \in 0..Parallel : \E i \in 1..Len(commands[r]) :
              commands[r][i] = CrossQueue!SignalOf(Fence, p)
        BY <4>1, Zenon DEF CrossInv, CrossSignals
      <4> QED
        BY <1>8, <4>2, Zenon
    <3> QED
      BY <3>1, <3>2
  <2>3. ASSUME NEW r \in 0..Parallel, NEW i \in 1..Len(commands'[r]), commands'[r][i].op = "signal"
        PROVE  /\ commands'[r][i].fence = Fence
               /\ reached'[Fence] < commands'[r][i].value /\ commands'[r][i].value <= value'
    <3>1. CASE commands'[r][i] = s
      <4>1. commands'[r][i].fence = Fence /\ commands'[r][i].value = v
        BY <1>6, <3>1 DEF s
      <4> QED
        BY <1>3, <1>4, <4>1
    <3>2. CASE /\ i \in 1..Len(commands[r]) /\ commands'[r][i] = commands[r][i]
               /\ commands[r][i].op = "signal"
      <4>1. /\ commands[r][i].fence = Fence /\ commands[r][i].value \in Nat
            /\ reached[Fence] < commands[r][i].value /\ commands[r][i].value <= value
        BY <1>11, <3>2
      <4> QED
        BY <1>3, <1>4, <3>2, <4>1
    <3> QED
      BY <1>10, <2>3, <3>1, <3>2
  <2>4. ASSUME NEW r \in 0..Parallel, NEW i \in 1..Len(commands'[r]), commands'[r][i].op = "signal",
               NEW c \in 0..Parallel, NEW j \in 1..Len(commands'[c]), commands'[c][j].op = "signal",
               commands'[c][j].value = commands'[r][i].value
        PROVE  c = r /\ j = i
    <3> DEFINE Old(a, b) == /\ b \in 1..Len(commands[a]) /\ commands'[a][b] = commands[a][b]
                            /\ commands[a][b].op = "signal"
               New(a, b) == a = q /\ b = N /\ commands'[a][b] = s
    <3>1. (Old(r, i) \/ New(r, i)) /\ (Old(c, j) \/ New(c, j))
      BY <1>10, <2>4
    <3>2. ASSUME Old(r, i), Old(c, j) PROVE c = r /\ j = i
      BY <2>4, <3>2, CrossOnce
    <3>3. s.value = v
      BY <1>6 DEF s
    <3>4. ~(Old(r, i) /\ New(c, j))
      <4>1. Old(r, i) => commands'[r][i].value # v
        BY <1>11
      <4> QED
        BY <2>4, <3>3, <4>1
    <3>5. ~(New(r, i) /\ Old(c, j))
      <4>1. Old(c, j) => commands'[c][j].value # v
        BY <1>11
      <4> QED
        BY <2>4, <3>3, <4>1
    <3> QED
      BY <3>1, <3>2, <3>4, <3>5
  <2> QED
    <3>1. ASSUME NEW r \in 0..Parallel, NEW i \in 1..Len(commands'[r]),
                 commands'[r][i].op = "signal"
          PROVE  /\ commands'[r][i].fence = Fence
                 /\ reached'[Fence] < commands'[r][i].value /\ commands'[r][i].value <= value'
                 /\ \A c \in 0..Parallel : \A j \in 1..Len(commands'[c]) :
                      commands'[c][j].op = "signal" /\ commands'[c][j].value = commands'[r][i].value
                        => c = r /\ j = i
      BY <2>3, <2>4, <3>1
    <3> QED
      BY <2>1, <2>2, <3>1, Zenon DEF CrossSignals, CrossQueue!SignalOf
\* The signal comes after the point before it.
<1>16. \/ reached[Fence] >= value
       \/ \E j \in 1..(N - 1) : commands'[q][j] \in {w, CrossQueue!SignalOf(Fence, value)}
  <2>1. CASE value = 0
    BY <1>4, <2>1
  <2>2. CASE CrossQueue!NeedsWait(q)
    <3>1. n + 1 \in 1..(N - 1) /\ commands'[q][n + 1] = w
      <4>1. N = n + 2 /\ commands'[q][n + 1] = w
        BY <1>2, <2>2 DEF w
      <4> QED
        BY <1>2, <4>1
    <3> QED
      BY <3>1
  <2>3. CASE value # 0 /\ ~CrossQueue!NeedsWait(q)
    <3>1. backend = "d3d11" \/ (backend = "vulkan" /\ last = q)
      BY <2>3 DEF CrossQueue!NeedsWait
    <3>2. last = q
      BY <1>1, <2>3, <3>1, Zenon DEF CrossInv, CrossLast
    <3>3. Behind(q, value, Len(commands[q]) + 1)
      BY <1>1, <2>3, <3>2, Zenon DEF CrossInv, CrossLast
    <3>4. \A j \in 1..((n + 1) - 1) : j \in 1..(N - 1) /\ commands'[q][j] = commands[q][j]
      <4>1. \A j \in 1..((n + 1) - 1) : j \in 1..(N - 1) /\ j \in 1..n
        BY <1>2
      <4> QED
        BY <1>2, <4>1
    <3> QED
      BY <3>3, <3>4, Zenon DEF Behind, n, w
  <2> QED
    BY <2>1, <2>2, <2>3
<1>17. CrossOrder'
  <2>1. ASSUME NEW r \in 0..Parallel, NEW i \in 1..Len(commands'[r]), commands'[r][i].op = "signal"
        PROVE  \/ reached'[Fence] >= commands'[r][i].value - 1
               \/ \E j \in 1..(i - 1) :
                    commands'[r][j] \in
                      {CrossQueue!WaitFor(Fence, commands'[r][i].value - 1),
                       CrossQueue!SignalOf(Fence, commands'[r][i].value - 1)}
    <3>1. CASE r = q /\ i = N /\ commands'[r][i] = s
      <4>1. commands'[r][i].value - 1 = value
        BY <1>4, <1>6, <3>1 DEF s
      <4> QED
        BY <1>3, <1>16, <3>1, <4>1 DEF w
    <3>2. CASE /\ i \in 1..Len(commands[r]) /\ commands'[r][i] = commands[r][i]
               /\ commands[r][i].op = "signal"
      <4>1. Behind(r, commands[r][i].value - 1, i)
        BY <3>2, Zenon DEF CrossInv, CrossOrder
      <4>2. \A j \in 1..(i - 1) : commands'[r][j] = commands[r][j]
        <5>1. Len(commands[r]) \in Nat
          BY CrossNumbers
        <5>2. i \in 1..(Len(commands[r]) + 1)
          BY <3>2, <5>1, Upto, Zenon
        <5>3. \A j \in 1..(i - 1) : j \in 1..Len(commands[r])
          BY <5>1, <5>2, Before, Zenon
        <5> QED
          BY <1>8, <5>3, Zenon
      <4> QED
        BY <1>3, <3>2, <4>1, <4>2, Zenon DEF Behind
    <3> QED
      BY <1>10, <2>1, <3>1, <3>2
  <2>2. ASSUME NEW r \in 0..Parallel, NEW i \in 1..Len(commands'[r]), commands'[r][i].op = "wait"
        PROVE  /\ commands'[r][i].fence = Fence /\ commands'[r][i].value <= value'
               /\ \A j \in (i + 1)..Len(commands'[r]) : commands'[r][j].op = "signal" =>
                    commands'[r][i].value < commands'[r][j].value
    <3>1. ASSUME NEW j \in (i + 1)..Len(commands'[r]), commands'[r][j].op = "signal"
          PROVE  /\ j \in 1..Len(commands'[r])
                 /\ \/ /\ j \in (i + 1)..Len(commands[r]) /\ commands'[r][j] = commands[r][j]
                       /\ commands[r][j].op = "signal"
                    \/ commands'[r][j].value = v
      <4>1. j \in 1..Len(commands'[r])
        BY <2>2
      <4>2. \/ /\ j \in 1..Len(commands[r]) /\ commands'[r][j] = commands[r][j]
               /\ commands[r][j].op = "signal"
            \/ commands'[r][j].value = v
        BY <1>6, <1>10, <3>1, <4>1 DEF s
      <4>3. Len(commands[r]) \in Nat
        BY CrossNumbers
      <4>4. j \in 1..Len(commands[r]) => j \in (i + 1)..Len(commands[r])
        BY <2>2, <3>1, <4>3
      <4> QED
        BY <4>1, <4>2, <4>4, Zenon
    <3>2. CASE i \in 1..Len(commands[r]) /\ commands'[r][i] = commands[r][i]
      <4>1. /\ commands[r][i].fence = Fence /\ commands[r][i].value <= value
            /\ \A j \in (i + 1)..Len(commands[r]) : commands[r][j].op = "signal" =>
                 commands[r][i].value < commands[r][j].value
        BY <2>2, <3>2, Zenon DEF CrossInv, CrossOrder
      <4>2. commands[r][i].value \in Nat
        <5>1. commands[r][i] \in CrossQueue!Command
          BY <3>2, CrossQueued
        <5>2. commands[r][i].value \in 1..QueuePoints
          BY <2>2, <3>2, <5>1, CrossCommands
        <5> QED
          BY <5>2, CrossBound
      <4>3. commands[r][i].value <= v /\ commands[r][i].value < v
        BY <1>4, <4>1, <4>2
      <4> QED
        BY <1>3, <3>1, <3>2, <4>1, <4>3, Zenon
    <3>3. CASE r = q /\ i \in (n + 1)..N /\ i # N /\ commands'[r][i] = w
      <4>1. commands'[r][i].fence = Fence /\ commands'[r][i].value = value
        BY <1>6, <3>3 DEF w
      <4>2. \A j \in (i + 1)..Len(commands[r]) : FALSE
        BY <1>2, <3>3 DEF n
      <4> QED
        BY <1>3, <1>4, <3>1, <4>1, <4>2
    <3>4. s.op # "wait"
      BY <1>6 DEF s
    <3> QED
      BY <1>9, <2>2, <3>2, <3>3, <3>4
  <2> QED
    BY <2>1, <2>2, Zenon DEF CrossOrder, Behind, CrossQueue!SignalOf, CrossQueue!WaitFor
<1>18. CrossLast'
  <2>1. \E j \in 1..((N + 1) - 1) : commands'[q][j] = s
    <3>1. N \in 1..((N + 1) - 1)
      BY <1>7, Upto
    <3> QED
      BY <1>2, <3>1 DEF s
  <2>2. (Behind(q, value, Len(commands[q]) + 1))'
    BY <1>3, <2>1, Zenon DEF Behind, N, s, CrossQueue!SignalOf, CrossQueue!WaitFor
  <2>3. ASSUME NEW r \in 0..Parallel, last' = r PROVE (Behind(r, value, Len(commands[r]) + 1))'
    BY <1>3, <2>2, <2>3
  <2>4. backend' = "d3d11" => last' = 0
    BY <1>1, <1>3
  <2> QED
    BY <2>3, <2>4, Zenon DEF CrossLast
<1> QED
  BY <1>12, <1>13, <1>14, <1>15, <1>17, <1>18 DEF CrossInv

\* The length of a queue.
LEMMA CrossLength ==
  ASSUME CrossInv, NEW r \in 0..Parallel
  PROVE  Len(commands[r]) \in Nat
<1>1. commands[r] \in Seq(CrossQueue!Command)
  BY CrossNumbers
<1> QED
  BY <1>1

\* A queue executes its next command: what the queues hold then, and what it has done.
LEMMA CrossExecuted ==
  ASSUME CrossInv, NEW q \in 0..Parallel, CrossQueue!Execute(q),
         UNCHANGED CrossQueue!fenceVars
  PROVE  LET x == commands[q][1] IN
         /\ x \in CrossQueue!Command /\ Len(commands[q]) \in Nat \ {0}
         /\ commands' \in [0..Parallel -> Seq(CrossQueue!Command)]
         /\ Len(commands'[q]) = Len(commands[q]) - 1
         /\ \A i \in 1..Len(commands'[q]) :
              i + 1 \in 1..Len(commands[q]) /\ commands'[q][i] = commands[q][i + 1]
         /\ \A c \in 0..Parallel : c # q => commands'[c] = commands[c]
         /\ \/ x.op = "work" /\ retired' = [retired EXCEPT ![q] = @ + 1] /\ reached' = reached
            \/ x.op = "signal" /\ x.value \in 1..QueuePoints
               /\ x = CrossQueue!SignalOf(Fence, x.value)
               /\ reached' = [reached EXCEPT ![Fence] = x.value] /\ retired' = retired
            \/ x.op = "wait" /\ x.value \in 1..QueuePoints
               /\ x = CrossQueue!WaitFor(Fence, x.value)
               /\ reached[Fence] >= x.value /\ reached' = reached /\ retired' = retired
         /\ submitted' = submitted /\ value' = value /\ last' = last
         /\ failures' = failures /\ owed' = owed
<1> DEFINE x == commands[q][1]
<1>1. /\ commands \in [0..Parallel -> Seq(CrossQueue!Command)] /\ commands[q] # <<>>
      /\ commands' = [commands EXCEPT ![q] = Tail(@)] /\ submitted' = submitted
      /\ value' = value /\ last' = last /\ failures' = failures /\ owed' = owed
  BY CrossTypes DEF CrossQueue!Execute, CrossQueue!fenceVars
<1>2. /\ commands' \in [0..Parallel -> Seq(CrossQueue!Command)] /\ Head(commands[q]) = x
      /\ x \in CrossQueue!Command /\ Len(commands[q]) \in Nat \ {0}
      /\ Len(commands'[q]) = Len(commands[q]) - 1
      /\ \A i \in 1..Len(commands'[q]) :
           i + 1 \in 1..Len(commands[q]) /\ commands'[q][i] = commands[q][i + 1]
      /\ \A c \in 0..Parallel : c # q => commands'[c] = commands[c]
  BY <1>1, Removed
<1>3. /\ x.op = "signal" => /\ x.fence = Fence /\ x.value \in 1..QueuePoints
                            /\ x = CrossQueue!SignalOf(Fence, x.value)
      /\ x.op = "wait" => /\ x.fence = Fence /\ x.value \in 1..QueuePoints
                          /\ x = CrossQueue!WaitFor(Fence, x.value)
  BY <1>2, CrossCommands
<1> HIDE DEF x
<1>4. \/ x.op = "work" /\ retired' = [retired EXCEPT ![q] = retired[q] + 1] /\ reached' = reached
      \/ x.op = "signal" /\ reached' = [reached EXCEPT ![x.fence] = x.value] /\ retired' = retired
      \/ x.op = "wait" /\ reached[x.fence] >= x.value /\ reached' = reached /\ retired' = retired
  BY <1>2 DEF CrossQueue!Execute
<1> QED
  BY <1>1, <1>2, <1>3, <1>4 DEF x

\* A queue executes its next command: the invariant.
LEMMA CrossExecute ==
  ASSUME CrossInv, NEW q \in 0..Parallel, CrossQueue!Execute(q),
         UNCHANGED CrossQueue!fenceVars, backend' = backend
  PROVE  CrossInv'
<1> DEFINE x == commands[q][1]
           n == Len(commands[q])
           v == x.value
           At(r, i) == IF r = q THEN i + 1 ELSE i
<1>1. /\ x \in CrossQueue!Command /\ n \in Nat \ {0}
      /\ commands' \in [0..Parallel -> Seq(CrossQueue!Command)] /\ Len(commands'[q]) = n - 1
      /\ \A i \in 1..Len(commands'[q]) :
           i + 1 \in 1..n /\ commands'[q][i] = commands[q][i + 1]
      /\ \A c \in 0..Parallel : c # q => commands'[c] = commands[c]
      /\ \/ x.op = "work" /\ retired' = [retired EXCEPT ![q] = @ + 1] /\ reached' = reached
         \/ x.op = "signal" /\ v \in 1..QueuePoints
            /\ x = CrossQueue!SignalOf(Fence, v)
            /\ reached' = [reached EXCEPT ![Fence] = v] /\ retired' = retired
         \/ x.op = "wait" /\ v \in 1..QueuePoints
            /\ x = CrossQueue!WaitFor(Fence, v)
            /\ reached[Fence] >= v /\ reached' = reached /\ retired' = retired
      /\ submitted' = submitted /\ value' = value /\ last' = last
      /\ failures' = failures /\ owed' = owed
  BY CrossExecuted
<1>2. /\ \A i \in 2..n : i - 1 \in 1..(n - 1) /\ commands'[q][i - 1] = commands[q][i]
      /\ 1 \in 1..n
  <2>1. n \in Nat \ {0}
    BY <1>1
  <2> HIDE DEF n
  <2>2. \A i \in 2..n : i - 1 \in 1..(n - 1) /\ (i - 1) + 1 = i
    BY <2>1
  <2>3. 1 \in 1..n
    BY <2>1
  <2> QED
    BY <1>1, <2>2, <2>3
<1>3. ASSUME NEW r \in 0..Parallel, NEW i \in 1..Len(commands'[r])
      PROVE  /\ At(r, i) \in 1..Len(commands[r]) /\ commands'[r][i] = commands[r][At(r, i)]
             /\ i \in Nat
  BY <1>1
<1> HIDE DEF x, n, v
<1>4. /\ x.op = "signal" => reached' = [reached EXCEPT ![Fence] = v] /\ v \in 1..QueuePoints
                            /\ x = CrossQueue!SignalOf(Fence, v)
      /\ x.op # "signal" => reached' = reached
      /\ x.op = "work" => retired' = [retired EXCEPT ![q] = @ + 1]
      /\ x.op # "work" => retired' = retired
      /\ x.op = "wait" => reached[Fence] >= v /\ x = CrossQueue!WaitFor(Fence, v)
  BY <1>1
<1>5. x.op = "signal" =>
        /\ v \in Nat /\ v \in 1..QueuePoints /\ reached[Fence] = v - 1 /\ v <= value
        /\ reached'[Fence] = v
  <2>1. SUFFICES ASSUME x.op = "signal"
                 PROVE  /\ v \in Nat /\ v \in 1..QueuePoints /\ reached[Fence] = v - 1
                        /\ v <= value /\ reached'[Fence] = v
    OBVIOUS
  <2>2. v \in Nat /\ v \in 1..QueuePoints /\ reached[Fence] < v /\ v <= value
    BY <1>2, <2>1, CrossSignalled DEF x, n, v
  <2>3. Behind(q, v - 1, 1)
    BY <1>2, <2>1, Zenon DEF CrossInv, CrossOrder, x, n, v
  <2>4. reached[Fence] >= v - 1
    <3>1. \A j \in 1..(1 - 1) : FALSE
      OBVIOUS
    <3> QED
      BY <2>3, <3>1, Zenon DEF Behind
  <2>5. reached[Fence] \in Nat /\ reached \in [{Fence} -> 0..QueuePoints]
    BY CrossNumbers, CrossTypes
  <2>6. reached'[Fence] = v
    BY <1>4, <2>1, <2>5
  <2> QED
    BY <2>2, <2>4, <2>5, <2>6
<1>6. /\ reached[Fence] \in Nat /\ reached'[Fence] \in Nat
      /\ reached[Fence] <= reached'[Fence] /\ reached'[Fence] <= value /\ value \in Nat
      /\ reached' \in [{Fence} -> 0..QueuePoints]
  <2>1. /\ reached[Fence] \in Nat /\ value \in Nat /\ reached[Fence] <= value
        /\ reached \in [{Fence} -> 0..QueuePoints]
    BY CrossNumbers, CrossTypes
  <2>2. CASE x.op = "signal"
    <3>1. v \in 0..QueuePoints
      BY <1>5, <2>2, CrossBound
    <3>2. reached' \in [{Fence} -> 0..QueuePoints]
      BY <1>4, <2>1, <2>2, <3>1
    <3> QED
      BY <1>5, <2>1, <2>2, <3>2
  <2>3. CASE x.op # "signal"
    BY <1>4, <2>1, <2>3
  <2> QED
    BY <2>2, <2>3
<1>7. /\ x.op = "work" => retired'[q] = retired[q] + 1
      /\ x.op # "work" => retired'[q] = retired[q]
      /\ retired[q] \in Nat /\ \A r \in 0..Parallel : r # q => retired'[r] = retired[r]
  <2>1. retired \in [0..Parallel -> 0..MaxWork] /\ retired[q] \in Nat
    BY CrossTypes, CrossNumbers
  <2>2. CASE x.op = "work"
    BY <1>4, <2>1, <2>2
  <2>3. CASE x.op # "work"
    <3>1. retired' = retired
      BY <1>4, <2>3
    <3> QED
      BY <2>1, <2>3, <3>1
  <2> QED
    BY <2>2, <2>3
<1>8. PICK g \in [Nat -> Nat] :
        /\ Meter(commands[q], g, retired[q], submitted[q])
        /\ \A i \in 1..n : commands[q][i].op = "signal" =>
             owed[commands[q][i].value][q] <= g[i]
  BY DEF CrossInv, CrossWork, n
<1>9. Shorter(commands[q], commands'[q])
  BY <1>1 DEF Shorter, n
<1>10. /\ g[1] = retired'[q] /\ g[1] <= submitted[q]
       /\ \E h \in [Nat -> Nat] : Meter(commands'[q], h, g[1], submitted[q]) /\ Shifted(h, g)
  <2>1. retired[q] \in Nat /\ submitted[q] \in Nat
    BY CrossNumbers
  <2>2. Meter(commands[q], g, retired[q], submitted[q])
    BY <1>8
  <2>3. /\ commands[q][1].op = "work" => g[1] = retired[q] + 1
        /\ commands[q][1].op # "work" => g[1] = retired[q]
        /\ g[1] <= submitted[q]
    <3>1. /\ g[0] = retired[q] /\ g[1] <= submitted[q]
          /\ g[1] = g[1 - 1] + (IF commands[q][1].op = "work" THEN 1 ELSE 0)
      BY <1>2, <2>2 DEF Meter, n
    <3>2. 1 - 1 = 0
      OBVIOUS
    <3> QED
      BY <2>1, <3>1, <3>2
  <2>4. \E h \in [Nat -> Nat] : Meter(commands'[q], h, g[1], submitted[q]) /\ Shifted(h, g)
    BY <1>9, <2>1, <2>2, MeterTail
  <2> QED
    BY <1>7, <2>3, <2>4 DEF x
<1>11. PICK h \in [Nat -> Nat] : Meter(commands'[q], h, retired'[q], submitted[q]) /\ Shifted(h, g)
  BY <1>10
<1>12. CrossQueue!TypeOK'
  <2>1. retired'[q] \in 0..MaxWork
    <3>1. submitted[q] \in Nat /\ submitted[q] <= MaxWork
      BY CrossNumbers
    <3>2. retired'[q] \in Nat
      BY <1>7
    <3> QED
      BY <1>10, <3>1, <3>2, CrossBound
  <2>2. retired' \in [0..Parallel -> 0..MaxWork]
    <3>1. retired \in [0..Parallel -> 0..MaxWork]
      BY CrossTypes
    <3>2. retired' = [retired EXCEPT ![q] = retired'[q]]
      BY <1>1, <3>1
    <3> QED
      BY <2>1, <3>1, <3>2
  <2> QED
    BY <1>1, <1>6, <2>2, CrossTypes, CrossTyped
\* What is reached now is retired on every queue.
<1>13. ASSUME NEW r \in 0..Parallel, NEW p \in 1..reached'[Fence]
       PROVE  owed[p][r] <= retired'[r]
  <2>1. p \in 1..QueuePoints /\ p \in Nat
    <3>1. value <= QueuePoints
      BY CrossNumbers
    <3> QED
      BY <1>6, <3>1, CrossBound
  <2>2. owed[p][r] \in Nat /\ retired[r] \in Nat
    BY <2>1, CrossOwed, CrossNumbers
  <2>3. retired[r] <= retired'[r] /\ retired'[r] \in Nat
    <3>1. CASE r = q
      <4>1. retired'[q] = retired[q] + 1 \/ retired'[q] = retired[q]
        BY <1>7
      <4> QED
        BY <1>7, <3>1, <4>1
    <3>2. CASE r # q
      <4>1. retired'[r] = retired[r]
        BY <1>7, <3>2
      <4> QED
        BY <2>2, <4>1
    <3> QED
      BY <3>1, <3>2
  <2>4. CASE p \in 1..reached[Fence]
    <3>1. owed[p][r] <= retired[r]
      BY <2>4, Zenon DEF CrossInv, CrossWork
    <3> QED
      BY <2>2, <2>3, <3>1
  <2>5. CASE p \notin 1..reached[Fence]
    <3>1. reached'[Fence] # reached[Fence]
      BY <2>5
    <3>2. x.op = "signal"
      BY <1>4, <3>1
    <3>3. p = v /\ v - 1 = reached[Fence] /\ v \in Nat /\ v # 0
      <4>1. v \in Nat /\ reached[Fence] = v - 1 /\ reached'[Fence] = v
        BY <1>5, <3>2
      <4> QED
        BY <1>6, <2>1, <2>5, <4>1
    <3>4. CASE r = q
      <4>1. owed[v][q] <= g[1]
        BY <1>2, <1>8, <3>2 DEF x, v
      <4> QED
        BY <1>10, <3>3, <3>4, <4>1
    <3>5. CASE r # q
      <4>1. owed[v][r] = IF v = 1 THEN 0 ELSE owed[v - 1][r]
        BY <1>2, <3>2, <3>5, Zenon DEF CrossInv, CrossElsewhere, x, n, v
      <4>2. v # 1 => owed[v - 1][r] <= retired[r]
        <5>1. v # 1 => v - 1 \in 1..reached[Fence]
          BY <1>6, <3>3
        <5> QED
          BY <5>1, Zenon DEF CrossInv, CrossWork
      <4>3. owed[v][r] <= retired[r]
        <5>1. CASE v = 1
          BY <2>2, <4>1, <5>1
        <5>2. CASE v # 1
          BY <4>1, <4>2, <5>2
        <5> QED
          BY <5>1, <5>2
      <4> QED
        BY <2>2, <2>3, <3>3, <4>3
    <3> QED
      BY <3>4, <3>5
  <2> QED
    BY <2>4, <2>5
<1>14. CrossWork'
  <2>1. ASSUME NEW r \in 0..Parallel
        PROVE  /\ \E k \in [Nat -> Nat] :
                   /\ Meter(commands'[r], k, retired'[r], submitted'[r])
                   /\ \A i \in 1..Len(commands'[r]) : commands'[r][i].op = "signal" =>
                        owed'[commands'[r][i].value][r] <= k[i]
               /\ \A p \in 1..reached'[Fence] : owed'[p][r] <= retired'[r]
               /\ retired'[r] <= submitted'[r]
    <3>1. /\ \E k \in [Nat -> Nat] :
               /\ Meter(commands[r], k, retired[r], submitted[r])
               /\ \A i \in 1..Len(commands[r]) : commands[r][i].op = "signal" =>
                    owed[commands[r][i].value][r] <= k[i]
          /\ retired[r] <= submitted[r]
      BY Zenon DEF CrossInv, CrossWork
    <3>2. \A p \in 1..reached'[Fence] : owed'[p][r] <= retired'[r]
      BY <1>1, <1>13
    <3>3. CASE r # q
      <4>1. commands'[r] = commands[r] /\ retired'[r] = retired[r]
            /\ submitted' = submitted /\ owed' = owed
        BY <1>1, <1>7, <3>3
      <4> QED
        BY <3>1, <3>2, <4>1
    <3>4. ASSUME NEW i \in 1..Len(commands'[q]), commands'[q][i].op = "signal"
          PROVE  owed[commands'[q][i].value][q] <= h[i]
      <4>1. i + 1 \in 1..n /\ commands'[q][i] = commands[q][i + 1] /\ i \in Nat
        BY <1>1
      <4>2. h[i] = g[i + 1]
        BY <1>11, <4>1 DEF Shifted
      <4> QED
        BY <1>8, <3>4, <4>1, <4>2, Zenon
    <3>5. CASE r = q
      <4>1. submitted' = submitted /\ owed' = owed
        BY <1>1
      <4>2. retired'[q] <= submitted[q]
        BY <1>10
      <4> QED
        BY <1>11, <3>2, <3>4, <3>5, <4>1, <4>2
    <3> QED
      BY <3>3, <3>5
  <2> QED
    BY <2>1, Zenon DEF CrossWork
<1> HIDE DEF At
<1>15. CrossElsewhere'
  <2>1. ASSUME NEW r \in 0..Parallel, NEW i \in 1..Len(commands'[r]),
               commands'[r][i].op = "signal", NEW c \in 0..Parallel, c # r
        PROVE  owed'[commands'[r][i].value][c] =
                 IF commands'[r][i].value = 1 THEN 0 ELSE owed'[commands'[r][i].value - 1][c]
    <3>1. At(r, i) \in 1..Len(commands[r]) /\ commands'[r][i] = commands[r][At(r, i)]
      BY <1>3
    <3>2. commands[r][At(r, i)].op = "signal"
      BY <2>1, <3>1
    <3>3. owed[commands[r][At(r, i)].value][c] =
            IF commands[r][At(r, i)].value = 1 THEN 0 ELSE owed[commands[r][At(r, i)].value - 1][c]
      BY <2>1, <3>1, <3>2, Zenon DEF CrossInv, CrossElsewhere
    <3>4. owed' = owed
      BY <1>1
    <3> QED
      BY <3>1, <3>3, <3>4
  <2> QED
    BY <2>1, Zenon DEF CrossElsewhere
<1>16. CrossSignals'
  <2>1. reached'[Fence] <= value' /\ value' = value
    BY <1>1, <1>6
  <2>2. ASSUME NEW p \in (reached'[Fence] + 1)..value'
        PROVE  \E r \in 0..Parallel : \E i \in 1..Len(commands'[r]) :
                 commands'[r][i] = CrossQueue!SignalOf(Fence, p)
    <3>1. p \in (reached[Fence] + 1)..value /\ p # reached'[Fence]
      BY <1>6, <2>1
    <3>2. PICK r \in 0..Parallel : \E i \in 1..Len(commands[r]) :
            commands[r][i] = CrossQueue!SignalOf(Fence, p)
      BY <3>1, Zenon DEF CrossInv, CrossSignals
    <3>3. PICK i \in 1..Len(commands[r]) : commands[r][i] = CrossQueue!SignalOf(Fence, p)
      BY <3>2
    <3>4. CASE r # q
      BY <1>1, <3>3, <3>4
    <3>5. CASE r = q
      <4>1. i # 1
        <5>1. SUFFICES ASSUME i = 1 PROVE FALSE
          OBVIOUS
        <5>2. x = CrossQueue!SignalOf(Fence, p)
          BY <3>3, <3>5, <5>1 DEF x
        <5>3. x.op = "signal" /\ v = p
          BY <5>2 DEF v, CrossQueue!SignalOf
        <5> QED
          BY <1>5, <3>1, <5>3
      <4>2. i \in 2..n
        BY <1>1, <3>5, <4>1 DEF n
      <4>3. i - 1 \in 1..Len(commands'[q]) /\ commands'[q][i - 1] = commands[q][i]
        BY <1>1, <1>2, <4>2
      <4> QED
        BY <3>3, <3>5, <4>3
    <3> QED
      BY <3>4, <3>5
  <2>3. ASSUME NEW r \in 0..Parallel, NEW i \in 1..Len(commands'[r]), commands'[r][i].op = "signal"
        PROVE  /\ commands'[r][i].fence = Fence
               /\ reached'[Fence] < commands'[r][i].value /\ commands'[r][i].value <= value'
               /\ \A c \in 0..Parallel : \A j \in 1..Len(commands'[c]) :
                    commands'[c][j].op = "signal" /\ commands'[c][j].value = commands'[r][i].value
                      => c = r /\ j = i
    <3>1. /\ At(r, i) \in 1..Len(commands[r]) /\ commands'[r][i] = commands[r][At(r, i)]
          /\ i \in Nat
      BY <1>3
    <3>2. commands[r][At(r, i)].op = "signal"
      BY <2>3, <3>1
    <3> DEFINE u == commands[r][At(r, i)].value
    <3>3. /\ u \in Nat /\ reached[Fence] < u /\ u <= value
          /\ commands[r][At(r, i)].fence = Fence
      BY <3>1, <3>2, CrossSignalled
    <3>4. x.op = "signal" => u # v
      <4>1. SUFFICES ASSUME x.op = "signal", u = v PROVE FALSE
        OBVIOUS
      <4>2. r = q /\ At(r, i) = 1
        BY <1>2, <3>1, <3>2, <4>1, CrossOnce DEF x, n, v
      <4> QED
        BY <1>3, <3>1, <4>2 DEF At
    <3> HIDE DEF u
    <3>5. reached'[Fence] < u
      <4>1. CASE x.op = "signal"
        <5>1. v \in Nat /\ reached[Fence] = v - 1 /\ reached'[Fence] = v /\ u # v
          BY <1>5, <3>4, <4>1
        <5> QED
          BY <3>3, <5>1
      <4>2. CASE x.op # "signal"
        BY <1>4, <3>3, <4>2
      <4> QED
        BY <4>1, <4>2
    <3>6. ASSUME NEW c \in 0..Parallel, NEW j \in 1..Len(commands'[c]),
                 commands'[c][j].op = "signal", commands'[c][j].value = commands'[r][i].value
          PROVE  c = r /\ j = i
      <4>1. /\ At(c, j) \in 1..Len(commands[c]) /\ commands'[c][j] = commands[c][At(c, j)]
            /\ j \in Nat
        BY <1>3
      <4>2. /\ commands[c][At(c, j)].op = "signal"
            /\ commands[c][At(c, j)].value = commands[r][At(r, i)].value
        BY <3>1, <3>6, <4>1
      <4>3. c = r /\ At(c, j) = At(r, i)
        BY <3>1, <3>2, <4>1, <4>2, CrossOnce
      <4> QED
        BY <3>1, <4>1, <4>3 DEF At
    <3> QED
      BY <2>1, <3>1, <3>3, <3>5, <3>6 DEF u
  <2> QED
    BY <2>1, <2>2, <2>3, Zenon DEF CrossSignals, CrossQueue!SignalOf
\* What comes after a point still does.
<1>17. ASSUME NEW r \in 0..Parallel, NEW p \in Nat, NEW i \in 1..(Len(commands[r]) + 1),
              Behind(r, p, i)
       PROVE  \/ reached'[Fence] >= p
              \/ \E j \in 1..((IF r = q THEN i - 1 ELSE i) - 1) :
                   commands'[r][j] \in
                     {CrossQueue!WaitFor(Fence, p), CrossQueue!SignalOf(Fence, p)}
  <2>1. CASE reached[Fence] >= p
    BY <1>6, <2>1, StillThere, Zenon
  <2>2. CASE \E j \in 1..(i - 1) : commands[r][j] \in
               {CrossQueue!WaitFor(Fence, p), CrossQueue!SignalOf(Fence, p)}
    <3>1. PICK j \in 1..(i - 1) : commands[r][j] \in
               {CrossQueue!WaitFor(Fence, p), CrossQueue!SignalOf(Fence, p)}
      BY <2>2
    <3>2. CASE r # q
      BY <1>1, <3>1, <3>2
    <3>3. CASE r = q /\ j = 1
      <4>1. x \in {CrossQueue!WaitFor(Fence, p), CrossQueue!SignalOf(Fence, p)}
        BY <3>1, <3>3 DEF x
      <4>2. v = p /\ (x.op = "wait" \/ x.op = "signal")
        <5>1. /\ CrossQueue!WaitFor(Fence, p).op = "wait"
              /\ CrossQueue!WaitFor(Fence, p).value = p
              /\ CrossQueue!SignalOf(Fence, p).op = "signal"
              /\ CrossQueue!SignalOf(Fence, p).value = p
          BY DEF CrossQueue!WaitFor, CrossQueue!SignalOf
        <5> QED
          BY <4>1, <5>1 DEF v
      <4>3. x.op = "wait" => reached'[Fence] >= p
        BY <1>4, <4>2
      <4>4. x.op = "signal" => reached'[Fence] >= p
        <5>1. x.op = "signal" => reached'[Fence] = p
          BY <1>5, <4>2
        <5>2. p >= p
          OBVIOUS
        <5> QED
          BY <5>1, <5>2, Zenon
      <4> QED
        BY <4>2, <4>3, <4>4
    <3>4. CASE r = q /\ j # 1
      <4>1. j \in 2..n /\ j - 1 \in 1..((i - 1) - 1)
        <5>1. n = Len(commands[r])
          BY <3>4 DEF n
        <5>2. i \in 1..(n + 1) /\ n \in Nat
          BY <1>1, <5>1
        <5> QED
          BY <3>4, <5>2
      <4>2. commands'[r][j - 1] = commands[r][j]
        BY <1>2, <3>4, <4>1
      <4> QED
        BY <3>1, <3>4, <4>1, <4>2
    <3> QED
      BY <3>2, <3>3, <3>4
  <2> QED
    BY <1>17, <2>1, <2>2, Zenon DEF Behind
<1>18. CrossOrder'
  <2>1. ASSUME NEW r \in 0..Parallel, NEW i \in 1..Len(commands'[r]), commands'[r][i].op = "signal"
        PROVE  \/ reached'[Fence] >= commands'[r][i].value - 1
               \/ \E j \in 1..(i - 1) :
                    commands'[r][j] \in
                      {CrossQueue!WaitFor(Fence, commands'[r][i].value - 1),
                       CrossQueue!SignalOf(Fence, commands'[r][i].value - 1)}
    <3> DEFINE k == At(r, i)
    <3>1. k \in 1..Len(commands[r]) /\ commands'[r][i] = commands[r][k] /\ i \in Nat
      BY <1>3
    <3>2. (IF r = q THEN k - 1 ELSE k) = i
      BY <3>1 DEF At
    <3> HIDE DEF k
    <3>3. Behind(r, commands[r][k].value - 1, k)
      BY <2>1, <3>1, Zenon DEF CrossInv, CrossOrder
    <3>4. commands[r][k].value - 1 \in Nat
      <4>1. commands[r][k].value \in 1..QueuePoints
        BY <2>1, <3>1, CrossSignalled
      <4>2. \A z \in 1..QueuePoints : z - 1 \in Nat
        BY CrossBound
      <4> QED
        BY <4>1, <4>2, Zenon
    <3>5. k \in 1..(Len(commands[r]) + 1)
      <4>1. Len(commands[r]) \in Nat
        BY CrossLength, Zenon
      <4> QED
        BY <3>1, <4>1, Upto, Zenon
    <3> QED
      BY <1>17, <3>1, <3>2, <3>3, <3>4, <3>5
  <2>2. ASSUME NEW r \in 0..Parallel, NEW i \in 1..Len(commands'[r]), commands'[r][i].op = "wait"
        PROVE  /\ commands'[r][i].fence = Fence /\ commands'[r][i].value <= value'
               /\ \A j \in (i + 1)..Len(commands'[r]) : commands'[r][j].op = "signal" =>
                    commands'[r][i].value < commands'[r][j].value
    <3>1. At(r, i) \in 1..Len(commands[r]) /\ commands'[r][i] = commands[r][At(r, i)] /\ i \in Nat
      BY <1>3
    <3>2. commands[r][At(r, i)].op = "wait"
      BY <2>2, <3>1
    <3>3. /\ commands[r][At(r, i)].fence = Fence /\ commands[r][At(r, i)].value <= value
          /\ \A j \in (At(r, i) + 1)..Len(commands[r]) : commands[r][j].op = "signal" =>
               commands[r][At(r, i)].value < commands[r][j].value
      BY <3>1, <3>2, Zenon DEF CrossInv, CrossOrder
    <3>4. ASSUME NEW j \in (i + 1)..Len(commands'[r])
          PROVE  At(r, j) \in (At(r, i) + 1)..Len(commands[r])
                 /\ commands'[r][j] = commands[r][At(r, j)]
      <4>1. j \in 1..Len(commands'[r])
        BY <3>1, <3>4
      <4>2. At(r, j) \in 1..Len(commands[r]) /\ commands'[r][j] = commands[r][At(r, j)]
        BY <1>3, <4>1
      <4>3. Len(commands[r]) \in Nat
        BY CrossLength, Zenon
      <4>4. At(r, j) \in (At(r, i) + 1)..Len(commands[r])
        <5>1. j \in Int /\ i + 1 <= j
          BY <3>1, <3>4
        <5>2. At(r, i) + 1 <= At(r, j) /\ At(r, i) \in Int /\ At(r, j) \in Int
          BY <3>1, <5>1 DEF At
        <5> QED
          BY <4>2, <4>3, <5>2
      <4> QED
        BY <4>2, <4>4
    <3>5. value' = value
      BY <1>1
    <3> QED
      BY <3>1, <3>3, <3>4, <3>5
  <2> QED
    BY <2>1, <2>2, Zenon DEF CrossOrder, Behind, CrossQueue!SignalOf, CrossQueue!WaitFor
<1>19. CrossLast'
  <2>1. value' = value /\ last' = last /\ value \in Nat
    BY <1>1, <1>6
  <2>2. ASSUME NEW r \in 0..Parallel, value # 0, last = r
        PROVE  \/ reached'[Fence] >= value
               \/ \E j \in 1..((Len(commands'[r]) + 1) - 1) :
                    commands'[r][j] \in
                      {CrossQueue!WaitFor(Fence, value), CrossQueue!SignalOf(Fence, value)}
    <3> DEFINE k == Len(commands[r]) + 1
    <3>1. k \in 1..(Len(commands[r]) + 1) /\ k - 1 = Len(commands[r])
      <4>1. Len(commands[r]) \in Nat
        BY CrossLength, Zenon
      <4> QED
        BY <4>1, Upto, Zenon
    <3>2. (IF r = q THEN k - 1 ELSE k) = Len(commands'[r]) + 1
      <4>1. ASSUME r = q PROVE k - 1 = Len(commands'[r]) + 1
        <5>1. n = Len(commands[r]) /\ Len(commands'[r]) = n - 1 /\ n \in Nat
          BY <1>1, <4>1 DEF n
        <5>2. (n - 1) + 1 = n
          BY <5>1
        <5> QED
          BY <3>1, <5>1, <5>2
      <4>2. r # q => Len(commands'[r]) = Len(commands[r])
        BY <1>1
      <4> QED
        BY <4>1, <4>2
    <3>3. Behind(r, value, k)
      BY <2>2, Zenon DEF CrossInv, CrossLast
    <3> HIDE DEF k
    <3> QED
      BY <1>17, <2>1, <3>1, <3>2, <3>3
  <2>3. \A r \in 0..Parallel : value # 0 /\ last' = r => (Behind(r, value, Len(commands[r]) + 1))'
    BY <2>1, <2>2, Zenon DEF Behind, CrossQueue!WaitFor, CrossQueue!SignalOf
  <2>4. value # 0 /\ backend' = "d3d11" => last' = 0
    BY <2>1, Zenon DEF CrossInv, CrossLast
  <2> QED
    BY <2>1, <2>3, <2>4, CrossNoted
<1> QED
  BY <1>12, <1>14, <1>15, <1>16, <1>18, <1>19 DEF CrossInv

\* Every step of the backends on a device with queues.
LEMMA CrossStep ==
  ASSUME CrossInv, backend \in {"d3d11", "d3d12", "vulkan"}, CrossQueue!Next
  PROVE  CrossInv'
<1>1. backend' = backend
  BY DEF CrossQueue!Next
<1>2. CASE \E q \in CrossQueue!Source : CrossQueue!QueueFence(q) \/ CrossQueue!QueueFenceFails(q)
  <2>1. PICK q \in CrossQueue!Source : CrossQueue!QueueFence(q) \/ CrossQueue!QueueFenceFails(q)
    BY <1>2
  <2>2. CASE CrossQueue!QueueFence(q)
    BY <1>1, <2>1, <2>2, CrossQueueFence
  <2>3. CASE CrossQueue!QueueFenceFails(q)
    BY <1>1, <2>1, <2>3, CrossFails
  <2> QED
    BY <2>1, <2>2, <2>3
<1>3. CASE CrossQueue!Gpu
  <2>1. PICK q \in CrossQueue!Source :
          (CrossQueue!SubmitWork(q) \/ CrossQueue!Execute(q)) /\ UNCHANGED CrossQueue!fenceVars
    BY <1>3 DEF CrossQueue!Gpu
  <2>2. q \in 0..Parallel
    BY CrossBound DEF CrossQueue!Source
  <2>3. CASE CrossQueue!SubmitWork(q)
    BY <1>1, <2>1, <2>2, <2>3, CrossSubmit
  <2>4. CASE CrossQueue!Execute(q)
    BY <1>1, <2>1, <2>2, <2>4, CrossExecute
  <2> QED
    BY <2>1, <2>3, <2>4
<1> QED
  BY <1>2, <1>3 DEF CrossQueue!Next

\* A completed point covers what was submitted before it to any queue.
LEMMA CrossCovers ==
  ASSUME CrossInv, NEW p \in 1..reached[Fence], NEW q \in 0..Parallel
  PROVE  retired[q] >= owed[p][q]
<1>1. owed[p][q] <= retired[q]
  BY Zenon DEF CrossInv, CrossWork
<1>2. p \in 1..QueuePoints
  <2>1. reached[Fence] \in Nat /\ value \in Nat /\ reached[Fence] <= value /\ value <= QueuePoints
    BY CrossNumbers
  <2> QED
    BY <2>1, CrossBound
<1>3. owed[p][q] \in Nat /\ retired[q] \in Nat
  BY <1>2, CrossOwed, CrossNumbers
<1> QED
  BY <1>1, <1>3

\* The queue that signals the next point can go on: it waits for earlier points only.
LEMMA CrossGoesOn ==
  ASSUME CrossInv, NEW q \in 0..Parallel, commands[q] # <<>>
  PROVE  \E c \in 0..Parallel : /\ commands[c] # <<>>
                                /\ Head(commands[c]).op = "wait" =>
                                     reached[Head(commands[c]).fence] >= Head(commands[c]).value
<1>1. /\ reached[Fence] \in Nat /\ value \in Nat /\ reached[Fence] <= value
      /\ \A c \in 0..Parallel : commands[c] \in Seq(CrossQueue!Command)
  BY CrossNumbers
<1>2. ASSUME NEW c \in 0..Parallel, commands[c] # <<>>
      PROVE  /\ Head(commands[c]) = commands[c][1] /\ 1 \in 1..Len(commands[c])
             /\ Len(commands[c]) \in Nat
             /\ commands[c][1].op = "wait" =>
                  /\ commands[c][1].fence = Fence /\ commands[c][1].value \in Nat
                  /\ commands[c][1].value <= value
                  /\ \A j \in 2..Len(commands[c]) : commands[c][j].op = "signal" =>
                       commands[c][1].value < commands[c][j].value
  <2>1. /\ Head(commands[c]) = commands[c][1] /\ 1 \in 1..Len(commands[c])
        /\ Len(commands[c]) \in Nat
    BY <1>1, <1>2
  <2>2. commands[c][1].op = "wait" =>
          /\ commands[c][1].fence = Fence /\ commands[c][1].value <= value
          /\ \A j \in (1 + 1)..Len(commands[c]) : commands[c][j].op = "signal" =>
               commands[c][1].value < commands[c][j].value
    BY <2>1, Zenon DEF CrossInv, CrossOrder
  <2>3. commands[c][1].op = "wait" => commands[c][1].value \in 1..QueuePoints
    BY <2>1, CrossQueued, CrossCommands
  <2>4. (\A z \in 1..QueuePoints : z \in Nat) /\ 1 + 1 = 2
    OBVIOUS
  <2>5. commands[c][1].op = "wait" => commands[c][1].value \in Nat
    BY <2>3, <2>4, Zenon
  <2> QED
    BY <2>1, <2>2, <2>4, <2>5
<1>3. CASE reached[Fence] = value
  <2>1. commands[q][1].op = "wait" =>
          /\ commands[q][1].fence = Fence /\ commands[q][1].value \in Nat
          /\ commands[q][1].value <= value
    BY <1>2
  <2>2. commands[q][1].op = "wait" =>
          commands[q][1].fence = Fence /\ reached[Fence] >= commands[q][1].value
    BY <1>1, <1>3, <2>1
  <2>3. Head(commands[q]) = commands[q][1]
    BY <1>2
  <2> QED
    BY <2>2, <2>3
<1>4. CASE reached[Fence] # value
  <2> DEFINE v == reached[Fence] + 1
  <2>1. v \in (reached[Fence] + 1)..value /\ v \in Nat /\ v - 1 = reached[Fence]
    BY <1>1, <1>4
  <2>2. PICK c \in 0..Parallel : \E i \in 1..Len(commands[c]) :
          commands[c][i] = CrossQueue!SignalOf(Fence, v)
    BY <2>1, Zenon DEF CrossInv, CrossSignals
  <2>3. PICK i \in 1..Len(commands[c]) : commands[c][i] = CrossQueue!SignalOf(Fence, v)
    BY <2>2
  <2> HIDE DEF v
  <2>4. commands[c][i].op = "signal" /\ commands[c][i].value = v
    BY <2>3 DEF CrossQueue!SignalOf
  <2>5. commands[c] # <<>>
    BY <1>1, <2>3
  <2>6. ASSUME commands[c][1].op = "wait"
        PROVE  commands[c][1].fence = Fence /\ reached[Fence] >= commands[c][1].value
    <3>1. /\ commands[c][1].fence = Fence /\ commands[c][1].value \in Nat
          /\ Len(commands[c]) \in Nat
          /\ \A j \in 2..Len(commands[c]) : commands[c][j].op = "signal" =>
               commands[c][1].value < commands[c][j].value
      BY <1>2, <2>5, <2>6
    <3>2. i # 1
      BY <2>4, <2>6
    <3>3. i \in 2..Len(commands[c])
      BY <3>1, <3>2
    <3>4. commands[c][1].value < v
      BY <2>4, <3>1, <3>3
    <3> QED
      BY <1>1, <2>1, <3>1, <3>4
  <2>7. Head(commands[c]) = commands[c][1]
    BY <1>2, <2>5
  <2> QED
    BY <2>5, <2>6, <2>7
<1> QED
  BY <1>3, <1>4

(***************************************************************************)
(* The backend a fence has: the invariant.                                 *)
(***************************************************************************)

\* The invariant of the backend that was chosen, and the first values of the others.
Inv ==
  /\ backend \in {"opengl", "kernel", "d3d11", "d3d12", "vulkan"}
  /\ backend = "opengl" => GLInv /\ NoGpu
  /\ backend # "opengl" => OpenGL!ThreadsInit
  /\ backend = "kernel" => KernelInv
  /\ backend \in {"d3d11", "d3d12", "vulkan"} => CrossInv

\* It holds whichever backend the constructor chooses.
LEMMA InitInv == Init => Inv
<1> SUFFICES ASSUME Init PROVE Inv
  OBVIOUS
<1>1. OpenGL!ThreadsInit /\ Kernel!CallInit /\ CrossQueue!NotesInit
  BY DEF Init
<1>2. CASE backend = "opengl" /\ value = 0 /\ NoGpu
  BY <1>1, <1>2, GLInit DEF Inv
<1>3. CASE backend = "kernel" /\ Kernel!ContextsInit
  BY <1>1, <1>3, KernelFirst DEF Inv
<1>4. CASE backend \in {"d3d11", "d3d12", "vulkan"} /\ CrossQueue!QueuesInit
  BY <1>1, <1>4, CrossFirst DEF Inv
<1> QED
  BY <1>2, <1>3, <1>4 DEF Init

\* No backend disturbs it.
LEMMA StepInv == Inv /\ [Next]_vars => Inv'
<1> SUFFICES ASSUME Inv, [Next]_vars PROVE Inv'
  OBVIOUS
<1>1. CASE backend = "opengl" /\ OpenGL!Next /\ UNCHANGED <<backend, owed, gpu, call, notes>>
  <2>1. backend' = backend /\ GLInv'
    BY <1>1, GLStep DEF Inv
  <2>2. NoGpu'
    BY <1>1, Zenon DEF Inv, NoGpu, gpu
  <2> QED
    BY <1>1, <2>1, <2>2 DEF Inv
<1>2. CASE backend = "kernel" /\ Kernel!Next /\ UNCHANGED <<backend, threads, notes>>
  <2>1. backend' = backend /\ KernelInv'
    BY <1>2, KernelStep DEF Inv
  <2>2. OpenGL!ThreadsInit'
    BY <1>2, Zenon DEF Inv, OpenGL!ThreadsInit, threads, OpenGL!Nothing
  <2> QED
    BY <1>2, <2>1, <2>2 DEF Inv
<1>3. CASE backend \in {"d3d11", "d3d12", "vulkan"} /\ CrossQueue!Next /\ UNCHANGED <<threads, call>>
  <2>1. backend' = backend /\ CrossInv'
    BY <1>3, CrossStep DEF Inv, CrossQueue!Next
  <2>2. OpenGL!ThreadsInit'
    BY <1>3, Zenon DEF Inv, OpenGL!ThreadsInit, threads, OpenGL!Nothing
  <2> QED
    BY <1>3, <2>1, <2>2 DEF Inv
<1>4. CASE UNCHANGED vars
  <2>1. UNCHANGED <<backend, value, owed, gpu, threads, call, notes>>
    BY <1>4 DEF vars
  <2>2. backend = "opengl" => GLInv' /\ NoGpu'
    BY <2>1 DEF Inv, GLInv, OpenGL!TypeOK, GLPoints, Taken, OpenGL!Accepted, GLThreads, GLSyncs,
                Alive, threads, NoGpu, gpu
  <2>3. backend # "opengl" => OpenGL!ThreadsInit'
    BY <2>1, Zenon DEF Inv, OpenGL!ThreadsInit, threads, OpenGL!Nothing
  <2>4. backend = "kernel" => KernelInv'
    <3>1. SUFFICES ASSUME KernelInv PROVE KernelInv'
      BY DEF Inv
    <3>2. Kernel!TypeOK'
      <4>1. valid' \in BOOLEAN
        BY <2>1, <3>1, Zenon DEF KernelInv, Kernel!TypeOK, call
      <4> QED
        BY <2>1, <3>1, <4>1, KernelTypes, KernelTyped DEF gpu, call
    <3>3. KernelWork' /\ KernelWaits'
      BY <2>1, <3>1, ZenonT(30) DEF KernelInv, KernelWork, KernelWaits, Awaited, Kernel!WaitFor, gpu
    <3>4. KernelSignals'
      BY <2>1, <3>1 DEF KernelInv, KernelSignals, Kernel!SignalOf, gpu
    <3>5. KernelCall'
      BY <2>1, <3>1 DEF KernelInv, KernelCall, Kernel!Target, Awaited, Kernel!WaitFor, gpu, call
    <3> QED
      BY <3>2, <3>3, <3>4, <3>5 DEF KernelInv
  <2>5. backend \in {"d3d11", "d3d12", "vulkan"} => CrossInv'
    <3>1. SUFFICES ASSUME CrossInv PROVE CrossInv'
      BY DEF Inv
    <3>2. CrossQueue!TypeOK'
      BY <2>1, <3>1, CrossTypes, CrossTyped DEF gpu, notes
    <3>3. CrossWork' /\ CrossElsewhere'
      BY <2>1, <3>1 DEF CrossInv, CrossWork, CrossElsewhere, gpu
    <3>4. CrossSignals'
      BY <2>1, <3>1 DEF CrossInv, CrossSignals, CrossQueue!SignalOf, gpu
    <3>5. CrossOrder' /\ CrossLast'
      BY <2>1, <3>1 DEF CrossInv, CrossOrder, CrossLast, Behind, CrossQueue!SignalOf,
                        CrossQueue!WaitFor, gpu, notes
    <3> QED
      BY <3>2, <3>3, <3>4, <3>5 DEF CrossInv
  <2> QED
    BY <2>1, <2>2, <2>3, <2>4, <2>5 DEF Inv
<1> QED
  BY <1>1, <1>2, <1>3, <1>4 DEF Next

\* The invariant holds in every state.
THEOREM InvHolds == Spec => []Inv
  BY InitInv, StepInv, PTL DEF Spec

\* The values and queues of the backend in use keep their types: points, work, sync
\* objects and failures stay within their bounds, and a queue holds work, signals and
\* waits of the fences of the device only.
THEOREM TypeCorrect == Spec => []TypeOK
  <1>1. Inv => TypeOK
    BY DEF Inv, TypeOK, GLInv, KernelInv, CrossInv
  <1> QED
    BY <1>1, InvHolds, PTL

\* OpenGL: a sync object is in one place, the producer's hand, the queue or the worker,
\* until it is deleted, and it is deleted once.
THEOREM OneHolderCorrect == Spec => []EverySyncHasOneHolder
  <1>1. Inv => EverySyncHasOneHolder
    <2>1. ASSUME Inv, backend # "opengl" PROVE EverySyncHasOneHolder
      <3>1. made = 0
        BY <2>1 DEF Inv, OpenGL!ThreadsInit
      <3>2. \A s \in 1..made : FALSE
        BY <3>1
      <3> QED
        BY <3>2, Zenon DEF EverySyncHasOneHolder
    <2> QED
      BY <2>1, GLHolder DEF Inv
  <1> QED
    BY <1>1, InvHolds, PTL

\* OpenGL: when the destructor deletes the worker's context, all sync objects made in it
\* are deleted.
THEOREM ContextGoesLast == Spec => []NoSyncOutlivesTheContext
  <1>1. Inv => NoSyncOutlivesTheContext
    <2>1. ASSUME Inv, backend # "opengl" PROVE NoSyncOutlivesTheContext
      BY <2>1 DEF Inv, OpenGL!ThreadsInit, NoSyncOutlivesTheContext
    <2> QED
      BY <2>1, GLGone DEF Inv
  <1> QED
    BY <1>1, InvHolds, PTL

\* OpenGL: only a signal that the worker has seen completes a point, and it completes
\* the next one: stopping and failing drain the queue without publishing anything.
THEOREM CompletionIsSignalled == Spec => CompletionNeedsASignal
  <1>1. ASSUME Inv, [Next]_vars, completed' # completed
        PROVE  /\ \E s \in 1..signalled : deletions[s] = 0 /\ current = <<s, completed'>>
               /\ completed' = completed + 1
    <2>1. CASE backend = "opengl" /\ OpenGL!Next
      <3>1. GLInv
        BY <1>1, <2>1 DEF Inv
      <3> QED
        BY <1>1, <2>1, <3>1, GLCompletes
    <2>2. CASE UNCHANGED threads
      BY <1>1, <2>2 DEF threads
    <2> QED
      BY <1>1, <2>1, <2>2 DEF Next, vars, threads
  <1>2. Inv /\ [Next]_vars =>
          [completed' # completed =>
             /\ \E s \in 1..signalled : deletions[s] = 0 /\ current = <<s, completed'>>
             /\ completed' = completed + 1]_vars
    BY <1>1
  <1> QED
    BY <1>2, InvHolds, PTL DEF Spec, CompletionNeedsASignal

\* D3D9 and D3D10: the primary context signals a point only after it waited for every
\* joined context, so a completed point covers what all of them were given before.
THEOREM CoversAllContexts == Spec => []CompletionCoversAllContexts
  <1>1. Inv => CompletionCoversAllContexts
    <2> SUFFICES ASSUME Inv, backend = "kernel",
                        NEW p \in 1..reached[Kernel!Primary], NEW c \in 0..Joined
                 PROVE  retired[c] >= owed[p][c]
      BY DEF CompletionCoversAllContexts
    <2>1. KernelInv /\ p \in 1..reached[0]
      BY DEF Inv, Kernel!Primary
    <2> QED
      BY <2>1, KernelCovers
  <1> QED
    BY <1>1, InvHolds, PTL

\* D3D11, D3D12 and Vulkan: signals of different queues are kept in order by the waits,
\* so a completed point covers its queue's work and what every earlier point covers.
THEOREM CoversTheQueues == Spec => []CompletionCoversTheQueues
  <1>1. Inv => CompletionCoversTheQueues
    <2> SUFFICES ASSUME Inv, backend \in {"d3d11", "d3d12", "vulkan"},
                        NEW p \in 1..reached[Fence], NEW q \in DOMAIN commands
                 PROVE  retired[q] >= owed[p][q]
      BY DEF CompletionCoversTheQueues
    <2>1. CrossInv
      BY DEF Inv
    <2>2. q \in 0..Parallel
      BY <2>1, CrossTypes
    <2> QED
      BY <2>1, <2>2, CrossCovers
  <1> QED
    BY <1>1, InvHolds, PTL

\* The queues never lock each other up: the waits that QueueFence gives them, also those
\* a failed call left behind, are for signals that some queue comes to first.
THEOREM QueuesGoOn == Spec => []QueuesNeverLock
  <1>1. Inv => QueuesNeverLock
    <2> SUFFICES ASSUME Inv, NEW q \in Queues, Busy(q)
                 PROVE  \E c \in Queues : Runs(c)
      BY DEF QueuesNeverLock
    <2>1. ASSUME NEW c \in Queues, c \in DOMAIN commands, commands[c] # <<>>,
                 Head(commands[c]).op = "wait" =>
                   reached[Head(commands[c]).fence] >= Head(commands[c]).value
          PROVE  Runs(c)
      BY <2>1 DEF Runs, Busy
    <2>2. q \in DOMAIN commands /\ commands[q] # <<>>
      BY DEF Busy
    <2>3. CASE backend = "opengl"
      <3>1. commands = <<>>
        BY <2>3 DEF Inv, NoGpu
      <3> QED
        BY <2>2, <3>1
    <2>4. CASE backend = "kernel"
      <3>1. KernelInv
        BY <2>4 DEF Inv
      <3>2. DOMAIN commands = 0..Joined
        BY <3>1, KernelTypes
      <3>3. PICK c \in 0..Joined : /\ commands[c] # <<>>
                                   /\ Head(commands[c]).op = "wait" =>
                                        reached[Head(commands[c]).fence] >= Head(commands[c]).value
        BY <2>2, <3>1, <3>2, KernelGoesOn
      <3>4. c \in Queues
        BY DEF Queues
      <3> QED
        BY <2>1, <3>2, <3>3, <3>4
    <2>5. CASE backend \in {"d3d11", "d3d12", "vulkan"}
      <3>1. CrossInv
        BY <2>5 DEF Inv
      <3>2. DOMAIN commands = 0..Parallel
        BY <3>1, CrossTypes
      <3>3. PICK c \in 0..Parallel : /\ commands[c] # <<>>
                                     /\ Head(commands[c]).op = "wait" =>
                                          reached[Head(commands[c]).fence] >= Head(commands[c]).value
        BY <2>2, <3>1, <3>2, CrossGoesOn
      <3>4. c \in Queues
        BY DEF Queues
      <3> QED
        BY <2>1, <3>2, <3>3, <3>4
    <2> QED
      BY <2>3, <2>4, <2>5 DEF Inv
  <1> QED
    BY <1>1, InvHolds, PTL

-----------------------------------------------------------------------------
(***************************************************************************)
(* The refinement: whichever backend a fence has, it is a FenceTimeline.    *)
(***************************************************************************)

\* The bound on the points of a timeline is the largest one.
LEMMA LargestBound ==
  /\ MaxPoints \in Nat
  /\ MaxSyncs <= MaxPoints /\ KernelPoints <= MaxPoints /\ QueuePoints <= MaxPoints
<1> DEFINE Bounds == {MaxSyncs, KernelPoints, QueuePoints}
<1>1. MaxSyncs \in Nat /\ KernelPoints \in Nat /\ QueuePoints \in Nat
  BY BackendsAssumption
<1>2. \E m \in Bounds : \A n \in Bounds : m >= n
  <2>1. CASE MaxSyncs >= KernelPoints /\ MaxSyncs >= QueuePoints
    BY <1>1, <2>1
  <2>2. CASE KernelPoints >= MaxSyncs /\ KernelPoints >= QueuePoints
    BY <1>1, <2>2
  <2>3. CASE QueuePoints >= MaxSyncs /\ QueuePoints >= KernelPoints
    BY <1>1, <2>3
  <2> QED
    BY <1>1, <2>1, <2>2, <2>3
<1>3. MaxPoints \in Bounds /\ \A n \in Bounds : MaxPoints >= n
  BY <1>2, Zenon DEF MaxPoints
<1> QED
  BY <1>1, <1>3

\* A step of the timeline, or none.
Moves(a, c, h, an, cn, hn) ==
  \/ ~h /\ a < MaxPoints /\ an = a + 1 /\ cn = c /\ hn = h
  \/ c < a /\ cn \in (c + 1)..a /\ an = a /\ hn = h
  \/ c < MaxPoints + 1 /\ cn = MaxPoints + 1 /\ an = a /\ hn = h
  \/ ~h /\ hn = TRUE /\ an = a /\ cn = c
  \/ an = a /\ cn = c /\ hn = h

\* Such a step is one of FenceTimeline.
LEMMA MovesStep ==
  Moves(Accepted, Completed, Halted, Accepted', Completed', Halted')
    => [Timeline!TimelineNext]_Timeline!timeline
BY Zenon DEF Moves, Timeline!TimelineNext, Timeline!Submit, Timeline!Finish, Timeline!Lose,
             Timeline!Halt, Timeline!Lost, Timeline!timeline

\* What the class sees of OpenGL.
LEMMA GLSeen ==
  backend = "opengl" =>
    Accepted = OpenGL!Accepted /\ Completed = completed /\ Halted = stopping
BY Zenon DEF Accepted, Completed, Halted

\* What it sees of D3D9 and D3D10.
LEMMA KernelSeen ==
  backend = "kernel" =>
    /\ Accepted = value[0]
    /\ Completed = IF valid THEN reached[0] ELSE MaxPoints + 1
    /\ Halted = (phase = "idle" /\ Kernel!Stranded)
BY Zenon DEF Accepted, Completed, Halted, Kernel!Primary

\* What it sees of the other APIs.
LEMMA CrossSeen ==
  backend \in {"d3d11", "d3d12", "vulkan"} =>
    Accepted = value /\ Completed = reached[Fence] /\ Halted = FALSE
BY Zenon DEF Accepted, Completed, Halted

\* The same after a step.
LEMMA GLSeenNext ==
  backend' = "opengl" =>
    Accepted' = OpenGL!Accepted' /\ Completed' = completed' /\ Halted' = stopping'
BY Zenon DEF Accepted, Completed, Halted

\* The same after a step.
LEMMA KernelSeenNext ==
  backend' = "kernel" =>
    /\ Accepted' = value'[0]
    /\ Completed' = IF valid' THEN reached'[0] ELSE MaxPoints + 1
    /\ Halted' = (phase' = "idle" /\ Kernel!Stranded')
BY Zenon DEF Accepted, Completed, Halted, Kernel!Primary

\* The same after a step.
LEMMA CrossSeenNext ==
  backend' \in {"d3d11", "d3d12", "vulkan"} =>
    Accepted' = value' /\ Completed' = reached'[Fence] /\ Halted' = FALSE
BY Zenon DEF Accepted, Completed, Halted

\* OpenGL: pushing a sync object accepts a point, stopping halts, and the worker that
\* sees a signal completes the next point.
LEMMA GLMoves ==
  ASSUME GLInv, OpenGL!Next
  PROVE  Moves(OpenGL!Accepted, completed, stopping,
               OpenGL!Accepted', completed', stopping')
<1>1. /\ value \in Nat /\ completed \in Nat /\ made \in Nat /\ made <= MaxSyncs
      /\ stopping \in BOOLEAN /\ OpenGL!Accepted \in Nat
  <2>1. stopping \in BOOLEAN
    BY Zenon DEF GLInv, OpenGL!TypeOK
  <2>2. value \in Nat /\ completed \in Nat /\ made \in 0..MaxSyncs
    BY DEF GLInv, OpenGL!TypeOK
  <2> QED
    BY <2>1, <2>2, SyncBound DEF OpenGL!Accepted
<1>2. CASE completed' # completed
  <2>1. /\ completed' = completed + 1 /\ completed' <= OpenGL!Accepted
        /\ OpenGL!Accepted' = OpenGL!Accepted /\ stopping' = stopping
    BY <1>2, GLCompletes
  <2>2. completed < OpenGL!Accepted /\ completed' \in (completed + 1)..OpenGL!Accepted
    BY <1>1, <2>1
  <2> QED
    BY <2>1, <2>2 DEF Moves
<1>3. CASE completed' = completed /\ OpenGL!QueuePush
  <2>1. /\ producer = "created" /\ ~stopping /\ producer' = "pushed"
        /\ value' = value /\ stopping' = stopping
    BY <1>3 DEF OpenGL!QueuePush, OpenGL!flags
  <2>2. OpenGL!Accepted = value /\ OpenGL!Accepted' = value + 1
    BY <1>1, <2>1 DEF OpenGL!Accepted
  <2>3. OpenGL!Accepted + 1 <= made
    BY <2>1 DEF GLInv, GLPoints
  <2>4. OpenGL!Accepted < MaxPoints
    BY <1>1, <2>3, LargestBound, SyncBound
  <2> QED
    BY <1>3, <2>1, <2>2, <2>4 DEF Moves
<1>4. CASE completed' = completed /\ ~OpenGL!QueuePush
  <2>1. OpenGL!Accepted' = OpenGL!Accepted
    BY <1>1, <1>4 DEF OpenGL!Accepted,
       OpenGL!Next, OpenGL!Producer, OpenGL!Worker, OpenGL!QueueCheck, OpenGL!Destroy,
       OpenGL!QueueRefuse, OpenGL!QueueCreate, OpenGL!QueueGiveUp,
       OpenGL!QueueReturn, OpenGL!DestroyNotify, OpenGL!DestroyJoin, OpenGL!WorkerBind,
       OpenGL!WorkerBindFails, OpenGL!WorkerTake, OpenGL!WorkerRest, OpenGL!WorkerPoll,
       OpenGL!WorkerSignalled, OpenGL!WorkerTimeout, OpenGL!WorkerError,
       OpenGL!WorkerDelete, OpenGL!GpuSignals
  <2>2. stopping' = stopping \/ stopping' = TRUE
    BY <1>4 DEF OpenGL!flags,
       OpenGL!Next, OpenGL!Producer, OpenGL!Worker, OpenGL!QueueCheck, OpenGL!Destroy,
       OpenGL!QueueRefuse, OpenGL!QueueCreate, OpenGL!QueueGiveUp,
       OpenGL!QueueReturn, OpenGL!DestroyNotify, OpenGL!DestroyJoin, OpenGL!WorkerBind,
       OpenGL!WorkerBindFails, OpenGL!WorkerTake, OpenGL!WorkerRest, OpenGL!WorkerPoll,
       OpenGL!WorkerSignalled, OpenGL!WorkerTimeout, OpenGL!WorkerError,
       OpenGL!WorkerDelete, OpenGL!GpuSignals
  <2>3. stopping' = stopping \/ (~stopping /\ stopping' = TRUE)
    BY <1>1, <2>2, Zenon
  <2> QED
    BY <1>4, <2>1, <2>3, Zenon DEF Moves
<1> QED
  BY <1>2, <1>3, <1>4

\* D3D9 and D3D10: the primary context's signal accepts a point when it is submitted and
\* completes it when it is executed; a partial submission may halt the backend.
LEMMA KernelMoves ==
  ASSUME KernelInv, Kernel!Next
  PROVE  Moves(value[0], IF valid THEN reached[0] ELSE MaxPoints + 1,
               phase = "idle" /\ Kernel!Stranded,
               value'[0], IF valid' THEN reached'[0] ELSE MaxPoints + 1,
               phase' = "idle" /\ Kernel!Stranded')
<1> DEFINE seen == IF valid THEN reached[0] ELSE MaxPoints + 1
           seenNext == IF valid' THEN reached'[0] ELSE MaxPoints + 1
           halts == phase = "idle" /\ Kernel!Stranded
           haltsNext == phase' = "idle" /\ Kernel!Stranded'
<1>1. /\ value[0] \in Nat /\ value[0] <= KernelPoints /\ reached[0] \in Nat
      /\ reached[0] <= value[0] /\ 0 \in 0..Joined
      /\ value \in [0..Joined -> 0..KernelPoints]
      /\ reached \in [0..Joined -> 0..KernelPoints]
  <2>1. 0 \in 0..Joined
    BY KernelBound
  <2>2. value[0] \in Nat /\ reached[0] \in Nat /\ reached[0] <= value[0]
    BY <2>1, KernelNumbers
  <2>3. value \in [0..Joined -> 0..KernelPoints] /\ reached \in [0..Joined -> 0..KernelPoints]
    BY KernelTypes
  <2>4. value[0] <= KernelPoints
    BY <2>1, <2>3, KernelBound
  <2> QED
    BY <2>1, <2>2, <2>3, <2>4
<1>2. MaxPoints \in Nat /\ KernelPoints <= MaxPoints /\ KernelPoints \in Nat
  BY LargestBound, KernelBound
<1>3. Kernel!Stranded <=> \E c \in 0..Joined : value[c] > value[0]
  BY DEF Kernel!Stranded, Kernel!Context, Kernel!Primary
<1>4. Kernel!Stranded' <=> \E c \in 0..Joined : value'[c] > value'[0]
  BY DEF Kernel!Stranded, Kernel!Context, Kernel!Primary
<1>5. valid \in BOOLEAN
  BY Zenon DEF KernelInv, Kernel!TypeOK
\* Steps that leave the values and the binding alone.
<1>6. ASSUME value' = value, reached'[0] = reached[0], valid' = valid
      PROVE  value'[0] = value[0] /\ seenNext = seen /\ (Kernel!Stranded' <=> Kernel!Stranded)
  BY <1>3, <1>4, <1>6
<1>7. CASE Kernel!QueueFence
  <2>1. /\ value' = value /\ reached' = reached /\ valid' = valid
        /\ phase' = "signal" /\ \A c \in 0..Joined : value[c] < value[0] + 1
    BY <1>7 DEF Kernel!QueueFence, Kernel!gpu, Kernel!Context, Kernel!Target, Kernel!Primary
  <2>2. ~halts
    <3>1. ASSUME NEW c \in 0..Joined PROVE ~(value[c] > value[0])
      <4>1. value[c] < value[0] + 1 /\ value[c] \in Nat
        BY <2>1, KernelNumbers
      <4> QED
        BY <1>1, <4>1
    <3> QED
      BY <1>3, <3>1
  <2>3. ~haltsNext
    BY <2>1
  <2>4. value'[0] = value[0] /\ seenNext = seen
    BY <1>6, <2>1
  <2> QED
    BY <2>2, <2>3, <2>4, Zenon DEF Moves
<1>8. CASE Kernel!SignalJoined
  <2>1. /\ reached' = reached /\ valid' = valid /\ phase = "signal" /\ phase' = "wait"
        /\ next # 0 /\ value' = [value EXCEPT ![next] = Kernel!Target]
    BY <1>8 DEF Kernel!SignalJoined, Kernel!Primary
  <2>2. value'[0] = value[0] /\ seenNext = seen
    BY <1>1, <2>1
  <2>3. ~halts /\ ~haltsNext
    BY <2>1
  <2> QED
    BY <2>2, <2>3, Zenon DEF Moves
<1>9. CASE Kernel!WaitJoined
  <2>1. /\ reached' = reached /\ valid' = valid /\ phase = "wait" /\ phase' = "signal"
        /\ value' = value
    BY <1>9 DEF Kernel!WaitJoined
  <2>2. value'[0] = value[0] /\ seenNext = seen
    BY <1>6, <2>1
  <2>3. ~halts /\ ~haltsNext
    BY <2>1
  <2> QED
    BY <2>2, <2>3, Zenon DEF Moves
<1>10. CASE Kernel!SignalPrimary
  <2>1. /\ reached' = reached /\ valid' = valid /\ phase = "signal" /\ phase' = "idle"
        /\ value' = [value EXCEPT ![0] = value[0] + 1]
    BY <1>10 DEF Kernel!SignalPrimary, Kernel!Primary, Kernel!Target
  <2>2. /\ value[0] + 1 <= KernelPoints /\ \A c \in 0..Joined : value[c] <= value[0] + 1
    BY <2>1, Zenon DEF KernelInv, KernelCall, Kernel!Target, Kernel!Primary
  <2>3. value'[0] = value[0] + 1 /\ \A c \in 0..Joined : c # 0 => value'[c] = value[c]
    BY <1>1, <2>1
  <2>4. ~haltsNext
    <3>1. ASSUME NEW c \in 0..Joined PROVE ~(value'[c] > value'[0])
      <4>1. value[c] \in Nat /\ value[c] <= value[0] + 1
        BY <2>2, KernelNumbers
      <4>2. value'[c] = value[c] \/ value'[c] = value[0] + 1
        BY <2>3
      <4> QED
        BY <1>1, <2>3, <4>1, <4>2
    <3> QED
      BY <1>4, <3>1
  <2>5. ~halts
    BY <2>1
  <2>6. seenNext = seen /\ value[0] < MaxPoints
    BY <1>1, <1>2, <2>1, <2>2
  <2> QED
    BY <2>3, <2>4, <2>5, <2>6, Zenon DEF Moves
<1>11. CASE Kernel!QueueFenceFails
  <2>1. /\ reached' = reached /\ valid' = valid /\ phase # "idle" /\ phase' = "idle"
        /\ value' = value
    BY <1>11 DEF Kernel!QueueFenceFails, Kernel!gpu
  <2>2. value'[0] = value[0] /\ seenNext = seen
    BY <1>6, <2>1
  <2>3. ~halts /\ (haltsNext \/ ~haltsNext)
    BY <2>1
  <2>4. haltsNext = TRUE \/ haltsNext = halts
    BY <2>3, Zenon
  <2> QED
    BY <2>2, <2>3, <2>4, Zenon DEF Moves
<1>12. CASE Kernel!Invalidate
  <2>1. /\ reached' = reached /\ valid = TRUE /\ valid' = FALSE /\ phase' = phase
        /\ value' = value
    BY <1>5, <1>12, Zenon DEF Kernel!Invalidate, Kernel!gpu
  <2>2. value'[0] = value[0] /\ haltsNext = halts
    BY <1>3, <1>4, <2>1
  <2>3. seen < MaxPoints + 1 /\ seenNext = MaxPoints + 1
    BY <1>1, <1>2, <2>1
  <2> QED
    BY <2>2, <2>3, Zenon DEF Moves
<1>13. CASE Kernel!Gpu
  <2>1. PICK q \in 0..Joined :
          (Kernel!SubmitWork(q) \/ Kernel!Execute(q)) /\ UNCHANGED Kernel!fenceVars
    BY <1>13 DEF Kernel!Gpu
  <2>2. value' = value /\ phase' = phase /\ valid' = valid
    BY <2>1 DEF Kernel!fenceVars
  <2>3. value'[0] = value[0] /\ haltsNext = halts
    BY <1>3, <1>4, <2>2
  <2>4. CASE reached'[0] = reached[0]
    <3>1. seenNext = seen
      BY <2>2, <2>4
    <3> QED
      BY <2>3, <3>1, Zenon DEF Moves
  <2>5. CASE reached'[0] # reached[0]
    <3>1. Kernel!Execute(q)
      BY <2>1, <2>5 DEF Kernel!SubmitWork
    <3> DEFINE x == commands[q][1]
    <3>2. /\ x.op = "signal" /\ x.value \in 1..KernelPoints /\ q = 0 /\ reached'[0] = x.value
          /\ Len(commands[q]) \in Nat \ {0}
      <4>1. /\ Len(commands[q]) \in Nat \ {0}
            /\ reached' = reached \/ (x.op = "signal" /\ x.value \in 1..KernelPoints
                                      /\ reached' = [reached EXCEPT ![q] = x.value])
        BY <2>1, <3>1, KernelExecuted
      <4> QED
        BY <1>1, <2>5, <4>1
    <3>3. 1 \in 1..Len(commands[0])
      BY <3>2
    <3>4. reached[0] < x.value /\ x.value <= value[0]
      BY <1>1, <3>2, <3>3, Zenon DEF KernelInv, KernelSignals
    <3> HIDE DEF x
    <3>5. reached'[0] \in (reached[0] + 1)..value[0] /\ reached[0] < value[0]
      BY <1>1, <1>2, <3>2, <3>4
    <3>6. CASE valid
      <4>1. seen = reached[0] /\ seenNext = reached'[0]
        BY <2>2, <3>6
      <4> QED
        BY <2>3, <3>5, <4>1, Zenon DEF Moves
    <3>7. CASE ~valid
      <4>1. seenNext = seen
        BY <2>2, <3>7
      <4> QED
        BY <2>3, <4>1, Zenon DEF Moves
    <3> QED
      BY <3>6, <3>7
  <2> QED
    BY <2>4, <2>5
<1> QED
  BY <1>7, <1>8, <1>9, <1>10, <1>11, <1>12, <1>13 DEF Kernel!Next

\* The other APIs: the signal accepts a point and, executed, completes the next one.
LEMMA CrossMoves ==
  ASSUME CrossInv, backend \in {"d3d11", "d3d12", "vulkan"}, CrossQueue!Next
  PROVE  Moves(value, reached[Fence], FALSE, value', reached'[Fence], FALSE)
<1>1. value \in Nat /\ reached[Fence] \in Nat /\ reached \in [{Fence} -> 0..QueuePoints]
  BY CrossTypes, CrossNumbers
<1>2. CASE \E q \in CrossQueue!Source : CrossQueue!QueueFence(q) \/ CrossQueue!QueueFenceFails(q)
  <2>1. PICK q \in CrossQueue!Source : CrossQueue!QueueFence(q) \/ CrossQueue!QueueFenceFails(q)
    BY <1>2
  <2>2. CASE CrossQueue!QueueFence(q)
    <3>1. value < QueuePoints /\ value' = value + 1 /\ reached' = reached
      BY <2>2 DEF CrossQueue!QueueFence
    <3>2. value < MaxPoints
      BY <1>1, <3>1, LargestBound, CrossBound
    <3> QED
      BY <3>1, <3>2, Zenon DEF Moves
  <2>3. CASE CrossQueue!QueueFenceFails(q)
    <3>1. value' = value /\ reached' = reached
      BY <2>3 DEF CrossQueue!QueueFenceFails
    <3> QED
      BY <3>1, Zenon DEF Moves
  <2> QED
    BY <2>1, <2>2, <2>3
<1>3. CASE CrossQueue!Gpu
  <2>1. PICK q \in CrossQueue!Source :
          (CrossQueue!SubmitWork(q) \/ CrossQueue!Execute(q)) /\ UNCHANGED CrossQueue!fenceVars
    BY <1>3 DEF CrossQueue!Gpu
  <2>2. q \in 0..Parallel
    BY CrossBound DEF CrossQueue!Source
  <2>3. value' = value
    BY <2>1 DEF CrossQueue!fenceVars
  <2>4. CASE reached' = reached
    BY <2>3, <2>4, Zenon DEF Moves
  <2>5. CASE reached' # reached
    <3>1. CrossQueue!Execute(q)
      BY <2>1, <2>5 DEF CrossQueue!SubmitWork
    <3> DEFINE x == commands[q][1]
    <3>2. /\ x.op = "signal" /\ x.value \in 1..QueuePoints
          /\ reached' = [reached EXCEPT ![Fence] = x.value] /\ Len(commands[q]) \in Nat \ {0}
      BY <2>1, <2>2, <2>5, <3>1, CrossExecuted
    <3>3. 1 \in 1..Len(commands[q])
      BY <3>2
    <3>4. reached[Fence] < x.value /\ x.value <= value /\ x.value \in Nat
      BY <2>2, <3>2, <3>3, CrossSignalled
    <3> HIDE DEF x
    <3>5. reached'[Fence] = x.value
      BY <1>1, <3>2
    <3>6. reached'[Fence] \in (reached[Fence] + 1)..value /\ reached[Fence] < value
      BY <1>1, <3>4, <3>5
    <3> QED
      BY <2>3, <3>6, Zenon DEF Moves
  <2> QED
    BY <2>4, <2>5
<1> QED
  BY <1>2, <1>3 DEF CrossQueue!Next

\* The constructor's backend has accepted and completed nothing.
LEMMA InitTimeline == Init => Timeline!TimelineInit
<1> SUFFICES ASSUME Init PROVE Accepted = 0 /\ Completed = 0 /\ Halted = FALSE
  BY Zenon DEF Timeline!TimelineInit
<1>1. OpenGL!ThreadsInit /\ Kernel!CallInit
  BY DEF Init
<1>2. CASE backend = "opengl" /\ value = 0
  <2>1. OpenGL!Accepted = 0 /\ completed = 0 /\ stopping = FALSE
    BY <1>1, <1>2 DEF OpenGL!ThreadsInit, OpenGL!Accepted
  <2> QED
    BY <1>2, <2>1, GLSeen
<1>3. CASE backend = "kernel" /\ Kernel!ContextsInit
  <2>1. value = [c \in 0..Joined |-> 0] /\ reached = [c \in 0..Joined |-> 0] /\ valid = TRUE
    BY <1>1, <1>3 DEF Kernel!CallInit, Kernel!ContextsInit, Kernel!GpuInit, Kernel!Context
  <2>2. value[0] = 0 /\ reached[0] = 0
    BY <2>1, KernelBound
  <2>3. ~Kernel!Stranded
    BY <2>1, <2>2 DEF Kernel!Stranded, Kernel!Context, Kernel!Primary
  <2>4. (phase = "idle" /\ Kernel!Stranded) = FALSE
    BY <2>3
  <2> QED
    BY <1>3, <2>1, <2>2, <2>4, KernelSeen
<1>4. CASE backend \in {"d3d11", "d3d12", "vulkan"} /\ CrossQueue!QueuesInit
  <2>1. value = 0 /\ reached[Fence] = 0
    BY <1>4 DEF CrossQueue!QueuesInit, CrossQueue!GpuInit
  <2> QED
    BY <1>4, <2>1, CrossSeen
<1> QED
  BY <1>2, <1>3, <1>4 DEF Init

\* Every step of a backend is one of the timeline's, or none.
LEMMA StepTimeline == Inv /\ [Next]_vars => [Timeline!TimelineNext]_Timeline!timeline
<1> SUFFICES ASSUME Inv, [Next]_vars
             PROVE  Moves(Accepted, Completed, Halted, Accepted', Completed', Halted')
  BY MovesStep
<1>1. CASE backend = "opengl" /\ OpenGL!Next /\ UNCHANGED <<backend, owed, gpu, call, notes>>
  <2>1. GLInv /\ backend' = "opengl"
    BY <1>1 DEF Inv
  <2> QED
    BY <1>1, <2>1, GLMoves, GLSeen, GLSeenNext
<1>2. CASE backend = "kernel" /\ Kernel!Next /\ UNCHANGED <<backend, threads, notes>>
  <2>1. KernelInv /\ backend' = "kernel"
    BY <1>2 DEF Inv
  <2> QED
    BY <1>2, <2>1, KernelMoves, KernelSeen, KernelSeenNext
<1>3. CASE backend \in {"d3d11", "d3d12", "vulkan"} /\ CrossQueue!Next /\ UNCHANGED <<threads, call>>
  <2>1. CrossInv /\ backend' \in {"d3d11", "d3d12", "vulkan"}
    BY <1>3 DEF Inv, CrossQueue!Next
  <2> QED
    BY <1>3, <2>1, CrossMoves, CrossSeen, CrossSeenNext
<1>4. CASE UNCHANGED vars
  <2>1. Accepted' = Accepted /\ Completed' = Completed /\ Halted' = Halted
    BY <1>4, Zenon DEF vars, gpu, threads, call, notes, Accepted, Completed, Halted,
       OpenGL!Accepted, Kernel!Primary, Kernel!Stranded, Kernel!Context
  <2> QED
    BY <2>1, Zenon DEF Moves
<1> QED
  BY <1>1, <1>2, <1>3, <1>4 DEF Next

\* Whichever backend the constructor chose: points are accepted one by one and none
\* after a halt, and the completed value neither goes back, although every queue sets it
\* on its own, nor passes the last point accepted.
THEOREM BackendsAreTimelines == Spec => IsATimeline
  BY InitTimeline, StepTimeline, InvHolds, PTL DEF Spec, IsATimeline, Timeline!TimelineSpec

=============================================================================
