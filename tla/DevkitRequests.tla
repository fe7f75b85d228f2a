---------------------------- MODULE DevkitRequests ----------------------------
(***************************************************************************)
(* The dev kit's tools that need the game's render thread: live shader load *)
(* and unload (src/addons/devkit/addon.cpp) and resource analysis           *)
(* (mcp/resource_analysis.hpp).  A pipe thread pushes a request onto a      *)
(* device's deque and waits at most 15 seconds for a present of that device *)
(* to begin it; once begun it waits for the end without a limit.  Devices   *)
(* are addressed by their position in a list that shrinks under the caller. *)
(*                                                                         *)
(* A request stands for its caller too: a thread has one at a time.         *)
(***************************************************************************)
EXTENDS Naturals, Sequences, FiniteSets, SequencesExt

CONSTANTS Devices, Requests,
          Live,        \* the requests about live shaders; the others analyse
          None

ASSUME RequestsAssumption ==
  Live \subseteq Requests /\ None \notin Requests \cup Devices

VARIABLES
  list,        \* device_data_list
  call,        \* where the calling thread is
  index,       \* the device index it resolved, counted from 1
  addressee,   \* the device whose deque the request went to (history)
  queue,       \* pending_..._requests of each device, by kind
  present,     \* which deque a present of the device is serving
  taken,       \* the deque it swapped out
  running,     \* the request it is performing
  started, canceled, completed,   \* the flags, under the request's mutex
  served       \* the devices that began to perform it (history)

caller == <<call, index, addressee>>
frame == <<present, taken, running>>
flags == <<started, canceled, completed>>
vars == <<list, caller, queue, frame, flags, served>>

Kind(r) == IF r \in Live THEN "live" ELSE "analysis"

\* Defect for comparison: a request that was given up is performed all the same.
MayStartAlways(r) == r \notin completed

\* The flags are tested and set in one hold of the request's mutex.
MayStart(r) == r \notin completed \cup canceled

\* std::erase; what is erased lies in the list once at most.
Without(s, e) ==
  IF e \in Range(s) THEN RemoveAt(s, CHOOSE i \in DOMAIN s : s[i] = e) ELSE s

Init ==
  /\ list = <<>>
  /\ call = [r \in Requests |-> "idle"]
  /\ index = [r \in Requests |-> 1]
  /\ addressee = [r \in Requests |-> None]
  /\ queue = [k \in {"analysis", "live"} |-> [d \in Devices |-> <<>>]]
  /\ present = [d \in Devices |-> "out"]
  /\ taken = [d \in Devices |-> <<>>]
  /\ running = [d \in Devices |-> None]
  /\ started = {} /\ canceled = {} /\ completed = {}
  /\ served = [r \in Requests |-> <<>>]

-----------------------------------------------------------------------------
\* OnInitDevice and OnDestroyDevice.  Nobody destroys a device while it presents.
InitDevice(d) ==
  /\ d \notin Range(list)
  /\ list' = Append(list, d)
  /\ UNCHANGED <<caller, queue, frame, flags, served>>

\* The requests still in its deques go with the device; their callers hold on
\* to them and find out by the clock.
DestroyDevice(d) ==
  /\ d \in Range(list) /\ present[d] = "out"
  /\ list' = Without(list, d)
  /\ queue' = [k \in DOMAIN queue |-> [queue[k] EXCEPT ![d] = <<>>]]
  /\ UNCHANGED <<caller, frame, flags, served>>

-----------------------------------------------------------------------------
\* ResolveRequestedDeviceIndex: the caller's index, or the selected one, which is
\* clamped to the list.
Resolve(r) ==
  /\ call[r] = "idle" /\ list # <<>>
  /\ \E i \in 1..Len(list) : index' = [index EXCEPT ![r] = i]
  /\ call' = [call EXCEPT ![r] = "resolved"]
  /\ UNCHANGED <<list, addressee, queue, frame, flags, served>>

\* Enqueue...Request: by the index, which may mean another device by now.
Enqueue(r) ==
  /\ call[r] = "resolved"
  /\ IF index[r] > Len(list)
       THEN /\ call' = [call EXCEPT ![r] = "unavailable"]
            /\ UNCHANGED <<addressee, queue>>
       ELSE LET d == list[index[r]] IN
            /\ call' = [call EXCEPT ![r] = "waiting"]
            /\ addressee' = [addressee EXCEPT ![r] = d]
            /\ queue' = [queue EXCEPT ![Kind(r)][d] = Append(@, r)]
  /\ UNCHANGED <<list, index, frame, flags, served>>

\* The 15 seconds are over and the request has not begun.
Timeout(r) ==
  /\ call[r] = "waiting" /\ r \notin started \cup completed
  /\ canceled' = canceled \cup {r}
  /\ call' = [call EXCEPT ![r] = "canceling"]
  /\ UNCHANGED <<list, index, addressee, queue, frame, started, completed, served>>

\* Cancel...Request: erased from the deque the index names now, if it is there.
Cancel(r) ==
  /\ call[r] = "canceling"
  /\ call' = [call EXCEPT ![r] = "timed out"]
  /\ queue' = IF index[r] > Len(list) THEN queue
              ELSE [queue EXCEPT ![Kind(r)][list[index[r]]] = Without(@, r)]
  /\ UNCHANGED <<list, index, addressee, frame, flags, served>>

\* The caller sees completed and takes the result.
Return(r) ==
  /\ call[r] = "waiting" /\ r \in completed
  /\ call' = [call EXCEPT ![r] = "answered"]
  /\ UNCHANGED <<list, index, addressee, queue, frame, flags, served>>

-----------------------------------------------------------------------------
\* OnPresent swaps one deque out, serves it, and then the other.
TakeOver(d, k) ==
  /\ present' = [present EXCEPT ![d] = k]
  /\ taken' = [taken EXCEPT ![d] = queue[k][d]]
  /\ queue' = [queue EXCEPT ![k][d] = <<>>]

BeginPresent(d) ==
  /\ d \in Range(list) /\ present[d] = "out"
  /\ TakeOver(d, "analysis")
  /\ UNCHANGED <<list, caller, running, flags, served>>

\* ProcessPendingRequests, ProcessPendingLiveShaderRequests.
Skip(d) ==
  /\ running[d] = None /\ taken[d] # <<>> /\ ~MayStart(Head(taken[d]))
  /\ completed' = completed \cup {Head(taken[d])}
  /\ taken' = [taken EXCEPT ![d] = Tail(@)]
  /\ UNCHANGED <<list, caller, queue, present, running, started, canceled, served>>

Start(d) ==
  /\ running[d] = None /\ taken[d] # <<>> /\ MayStart(Head(taken[d]))
  /\ LET r == Head(taken[d]) IN
     /\ started' = started \cup {r}
     /\ running' = [running EXCEPT ![d] = r]
     /\ served' = [served EXCEPT ![r] = Append(@, d)]
  /\ UNCHANGED <<list, caller, queue, present, taken, canceled, completed>>

\* Defect for comparison: an exception leaves the loop before completed is set.
CompleteNot(d) ==
  /\ running[d] # None
  /\ running' = [running EXCEPT ![d] = None]
  /\ taken' = [taken EXCEPT ![d] = Tail(@)]
  /\ UNCHANGED <<list, caller, queue, present, flags, served>>

\* Every std::exception has become a result.
Complete(d) ==
  /\ running[d] # None
  /\ completed' = completed \cup {running[d]}
  /\ running' = [running EXCEPT ![d] = None]
  /\ taken' = [taken EXCEPT ![d] = Tail(@)]
  /\ UNCHANGED <<list, caller, queue, present, started, canceled, served>>

NextDeque(d) ==
  /\ present[d] = "analysis" /\ taken[d] = <<>>
  /\ TakeOver(d, "live")
  /\ UNCHANGED <<list, caller, running, flags, served>>

EndPresent(d) ==
  /\ present[d] = "live" /\ taken[d] = <<>>
  /\ present' = [present EXCEPT ![d] = "out"]
  /\ UNCHANGED <<list, caller, queue, taken, running, flags, served>>

Serve(d) == Skip(d) \/ Start(d) \/ Complete(d) \/ NextDeque(d) \/ EndPresent(d)
Caller(r) == Enqueue(r) \/ Timeout(r) \/ Cancel(r) \/ Return(r)

Next ==
  \/ \E d \in Devices : InitDevice(d) \/ DestroyDevice(d) \/ BeginPresent(d)
                        \/ Skip(d) \/ Start(d) \/ Complete(d)
                        \/ NextDeque(d) \/ EndPresent(d)
  \/ \E r \in Requests : Resolve(r) \/ Enqueue(r) \/ Timeout(r) \/ Cancel(r) \/ Return(r)

Spec == Init /\ [][Next]_vars

\* A present that has begun goes on, and time passes for those who wait.
\* Nothing makes the game present again, or a client call a tool.
FairSpec == Spec /\ \A d \in Devices : WF_vars(Serve(d))
                 /\ \A r \in Requests : WF_vars(Caller(r))

-----------------------------------------------------------------------------
TypeOK ==
  /\ list \in Seq(Devices)
  /\ call \in [Requests -> {"idle", "resolved", "unavailable", "waiting",
                            "canceling", "timed out", "answered"}]
  /\ index \in [Requests -> Nat \ {0}]
  /\ addressee \in [Requests -> Devices \cup {None}]
  /\ queue \in [{"analysis", "live"} -> [Devices -> Seq(Requests)]]
  /\ present \in [Devices -> {"out", "analysis", "live"}]
  /\ taken \in [Devices -> Seq(Requests)]
  /\ running \in [Devices -> Requests \cup {None}]
  /\ started \subseteq Requests /\ canceled \subseteq Requests
  /\ completed \subseteq Requests
  /\ served \in [Requests -> Seq(Devices)]

\* A caller that was told the request timed out may issue it again without its
\* being done twice: the request has not been begun and never will be, wherever
\* a copy of the pointer still lies.  A caller that was given a result has had
\* its request performed once, by the device whose deque it was put into.
\* (canceled and started exclude each other under the request's mutex.)
AnswersAreTruthful ==
  \A r \in Requests :
    /\ call[r] = "timed out" => served[r] = <<>>
    /\ call[r] = "answered" => served[r] = <<addressee[r]>>

\* A tool call comes back: the game stops presenting, the device goes away
\* with the request in its deque, or the present is busy with other requests.
CallsReturn ==
  \A r \in Requests :
    call[r] = "resolved" ~> call[r] \in {"unavailable", "timed out", "answered"}
=============================================================================
