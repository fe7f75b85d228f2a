------------------------------- MODULE IpcServer -------------------------------
(***************************************************************************)
(* The named-pipe server of src/utils/ipc/ipc.hpp: an owner that calls     *)
(* Start and Stop, the worker thread that creates pipe instances and       *)
(* accepts clients, and one detached thread per accepted connection.       *)
(*                                                                         *)
(* A step is what a thread does between two points where another thread    *)
(* may interfere: one state_mutex_ section, one access of an atomic, one   *)
(* system call.  The owner is mcp::Server, whose Start begins with Stop.   *)
(***************************************************************************)
EXTENDS Naturals, FiniteSets

CONSTANTS
  Client,          \* the processes that open the pipe
  MaxInstances,    \* ServerConfig::max_instances
  MaxConnects,     \* bound on the number of times a client opens the pipe
  MaxStarts,       \* bound on the number of Start calls
  Faults,          \* may the system calls fail for reasons of their own?
  None             \* INVALID_HANDLE_VALUE, a null pointer, nobody

ASSUME IpcAssumption ==
  /\ MaxInstances \in Nat \ {0}
  /\ MaxConnects \in Nat
  /\ MaxStarts \in Nat
  /\ Faults \in BOOLEAN
  /\ None \notin Client \union Nat

Pipe == 1..MaxInstances     \* handles of pipe instances, reused once closed
Conn == 1..MaxConnects      \* ConnectionState objects, in the order they are made
Id   == 1..MaxConnects      \* connection ids

VARIABLES
  \* the owner
  owner,            \* where the thread calling Start and Stop is
  op,               \* the call it makes
  result,           \* what its last call came to
  snapListener,     \* Stop's local copy of listener_pipe_
  snapConns,        \* Stop's local copy of connections_, what is left of it
  starts,           \* number of Start calls made
  \* the server object
  stopRequested, running, startupComplete,
  listener,         \* listener_pipe_
  connections,      \* connections_: id -> ConnectionState or None
  nextId,           \* next_connection_id_
  \* the worker
  worker,           \* where it is in Run; "none": no thread
  workerPipe,       \* its local handle
  outcome,          \* what ConnectNamedPipe returned
  \* the connections
  thread,           \* where RunConnection is
  connId, connPipe, \* ConnectionState::id, ConnectionState::pipe
  message,          \* the client whose request the thread handles
  closing,          \* the ConnectionState RemoveConnection took out of the map
  \* the pipe and its clients (external)
  instance,         \* state of each instance
  peer,             \* the client at its other end
  request,          \* is there an unread request in it?
  connects          \* number of opens so far

ownerVars  == <<owner, op, result, snapListener, snapConns, starts>>
serverVars == <<stopRequested, running, startupComplete, listener, connections, nextId>>
workerVars == <<worker, workerPipe, outcome>>
connVars   == <<thread, connId, connPipe, message, closing>>
pipeVars   == <<instance, peer, request, connects>>
vars == <<ownerVars, serverVars, workerVars, connVars, pipeVars>>

Connected == {i \in Id : connections[i] # None}   \* the keys of connections_
HasRoom == Cardinality(Connected) < MaxInstances

\* state_mutex_ is held across two steps only by a worker about to wait.
MutexFree == worker # "parking"

\* Defect for comparison: nobody notifies.
NotifiedNever == worker

\* state_condition_.notify_all, for a worker that waits; the owner's two waits
\* are for predicates that change under the mutex and are guards below.
Notified == IF worker = "parked" THEN "check" ELSE worker

\* The pipe functions of the kernel.
Closed(p, inst) == [inst EXCEPT ![p] = "free"]
Hangup(p, prs) == [prs EXCEPT ![p] = None]
Drained(p, req) == [req EXCEPT ![p] = FALSE]

-----------------------------------------------------------------------------
Init ==
  /\ owner = "idle" /\ op = "stop" /\ result = "none"
  /\ snapListener = None /\ snapConns = {} /\ starts = 0
  /\ stopRequested = FALSE /\ running = FALSE /\ startupComplete = FALSE
  /\ listener = None /\ connections = [i \in Id |-> None] /\ nextId = 1
  /\ worker = "none" /\ workerPipe = None /\ outcome = "none"
  /\ thread = [c \in Conn |-> "none"]
  /\ connId = [c \in Conn |-> 0]
  /\ connPipe = [c \in Conn |-> None]
  /\ message = [c \in Conn |-> None]
  /\ closing = [c \in Conn |-> None]
  /\ instance = [p \in Pipe |-> "free"]
  /\ peer = [p \in Pipe |-> None]
  /\ request = [p \in Pipe |-> FALSE]
  /\ connects = 0

(***************************************************************************)
(* The owner: mcp::Server::Start and Stop around Server::Start and Stop.   *)
(***************************************************************************)

\* Both calls begin with the two first lines of Stop.
CallOwner(call) ==
  /\ owner = "idle"
  /\ call = "start" => starts < MaxStarts
  /\ op' = call
  /\ starts' = IF call = "start" THEN starts + 1 ELSE starts
  /\ stopRequested' = TRUE
  /\ worker' = Notified
  /\ owner' = "snapshot"
  /\ UNCHANGED <<result, snapListener, snapConns, running, startupComplete, listener,
                 connections, nextId, workerPipe, outcome, connVars, pipeVars>>

StopSnapshot ==
  /\ owner = "snapshot" /\ MutexFree
  /\ snapListener' = listener
  /\ snapConns' = {connections[i] : i \in Connected}
  /\ owner' = "cancel"
  /\ UNCHANGED <<op, result, starts, serverVars, workerVars, connVars, pipeVars>>

\* CancelIoEx aborts a ConnectNamedPipe only while it is pending; then
\* DisconnectNamedPipe throws the client out, if there is one.  A call that
\* starts between the two is taken to start after both: it is not cancelled either.
StopCancelListener ==
  /\ owner = "cancel"
  /\ owner' = "disconnect"
  /\ IF snapListener # None /\ instance[snapListener] # "free"
       THEN /\ instance' = [instance EXCEPT ![snapListener] = "disconnected"]
            /\ peer' = Hangup(snapListener, peer)
            /\ request' = Drained(snapListener, request)
            /\ IF worker = "blocked" /\ workerPipe = snapListener
                 THEN /\ worker' = "unpublish"
                      /\ outcome' = IF instance[snapListener] = "listening"
                                      THEN "aborted" ELSE "connected"
                 ELSE UNCHANGED <<worker, outcome>>
       ELSE UNCHANGED <<instance, peer, request, worker, outcome>>
  /\ snapListener' = None
  /\ UNCHANGED <<op, result, snapConns, starts, serverVars, workerPipe, connVars,
                 connects>>

\* One turn of the loop over the snapshot, under the connection's write_mutex.
StopDisconnect(c) ==
  /\ owner = "disconnect" /\ c \in snapConns
  /\ snapConns' = snapConns \ {c}
  /\ IF connPipe[c] # None
       THEN /\ instance' = [instance EXCEPT ![connPipe[c]] = "disconnected"]
            /\ peer' = Hangup(connPipe[c], peer)
            /\ request' = Drained(connPipe[c], request)
       ELSE UNCHANGED <<instance, peer, request>>
  /\ UNCHANGED <<owner, op, result, snapListener, starts, serverVars, workerVars,
                 connVars, connects>>

StopJoin ==
  /\ owner = "disconnect" /\ snapConns = {}
  /\ worker \in {"none", "ended"}
  /\ worker' = "none"
  /\ owner' = "drain"
  /\ UNCHANGED <<op, result, snapListener, snapConns, starts, serverVars, workerPipe,
                 outcome, connVars, pipeVars>>

\* Defect for comparison: Stop does not wait for the connections to go.
StopDrainWithoutWait ==
  /\ owner = "drain" /\ MutexFree
  /\ listener' = None
  /\ running' = FALSE
  /\ owner' = IF op = "start" THEN "start" ELSE "idle"
  /\ result' = "stopped"
  /\ op' = "stop"
  /\ UNCHANGED <<snapListener, snapConns, starts, stopRequested, startupComplete,
                 connections, nextId, workerVars, connVars, pipeVars>>

StopDrain ==
  /\ owner = "drain" /\ MutexFree
  /\ Connected = {}
  /\ listener' = None
  /\ running' = FALSE
  /\ owner' = IF op = "start" THEN "start" ELSE "idle"
  /\ result' = "stopped"
  /\ op' = "stop"
  /\ UNCHANGED <<snapListener, snapConns, starts, stopRequested, startupComplete,
                 connections, nextId, workerVars, connVars, pipeVars>>

\* Server::Start refuses its configuration, or cannot ask for the process's token.
\* That the worker is there already is no reason: Stop has just joined it.
StartRefused ==
  /\ owner = "start" /\ Faults
  /\ owner' = "idle" /\ result' = "failed"
  /\ UNCHANGED <<op, snapListener, snapConns, starts, serverVars, workerVars, connVars,
                 pipeVars>>

\* Server::Start up to the creation of the worker.
StartWorker ==
  /\ owner = "start"
  /\ stopRequested' = FALSE /\ running' = FALSE /\ startupComplete' = FALSE
  /\ nextId' = 1
  /\ worker' = "init"
  /\ owner' = "starting"
  /\ UNCHANGED <<op, result, snapListener, snapConns, starts, listener, connections,
                 workerPipe, outcome, connVars, pipeVars>>

StartReturn ==
  /\ owner = "starting" /\ MutexFree
  /\ startupComplete
  /\ IF running
       THEN owner' = "idle" /\ result' = "started"
       ELSE owner' = "joinFailed" /\ UNCHANGED result
  /\ UNCHANGED <<op, snapListener, snapConns, starts, serverVars, workerVars, connVars,
                 pipeVars>>

StartJoinFailed ==
  /\ owner = "joinFailed" /\ worker = "ended"
  /\ worker' = "none"
  /\ owner' = "idle" /\ result' = "failed"
  /\ UNCHANGED <<op, snapListener, snapConns, starts, serverVars, workerPipe, outcome,
                 connVars, pipeVars>>

\* What the owner's thread does once a call is made.
OwnerStep ==
  \/ StopSnapshot \/ StopCancelListener
  \/ \E c \in Conn : StopDisconnect(c)
  \/ StopJoin \/ StopDrain
  \/ StartRefused \/ StartWorker \/ StartReturn \/ StartJoinFailed

(***************************************************************************)
(* The worker: Run.                                                        *)
(***************************************************************************)

\* Defect for comparison: a failed startup is not reported.
CompleteStartupOnSuccess(success) ==
  IF success
    THEN running' = (IF startupComplete THEN running ELSE TRUE) /\ startupComplete' = TRUE
    ELSE UNCHANGED <<running, startupComplete>>

\* CompleteStartup, the body of its critical section.
CompleteStartup(success) ==
  /\ running' = IF startupComplete THEN running ELSE success
  /\ startupComplete' = TRUE

\* The security descriptor is rejected: Run returns from here.
WorkerRefuse ==
  /\ worker = "init" /\ Faults
  /\ CompleteStartup(FALSE)
  /\ worker' = "ended"
  /\ UNCHANGED <<ownerVars, stopRequested, listener, connections, nextId, workerPipe,
                 outcome, connVars, pipeVars>>

WorkerInit ==
  /\ worker = "init"
  /\ worker' = "check"
  /\ UNCHANGED <<ownerVars, serverVars, workerPipe, outcome, connVars, pipeVars>>

\* The loop condition and the predicate of the wait, evaluated with the mutex
\* held; it stays held until the worker sleeps.
WorkerCheck ==
  /\ worker = "check"
  /\ worker' = IF stopRequested THEN "exit"
               ELSE IF HasRoom THEN "create" ELSE "parking"
  /\ UNCHANGED <<ownerVars, serverVars, workerPipe, outcome, connVars, pipeVars>>

WorkerPark ==
  /\ worker = "parking"
  /\ worker' = "parked"
  /\ UNCHANGED <<ownerVars, serverVars, workerPipe, outcome, connVars, pipeVars>>

\* CreateNamedPipeW succeeds as long as fewer than max_instances handles are open.
WorkerCreate(p) ==
  /\ worker = "create" /\ instance[p] = "free"
  /\ instance' = [instance EXCEPT ![p] = "listening"]
  /\ peer' = Hangup(p, peer)
  /\ request' = Drained(p, request)
  /\ workerPipe' = p
  /\ worker' = "publish"
  /\ UNCHANGED <<ownerVars, serverVars, outcome, connVars, connects>>

WorkerCreateFails ==
  /\ worker = "create"
  /\ Faults \/ \A p \in Pipe : instance[p] # "free"
  /\ worker' = "exit"
  /\ UNCHANGED <<ownerVars, serverVars, workerPipe, outcome, connVars, pipeVars>>

\* The assignment of listener_pipe_ and CompleteStartup(true).
WorkerPublish ==
  /\ worker = "publish"
  /\ listener' = workerPipe
  /\ CompleteStartup(TRUE)
  /\ worker' = "connect"
  /\ UNCHANGED <<ownerVars, stopRequested, connections, nextId, workerPipe, outcome,
                 connVars, pipeVars>>

\* The call of ConnectNamedPipe: it returns at once when a client came already
\* (ERROR_PIPE_CONNECTED), or came and left (ERROR_NO_DATA); otherwise the
\* instance listens, again if it had been disconnected, and the call blocks.
WorkerConnect ==
  /\ worker = "connect"
  /\ LET state == instance[workerPipe]
     IN  \/ /\ state = "connected"
            /\ outcome' = "connected" /\ worker' = "unpublish"
            /\ UNCHANGED instance
         \/ /\ state = "broken"
            /\ outcome' = "noData" /\ worker' = "unpublish"
            /\ UNCHANGED instance
         \/ /\ state \in {"listening", "disconnected"}
            /\ instance' = [instance EXCEPT ![workerPipe] = "listening"]
            /\ worker' = "blocked"
            /\ UNCHANGED outcome
         \/ /\ Faults
            /\ outcome' = "failed" /\ worker' = "unpublish"
            /\ UNCHANGED instance
  /\ UNCHANGED <<ownerVars, serverVars, workerPipe, connVars, peer, request, connects>>

\* A client opened the pipe while the call was pending.
WorkerConnected ==
  /\ worker = "blocked"
  /\ instance[workerPipe] \in {"connected", "broken"}
  /\ outcome' = "connected" /\ worker' = "unpublish"
  /\ UNCHANGED <<ownerVars, serverVars, workerPipe, connVars, pipeVars>>

WorkerUnpublish ==
  /\ worker = "unpublish"
  /\ listener' = IF listener = workerPipe THEN None ELSE listener
  /\ worker' = IF outcome = "connected" THEN "accepted" ELSE "reject"
  /\ UNCHANGED <<ownerVars, stopRequested, running, startupComplete, connections, nextId,
                 workerPipe, outcome, connVars, pipeVars>>

\* No client: the instance is closed; only a client that had left already lets
\* the loop go on.
WorkerReject ==
  /\ worker = "reject"
  /\ instance' = Closed(workerPipe, instance)
  /\ peer' = Hangup(workerPipe, peer)
  /\ workerPipe' = None
  /\ worker' = IF ~stopRequested /\ outcome = "noData" THEN "check" ELSE "exit"
  /\ outcome' = "none"
  /\ UNCHANGED <<ownerVars, serverVars, connVars, request, connects>>

\* Defect for comparison: the thread leaves the loop with the handle open.
WorkerAcceptedLeaking ==
  /\ worker = "accepted"
  /\ worker' = IF stopRequested THEN "exit" ELSE "insert"
  /\ workerPipe' = IF stopRequested THEN None ELSE workerPipe
  /\ outcome' = "none"
  /\ UNCHANGED <<ownerVars, serverVars, connVars, pipeVars>>

\* The check of stop_requested_ after a connect.
WorkerAccepted ==
  /\ worker = "accepted"
  /\ IF stopRequested
       THEN /\ instance' = Closed(workerPipe, instance)
            /\ peer' = Hangup(workerPipe, peer)
            /\ workerPipe' = None
            /\ worker' = "exit"
       ELSE /\ worker' = "insert"
            /\ UNCHANGED <<instance, peer, workerPipe>>
  /\ outcome' = "none"
  /\ UNCHANGED <<ownerVars, serverVars, connVars, request, connects>>

\* The new ConnectionState enters the map and its thread starts.
WorkerInsert(c) ==
  /\ worker = "insert"
  /\ thread[c] = "none" /\ \A d \in Conn : d < c => thread[d] # "none"
  /\ connId' = [connId EXCEPT ![c] = nextId]
  /\ connPipe' = [connPipe EXCEPT ![c] = workerPipe]
  /\ connections' = [connections EXCEPT ![nextId] = c]
  /\ nextId' = nextId + 1
  /\ thread' = [thread EXCEPT ![c] = "loop"]
  /\ workerPipe' = None
  /\ worker' = "check"
  /\ UNCHANGED <<ownerVars, stopRequested, running, startupComplete, listener, outcome,
                 message, closing, pipeVars>>

\* After the loop: close what is still published, report a failed startup.
WorkerExit ==
  /\ worker = "exit"
  /\ instance' = IF listener = None THEN instance ELSE Closed(listener, instance)
  /\ listener' = None
  /\ CompleteStartup(FALSE)
  /\ worker' = "finish"
  /\ UNCHANGED <<ownerVars, stopRequested, connections, nextId, workerPipe, outcome,
                 connVars, peer, request, connects>>

WorkerFinish ==
  /\ worker = "finish"
  /\ running' = FALSE
  /\ worker' = "ended"
  /\ UNCHANGED <<ownerVars, stopRequested, startupComplete, listener, connections, nextId,
                 workerPipe, outcome, connVars, pipeVars>>

Worker ==
  \/ WorkerRefuse \/ WorkerInit \/ WorkerCheck \/ WorkerPark
  \/ \E p \in Pipe : WorkerCreate(p)
  \/ WorkerCreateFails \/ WorkerPublish \/ WorkerConnect \/ WorkerConnected
  \/ WorkerUnpublish \/ WorkerReject \/ WorkerAccepted
  \/ \E c \in Conn : WorkerInsert(c)
  \/ WorkerExit \/ WorkerFinish

(***************************************************************************)
(* A connection: RunConnection, RemoveConnection and CloseConnection.      *)
(***************************************************************************)
ConnLoop(c) ==
  /\ thread[c] = "loop"
  /\ thread' = [thread EXCEPT ![c] = IF stopRequested THEN "remove" ELSE "read"]
  /\ UNCHANGED <<ownerVars, serverVars, workerVars, connId, connPipe, message, closing,
                 pipeVars>>

\* ReceiveMessage: a whole message, even from a client that has left since, or
\* a failure (bad frame, broken or disconnected pipe).
ConnRead(c) ==
  LET p == connPipe[c]
  IN  /\ thread[c] = "read"
      /\ \/ /\ request[p]
            /\ request' = Drained(p, request)
            /\ \/ /\ thread' = [thread EXCEPT ![c] = "handle"]
                  /\ message' = [message EXCEPT ![c] = peer[p]]
               \/ /\ thread' = [thread EXCEPT ![c] = "remove"]
                  /\ UNCHANGED message
         \/ /\ ~request[p] /\ instance[p] # "connected"
            /\ thread' = [thread EXCEPT ![c] = "remove"]
            /\ UNCHANGED <<request, message>>
      /\ UNCHANGED <<ownerVars, serverVars, workerVars, connId, connPipe, closing,
                     instance, peer, connects>>

\* The client that reads a response to the request thread c handles: Send looks
\* the connection up by its id.
Recipient(c) ==
  LET target == connections[connId[c]]
      p == IF target = None THEN None ELSE connPipe[target]
  IN  IF p # None /\ instance[p] = "connected" THEN peer[p] ELSE None

\* handler_ answers, or answers nothing, or throws.
ConnHandle(c) ==
  /\ thread[c] = "handle" /\ MutexFree
  /\ thread' \in {[thread EXCEPT ![c] = "loop"], [thread EXCEPT ![c] = "remove"]}
  /\ message' = [message EXCEPT ![c] = None]
  /\ UNCHANGED <<ownerVars, serverVars, workerVars, connId, connPipe, closing, pipeVars>>

\* The critical section of RemoveConnection.
ConnRemove(c) ==
  /\ thread[c] = "remove" /\ MutexFree
  /\ closing' = [closing EXCEPT ![c] = connections[connId[c]]]
  /\ connections' = [connections EXCEPT ![connId[c]] = None]
  /\ thread' = [thread EXCEPT ![c] = "removed"]
  /\ connId' = [connId EXCEPT ![c] = 0]
  /\ UNCHANGED <<ownerVars, stopRequested, running, startupComplete, listener, nextId,
                 workerVars, connPipe, message, pipeVars>>

\* The notification comes after the mutex is released.
ConnNotify(c) ==
  /\ thread[c] = "removed"
  /\ worker' = Notified
  /\ thread' = [thread EXCEPT ![c] = "closed"]
  /\ UNCHANGED <<ownerVars, serverVars, workerPipe, outcome, connId, connPipe, message,
                 closing, pipeVars>>

\* Defect for comparison: CloseConnection is forgotten.
ConnCloseForgotten(c) ==
  /\ thread[c] = "closed"
  /\ closing' = [closing EXCEPT ![c] = None]
  /\ thread' = [thread EXCEPT ![c] = "done"]
  /\ UNCHANGED <<ownerVars, serverVars, workerVars, connId, connPipe, message,
                 instance, peer, request, connects>>

\* connection_closed_handler_ has run, CloseConnection follows.
ConnClose(c) ==
  LET d == closing[c]
  IN  /\ thread[c] = "closed"
      /\ IF d # None /\ connPipe[d] # None
           THEN /\ instance' = Closed(connPipe[d], instance)
                /\ peer' = Hangup(connPipe[d], peer)
                /\ request' = Drained(connPipe[d], request)
                /\ connPipe' = [connPipe EXCEPT ![d] = None]
           ELSE UNCHANGED <<instance, peer, request, connPipe>>
      /\ closing' = [closing EXCEPT ![c] = None]
      /\ thread' = [thread EXCEPT ![c] = "done"]
      /\ UNCHANGED <<ownerVars, serverVars, workerVars, connId, message, connects>>

Connection(c) ==
  \/ ConnLoop(c) \/ ConnRead(c) \/ ConnHandle(c)
  \/ ConnRemove(c) \/ ConnNotify(c) \/ ConnClose(c)

(***************************************************************************)
(* The clients.                                                            *)
(***************************************************************************)
ClientOpen(k, p) ==
  /\ connects < MaxConnects
  /\ \A q \in Pipe : ~(peer[q] = k /\ instance[q] = "connected")
  /\ instance[p] = "listening"
  /\ instance' = [instance EXCEPT ![p] = "connected"]
  /\ peer' = [peer EXCEPT ![p] = k]
  /\ connects' = connects + 1
  /\ UNCHANGED <<ownerVars, serverVars, workerVars, connVars, request>>

ClientSend(k, p) ==
  /\ instance[p] = "connected" /\ peer[p] = k /\ ~request[p]
  /\ request' = [request EXCEPT ![p] = TRUE]
  /\ UNCHANGED <<ownerVars, serverVars, workerVars, connVars, instance, peer, connects>>

ClientLeave(k, p) ==
  /\ instance[p] = "connected" /\ peer[p] = k
  /\ instance' = [instance EXCEPT ![p] = "broken"]
  /\ UNCHANGED <<ownerVars, serverVars, workerVars, connVars, peer, request, connects>>

Next ==
  \/ \E call \in {"start", "stop"} : CallOwner(call)
  \/ OwnerStep
  \/ Worker
  \/ \E c \in Conn : Connection(c)
  \/ \E k \in Client, p \in Pipe : ClientOpen(k, p) \/ ClientSend(k, p) \/ ClientLeave(k, p)

Spec == Init /\ [][Next]_vars

(***************************************************************************)
(* Every thread of the server keeps running; handlers return.  Neither the *)
(* calls of Start and Stop nor anything a client does is promised.         *)
(***************************************************************************)
FairSpec ==
  /\ Spec
  /\ WF_vars(OwnerStep)
  /\ WF_vars(Worker)
  /\ \A c \in Conn : WF_vars(Connection(c))

-----------------------------------------------------------------------------
\* The places each thread can be in and the values it can hold there.
OwnerTypes ==
  /\ owner \in {"idle", "snapshot", "cancel", "disconnect", "drain", "start",
                "starting", "joinFailed"}
  /\ op \in {"start", "stop"}
  /\ result \in {"none", "stopped", "started", "failed"}
  /\ snapListener \in Pipe \union {None} /\ snapConns \subseteq Conn
  /\ starts \in 0..MaxStarts

ServerTypes ==
  /\ stopRequested \in BOOLEAN /\ running \in BOOLEAN /\ startupComplete \in BOOLEAN
  /\ listener \in Pipe \union {None}
  /\ connections \in [Id -> Conn \union {None}]
  /\ nextId \in 1..MaxConnects + 1

WorkerTypes ==
  /\ worker \in {"none", "init", "check", "parking", "parked", "create", "publish",
                 "connect", "blocked", "unpublish", "reject", "accepted", "insert",
                 "exit", "finish", "ended"}
  /\ workerPipe \in Pipe \union {None}
  /\ outcome \in {"none", "connected", "noData", "aborted", "failed"}

ConnTypes ==
  /\ thread \in [Conn -> {"none", "loop", "read", "handle", "remove", "removed", "closed",
                       "done"}]
  /\ connId \in [Conn -> Id \union {0}]
  /\ connPipe \in [Conn -> Pipe \union {None}]
  /\ message \in [Conn -> Client \union {None}]
  /\ closing \in [Conn -> Conn \union {None}]

PipeTypes ==
  /\ instance \in [Pipe -> {"free", "listening", "connected", "broken", "disconnected"}]
  /\ peer \in [Pipe -> Client \union {None}]
  /\ request \in [Pipe -> BOOLEAN]
  /\ connects \in 0..MaxConnects

TypeOK == OwnerTypes /\ ServerTypes /\ WorkerTypes /\ ConnTypes /\ PipeTypes

\* Every open handle is closed exactly once: an open instance belongs to the
\* worker or to one connection, never to both and never to nobody, and nobody
\* holds a handle that is closed.
HandlesHaveOneOwner ==
  \A p \in Pipe :
    LET owners == {c \in Conn : connPipe[c] = p} \union
                  (IF workerPipe = p THEN {None} ELSE {})
    IN  Cardinality(owners) = IF instance[p] = "free" THEN 0 ELSE 1

\* A response written by a handler is read by the client whose request it
\* answers or by nobody, although ids start again at 1 with every Start and handles are
\* reused by later connections.
AnswersReachTheRequester ==
  \A c \in Conn : thread[c] = "handle" => Recipient(c) \in {message[c], None}

\* When Stop has returned there is no worker, no listener, and no thread that
\* could still read a request or run the handler.
QuietAfterStop ==
  owner = "idle" /\ result = "stopped" =>
    /\ worker = "none" /\ listener = None /\ ~running
    /\ \A c \in Conn : thread[c] \in {"none", "removed", "closed", "done"}

\* Start always returns: the worker reports the outcome of the first creation
\* on every path.
StartReturns == owner = "starting" ~> owner = "idle"

\* A worker waiting for room or for Stop is woken when either comes, although
\* Stop notifies without holding state_mutex_.
WorkerIsWoken ==
  worker = "parked" /\ (stopRequested \/ HasRoom) ~> worker # "parked"

\* The instance of a client that left is eventually closed, so that a new
\* client can be served.
LeaversAreReleased ==
  \A c \in Conn :
    (connPipe[c] # None /\ instance[connPipe[c]] = "broken") ~> connPipe[c] = None

\* Stop returns (violated: a worker that has not yet blocked in
\* ConnectNamedPipe is not reached by CancelIoEx, and blocks afterwards).
StopReturns == owner = "snapshot" ~> owner \in {"idle", "start"}
=============================================================================
