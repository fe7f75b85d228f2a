--------------------------- MODULE IpcServer_proofs ---------------------------
(***************************************************************************)
(* No pipe handle is leaked or closed twice, no answer reaches another      *)
(* client, and a stopped server does nothing more, for any number of        *)
(* clients, instances, connections and calls, and whatever fails.          *)
(***************************************************************************)
EXTENDS IpcServer, FiniteSetTheorems, TLAPS

\* Where the worker has a handle of its own, and where that is published.
Holding == {"publish", "connect", "blocked", "unpublish", "reject", "accepted", "insert"}
Published == {"connect", "blocked", "unpublish"}

\* Where a connection is still in the map.
Serving == {"loop", "read", "handle", "remove"}

\* The worker: its handle, the published handle, and what a connect may leave.
WorkerInv ==
  /\ workerPipe # None <=> worker \in Holding
  /\ listener = IF worker \in Published THEN workerPipe ELSE None
  /\ worker \in {"accepted", "insert"} \/ (worker = "unpublish" /\ outcome = "connected")
       => instance[workerPipe] # "listening"

\* A connection is in the map under its id, and has a handle, until it is removed;
\* objects and ids are used in order.
ConnectionInv ==
  /\ \A c \in Conn :
       /\ thread[c] \in Serving =>
            /\ connId[c] \in Id /\ connId[c] < nextId
            /\ connections[connId[c]] = c
       /\ thread[c] \in {"removed", "closed"} => closing[c] = c
       /\ connPipe[c] # None <=> thread[c] \in Serving \cup {"removed", "closed"}
       /\ thread[c] = "none" =>
            nextId <= c /\ \A d \in Conn : d > c => thread[d] = "none"
  /\ \A i \in Id : connections[i] # None =>
       thread[connections[i]] \in Serving /\ connId[connections[i]] = i

\* Each open instance has one holder.
HandleInv ==
  /\ \A p \in Pipe : instance[p] # "free" =>
       workerPipe = p \/ \E c \in Conn : connPipe[c] = p
  /\ workerPipe # None => instance[workerPipe] # "free"
  /\ \A c \in Conn : connPipe[c] # None =>
       /\ instance[connPipe[c]] \notin {"free", "listening"}
       /\ connPipe[c] # workerPipe
       /\ \A d \in Conn : d # c => connPipe[d] # connPipe[c]

\* The request a thread handles came from the client at the other end.
MessageInv ==
  \A c \in Conn :
    thread[c] = "handle" /\ instance[connPipe[c]] = "connected" => peer[connPipe[c]] = message[c]

Quiet ==
  /\ worker = "none" /\ listener = None /\ ~running
  /\ \A c \in Conn : thread[c] \notin Serving

\* What the owner may rely on.
OwnerInv ==
  /\ owner = "drain" => worker = "none"
  /\ owner = "start" \/ (owner = "idle" /\ result = "stopped") => Quiet

Inv == TypeOK /\ WorkerInv /\ ConnectionInv /\ HandleInv /\ MessageInv /\ OwnerInv

\* How the variables are grouped.
USE DEF ownerVars, serverVars, workerVars, connVars, pipeVars

LEMMA Names == None \notin Client /\ None \notin Pipe /\ None \notin Conn /\ None # 0
BY IpcAssumption DEF Pipe, Conn

LEMMA Bounds ==
  /\ 0 \in 0..MaxStarts /\ 0 \in 0..MaxConnects /\ 1 \in 1..MaxConnects + 1
  /\ \A n \in 0..MaxStarts : n < MaxStarts => n + 1 \in 0..MaxStarts
  /\ \A n \in 0..MaxConnects : n < MaxConnects => n + 1 \in 0..MaxConnects
  /\ \A n \in 1..MaxConnects + 1, c \in Conn : n <= c => n \in Id /\ n + 1 \in 1..MaxConnects + 1
BY IpcAssumption DEF Conn, Id

LEMMA InitInv == Init => Inv
<1> SUFFICES ASSUME Init PROVE Inv
  OBVIOUS
<1>1. OwnerTypes /\ WorkerTypes /\ ConnTypes
  BY Bounds DEF Init, OwnerTypes, WorkerTypes, ConnTypes
<1>2. ServerTypes /\ PipeTypes
  BY Bounds DEF Init, ServerTypes, PipeTypes
<1>3. ConnectionInv
  BY IpcAssumption, Names DEF Init, ConnectionInv, Serving, Conn
<1> QED
  BY <1>1, <1>2, <1>3, Names
  DEF Init, Inv, TypeOK, WorkerInv, HandleInv, MessageInv, OwnerInv, Holding, Published, Serving, Quiet

-----------------------------------------------------------------------------
LEMMA TypeStep == Inv /\ [Next]_vars => TypeOK'
<1> SUFFICES ASSUME Inv, [Next]_vars PROVE TypeOK'
  OBVIOUS
<1>0. OwnerTypes /\ ServerTypes /\ WorkerTypes /\ ConnTypes /\ PipeTypes
  BY DEF Inv, TypeOK
<1>1. ASSUME NEW call \in {"start", "stop"}, CallOwner(call) PROVE TypeOK'
  <2>1. OwnerTypes'
    BY <1>0, <1>1, Bounds DEF CallOwner, OwnerTypes
  <2>2. ServerTypes'
    BY <1>0, <1>1 DEF CallOwner, ServerTypes
  <2>3. WorkerTypes'
    BY <1>0, <1>1 DEF CallOwner, WorkerTypes, Notified
  <2> QED
    BY <1>0, <1>1, <2>1, <2>2, <2>3
    DEF TypeOK, CallOwner, ConnTypes, PipeTypes
<1>2. CASE StopSnapshot
  <2>1. OwnerTypes'
    BY <1>0, <1>2 DEF StopSnapshot, OwnerTypes, ServerTypes, Connected
  <2> QED
    BY <1>0, <1>2, <2>1
    DEF TypeOK, StopSnapshot, ServerTypes, WorkerTypes, ConnTypes, PipeTypes
<1>3. CASE StopCancelListener
  <2>1. OwnerTypes'
    BY <1>0, <1>3 DEF StopCancelListener, OwnerTypes
  <2>2. WorkerTypes'
    BY <1>0, <1>3 DEF StopCancelListener, WorkerTypes
  <2>3. PipeTypes'
    BY <1>0, <1>3 DEF StopCancelListener, PipeTypes, Hangup, Drained
  <2> QED
    BY <1>0, <1>3, <2>1, <2>2, <2>3
    DEF TypeOK, StopCancelListener, ServerTypes, ConnTypes
<1>4. ASSUME NEW c \in Conn, StopDisconnect(c) PROVE TypeOK'
  <2>1. OwnerTypes'
    BY <1>0, <1>4 DEF StopDisconnect, OwnerTypes
  <2>2. PipeTypes'
    BY <1>0, <1>4 DEF StopDisconnect, PipeTypes, Hangup, Drained
  <2> QED
    BY <1>0, <1>4, <2>1, <2>2
    DEF TypeOK, StopDisconnect, ServerTypes, WorkerTypes, ConnTypes
<1>5. CASE StopJoin
  <2>1. OwnerTypes'
    BY <1>0, <1>5 DEF StopJoin, OwnerTypes
  <2>2. WorkerTypes'
    BY <1>0, <1>5 DEF StopJoin, WorkerTypes
  <2> QED
    BY <1>0, <1>5, <2>1, <2>2
    DEF TypeOK, StopJoin, ServerTypes, ConnTypes, PipeTypes
<1>6. CASE StopDrain
  <2>1. OwnerTypes'
    BY <1>0, <1>6 DEF StopDrain, OwnerTypes
  <2>2. ServerTypes'
    BY <1>0, <1>6 DEF StopDrain, ServerTypes
  <2> QED
    BY <1>0, <1>6, <2>1, <2>2
    DEF TypeOK, StopDrain, WorkerTypes, ConnTypes, PipeTypes
<1>7. CASE StartWorker
  <2>1. OwnerTypes'
    BY <1>0, <1>7 DEF StartWorker, OwnerTypes
  <2>2. ServerTypes'
    BY <1>0, <1>7, Bounds DEF StartWorker, ServerTypes
  <2>3. WorkerTypes'
    BY <1>0, <1>7 DEF StartWorker, WorkerTypes
  <2> QED
    BY <1>0, <1>7, <2>1, <2>2, <2>3
    DEF TypeOK, StartWorker, ConnTypes, PipeTypes
<1>8. CASE StartReturn
  <2>1. OwnerTypes'
    BY <1>0, <1>8 DEF StartReturn, OwnerTypes
  <2> QED
    BY <1>0, <1>8, <2>1
    DEF TypeOK, StartReturn, ServerTypes, WorkerTypes, ConnTypes, PipeTypes
<1>9. CASE StartJoinFailed
  <2>1. OwnerTypes'
    BY <1>0, <1>9 DEF StartJoinFailed, OwnerTypes
  <2>2. WorkerTypes'
    BY <1>0, <1>9 DEF StartJoinFailed, WorkerTypes
  <2> QED
    BY <1>0, <1>9, <2>1, <2>2
    DEF TypeOK, StartJoinFailed, ServerTypes, ConnTypes, PipeTypes
<1>10. CASE WorkerRefuse
  <2>1. ServerTypes'
    BY <1>0, <1>10 DEF WorkerRefuse, ServerTypes, CompleteStartup
  <2>2. WorkerTypes'
    BY <1>0, <1>10 DEF WorkerRefuse, WorkerTypes
  <2> QED
    BY <1>0, <1>10, <2>1, <2>2
    DEF TypeOK, WorkerRefuse, OwnerTypes, ConnTypes, PipeTypes
<1>11. CASE WorkerInit
  <2>1. WorkerTypes'
    BY <1>0, <1>11 DEF WorkerInit, WorkerTypes
  <2> QED
    BY <1>0, <1>11, <2>1
    DEF TypeOK, WorkerInit, OwnerTypes, ServerTypes, ConnTypes, PipeTypes
<1>12. CASE WorkerCheck
  <2>1. WorkerTypes'
    BY <1>0, <1>12 DEF WorkerCheck, WorkerTypes
  <2> QED
    BY <1>0, <1>12, <2>1
    DEF TypeOK, WorkerCheck, OwnerTypes, ServerTypes, ConnTypes, PipeTypes
<1>13. CASE WorkerPark
  <2>1. WorkerTypes'
    BY <1>0, <1>13 DEF WorkerPark, WorkerTypes
  <2> QED
    BY <1>0, <1>13, <2>1
    DEF TypeOK, WorkerPark, OwnerTypes, ServerTypes, ConnTypes, PipeTypes
<1>14. ASSUME NEW p \in Pipe, WorkerCreate(p) PROVE TypeOK'
  <2>1. WorkerTypes'
    BY <1>0, <1>14 DEF WorkerCreate, WorkerTypes
  <2>2. PipeTypes'
    BY <1>0, <1>14 DEF WorkerCreate, PipeTypes, Hangup, Drained
  <2> QED
    BY <1>0, <1>14, <2>1, <2>2
    DEF TypeOK, WorkerCreate, OwnerTypes, ServerTypes, ConnTypes
<1>15. CASE WorkerCreateFails
  <2>1. WorkerTypes'
    BY <1>0, <1>15 DEF WorkerCreateFails, WorkerTypes
  <2> QED
    BY <1>0, <1>15, <2>1
    DEF TypeOK, WorkerCreateFails, OwnerTypes, ServerTypes, ConnTypes, PipeTypes
<1>16. CASE WorkerPublish
  <2>1. ServerTypes'
    BY <1>0, <1>16 DEF WorkerPublish, ServerTypes, WorkerTypes, CompleteStartup
  <2>2. WorkerTypes'
    BY <1>0, <1>16 DEF WorkerPublish, WorkerTypes
  <2> QED
    BY <1>0, <1>16, <2>1, <2>2
    DEF TypeOK, WorkerPublish, OwnerTypes, ConnTypes, PipeTypes
<1>17. CASE WorkerConnect
  <2>1. WorkerTypes'
    BY <1>0, <1>17 DEF WorkerConnect, WorkerTypes
  <2>2. PipeTypes'
    BY <1>0, <1>17 DEF WorkerConnect, PipeTypes
  <2> QED
    BY <1>0, <1>17, <2>1, <2>2
    DEF TypeOK, WorkerConnect, OwnerTypes, ServerTypes, ConnTypes
<1>18. CASE WorkerConnected
  <2>1. WorkerTypes'
    BY <1>0, <1>18 DEF WorkerConnected, WorkerTypes
  <2> QED
    BY <1>0, <1>18, <2>1
    DEF TypeOK, WorkerConnected, OwnerTypes, ServerTypes, ConnTypes, PipeTypes
<1>19. CASE WorkerUnpublish
  <2>1. ServerTypes'
    BY <1>0, <1>19 DEF WorkerUnpublish, ServerTypes
  <2>2. WorkerTypes'
    BY <1>0, <1>19 DEF WorkerUnpublish, WorkerTypes
  <2> QED
    BY <1>0, <1>19, <2>1, <2>2
    DEF TypeOK, WorkerUnpublish, OwnerTypes, ConnTypes, PipeTypes
<1>20. CASE WorkerReject
  <2>1. WorkerTypes'
    BY <1>0, <1>20 DEF WorkerReject, WorkerTypes
  <2>2. PipeTypes'
    BY <1>0, <1>20 DEF WorkerReject, PipeTypes, Closed, Hangup
  <2> QED
    BY <1>0, <1>20, <2>1, <2>2
    DEF TypeOK, WorkerReject, OwnerTypes, ServerTypes, ConnTypes
<1>21. CASE WorkerAccepted
  <2>1. WorkerTypes'
    BY <1>0, <1>21 DEF WorkerAccepted, WorkerTypes
  <2>2. PipeTypes'
    BY <1>0, <1>21 DEF WorkerAccepted, PipeTypes, Closed, Hangup
  <2> QED
    BY <1>0, <1>21, <2>1, <2>2
    DEF TypeOK, WorkerAccepted, OwnerTypes, ServerTypes, ConnTypes
<1>22. ASSUME NEW c \in Conn, WorkerInsert(c) PROVE TypeOK'
  <2>0. nextId \in Id /\ nextId + 1 \in 1..MaxConnects + 1
    BY <1>0, <1>22, Bounds DEF Inv, ConnectionInv, ServerTypes, WorkerInsert
  <2>1. ServerTypes'
    BY <1>0, <1>22, <2>0 DEF WorkerInsert, ServerTypes
  <2>2. WorkerTypes'
    BY <1>0, <1>22 DEF WorkerInsert, WorkerTypes
  <2>3. ConnTypes'
    BY <1>0, <1>22, <2>0 DEF WorkerInsert, ConnTypes, WorkerTypes
  <2> QED
    BY <1>0, <1>22, <2>1, <2>2, <2>3
    DEF TypeOK, WorkerInsert, OwnerTypes, PipeTypes
<1>23. CASE WorkerExit
  <2>1. ServerTypes'
    BY <1>0, <1>23 DEF WorkerExit, ServerTypes, CompleteStartup
  <2>2. WorkerTypes'
    BY <1>0, <1>23 DEF WorkerExit, WorkerTypes
  <2>3. PipeTypes'
    BY <1>0, <1>23 DEF WorkerExit, PipeTypes, Closed
  <2> QED
    BY <1>0, <1>23, <2>1, <2>2, <2>3
    DEF TypeOK, WorkerExit, OwnerTypes, ConnTypes
<1>24. CASE WorkerFinish
  <2>1. ServerTypes'
    BY <1>0, <1>24 DEF WorkerFinish, ServerTypes
  <2>2. WorkerTypes'
    BY <1>0, <1>24 DEF WorkerFinish, WorkerTypes
  <2> QED
    BY <1>0, <1>24, <2>1, <2>2
    DEF TypeOK, WorkerFinish, OwnerTypes, ConnTypes, PipeTypes
<1>25. ASSUME NEW c \in Conn, ConnLoop(c) PROVE TypeOK'
  <2>1. ConnTypes'
    BY <1>0, <1>25 DEF ConnLoop, ConnTypes
  <2> QED
    BY <1>0, <1>25, <2>1
    DEF TypeOK, ConnLoop, OwnerTypes, ServerTypes, WorkerTypes, PipeTypes
<1>26. ASSUME NEW c \in Conn, ConnRead(c) PROVE TypeOK'
  <2>0. peer[connPipe[c]] \in Client \union {None}
    BY <1>0, <1>26 DEF Inv, ConnectionInv, Serving, ConnRead, ConnTypes, PipeTypes
  <2>1. ConnTypes'
    BY <1>0, <1>26, <2>0 DEF ConnRead, ConnTypes
  <2>2. PipeTypes'
    BY <1>0, <1>26 DEF ConnRead, PipeTypes, Drained
  <2> QED
    BY <1>0, <1>26, <2>1, <2>2
    DEF TypeOK, ConnRead, OwnerTypes, ServerTypes, WorkerTypes
<1>27. ASSUME NEW c \in Conn, ConnHandle(c) PROVE TypeOK'
  <2>1. ConnTypes'
    BY <1>0, <1>27 DEF ConnHandle, ConnTypes
  <2> QED
    BY <1>0, <1>27, <2>1
    DEF TypeOK, ConnHandle, OwnerTypes, ServerTypes, WorkerTypes, PipeTypes
<1>28. ASSUME NEW c \in Conn, ConnRemove(c) PROVE TypeOK'
  <2>0. connections[connId[c]] \in Conn
    BY <1>0, <1>28, Names DEF Inv, ConnectionInv, Serving, ConnRemove
  <2>1. ServerTypes'
    BY <1>0, <1>28 DEF ConnRemove, ServerTypes
  <2>2. WorkerTypes'
    BY <1>0, <1>28 DEF ConnRemove, WorkerTypes, Notified
  <2>3. ConnTypes'
    BY <1>0, <1>28, <2>0 DEF ConnRemove, ConnTypes
  <2> QED
    BY <1>0, <1>28, <2>1, <2>2, <2>3
    DEF TypeOK, ConnRemove, OwnerTypes, PipeTypes
<1>29. ASSUME NEW c \in Conn, ConnClose(c) PROVE TypeOK'
  <2>1. ConnTypes'
    BY <1>0, <1>29 DEF ConnClose, ConnTypes
  <2>2. PipeTypes'
    BY <1>0, <1>29 DEF ConnClose, PipeTypes, Closed, Hangup, Drained
  <2> QED
    BY <1>0, <1>29, <2>1, <2>2
    DEF TypeOK, ConnClose, OwnerTypes, ServerTypes, WorkerTypes
<1>30. ASSUME NEW k \in Client, NEW p \in Pipe, ClientOpen(k, p) PROVE TypeOK'
  <2>1. PipeTypes'
    BY <1>0, <1>30, Bounds DEF ClientOpen, PipeTypes
  <2> QED
    BY <1>0, <1>30, <2>1
    DEF TypeOK, ClientOpen, OwnerTypes, ServerTypes, WorkerTypes, ConnTypes
<1>31. ASSUME NEW k \in Client, NEW p \in Pipe, ClientSend(k, p) PROVE TypeOK'
  <2>1. PipeTypes'
    BY <1>0, <1>31 DEF ClientSend, PipeTypes
  <2> QED
    BY <1>0, <1>31, <2>1
    DEF TypeOK, ClientSend, OwnerTypes, ServerTypes, WorkerTypes, ConnTypes
<1>32. ASSUME NEW k \in Client, NEW p \in Pipe, ClientLeave(k, p) PROVE TypeOK'
  <2>1. PipeTypes'
    BY <1>0, <1>32 DEF ClientLeave, PipeTypes
  <2> QED
    BY <1>0, <1>32, <2>1
    DEF TypeOK, ClientLeave, OwnerTypes, ServerTypes, WorkerTypes, ConnTypes
<1>33. CASE StartRefused
  <2>1. OwnerTypes'
    BY <1>0, <1>33 DEF StartRefused, OwnerTypes
  <2> QED
    BY <1>0, <1>33, <2>1
    DEF TypeOK, StartRefused, ServerTypes, WorkerTypes, ConnTypes, PipeTypes
<1>34. ASSUME NEW c \in Conn, ConnNotify(c) PROVE TypeOK'
  <2>1. WorkerTypes'
    BY <1>0, <1>34 DEF ConnNotify, WorkerTypes, Notified
  <2>2. ConnTypes'
    BY <1>0, <1>34 DEF ConnNotify, ConnTypes
  <2> QED
    BY <1>0, <1>34, <2>1, <2>2
    DEF TypeOK, ConnNotify, OwnerTypes, ServerTypes, PipeTypes
<1>35. CASE UNCHANGED vars
  BY <1>0, <1>35 DEF vars, TypeOK, OwnerTypes, ServerTypes, WorkerTypes, ConnTypes, PipeTypes
<1> QED
  BY <1>1, <1>2, <1>3, <1>4, <1>5, <1>6, <1>7, <1>8, <1>9, <1>10, <1>11, <1>12, <1>13, <1>14, <1>15, <1>16, <1>17, <1>18, <1>19, <1>20, <1>21, <1>22, <1>23, <1>24, <1>25, <1>26, <1>27, <1>28, <1>29, <1>30, <1>31, <1>32, <1>33, <1>34, <1>35
  DEF Next, OwnerStep, Worker, Connection
-----------------------------------------------------------------------------
LEMMA WorkerStep == Inv /\ [Next]_vars => WorkerInv'
<1> SUFFICES ASSUME Inv, [Next]_vars PROVE WorkerInv'
  OBVIOUS
<1>0. OwnerTypes /\ ServerTypes /\ WorkerTypes /\ ConnTypes /\ PipeTypes /\ WorkerInv /\ HandleInv /\ OwnerInv
  BY DEF Inv, TypeOK
<1>1. ASSUME NEW call \in {"start", "stop"}, CallOwner(call) PROVE WorkerInv'
  BY <1>0, <1>1 DEF CallOwner, WorkerInv, Holding, Published, Notified
<1>2. CASE StopSnapshot
  BY <1>0, <1>2 DEF StopSnapshot, WorkerInv, Holding, Published
<1>3. CASE StopCancelListener
  BY <1>0, <1>3, Names DEF StopCancelListener, WorkerInv, Holding, Published, OwnerTypes, WorkerTypes, PipeTypes
<1>4. ASSUME NEW c \in Conn, StopDisconnect(c) PROVE WorkerInv'
  BY <1>0, <1>4, Names DEF StopDisconnect, WorkerInv, Holding, Published, ConnTypes, WorkerTypes, PipeTypes
<1>5. CASE StopJoin
  BY <1>0, <1>5 DEF StopJoin, WorkerInv, Holding, Published
<1>6. CASE StopDrain
  BY <1>0, <1>6 DEF StopDrain, WorkerInv, Holding, Published, OwnerInv
<1>7. CASE StartWorker
  BY <1>0, <1>7 DEF StartWorker, WorkerInv, Holding, Published, OwnerInv, Quiet
<1>8. CASE StartReturn
  BY <1>0, <1>8 DEF StartReturn, WorkerInv, Holding, Published
<1>9. CASE StartJoinFailed
  BY <1>0, <1>9 DEF StartJoinFailed, WorkerInv, Holding, Published
<1>10. CASE WorkerRefuse
  BY <1>0, <1>10 DEF WorkerRefuse, WorkerInv, Holding, Published
<1>11. CASE WorkerInit
  BY <1>0, <1>11 DEF WorkerInit, WorkerInv, Holding, Published
<1>12. CASE WorkerCheck
  BY <1>0, <1>12 DEF WorkerCheck, WorkerInv, Holding, Published
<1>13. CASE WorkerPark
  BY <1>0, <1>13 DEF WorkerPark, WorkerInv, Holding, Published
<1>14. ASSUME NEW p \in Pipe, WorkerCreate(p) PROVE WorkerInv'
  BY <1>0, <1>14, Names DEF WorkerCreate, WorkerInv, Holding, Published, PipeTypes
<1>15. CASE WorkerCreateFails
  BY <1>0, <1>15 DEF WorkerCreateFails, WorkerInv, Holding, Published
<1>16. CASE WorkerPublish
  BY <1>0, <1>16 DEF WorkerPublish, WorkerInv, Holding, Published
<1>17. CASE WorkerConnect
  BY <1>0, <1>17, Names DEF WorkerConnect, WorkerInv, Holding, Published, PipeTypes, WorkerTypes
<1>18. CASE WorkerConnected
  BY <1>0, <1>18 DEF WorkerConnected, WorkerInv, Holding, Published
<1>19. CASE WorkerUnpublish
  BY <1>0, <1>19 DEF WorkerUnpublish, WorkerInv, Holding, Published
<1>20. CASE WorkerReject
  BY <1>0, <1>20, Names DEF WorkerReject, WorkerInv, Holding, Published
<1>21. CASE WorkerAccepted
  BY <1>0, <1>21, Names DEF WorkerAccepted, WorkerInv, Holding, Published, Closed
<1>22. ASSUME NEW c \in Conn, WorkerInsert(c) PROVE WorkerInv'
  BY <1>0, <1>22, Names DEF WorkerInsert, WorkerInv, Holding, Published
<1>23. CASE WorkerExit
  BY <1>0, <1>23 DEF WorkerExit, WorkerInv, Holding, Published
<1>24. CASE WorkerFinish
  BY <1>0, <1>24 DEF WorkerFinish, WorkerInv, Holding, Published
<1>25. ASSUME NEW c \in Conn, ConnLoop(c) PROVE WorkerInv'
  BY <1>0, <1>25 DEF ConnLoop, WorkerInv, Holding, Published
<1>26. ASSUME NEW c \in Conn, ConnRead(c) PROVE WorkerInv'
  BY <1>0, <1>26 DEF ConnRead, WorkerInv, Holding, Published
<1>27. ASSUME NEW c \in Conn, ConnHandle(c) PROVE WorkerInv'
  BY <1>0, <1>27 DEF ConnHandle, WorkerInv, Holding, Published
<1>28. ASSUME NEW c \in Conn, ConnRemove(c) PROVE WorkerInv'
  BY <1>0, <1>28 DEF ConnRemove, WorkerInv, Holding, Published, Notified
<1>29. ASSUME NEW c \in Conn, ConnClose(c) PROVE WorkerInv'
  BY <1>0, <1>29, Names DEF ConnClose, WorkerInv, Holding, Published, Closed, ConnTypes, WorkerTypes, PipeTypes
<1>30. ASSUME NEW k \in Client, NEW p \in Pipe, ClientOpen(k, p) PROVE WorkerInv'
  BY <1>0, <1>30, Names DEF ClientOpen, WorkerInv, Holding, Published, WorkerTypes, PipeTypes
<1>31. ASSUME NEW k \in Client, NEW p \in Pipe, ClientSend(k, p) PROVE WorkerInv'
  BY <1>0, <1>31 DEF ClientSend, WorkerInv, Holding, Published
<1>32. ASSUME NEW k \in Client, NEW p \in Pipe, ClientLeave(k, p) PROVE WorkerInv'
  BY <1>0, <1>32, Names DEF ClientLeave, WorkerInv, Holding, Published, WorkerTypes, PipeTypes
<1>33. CASE StartRefused
  BY <1>0, <1>33 DEF StartRefused, WorkerInv, Holding, Published
<1>34. ASSUME NEW c \in Conn, ConnNotify(c) PROVE WorkerInv'
  BY <1>0, <1>34 DEF ConnNotify, WorkerInv, Holding, Published, Notified
<1>35. CASE UNCHANGED vars
  BY <1>0, <1>35 DEF vars, WorkerInv, Holding, Published
<1> QED
  BY <1>1, <1>2, <1>3, <1>4, <1>5, <1>6, <1>7, <1>8, <1>9, <1>10, <1>11, <1>12, <1>13, <1>14, <1>15, <1>16, <1>17, <1>18, <1>19, <1>20, <1>21, <1>22, <1>23, <1>24, <1>25, <1>26, <1>27, <1>28, <1>29, <1>30, <1>31, <1>32, <1>33, <1>34, <1>35
  DEF Next, OwnerStep, Worker, Connection

-----------------------------------------------------------------------------
\* A connection that stays in the map keeps its entry and its handle.
LEMMA StillServing ==
  ASSUME ServerTypes, ConnTypes, ConnectionInv, NEW c \in Conn, thread[c] \in Serving, NEW t \in Serving,
         thread' = [thread EXCEPT ![c] = t],
         UNCHANGED <<connections, nextId, connId, connPipe, closing>>
  PROVE  ConnectionInv'
<1>1. \A d \in Conn : /\ thread'[d] \in Serving <=> thread[d] \in Serving
                      /\ thread'[d] = "none" <=> thread[d] = "none"
                      /\ thread'[d] = "closed" <=> thread[d] = "closed"
  BY DEF ConnTypes, Serving
<1>2. \A i \in Id : connections[i] # None => connections[i] \in Conn
  BY DEF ServerTypes
<1> QED
  BY <1>1, <1>2 DEF ConnectionInv, Serving

LEMMA ConnectionStep == Inv /\ [Next]_vars => ConnectionInv'
<1> SUFFICES ASSUME Inv, [Next]_vars PROVE ConnectionInv'
  OBVIOUS
<1>0. ServerTypes /\ WorkerTypes /\ ConnTypes /\ WorkerInv /\ ConnectionInv /\ OwnerInv
  BY DEF Inv, TypeOK
<1>1. ASSUME NEW call \in {"start", "stop"}, CallOwner(call) PROVE ConnectionInv'
  BY <1>0, <1>1 DEF CallOwner, ConnectionInv, Serving
<1>2. CASE StopSnapshot
  BY <1>0, <1>2 DEF StopSnapshot, ConnectionInv, Serving
<1>3. CASE StopCancelListener
  BY <1>0, <1>3 DEF StopCancelListener, ConnectionInv, Serving
<1>4. ASSUME NEW c \in Conn, StopDisconnect(c) PROVE ConnectionInv'
  BY <1>0, <1>4 DEF StopDisconnect, ConnectionInv, Serving
<1>5. CASE StopJoin
  BY <1>0, <1>5 DEF StopJoin, ConnectionInv, Serving
<1>6. CASE StopDrain
  BY <1>0, <1>6 DEF StopDrain, ConnectionInv, Serving
<1>7. CASE StartWorker
  BY <1>0, <1>7, Names DEF StartWorker, ConnectionInv, Serving, OwnerInv, Quiet, Serving, Conn
<1>8. CASE StartReturn
  BY <1>0, <1>8 DEF StartReturn, ConnectionInv, Serving
<1>9. CASE StartJoinFailed
  BY <1>0, <1>9 DEF StartJoinFailed, ConnectionInv, Serving
<1>10. CASE WorkerRefuse
  BY <1>0, <1>10 DEF WorkerRefuse, ConnectionInv, Serving
<1>11. CASE WorkerInit
  BY <1>0, <1>11 DEF WorkerInit, ConnectionInv, Serving
<1>12. CASE WorkerCheck
  BY <1>0, <1>12 DEF WorkerCheck, ConnectionInv, Serving
<1>13. CASE WorkerPark
  BY <1>0, <1>13 DEF WorkerPark, ConnectionInv, Serving
<1>14. ASSUME NEW p \in Pipe, WorkerCreate(p) PROVE ConnectionInv'
  BY <1>0, <1>14 DEF WorkerCreate, ConnectionInv, Serving
<1>15. CASE WorkerCreateFails
  BY <1>0, <1>15 DEF WorkerCreateFails, ConnectionInv, Serving
<1>16. CASE WorkerPublish
  BY <1>0, <1>16 DEF WorkerPublish, ConnectionInv, Serving
<1>17. CASE WorkerConnect
  BY <1>0, <1>17 DEF WorkerConnect, ConnectionInv, Serving
<1>18. CASE WorkerConnected
  BY <1>0, <1>18 DEF WorkerConnected, ConnectionInv, Serving
<1>19. CASE WorkerUnpublish
  BY <1>0, <1>19 DEF WorkerUnpublish, ConnectionInv, Serving
<1>20. CASE WorkerReject
  BY <1>0, <1>20 DEF WorkerReject, ConnectionInv, Serving
<1>21. CASE WorkerAccepted
  BY <1>0, <1>21 DEF WorkerAccepted, ConnectionInv, Serving
<1>22. ASSUME NEW c \in Conn, WorkerInsert(c) PROVE ConnectionInv'
  <2>1. thread[c] = "none" /\ nextId <= c /\ connPipe[c] = None /\ connections[nextId] = None /\ nextId \in Id
    BY <1>0, <1>22, Names, Bounds DEF WorkerInsert, ServerTypes, ConnTypes, ConnectionInv, Serving
  <2>2. workerPipe # None
    BY <1>0, <1>22 DEF WorkerInsert, WorkerInv, Holding
  <2>3. /\ thread' = [thread EXCEPT ![c] = "loop"] /\ connId' = [connId EXCEPT ![c] = nextId]
        /\ connPipe' = [connPipe EXCEPT ![c] = workerPipe]
        /\ connections' = [connections EXCEPT ![nextId] = c]
        /\ nextId' = nextId + 1 /\ UNCHANGED closing
    BY <1>22 DEF WorkerInsert
  <2>4. \A d \in Conn : thread'[d] = "none" =>
          nextId' <= d /\ \A e \in Conn : e > d => thread'[e] = "none"
    <3>1. \A d \in Conn : thread'[d] = "none" => d > c /\ thread[d] = "none"
      BY <1>0, <1>22, <2>1, <2>3 DEF WorkerInsert, ConnTypes, Conn
    <3>2. \A d \in Conn : d > c => thread'[d] = thread[d] /\ nextId' <= d
      BY <1>0, <2>1, <2>3 DEF ConnTypes, ServerTypes, Conn
    <3>3. \A d, e \in Conn : d > c /\ e > d => e > c
      BY DEF Conn
    <3> QED
      BY <1>0, <3>1, <3>2, <3>3 DEF ConnectionInv
  <2>5. \A d \in Conn : thread[d] \in Serving => connId[d] # nextId /\ connId[d] < nextId'
    BY <1>0, <2>1, <2>3 DEF ConnectionInv, ConnTypes, ServerTypes, Conn, Id
  <2>6. nextId < nextId'
    BY <1>0, <2>3 DEF ServerTypes
  <2>7. \A d \in Conn : thread'[d] \in Serving =>
          connId'[d] \in Id /\ connId'[d] < nextId' /\ connections'[connId'[d]] = d
    <3> SUFFICES ASSUME NEW d \in Conn, thread'[d] \in Serving
                 PROVE  connId'[d] \in Id /\ connId'[d] < nextId' /\ connections'[connId'[d]] = d
      OBVIOUS
    <3>1. CASE d = c
      BY <1>0, <2>1, <2>3, <2>6, <3>1 DEF ConnTypes, ServerTypes
    <3>2. CASE d # c
      BY <1>0, <2>3, <2>5, <3>2 DEF ConnectionInv, ConnTypes, ServerTypes
    <3> QED
      BY <3>1, <3>2
  <2>8. \A i \in Id : connections'[i] # None =>
          thread'[connections'[i]] \in Serving /\ connId'[connections'[i]] = i
    BY <1>0, <2>1, <2>3 DEF ConnectionInv, ConnTypes, ServerTypes, Serving
  <2>9. \A d \in Conn : /\ thread'[d] \in {"removed", "closed"} => closing'[d] = d
                        /\ connPipe'[d] # None <=> thread'[d] \in Serving \cup {"removed", "closed"}
    BY <1>0, <2>1, <2>2, <2>3 DEF ConnectionInv, ConnTypes, Serving
  <2> QED
    BY <1>0, <2>4, <2>7, <2>8, <2>9, <2>1 DEF ConnectionInv, Serving
<1>23. CASE WorkerExit
  BY <1>0, <1>23 DEF WorkerExit, ConnectionInv, Serving
<1>24. CASE WorkerFinish
  BY <1>0, <1>24 DEF WorkerFinish, ConnectionInv, Serving
<1>25. ASSUME NEW c \in Conn, ConnLoop(c) PROVE ConnectionInv'
  BY <1>0, <1>25, Names DEF ConnLoop, ConnectionInv, Serving, ConnTypes
<1>26. ASSUME NEW c \in Conn, ConnRead(c) PROVE ConnectionInv'
  <2>1. PICK t \in Serving : thread' = [thread EXCEPT ![c] = t]
    BY <1>26 DEF ConnRead, Serving
  <2>2. thread[c] \in Serving
    BY <1>26 DEF ConnRead, Serving
  <2> QED
    BY <1>0, <1>26, <2>1, <2>2, StillServing DEF ConnRead
<1>27. ASSUME NEW c \in Conn, ConnHandle(c) PROVE ConnectionInv'
  <2>1. PICK t \in Serving : thread' = [thread EXCEPT ![c] = t]
    BY <1>27 DEF ConnHandle, Serving
  <2>2. thread[c] \in Serving
    BY <1>27 DEF ConnHandle, Serving
  <2> QED
    BY <1>0, <1>27, <2>1, <2>2, StillServing DEF ConnHandle
<1>28. ASSUME NEW c \in Conn, ConnRemove(c) PROVE ConnectionInv'
  BY <1>0, <1>28, Names DEF ConnRemove, ConnectionInv, Serving, ServerTypes, ConnTypes
<1>29. ASSUME NEW c \in Conn, ConnClose(c) PROVE ConnectionInv'
  BY <1>0, <1>29, Names DEF ConnClose, ConnectionInv, Serving, ConnTypes
<1>30. ASSUME NEW k \in Client, NEW p \in Pipe, ClientOpen(k, p) PROVE ConnectionInv'
  BY <1>0, <1>30 DEF ClientOpen, ConnectionInv, Serving
<1>31. ASSUME NEW k \in Client, NEW p \in Pipe, ClientSend(k, p) PROVE ConnectionInv'
  BY <1>0, <1>31 DEF ClientSend, ConnectionInv, Serving
<1>32. ASSUME NEW k \in Client, NEW p \in Pipe, ClientLeave(k, p) PROVE ConnectionInv'
  BY <1>0, <1>32 DEF ClientLeave, ConnectionInv, Serving
<1>33. CASE StartRefused
  BY <1>0, <1>33 DEF StartRefused, ConnectionInv, Serving
<1>34. ASSUME NEW c \in Conn, ConnNotify(c) PROVE ConnectionInv'
  BY <1>0, <1>34 DEF ConnNotify, ConnectionInv, Serving, ServerTypes, ConnTypes
<1>35. CASE UNCHANGED vars
  BY <1>0, <1>35 DEF vars, ConnectionInv, Serving
<1> QED
  BY <1>1, <1>2, <1>3, <1>4, <1>5, <1>6, <1>7, <1>8, <1>9, <1>10, <1>11, <1>12, <1>13, <1>14, <1>15, <1>16, <1>17, <1>18, <1>19, <1>20, <1>21, <1>22, <1>23, <1>24, <1>25, <1>26, <1>27, <1>28, <1>29, <1>30, <1>31, <1>32, <1>33, <1>34, <1>35
  DEF Next, OwnerStep, Worker, Connection

-----------------------------------------------------------------------------
LEMMA HandleStep == Inv /\ [Next]_vars => HandleInv'
<1> SUFFICES ASSUME Inv, [Next]_vars PROVE HandleInv'
  OBVIOUS
<1>0. WorkerTypes /\ OwnerTypes /\ ConnTypes /\ PipeTypes /\ WorkerInv /\ ConnectionInv /\ HandleInv
  BY DEF Inv, TypeOK
<1>1. ASSUME NEW call \in {"start", "stop"}, CallOwner(call) PROVE HandleInv'
  BY <1>0, <1>1 DEF CallOwner, HandleInv
<1>2. CASE StopSnapshot
  BY <1>0, <1>2 DEF StopSnapshot, HandleInv
<1>3. CASE StopCancelListener
  BY <1>0, <1>3, Names DEF StopCancelListener, HandleInv, OwnerTypes, WorkerTypes, ConnTypes, PipeTypes
<1>4. ASSUME NEW c \in Conn, StopDisconnect(c) PROVE HandleInv'
  BY <1>0, <1>4, Names DEF StopDisconnect, HandleInv, WorkerTypes, ConnTypes, PipeTypes
<1>5. CASE StopJoin
  BY <1>0, <1>5 DEF StopJoin, HandleInv
<1>6. CASE StopDrain
  BY <1>0, <1>6 DEF StopDrain, HandleInv
<1>7. CASE StartWorker
  BY <1>0, <1>7 DEF StartWorker, HandleInv
<1>8. CASE StartReturn
  BY <1>0, <1>8 DEF StartReturn, HandleInv
<1>9. CASE StartJoinFailed
  BY <1>0, <1>9 DEF StartJoinFailed, HandleInv
<1>10. CASE WorkerRefuse
  BY <1>0, <1>10 DEF WorkerRefuse, HandleInv
<1>11. CASE WorkerInit
  BY <1>0, <1>11 DEF WorkerInit, HandleInv
<1>12. CASE WorkerCheck
  BY <1>0, <1>12 DEF WorkerCheck, HandleInv
<1>13. CASE WorkerPark
  BY <1>0, <1>13 DEF WorkerPark, HandleInv
<1>14. ASSUME NEW p \in Pipe, WorkerCreate(p) PROVE HandleInv'
  BY <1>0, <1>14, Names DEF WorkerCreate, HandleInv, WorkerInv, Holding, WorkerTypes, ConnTypes, PipeTypes
<1>15. CASE WorkerCreateFails
  BY <1>0, <1>15 DEF WorkerCreateFails, HandleInv
<1>16. CASE WorkerPublish
  BY <1>0, <1>16 DEF WorkerPublish, HandleInv
<1>17. CASE WorkerConnect
  BY <1>0, <1>17, Names DEF WorkerConnect, HandleInv, WorkerInv, Holding, WorkerTypes, ConnTypes, PipeTypes
<1>18. CASE WorkerConnected
  BY <1>0, <1>18 DEF WorkerConnected, HandleInv
<1>19. CASE WorkerUnpublish
  BY <1>0, <1>19 DEF WorkerUnpublish, HandleInv
<1>20. CASE WorkerReject
  BY <1>0, <1>20, Names DEF WorkerReject, HandleInv, WorkerInv, Holding, WorkerTypes, ConnTypes, PipeTypes, Closed
<1>21. CASE WorkerAccepted
  BY <1>0, <1>21, Names DEF WorkerAccepted, HandleInv, WorkerInv, Holding, WorkerTypes, ConnTypes, PipeTypes, Closed
<1>22. ASSUME NEW c \in Conn, WorkerInsert(c) PROVE HandleInv'
  BY <1>0, <1>22, Names DEF WorkerInsert, HandleInv, WorkerInv, Holding, WorkerTypes, ConnTypes, PipeTypes, ConnectionInv, Serving
<1>23. CASE WorkerExit
  BY <1>0, <1>23, Names DEF WorkerExit, HandleInv, WorkerInv, Holding, Published
<1>24. CASE WorkerFinish
  BY <1>0, <1>24 DEF WorkerFinish, HandleInv
<1>25. ASSUME NEW c \in Conn, ConnLoop(c) PROVE HandleInv'
  BY <1>0, <1>25 DEF ConnLoop, HandleInv
<1>26. ASSUME NEW c \in Conn, ConnRead(c) PROVE HandleInv'
  BY <1>0, <1>26 DEF ConnRead, HandleInv
<1>27. ASSUME NEW c \in Conn, ConnHandle(c) PROVE HandleInv'
  BY <1>0, <1>27 DEF ConnHandle, HandleInv
<1>28. ASSUME NEW c \in Conn, ConnRemove(c) PROVE HandleInv'
  BY <1>0, <1>28 DEF ConnRemove, HandleInv
<1>29. ASSUME NEW c \in Conn, ConnClose(c) PROVE HandleInv'
  BY <1>0, <1>29, Names DEF ConnClose, HandleInv, ConnectionInv, Serving, WorkerTypes, ConnTypes, PipeTypes, Closed
<1>30. ASSUME NEW k \in Client, NEW p \in Pipe, ClientOpen(k, p) PROVE HandleInv'
  BY <1>0, <1>30, Names DEF ClientOpen, HandleInv, WorkerTypes, ConnTypes, PipeTypes
<1>31. ASSUME NEW k \in Client, NEW p \in Pipe, ClientSend(k, p) PROVE HandleInv'
  BY <1>0, <1>31 DEF ClientSend, HandleInv
<1>32. ASSUME NEW k \in Client, NEW p \in Pipe, ClientLeave(k, p) PROVE HandleInv'
  BY <1>0, <1>32, Names DEF ClientLeave, HandleInv, WorkerTypes, ConnTypes, PipeTypes
<1>33. CASE StartRefused
  BY <1>0, <1>33 DEF StartRefused, HandleInv
<1>34. ASSUME NEW c \in Conn, ConnNotify(c) PROVE HandleInv'
  BY <1>0, <1>34 DEF ConnNotify, HandleInv
<1>35. CASE UNCHANGED vars
  BY <1>0, <1>35 DEF vars, HandleInv
<1> QED
  BY <1>1, <1>2, <1>3, <1>4, <1>5, <1>6, <1>7, <1>8, <1>9, <1>10, <1>11, <1>12, <1>13, <1>14, <1>15, <1>16, <1>17, <1>18, <1>19, <1>20, <1>21, <1>22, <1>23, <1>24, <1>25, <1>26, <1>27, <1>28, <1>29, <1>30, <1>31, <1>32, <1>33, <1>34, <1>35
  DEF Next, OwnerStep, Worker, Connection

-----------------------------------------------------------------------------
LEMMA MessageStep == Inv /\ [Next]_vars => MessageInv'
<1> SUFFICES ASSUME Inv, [Next]_vars PROVE MessageInv'
  OBVIOUS
<1>0. OwnerTypes /\ WorkerTypes /\ ConnTypes /\ PipeTypes /\ WorkerInv /\ ConnectionInv /\ HandleInv /\ MessageInv
  BY DEF Inv, TypeOK
<1>1. ASSUME NEW call \in {"start", "stop"}, CallOwner(call) PROVE MessageInv'
  BY <1>0, <1>1 DEF CallOwner, MessageInv
<1>2. CASE StopSnapshot
  BY <1>0, <1>2 DEF StopSnapshot, MessageInv
<1>3. CASE StopCancelListener
  BY <1>0, <1>3, Names DEF StopCancelListener, MessageInv, OwnerTypes, ConnTypes, PipeTypes, Hangup, ConnectionInv, Serving
<1>4. ASSUME NEW c \in Conn, StopDisconnect(c) PROVE MessageInv'
  BY <1>0, <1>4, Names DEF StopDisconnect, MessageInv, ConnTypes, PipeTypes, Hangup, ConnectionInv, Serving
<1>5. CASE StopJoin
  BY <1>0, <1>5 DEF StopJoin, MessageInv
<1>6. CASE StopDrain
  BY <1>0, <1>6 DEF StopDrain, MessageInv
<1>7. CASE StartWorker
  BY <1>0, <1>7 DEF StartWorker, MessageInv
<1>8. CASE StartReturn
  BY <1>0, <1>8 DEF StartReturn, MessageInv
<1>9. CASE StartJoinFailed
  BY <1>0, <1>9 DEF StartJoinFailed, MessageInv
<1>10. CASE WorkerRefuse
  BY <1>0, <1>10 DEF WorkerRefuse, MessageInv
<1>11. CASE WorkerInit
  BY <1>0, <1>11 DEF WorkerInit, MessageInv
<1>12. CASE WorkerCheck
  BY <1>0, <1>12 DEF WorkerCheck, MessageInv
<1>13. CASE WorkerPark
  BY <1>0, <1>13 DEF WorkerPark, MessageInv
<1>14. ASSUME NEW p \in Pipe, WorkerCreate(p) PROVE MessageInv'
  BY <1>0, <1>14, Names DEF WorkerCreate, MessageInv, ConnTypes, PipeTypes, Hangup, ConnectionInv, Serving, HandleInv
<1>15. CASE WorkerCreateFails
  BY <1>0, <1>15 DEF WorkerCreateFails, MessageInv
<1>16. CASE WorkerPublish
  BY <1>0, <1>16 DEF WorkerPublish, MessageInv
<1>17. CASE WorkerConnect
  BY <1>0, <1>17, Names DEF WorkerConnect, MessageInv, WorkerInv, Holding, WorkerTypes, ConnTypes, PipeTypes, ConnectionInv, Serving, HandleInv
<1>18. CASE WorkerConnected
  BY <1>0, <1>18 DEF WorkerConnected, MessageInv
<1>19. CASE WorkerUnpublish
  BY <1>0, <1>19 DEF WorkerUnpublish, MessageInv
<1>20. CASE WorkerReject
  BY <1>0, <1>20, Names DEF WorkerReject, MessageInv, WorkerInv, Holding, WorkerTypes, ConnTypes, PipeTypes, Closed, Hangup, ConnectionInv, Serving, HandleInv
<1>21. CASE WorkerAccepted
  BY <1>0, <1>21, Names DEF WorkerAccepted, MessageInv, WorkerInv, Holding, WorkerTypes, ConnTypes, PipeTypes, Closed, Hangup, ConnectionInv, Serving, HandleInv
<1>22. ASSUME NEW c \in Conn, WorkerInsert(c) PROVE MessageInv'
  BY <1>0, <1>22, Names DEF WorkerInsert, MessageInv, ConnTypes
<1>23. CASE WorkerExit
  BY <1>0, <1>23, Names DEF WorkerExit, MessageInv, WorkerInv, Published
<1>24. CASE WorkerFinish
  BY <1>0, <1>24 DEF WorkerFinish, MessageInv
<1>25. ASSUME NEW c \in Conn, ConnLoop(c) PROVE MessageInv'
  BY <1>0, <1>25, Names DEF ConnLoop, MessageInv, ConnTypes
<1>26. ASSUME NEW c \in Conn, ConnRead(c) PROVE MessageInv'
  BY <1>0, <1>26, Names DEF ConnRead, MessageInv, ConnTypes
<1>27. ASSUME NEW c \in Conn, ConnHandle(c) PROVE MessageInv'
  BY <1>0, <1>27, Names DEF ConnHandle, MessageInv, ConnTypes
<1>28. ASSUME NEW c \in Conn, ConnRemove(c) PROVE MessageInv'
  BY <1>0, <1>28, Names DEF ConnRemove, MessageInv, ConnTypes
<1>29. ASSUME NEW c \in Conn, ConnClose(c) PROVE MessageInv'
  BY <1>0, <1>29, Names DEF ConnClose, MessageInv, ConnectionInv, Serving, ConnTypes, PipeTypes, Closed, Hangup, HandleInv
<1>30. ASSUME NEW k \in Client, NEW p \in Pipe, ClientOpen(k, p) PROVE MessageInv'
  BY <1>0, <1>30, Names DEF ClientOpen, MessageInv, ConnTypes, PipeTypes, ConnectionInv, Serving, HandleInv
<1>31. ASSUME NEW k \in Client, NEW p \in Pipe, ClientSend(k, p) PROVE MessageInv'
  BY <1>0, <1>31 DEF ClientSend, MessageInv
<1>32. ASSUME NEW k \in Client, NEW p \in Pipe, ClientLeave(k, p) PROVE MessageInv'
  BY <1>0, <1>32, Names DEF ClientLeave, MessageInv, ConnTypes, PipeTypes, ConnectionInv, Serving
<1>33. CASE StartRefused
  BY <1>0, <1>33 DEF StartRefused, MessageInv
<1>34. ASSUME NEW c \in Conn, ConnNotify(c) PROVE MessageInv'
  BY <1>0, <1>34, Names DEF ConnNotify, MessageInv, ConnTypes
<1>35. CASE UNCHANGED vars
  BY <1>0, <1>35 DEF vars, MessageInv
<1> QED
  BY <1>1, <1>2, <1>3, <1>4, <1>5, <1>6, <1>7, <1>8, <1>9, <1>10, <1>11, <1>12, <1>13, <1>14, <1>15, <1>16, <1>17, <1>18, <1>19, <1>20, <1>21, <1>22, <1>23, <1>24, <1>25, <1>26, <1>27, <1>28, <1>29, <1>30, <1>31, <1>32, <1>33, <1>34, <1>35
  DEF Next, OwnerStep, Worker, Connection

-----------------------------------------------------------------------------
LEMMA OwnerInvStep == Inv /\ [Next]_vars => OwnerInv'
<1> SUFFICES ASSUME Inv, [Next]_vars PROVE OwnerInv'
  OBVIOUS
<1>0. ConnTypes /\ ConnectionInv /\ OwnerInv
  BY DEF Inv, TypeOK
<1>1. ASSUME NEW call \in {"start", "stop"}, CallOwner(call) PROVE OwnerInv'
  BY <1>0, <1>1 DEF CallOwner, OwnerInv, Quiet
<1>2. CASE StopSnapshot
  BY <1>0, <1>2 DEF StopSnapshot, OwnerInv, Quiet
<1>3. CASE StopCancelListener
  BY <1>0, <1>3 DEF StopCancelListener, OwnerInv, Quiet
<1>4. ASSUME NEW c \in Conn, StopDisconnect(c) PROVE OwnerInv'
  BY <1>0, <1>4 DEF StopDisconnect, OwnerInv, Quiet
<1>5. CASE StopJoin
  BY <1>0, <1>5 DEF StopJoin, OwnerInv, Quiet
<1>6. CASE StopDrain
  BY <1>0, <1>6, Names DEF StopDrain, OwnerInv, Quiet, Connected, ConnectionInv
<1>7. CASE StartWorker
  BY <1>0, <1>7 DEF StartWorker, OwnerInv, Quiet
<1>8. CASE StartReturn
  BY <1>0, <1>8 DEF StartReturn, OwnerInv, Quiet
<1>9. CASE StartJoinFailed
  BY <1>0, <1>9 DEF StartJoinFailed, OwnerInv, Quiet
<1>10. CASE WorkerRefuse
  BY <1>0, <1>10 DEF WorkerRefuse, OwnerInv, Quiet
<1>11. CASE WorkerInit
  BY <1>0, <1>11 DEF WorkerInit, OwnerInv, Quiet
<1>12. CASE WorkerCheck
  BY <1>0, <1>12 DEF WorkerCheck, OwnerInv, Quiet
<1>13. CASE WorkerPark
  BY <1>0, <1>13 DEF WorkerPark, OwnerInv, Quiet
<1>14. ASSUME NEW p \in Pipe, WorkerCreate(p) PROVE OwnerInv'
  BY <1>0, <1>14 DEF WorkerCreate, OwnerInv, Quiet
<1>15. CASE WorkerCreateFails
  BY <1>0, <1>15 DEF WorkerCreateFails, OwnerInv, Quiet
<1>16. CASE WorkerPublish
  BY <1>0, <1>16 DEF WorkerPublish, OwnerInv, Quiet
<1>17. CASE WorkerConnect
  BY <1>0, <1>17 DEF WorkerConnect, OwnerInv, Quiet
<1>18. CASE WorkerConnected
  BY <1>0, <1>18 DEF WorkerConnected, OwnerInv, Quiet
<1>19. CASE WorkerUnpublish
  BY <1>0, <1>19 DEF WorkerUnpublish, OwnerInv, Quiet
<1>20. CASE WorkerReject
  BY <1>0, <1>20 DEF WorkerReject, OwnerInv, Quiet
<1>21. CASE WorkerAccepted
  BY <1>0, <1>21 DEF WorkerAccepted, OwnerInv, Quiet
<1>22. ASSUME NEW c \in Conn, WorkerInsert(c) PROVE OwnerInv'
  BY <1>0, <1>22 DEF WorkerInsert, OwnerInv, Quiet
<1>23. CASE WorkerExit
  BY <1>0, <1>23 DEF WorkerExit, OwnerInv, Quiet
<1>24. CASE WorkerFinish
  BY <1>0, <1>24 DEF WorkerFinish, OwnerInv, Quiet
<1>25. ASSUME NEW c \in Conn, ConnLoop(c) PROVE OwnerInv'
  BY <1>0, <1>25 DEF ConnLoop, OwnerInv, Quiet, ConnTypes, Serving
<1>26. ASSUME NEW c \in Conn, ConnRead(c) PROVE OwnerInv'
  BY <1>0, <1>26 DEF ConnRead, OwnerInv, Quiet, ConnTypes, Serving
<1>27. ASSUME NEW c \in Conn, ConnHandle(c) PROVE OwnerInv'
  BY <1>0, <1>27 DEF ConnHandle, OwnerInv, Quiet, ConnTypes, Serving
<1>28. ASSUME NEW c \in Conn, ConnRemove(c) PROVE OwnerInv'
  BY <1>0, <1>28 DEF ConnRemove, OwnerInv, Quiet, Notified, ConnTypes, Serving
<1>29. ASSUME NEW c \in Conn, ConnClose(c) PROVE OwnerInv'
  BY <1>0, <1>29 DEF ConnClose, OwnerInv, Quiet, ConnTypes, Serving
<1>30. ASSUME NEW k \in Client, NEW p \in Pipe, ClientOpen(k, p) PROVE OwnerInv'
  BY <1>0, <1>30 DEF ClientOpen, OwnerInv, Quiet
<1>31. ASSUME NEW k \in Client, NEW p \in Pipe, ClientSend(k, p) PROVE OwnerInv'
  BY <1>0, <1>31 DEF ClientSend, OwnerInv, Quiet
<1>32. ASSUME NEW k \in Client, NEW p \in Pipe, ClientLeave(k, p) PROVE OwnerInv'
  BY <1>0, <1>32 DEF ClientLeave, OwnerInv, Quiet
<1>33. CASE StartRefused
  BY <1>0, <1>33 DEF StartRefused, OwnerInv, Quiet
<1>34. ASSUME NEW c \in Conn, ConnNotify(c) PROVE OwnerInv'
  BY <1>0, <1>34 DEF ConnNotify, OwnerInv, Quiet, Notified, ConnTypes, Serving
<1>35. CASE UNCHANGED vars
  BY <1>0, <1>35 DEF vars, OwnerInv, Quiet
<1> QED
  BY <1>1, <1>2, <1>3, <1>4, <1>5, <1>6, <1>7, <1>8, <1>9, <1>10, <1>11, <1>12, <1>13, <1>14, <1>15, <1>16, <1>17, <1>18, <1>19, <1>20, <1>21, <1>22, <1>23, <1>24, <1>25, <1>26, <1>27, <1>28, <1>29, <1>30, <1>31, <1>32, <1>33, <1>34, <1>35
  DEF Next, OwnerStep, Worker, Connection

-----------------------------------------------------------------------------
\* The inductive invariant holds in every behaviour of the server.
THEOREM Invariance == Spec => []Inv
<1>1. Init => Inv
  BY InitInv
<1>2. Inv /\ [Next]_vars => Inv'
  BY TypeStep, WorkerStep, ConnectionStep, HandleStep, MessageStep, OwnerInvStep DEF Inv
<1> QED
  BY <1>1, <1>2, PTL DEF Spec

\* Every variable of the server keeps its type.
THEOREM Types == Spec => []TypeOK
BY Invariance, PTL DEF Inv

\* No pipe handle leaks and none is closed twice, whatever fails and in
\* whatever order Stop, the worker, the connections and the clients act.
THEOREM HandlesCorrect == Spec => []HandlesHaveOneOwner
<1>1. Inv => HandlesHaveOneOwner
  <2> SUFFICES ASSUME Inv, NEW p \in Pipe
               PROVE  LET owners == {c \in Conn : connPipe[c] = p} \union
                                    (IF workerPipe = p THEN {None} ELSE {})
                      IN  Cardinality(owners) = IF instance[p] = "free" THEN 0 ELSE 1
    BY DEF HandlesHaveOneOwner
  <2> DEFINE owners == {c \in Conn : connPipe[c] = p} \union
                       (IF workerPipe = p THEN {None} ELSE {})
  <2>1. HandleInv
    BY DEF Inv
  <2>2. p # None
    BY Names
  <2>3. CASE instance[p] = "free"
    <3>1. owners = {}
      BY <2>1, <2>2, <2>3 DEF HandleInv
    <3> QED
      BY <3>1, <2>3, FS_EmptySet
  <2>4. CASE instance[p] # "free" /\ workerPipe = p
    <3>1. owners = {None}
      BY <2>1, <2>2, <2>4 DEF HandleInv
    <3> QED
      BY <3>1, <2>4, FS_Singleton
  <2>5. CASE instance[p] # "free" /\ workerPipe # p
    <3>1. PICK c \in Conn : connPipe[c] = p
      BY <2>1, <2>5 DEF HandleInv
    <3>2. owners = {c}
      BY <2>1, <2>2, <2>5, <3>1 DEF HandleInv
    <3> QED
      BY <3>2, <2>5, FS_Singleton
  <2> QED
    BY <2>3, <2>4, <2>5
<1> QED
  BY <1>1, Invariance, PTL

\* A response reaches the client whose request it answers or nobody.
THEOREM AnswersCorrect == Spec => []AnswersReachTheRequester
<1>1. Inv => AnswersReachTheRequester
  BY Names DEF Inv, ConnectionInv, MessageInv, Serving, AnswersReachTheRequester, Recipient
<1> QED
  BY <1>1, Invariance, PTL

\* After Stop the server does nothing more.
THEOREM StopCorrect == Spec => []QuietAfterStop
<1>1. Inv => QuietAfterStop
  BY DEF Inv, TypeOK, ConnTypes, OwnerInv, Quiet, Serving, QuietAfterStop
<1> QED
  BY <1>1, Invariance, PTL

=============================================================================
