---------------------------- MODULE McpBridge_proofs ----------------------------
(***************************************************************************)
(* The bridge trusts no session that is gone, runs a call at most once and  *)
(* where it was meant to run, and finds the only game there is, at the      *)
(* latest when the link to an ended one has failed, for any number of games *)
(* that appear, stop and die at any moment.                                 *)
(***************************************************************************)
EXTENDS McpBridge, FiniteSetTheorems, TLAPS

\* What the bridge believes about its connection, at each point of a request.
Linked ==
  /\ pipe = connected_pipe
  /\ backend_initialized => pipe # None
  /\ step = "initialize" => pipe # None /\ ~backend_initialized
  /\ step = "forward" => pipe # None /\ backend_initialized
  /\ step = "enumerate" => pipe = None
  /\ step # "initialize" /\ pipe # None => backend_initialized
  /\ step # "connect" /\ pipe # None => pipe = selected_pipe
  /\ step = "connect" => selected_pipe # None

\* What the game at the other end knows of it.
Remembered ==
  pipe # None =>
    /\ life[pipe] # "unborn"
    /\ life[pipe] # "gone" => session[pipe] # "none"
    /\ backend_initialized /\ life[pipe] = "live" => session[pipe] = "initialized"

\* An exchange belongs to a step that waits for one.
Exchanged ==
  /\ wire # "none" => step \in Exchanges
  /\ step = "initialize" /\ wire = "result" /\ life[pipe] = "live" =>
       session[pipe] = "initialized"

\* Which requests have been performed, and which answers have been given, by when.
Counted ==
  /\ performed = <<>> \/ (selected_pipe \in Pipes /\ performed = <<selected_pipe>>)
  /\ step \notin {"idle", "forward"} => performed = <<>>
  /\ step = "forward" /\ wire \in {"none", "asked"} => performed = <<>>
  /\ step = "forward" /\ wire = "result" /\ tool = "call" => performed # <<>>
  /\ step # "idle" => answer = "none"
  /\ answer = "result" /\ tool = "call" => performed # <<>>
  /\ step # "idle" \/ answer # "none" => initialized

\* In a calm request nothing goes wrong but a call on the link to an ended game.
Calm ==
  calm =>
    /\ \E p \in Pipes \ Foreign : Available = {p}
    /\ step = "initialize" => pipe \in Available /\ wire \notin {"error", "lost"}
    /\ wire = "lost" => pipe \notin Available
    /\ step = "connect" /\ ~fallback /\ ~manual_pipe_selection => selected_pipe \in Available

Inv == TypeOK /\ Linked /\ Remembered /\ Exchanged /\ Counted /\ Calm

\* The definitions the actions are made of.
USE PipesAssumption DEF link, bridge, request, GoTo, Ready

LEMMA InitInv == Init => Inv
<1> SUFFICES ASSUME Init PROVE Inv
  OBVIOUS
<1>1. TypeOK
  <2>1. manual_pipe_selection \in BOOLEAN /\ performed \in Seq(Pipes)
    BY DEF Init
  <2> QED
    BY <2>1 DEF Init, TypeOK
<1> QED
  BY <1>1 DEF Init, Inv, Linked, Remembered, Exchanged, Counted, Calm

-----------------------------------------------------------------------------
\* Types.
LEMMA Disconnected ==
  DisconnectBackend => /\ session' \in [Pipes -> {"none", "fresh", "initialized"}]
                       /\ pipe' = None /\ connected_pipe' = None /\ backend_initialized' \in BOOLEAN
BY DEF DisconnectBackend

LEMMA TypeStep == TypeOK /\ [Next]_vars => TypeOK'
<1> SUFFICES ASSUME TypeOK, [Next]_vars PROVE TypeOK'
  OBVIOUS
<1> DEFINE Life == [Pipes -> {"unborn", "live", "stopping", "gone"}]
           Session == [Pipes -> {"none", "fresh", "initialized"}]
<1>1. CASE Initialize
  BY <1>1 DEF TypeOK, Initialize
<1>2. CASE HandleListConnectionsTool
  <2>1. calm' \in BOOLEAN /\ fallback' \in BOOLEAN
    BY <1>2 DEF HandleListConnectionsTool, Begin
  <2>2. /\ UNCHANGED <<life, session, bridge, link, wire>>
        /\ tool' = "list" /\ step' = "ensure"
        /\ answer' = "none" /\ performed' = <<>>
    BY <1>2 DEF HandleListConnectionsTool, Begin
  <2> QED
    BY <2>1, <2>2 DEF TypeOK
<1>3. ASSUME NEW p \in Pipes, HandleConnectTool(p) PROVE TypeOK'
  <2>1. calm' \in BOOLEAN /\ fallback' \in BOOLEAN
    BY <1>3 DEF HandleConnectTool, Begin
  <2>2. /\ UNCHANGED <<life, session, initialized, link, wire>>
        /\ selected_pipe' = p /\ manual_pipe_selection' \in BOOLEAN
        /\ tool' = "connect" /\ step' = "connect"
        /\ answer' = "none" /\ performed' = <<>>
    BY <1>3 DEF HandleConnectTool, Begin
  <2> QED
    BY <2>1, <2>2 DEF TypeOK
<1>4. ASSUME NEW t \in {"tools", "call"}, HandleToolsRequest(t) PROVE TypeOK'
  <2>1. calm' \in BOOLEAN /\ fallback' \in BOOLEAN
    BY <1>4 DEF HandleToolsRequest, Begin
  <2>2. /\ UNCHANGED <<life, session, bridge, link, wire>>
        /\ tool' = t /\ step' = "ensure"
        /\ answer' = "none" /\ performed' = <<>>
    BY <1>4 DEF HandleToolsRequest, Begin
  <2> QED
    BY <2>1, <2>2 DEF TypeOK
<1>5. CASE EnsureBackendReady
  <2>1. CASE Ready /\ Proceed
    BY <1>5, <2>1 DEF EnsureBackendReady, Proceed, Answer, TypeOK
  <2>2. CASE step' = "connect" /\ fallback' = ~manual_pipe_selection /\ UNCHANGED <<tool, answer>>
    BY <1>5, <2>2 DEF EnsureBackendReady, TypeOK
  <2>3. CASE GoTo("enumerate")
    BY <1>5, <2>3 DEF EnsureBackendReady, TypeOK
  <2> QED
    BY <1>5, <2>1, <2>2, <2>3 DEF EnsureBackendReady
<1>6. CASE Enumerate
  <2>1. CASE GiveUp /\ UNCHANGED bridge
    BY <1>6, <2>1 DEF Enumerate, GiveUp, Answer, TypeOK
  <2>2. CASE /\ selected_pipe' \in Available /\ manual_pipe_selection' = FALSE
             /\ step' = "connect" /\ fallback' = FALSE
             /\ UNCHANGED <<initialized, tool, answer>>
    <3>1. /\ selected_pipe' \in Pipes /\ manual_pipe_selection' \in BOOLEAN
          /\ step' = "connect" /\ fallback' \in BOOLEAN
          /\ UNCHANGED <<life, session, initialized, tool, answer, link, wire, performed, calm>>
      BY <1>6, <2>2 DEF Enumerate, Available
    <3> QED
      BY <3>1 DEF TypeOK
  <2> QED
    BY <1>6, <2>1, <2>2 DEF Enumerate
<1>7. CASE ConnectToPipe
  <2>1. CASE Proceed /\ UNCHANGED <<session, link, calm>>
    BY <1>7, <2>1 DEF ConnectToPipe, Proceed, Answer, TypeOK
  <2>2. CASE DisconnectBackend /\ Refused /\ calm' = (calm /\ selected_pipe \notin Available)
    <3>1. calm' \in BOOLEAN
      BY <2>2
    <3> QED
      BY <1>7, <2>2, <3>1, Disconnected DEF ConnectToPipe, Refused, GiveUp, Answer, TypeOK
  <2>3. CASE /\ selected_pipe \in Available
             /\ pipe' = selected_pipe /\ connected_pipe' = selected_pipe
             /\ backend_initialized' = FALSE
             /\ session' = [p \in Pipes |-> IF p = selected_pipe THEN "fresh" ELSE "none"]
             /\ GoTo("initialize")
             /\ UNCHANGED calm
    <3>1. backend_initialized' \in BOOLEAN /\ session' \in Session
      BY <2>3
    <3>2. UNCHANGED <<life, bridge, wire, performed>>
      BY <1>7 DEF ConnectToPipe
    <3> QED
      BY <2>3, <3>1, <3>2 DEF TypeOK, Available
  <2> QED
    BY <1>7, <2>1, <2>2, <2>3 DEF ConnectToPipe
<1>8. CASE Send
  BY <1>8 DEF TypeOK, Send
<1>9. ASSUME NEW p \in Pipes, HandleRequestObject(p) PROVE TypeOK'
  <2>1. session' \in Session
    BY <1>9 DEF TypeOK, HandleRequestObject
  <2>2. performed' \in Seq(Pipes)
    BY <1>9 DEF TypeOK, HandleRequestObject
  <2> QED
    BY <1>9, <2>1, <2>2 DEF TypeOK, HandleRequestObject
<1>10. CASE InitializeBackendSession
  <2>1. CASE DisconnectBackend /\ Refused
    BY <1>10, <2>1, Disconnected DEF TypeOK, InitializeBackendSession, Refused, GiveUp, Answer
  <2>2. CASE backend_initialized' = TRUE /\ Proceed /\ UNCHANGED <<session, pipe, connected_pipe>>
    <3>1. backend_initialized' \in BOOLEAN
      BY <2>2
    <3> QED
      BY <1>10, <2>2, <3>1 DEF TypeOK, InitializeBackendSession, Proceed, Answer
  <2> QED
    BY <1>10, <2>1, <2>2 DEF InitializeBackendSession
<1>11. CASE Forward
  BY <1>11, Disconnected DEF TypeOK, Forward, GiveUp, Answer
<1>12. ASSUME NEW p \in Pipes, Launch(p) \/ Stop(p) \/ Vanish(p) PROVE TypeOK'
  <2>1. life' \in Life /\ session' \in Session
    <3>1. CASE Launch(p)
      BY <3>1 DEF TypeOK, Launch
    <3>2. CASE Stop(p)
      BY <3>2 DEF TypeOK, Stop
    <3>3. CASE Vanish(p)
      BY <3>3 DEF TypeOK, Vanish
    <3> QED
      BY <1>12, <3>1, <3>2, <3>3
  <2>2. /\ UNCHANGED <<bridge, link, request, answer, performed>> /\ calm' \in BOOLEAN
        /\ wire' \in {"none", "asked", "result", "error", "lost"}
    BY <1>12 DEF TypeOK, Launch, Stop, Vanish
  <2> QED
    BY <2>1, <2>2 DEF TypeOK
<1>13. CASE Discard
  <2>1. calm' \in BOOLEAN /\ wire' = "lost"
    BY <1>13 DEF Discard
  <2>2. UNCHANGED <<life, session, bridge, link, request, answer, performed>>
    BY <1>13 DEF Discard
  <2> QED
    BY <2>1, <2>2 DEF TypeOK
<1>14. CASE UNCHANGED vars
  BY <1>14 DEF TypeOK, vars
<1> QED
  BY <1>1, <1>2, <1>3, <1>4, <1>5, <1>6, <1>7, <1>8, <1>9, <1>10, <1>11, <1>12, <1>13, <1>14
  DEF Next, Handle

-----------------------------------------------------------------------------
\* The connection.
LEMMA LinkedStep == TypeOK /\ Linked /\ [Next]_vars => Linked'
<1> SUFFICES ASSUME TypeOK, Linked, [Next]_vars PROVE Linked'
  OBVIOUS
<1>1. CASE Initialize
  BY <1>1 DEF Linked, Initialize
<1>2. CASE HandleListConnectionsTool
  BY <1>2 DEF Linked, HandleListConnectionsTool, Begin
<1>3. ASSUME NEW p \in Pipes, HandleConnectTool(p) PROVE Linked'
  BY <1>3 DEF Linked, HandleConnectTool, Begin
<1>4. ASSUME NEW t \in {"tools", "call"}, HandleToolsRequest(t) PROVE Linked'
  BY <1>4 DEF Linked, HandleToolsRequest, Begin
<1>5. CASE EnsureBackendReady
  BY <1>5 DEF Linked, EnsureBackendReady, Proceed, Answer
<1>6. CASE Enumerate
  BY <1>6 DEF Linked, Enumerate, GiveUp, Answer, Available
<1>7. CASE ConnectToPipe
  BY <1>7 DEF Linked, ConnectToPipe, DisconnectBackend, Proceed, Refused, GiveUp, Answer, Available
<1>8. CASE InitializeBackendSession
  BY <1>8 DEF Linked, InitializeBackendSession, DisconnectBackend, Proceed, Refused, GiveUp, Answer
<1>9. CASE Forward
  BY <1>9 DEF Linked, Forward, DisconnectBackend, GiveUp, Answer
<1>10. CASE UNCHANGED <<link, step, selected_pipe>>
  BY <1>10 DEF Linked
<1>11. ASSUME NEW p \in Pipes, HandleRequestObject(p) \/ Launch(p) \/ Stop(p) \/ Vanish(p)
       PROVE  UNCHANGED <<link, step, selected_pipe>>
  BY <1>11 DEF HandleRequestObject, Launch, Stop, Vanish
<1>12. Send \/ Discard => UNCHANGED <<link, step, selected_pipe>>
  BY DEF Send, Discard
<1> QED
  BY <1>1, <1>2, <1>3, <1>4, <1>5, <1>6, <1>7, <1>8, <1>9, <1>10, <1>11, <1>12
  DEF Next, Handle, vars

\* What the games remember.
LEMMA RememberedStep ==
  TypeOK /\ Linked /\ Remembered /\ Exchanged /\ [Next]_vars => Remembered'
<1> SUFFICES ASSUME TypeOK, Linked, Remembered, Exchanged, [Next]_vars PROVE Remembered'
  OBVIOUS
<1>1. CASE ConnectToPipe
  BY <1>1 DEF TypeOK, Remembered, ConnectToPipe, DisconnectBackend, Available
<1>2. ASSUME NEW p \in Pipes, HandleRequestObject(p) PROVE Remembered'
  BY <1>2 DEF TypeOK, Remembered, HandleRequestObject
<1>3. CASE InitializeBackendSession
  BY <1>3 DEF TypeOK, Linked, Remembered, Exchanged, InitializeBackendSession, DisconnectBackend
<1>4. CASE Forward
  BY <1>4 DEF Remembered, Forward, DisconnectBackend
<1>5. ASSUME NEW p \in Pipes, Launch(p) PROVE Remembered'
  BY <1>5 DEF TypeOK, Remembered, Launch
<1>6. ASSUME NEW p \in Pipes, Stop(p) PROVE Remembered'
  BY <1>6 DEF TypeOK, Remembered, Stop
<1>7. ASSUME NEW p \in Pipes, Vanish(p) PROVE Remembered'
  BY <1>7 DEF TypeOK, Remembered, Vanish
<1>8. CASE UNCHANGED <<life, session, link>>
  BY <1>8 DEF Remembered
<1>9. Initialize \/ EnsureBackendReady \/ Enumerate \/ Send \/ Discard
        => UNCHANGED <<life, session, link>>
  BY DEF Initialize, EnsureBackendReady, Enumerate, Send, Discard
<1>10. ASSUME NEW p, NEW t,
              HandleListConnectionsTool \/ HandleConnectTool(p) \/ HandleToolsRequest(t)
       PROVE  UNCHANGED <<life, session, link>>
  BY <1>10 DEF HandleListConnectionsTool, HandleConnectTool, HandleToolsRequest, Begin
<1> QED
  BY <1>1, <1>2, <1>3, <1>4, <1>5, <1>6, <1>7, <1>8, <1>9, <1>10 DEF Next, Handle, vars

-----------------------------------------------------------------------------
\* The exchange under way.
LEMMA ExchangedStep == TypeOK /\ Linked /\ Remembered /\ Exchanged /\ [Next]_vars => Exchanged'
<1> SUFFICES ASSUME TypeOK, Linked, Remembered, Exchanged, [Next]_vars PROVE Exchanged'
  OBVIOUS
<1>1. CASE Initialize
  BY <1>1 DEF Exchanged, Initialize, Exchanges
<1>2. CASE HandleListConnectionsTool
  BY <1>2 DEF Exchanged, HandleListConnectionsTool, Begin, Exchanges
<1>3. ASSUME NEW p \in Pipes, HandleConnectTool(p) PROVE Exchanged'
  BY <1>3 DEF Exchanged, HandleConnectTool, Begin, Exchanges
<1>4. ASSUME NEW t \in {"tools", "call"}, HandleToolsRequest(t) PROVE Exchanged'
  BY <1>4 DEF Exchanged, HandleToolsRequest, Begin, Exchanges
<1>5. CASE EnsureBackendReady
  BY <1>5 DEF Exchanged, EnsureBackendReady, Proceed, Answer, Exchanges
<1>6. CASE Enumerate
  BY <1>6 DEF Exchanged, Enumerate, GiveUp, Answer, Exchanges
<1>7. CASE ConnectToPipe
  BY <1>7 DEF Exchanged, ConnectToPipe, DisconnectBackend, Proceed, Refused, GiveUp, Answer, Exchanges
<1>8. CASE Send
  BY <1>8 DEF Exchanged, Send, Exchanges
<1>9. ASSUME NEW p \in Pipes, HandleRequestObject(p) PROVE Exchanged'
  BY <1>9 DEF TypeOK, Exchanged, HandleRequestObject, Exchanges
<1>10. CASE InitializeBackendSession
  BY <1>10 DEF Exchanged, InitializeBackendSession
<1>11. CASE Forward
  BY <1>11 DEF Exchanged, Forward
<1>12. ASSUME NEW p \in Pipes, Launch(p) PROVE Exchanged'
  BY <1>12 DEF TypeOK, Linked, Remembered, Exchanged, Launch
<1>13. ASSUME NEW p \in Pipes, Stop(p) PROVE Exchanged'
  BY <1>13 DEF TypeOK, Linked, Exchanged, Stop
<1>14. ASSUME NEW p \in Pipes, Vanish(p) PROVE Exchanged'
  BY <1>14 DEF TypeOK, Linked, Exchanged, Vanish
<1>15. CASE Discard
  BY <1>15 DEF Exchanged, Discard
<1>16. CASE UNCHANGED vars
  BY <1>16 DEF Exchanged, vars
<1> QED
  BY <1>1, <1>2, <1>3, <1>4, <1>5, <1>6, <1>7, <1>8, <1>9, <1>10, <1>11, <1>12, <1>13, <1>14, <1>15, <1>16
  DEF Next, Handle

-----------------------------------------------------------------------------
\* The calls that were run and the answers that were given.
LEMMA CountedStep == TypeOK /\ Linked /\ Exchanged /\ Counted /\ [Next]_vars => Counted'
<1> SUFFICES ASSUME TypeOK, Linked, Exchanged, Counted, [Next]_vars PROVE Counted'
  OBVIOUS
<1>1. CASE Initialize
  BY <1>1 DEF Counted, Initialize
<1>2. CASE HandleListConnectionsTool
  BY <1>2 DEF Counted, HandleListConnectionsTool, Begin
<1>3. ASSUME NEW p \in Pipes, HandleConnectTool(p) PROVE Counted'
  BY <1>3 DEF Counted, HandleConnectTool, Begin
<1>4. ASSUME NEW t \in {"tools", "call"}, HandleToolsRequest(t) PROVE Counted'
  BY <1>4 DEF Counted, HandleToolsRequest, Begin
<1>5. CASE EnsureBackendReady
  BY <1>5 DEF Exchanged, Counted, EnsureBackendReady, Proceed, Answer, Exchanges
<1>6. CASE Enumerate
  BY <1>6 DEF Counted, Enumerate, GiveUp, Answer, Available
<1>7. CASE ConnectToPipe
  BY <1>7 DEF Exchanged, Counted, ConnectToPipe, Proceed, Refused, GiveUp, Answer, Exchanges
<1>8. CASE Send
  BY <1>8 DEF Counted, Send
<1>9. ASSUME NEW p \in Pipes, HandleRequestObject(p) PROVE Counted'
  <2>1. /\ wire = "asked" /\ pipe = p /\ step \in {"initialize", "forward"}
        /\ UNCHANGED <<step, tool, initialized, selected_pipe, answer>>
    BY <1>9 DEF Exchanged, HandleRequestObject, Exchanges
  <2>2. performed = <<>> /\ answer = "none" /\ selected_pipe = p
    BY <2>1 DEF Counted, Linked
  <2>3. CASE UNCHANGED performed /\ (step = "forward" /\ wire' = "result" => tool # "call")
    BY <2>1, <2>2, <2>3, <1>9 DEF Counted, HandleRequestObject
  <2>4. CASE step = "forward" /\ wire' = "result" /\ performed' = Append(performed, p)
    <3>1. performed' = <<p>> /\ performed' # <<>>
      BY <2>2, <2>4
    <3> QED
      BY <3>1, <2>1, <2>2, <2>4 DEF Counted
  <2>5. CASE step = "initialize"
    BY <1>9, <2>3, <2>5 DEF HandleRequestObject
  <2>6. CASE step = "forward"
    BY <1>9, <2>3, <2>4, <2>6 DEF HandleRequestObject
  <2> QED
    BY <2>1, <2>5, <2>6
<1>10. CASE InitializeBackendSession
  BY <1>10 DEF Counted, InitializeBackendSession, Proceed, Refused, GiveUp, Answer
<1>11. CASE Forward
  BY <1>11 DEF Counted, Forward, GiveUp, Answer
<1>12. ASSUME NEW p \in Pipes, Launch(p) \/ Stop(p) PROVE Counted'
  BY <1>12 DEF Counted, Launch, Stop
<1>13. ASSUME NEW p \in Pipes, Vanish(p) PROVE Counted'
  BY <1>13 DEF Counted, Vanish
<1>14. CASE Discard
  BY <1>14 DEF Counted, Discard
<1>15. CASE UNCHANGED vars
  BY <1>15 DEF Counted, vars
<1> QED
  BY <1>1, <1>2, <1>3, <1>4, <1>5, <1>6, <1>7, <1>8, <1>9, <1>10, <1>11, <1>12, <1>13, <1>14, <1>15
  DEF Next, Handle

-----------------------------------------------------------------------------
\* Calm requests.
LEMMA OnlyOne ==
  ASSUME NEW p, Available = {p}
  PROVE  Cardinality(Available) = 1
BY FS_Singleton

LEMMA CalmStep == Inv /\ [Next]_vars => Calm'
<1> SUFFICES ASSUME Inv, [Next]_vars, calm' PROVE Calm'
  BY DEF Calm
<1> USE DEF Inv
<1>1. CASE Initialize
  BY <1>1 DEF Calm, Initialize, Available
<1>2. CASE HandleListConnectionsTool
  BY <1>2 DEF Exchanged, Calm, HandleListConnectionsTool, Begin, Available, Exchanges
<1>3. ASSUME NEW p \in Pipes, HandleConnectTool(p) PROVE Calm'
  BY <1>3 DEF Exchanged, Calm, HandleConnectTool, Begin, Available, Exchanges
<1>4. ASSUME NEW t \in {"tools", "call"}, HandleToolsRequest(t) PROVE Calm'
  BY <1>4 DEF Exchanged, Calm, HandleToolsRequest, Begin, Available, Exchanges
<1>5. CASE EnsureBackendReady
  BY <1>5 DEF Calm, EnsureBackendReady, Proceed, Answer, Available
<1>6. CASE Enumerate
  <2>1. calm
    BY <1>6 DEF Enumerate
  <2>2. Cardinality(Available) = 1
    BY <2>1, OnlyOne DEF Calm
  <2>3. /\ selected_pipe' \in Available /\ step' = "connect"
        /\ UNCHANGED <<life, pipe, wire, calm>>
    BY <1>6, <2>2 DEF Enumerate
  <2>4. Available' = Available /\ wire = "none"
    BY <1>6, <2>3 DEF Exchanged, Enumerate, Available, Exchanges
  <2> QED
    BY <2>1, <2>3, <2>4 DEF Calm
<1>7. CASE ConnectToPipe
  BY <1>7 DEF Exchanged, Calm, ConnectToPipe, DisconnectBackend, Proceed, Refused, GiveUp, Answer, Available, Exchanges
<1>8. CASE Send
  BY <1>8 DEF TypeOK, Linked, Remembered, Calm, Send, Available, Exchanges
<1>9. ASSUME NEW p \in Pipes, HandleRequestObject(p) PROVE Calm'
  BY <1>9 DEF Calm, HandleRequestObject, Available
<1>10. CASE InitializeBackendSession
  BY <1>10 DEF TypeOK, Linked, Remembered, Calm, InitializeBackendSession, Proceed, Answer, Available
<1>11. CASE Forward
  BY <1>11 DEF Calm, Forward, GiveUp, Answer, Available
<1>12. ASSUME NEW p \in Pipes, Launch(p) \/ Stop(p) \/ Vanish(p) PROVE Calm'
  BY <1>12 DEF Launch, Stop, Vanish
<1>13. ~Discard
  BY DEF Discard
<1>14. CASE UNCHANGED vars
  BY <1>14 DEF Calm, vars, Available
<1> QED
  BY <1>1, <1>2, <1>3, <1>4, <1>5, <1>6, <1>7, <1>8, <1>9, <1>10, <1>11, <1>12, <1>13, <1>14
  DEF Next, Handle

-----------------------------------------------------------------------------
LEMMA Invariance == Spec => []Inv
<1>1. Inv /\ [Next]_vars => Inv'
  BY TypeStep, LinkedStep, RememberedStep, ExchangedStep, CountedStep, CalmStep DEF Inv
<1> QED
  BY <1>1, InitInv, PTL DEF Spec

\* The variables of the bridge, of its request and of the games have their types.
THEOREM Types == Spec => []TypeOK
<1>1. Inv => TypeOK
  BY DEF Inv
<1> QED
  BY <1>1, Invariance, PTL

\* A call runs at most once, in the game that is selected, and has run when it is
\* answered with a result: tools/call is forwarded once, and given up, not sent
\* again, when its answer is lost (HandleRequestObject, main.cpp:1094-1133).
THEOREM CallsRunOnce == Spec => []CallsRunOnceWhereSelected
<1>1. Inv => CallsRunOnceWhereSelected
  <2> SUFFICES ASSUME Inv PROVE CallsRunOnceWhereSelected
    OBVIOUS
  <2>1. CASE performed = <<>>
    BY <2>1 DEF Inv, Counted, CallsRunOnceWhereSelected
  <2>2. CASE performed = <<selected_pipe>>
    BY <2>2 DEF CallsRunOnceWhereSelected
  <2> QED
    BY <2>1, <2>2 DEF Inv, Counted
<1> QED
  BY <1>1, Invariance, PTL

\* The bridge's belief that its session is initialized (backend_initialized) is true
\* of every game that still runs its server.
THEOREM SessionsCorrect == Spec => []SessionsAreReal
<1>1. Inv => SessionsAreReal
  BY DEF Inv, TypeOK, Linked, Remembered, SessionsAreReal
<1> QED
  BY <1>1, Invariance, PTL

\* While one game, which the bridge can talk to, is the only one, the bridge says that
\* there is no backend only if the pipe was selected by hand, or once on the link to a
\* game that has ended, which it then gives up (EnsureBackendReady, main.cpp:735-755).
THEOREM AutoConnect == Spec => AutoConnectsUnlessChosen
<1> DEFINE Told == calm' /\ answer' = "unavailable" =>
                     \/ manual_pipe_selection
                     \/ pipe \notin Available \union {None} /\ pipe' = None
<1>1. Inv /\ [Next]_vars => [Told]_vars
  <2> SUFFICES ASSUME Inv, Next, calm', answer' = "unavailable", ~manual_pipe_selection
               PROVE  pipe \notin Available \union {None} /\ pipe' = None
    OBVIOUS
  <2> USE DEF Inv
  <2>1. UNCHANGED answer => step = "idle" /\ wire = "none" /\ initialized
    BY DEF Counted, Exchanged, Exchanges
  <2>2. ~Initialize
    BY <2>1 DEF Initialize
  <2>3. ASSUME NEW p, NEW t,
               HandleListConnectionsTool \/ HandleConnectTool(p) \/ HandleToolsRequest(t)
        PROVE  FALSE
    BY <2>3 DEF HandleListConnectionsTool, HandleConnectTool, HandleToolsRequest, Begin
  <2>4. ASSUME NEW p \in Pipes, HandleRequestObject(p) \/ Launch(p) \/ Stop(p) \/ Vanish(p)
        PROVE  FALSE
    BY <2>1, <2>4 DEF HandleRequestObject, Launch, Stop, Vanish
  <2>5. ~EnsureBackendReady
    BY <2>1 DEF EnsureBackendReady, Proceed, Answer
  <2>6. ~Enumerate
    <3> SUFFICES ASSUME Enumerate PROVE FALSE
      OBVIOUS
    <3>1. Cardinality(Available) = 1
      BY OnlyOne DEF Enumerate, Calm
    <3> QED
      BY <2>1, <3>1 DEF Enumerate
  <2>7. ~ConnectToPipe
    BY <2>1 DEF ConnectToPipe, Proceed, Refused, GiveUp, Answer, Calm
  <2>8. ~Send /\ ~Discard
    BY <2>1 DEF Send, Discard, Exchanges
  <2>9. ~InitializeBackendSession
    <3> SUFFICES ASSUME InitializeBackendSession PROVE FALSE
      OBVIOUS
    <3>1. wire = "result" /\ pipe \in Available
      BY DEF InitializeBackendSession, Calm
    <3>2. session[pipe] # "none"
      BY <3>1, PipesAssumption DEF Remembered, Available
    <3> QED
      BY <2>1, <3>1, <3>2 DEF InitializeBackendSession, Proceed, Answer
  <2>10. CASE Forward
    <3>1. wire = "lost" /\ calm /\ pipe' = None /\ step = "forward"
      BY <2>10 DEF Forward, DisconnectBackend, Answer
    <3> QED
      BY <3>1 DEF Linked, Calm
  <2> QED
    BY <2>2, <2>3, <2>4, <2>5, <2>6, <2>7, <2>8, <2>9, <2>10 DEF Next, Handle
<1> HIDE DEF Told
<1>2. Spec => [][Told]_vars
  BY <1>1, Invariance, PTL DEF Spec
<1> QED
  BY <1>2 DEF Told, AutoConnectsUnlessChosen
=============================================================================
