---------------------------- MODULE McpBridge ----------------------------
(***************************************************************************)
(* The MCP bridge (src/apps/mcp_bridge/main.cpp): a process that an        *)
(* MCP client drives over stdio and that forwards tool calls through a     *)
(* named pipe to the dev kit of a running game.  It handles one request at *)
(* a time, but every game is a process of its own: it appears, stops its   *)
(* server or dies between any two steps of a request.                      *)
(*                                                                         *)
(* The pipe name holds the process id, so a game that is started again has *)
(* another name.  The names a bridge is told to use may belong to no game. *)
(* Left out: the wording of answers and of the last error, and requests    *)
(* the bridge refuses without touching its state.                          *)
(***************************************************************************)
EXTENDS Naturals, Sequences, FiniteSets

CONSTANTS Pipes,    \* the pipe names of the games that ever run
          Foreign,  \* those whose dev kit speaks no version the bridge knows
          None

ASSUME PipesAssumption == None \notin Pipes /\ Foreign \subseteq Pipes

VARIABLES
  life,             \* of each game: "unborn", "live", "stopping", "gone"
  session,          \* what it knows of the bridge's connection:
                    \* "none", "fresh", "initialized"
  initialized, selected_pipe, manual_pipe_selection,    \* the Bridge object
  connected_pipe, backend_initialized,
  pipe,             \* the client's handle: the pipe it was opened on, or None
  step,             \* where HandleRequestObject is; "idle" between requests
  tool,             \* the tool of the request: "list", "connect", "call"
                    \* or "tools" for tools/list
  fallback,         \* EnsureBackendReady may still enumerate the pipes
  wire,             \* the transport exchange: "none", "asked", "result",
                    \* "error" or "lost": no answer that can be used
  answer,           \* what the last request was told
  performed,        \* history: the games that took the call on, in order
  calm              \* history: since the request began one game, of a version
                    \* the bridge knows, has been the only one, has let it
                    \* connect in time and has sent answers it can use

bridge  == <<initialized, selected_pipe, manual_pipe_selection>>
link    == <<connected_pipe, backend_initialized, pipe>>
request == <<step, tool, fallback>>
vars == <<life, session, bridge, link, request, wire, answer, performed, calm>>

-----------------------------------------------------------------------------
(* EnumerateDevkitPipes: a stopping server still has its pipe. *)
Available == {p \in Pipes : life[p] \in {"live", "stopping"}}

Ready == pipe # None /\ backend_initialized

Init ==
  /\ life = [p \in Pipes |-> "unborn"]
  /\ session = [p \in Pipes |-> "none"]
  /\ initialized = FALSE
  /\ selected_pipe \in Pipes \union {None}              \* --pipe
  /\ manual_pipe_selection = (selected_pipe # None)
  /\ connected_pipe = None /\ backend_initialized = FALSE /\ pipe = None
  /\ step = "idle" /\ tool = "list" /\ fallback = FALSE
  /\ wire = "none" /\ answer = "none"
  /\ performed = <<>> /\ calm = FALSE

(* A bug for comparison: the session is still believed in. *)
DisconnectKeepsSession ==
  /\ pipe' = None /\ connected_pipe' = None
  /\ backend_initialized' = backend_initialized
  /\ session' = [p \in Pipes |-> "none"]

(* The server's end of a connection that is dropped forgets its session.   *)
DisconnectBackend ==
  /\ pipe' = None /\ connected_pipe' = None /\ backend_initialized' = FALSE
  /\ session' = [p \in Pipes |-> "none"]

(* The lists are answered with what there is. *)
Answer(a) ==
  /\ step' = "idle"
  /\ answer' = IF tool \in {"list", "tools"} THEN "result" ELSE a
  /\ UNCHANGED <<tool, fallback>>

GoTo(s) == step' = s /\ UNCHANGED <<tool, fallback, answer>>

-----------------------------------------------------------------------------
(* HandleFrame, up to the first look at the backend. *)
Initialize ==
  /\ step = "idle" /\ ~initialized
  /\ initialized' = TRUE
  /\ UNCHANGED <<life, session, selected_pipe, manual_pipe_selection, link,
                 request, wire, answer, performed, calm>>

Begin(t, s) ==
  /\ step = "idle" /\ initialized
  /\ tool' = t /\ step' = s /\ fallback' = FALSE
  /\ answer' = "none" /\ performed' = <<>>
  /\ calm' = \E p \in Pipes \ Foreign : Available = {p}
  /\ UNCHANGED <<life, session, initialized, link, wire>>

HandleListConnectionsTool ==
  /\ connected_pipe = None /\ ~manual_pipe_selection /\ Cardinality(Available) = 1
  /\ Begin("list", "ensure")
  /\ UNCHANGED <<selected_pipe, manual_pipe_selection>>

HandleConnectTool(p) ==
  /\ Begin("connect", "connect")
  /\ selected_pipe' = p /\ manual_pipe_selection' = TRUE

HandleToolsRequest(t) ==
  /\ Begin(t, "ensure")
  /\ UNCHANGED <<selected_pipe, manual_pipe_selection>>

(* What a request does once the backend is ready, or is known not to be.   *)
Proceed == IF tool \in {"tools", "call"} THEN GoTo("forward") ELSE Answer("result")

GiveUp == Answer("unavailable")

-----------------------------------------------------------------------------
(* EnsureBackendReady: a pipe that is open and initialized is good enough; *)
(* else the selected one is tried, and the only one there is, unless the   *)
(* selection was made by hand.                                             *)
EnsureBackendReady ==
  /\ step = "ensure"
  /\ \/ Ready /\ Proceed
     \/ /\ ~Ready /\ selected_pipe # None
        /\ step' = "connect" /\ fallback' = ~manual_pipe_selection
        /\ UNCHANGED <<tool, answer>>
     \/ /\ ~Ready /\ selected_pipe = None
        /\ GoTo("enumerate")
  /\ UNCHANGED <<life, session, bridge, link, wire, performed, calm>>

(* The enumeration of EnsureBackendReady. *)
Enumerate ==
  /\ step = "enumerate"
  /\ \/ /\ Cardinality(Available) # 1
        /\ GiveUp
        /\ UNCHANGED bridge
     \/ /\ Cardinality(Available) = 1
        /\ selected_pipe' \in Available
        /\ manual_pipe_selection' = FALSE
        /\ step' = "connect" /\ fallback' = FALSE
        /\ UNCHANGED <<initialized, tool, answer>>
  /\ UNCHANGED <<life, session, link, wire, performed, calm>>

(* A bug for comparison: the selected pipe is the only chance. *)
RefusedForGood == GiveUp

(* ConnectToPipe failed. *)
Refused == IF fallback THEN step' = "enumerate" /\ UNCHANGED <<tool, fallback, answer>>
           ELSE GiveUp

(* ConnectToPipe: kept when it is the pipe that is open and initialized;   *)
(* else the old connection is dropped and the pipe opened, which fails     *)
(* when nobody serves it, or when other clients hold all its instances for *)
(* longer than the bridge waits.  A connection that is open and not        *)
(* initialized does not outlive its request (SessionsAreReal).             *)
ConnectToPipe ==
  /\ step = "connect"
  /\ \/ /\ connected_pipe = selected_pipe /\ Ready
        /\ Proceed
        /\ UNCHANGED <<session, link, calm>>
     \/ /\ ~(connected_pipe = selected_pipe /\ Ready)
        /\ DisconnectBackend
        /\ Refused
        /\ calm' = (calm /\ selected_pipe \notin Available)
     \/ /\ ~(connected_pipe = selected_pipe /\ Ready)
        /\ selected_pipe \in Available
        /\ pipe' = selected_pipe /\ connected_pipe' = selected_pipe
        /\ backend_initialized' = FALSE
        /\ session' = [p \in Pipes |-> IF p = selected_pipe THEN "fresh" ELSE "none"]
        /\ GoTo("initialize")
        /\ UNCHANGED calm
  /\ UNCHANGED <<life, bridge, wire, performed>>

-----------------------------------------------------------------------------
(* SendBackendRequest and ipc::Client::Request: the request is written, and *)
(* the bridge waits for the answer without a limit.                         *)
Exchanges == {"initialize", "forward"}

Send ==
  /\ step \in Exchanges /\ wire = "none"
  /\ wire' \in (IF session[pipe] = "none" THEN {"lost"} ELSE {"asked"})
  /\ UNCHANGED <<life, session, bridge, link, request, answer, performed, calm>>

(* Server::HandleRequestObject, on the connection's thread.  A tool that    *)
(* is still running when the connection breaks counts as run.               *)
HandleRequestObject(p) ==
  /\ wire = "asked" /\ pipe = p /\ session[p] # "none"
  /\ IF step = "initialize"
     THEN /\ session' = [session EXCEPT ![p] = "initialized"]
          /\ wire' = IF p \in Foreign THEN "error" ELSE "result"
          /\ UNCHANGED performed
     ELSE /\ UNCHANGED session
          /\ IF session[p] = "initialized"
             THEN /\ wire' = "result"
                  /\ performed' = IF tool = "call" THEN Append(performed, p) ELSE performed
             ELSE wire' = "error" /\ UNCHANGED performed
  /\ UNCHANGED <<life, bridge, link, request, answer, calm>>

(* An answer that is too large, no JSON, no response or not the one to the  *)
(* request is as good as none.                                              *)
Discard ==
  /\ wire \in {"result", "error"}
  /\ wire' = "lost"
  /\ calm' = FALSE
  /\ UNCHANGED <<life, session, bridge, link, request, answer, performed>>

(* InitializeBackendSession, after the answer: the initialized notification *)
(* is an event nobody answers; writing it fails on a broken connection.     *)
InitializeBackendSession ==
  /\ step = "initialize" /\ wire \in {"result", "error", "lost"}
  /\ wire' = "none"
  /\ IF wire = "result" /\ session[pipe] # "none"
     THEN /\ backend_initialized' = TRUE
          /\ Proceed
          /\ UNCHANGED <<session, pipe, connected_pipe>>
     ELSE DisconnectBackend /\ Refused
  /\ UNCHANGED <<life, bridge, performed, calm>>

(* A bug for comparison: a call whose answer did not come is sent again.   *)
ForwardAgain ==
  /\ step = "forward" /\ wire \in {"result", "error", "lost"}
  /\ wire' = "none"
  /\ IF wire = "lost" THEN DisconnectBackend /\ GoTo("ensure")
     ELSE Answer(wire) /\ UNCHANGED <<session, link>>
  /\ UNCHANGED <<life, bridge, performed, calm>>

(* A bug for comparison: the handle of the lost connection is not given up. *)
ForwardKeepingLink ==
  /\ step = "forward" /\ wire \in {"result", "error", "lost"}
  /\ wire' = "none"
  /\ IF wire = "lost" THEN GiveUp ELSE Answer(wire)
  /\ UNCHANGED <<life, session, bridge, link, performed, calm>>

(* The answer to tools/list or tools/call.  Without one the connection is   *)
(* given up; an error answer is passed on and the connection kept.          *)
Forward ==
  /\ step = "forward" /\ wire \in {"result", "error", "lost"}
  /\ wire' = "none"
  /\ IF wire = "lost" THEN DisconnectBackend /\ GiveUp
     ELSE Answer(wire) /\ UNCHANGED <<session, link>>
  /\ UNCHANGED <<life, bridge, performed, calm>>

-----------------------------------------------------------------------------
(* The games. *)
Launch(p) ==
  /\ life[p] = "unborn"
  /\ life' = [life EXCEPT ![p] = "live"]
  /\ calm' = FALSE
  /\ UNCHANGED <<session, bridge, link, request, wire, answer, performed>>

(* Server::Stop clears the sessions first. *)
Stop(p) ==
  /\ life[p] = "live"
  /\ life' = [life EXCEPT ![p] = "stopping"]
  /\ session' = [session EXCEPT ![p] = IF @ = "initialized" THEN "fresh" ELSE @]
  /\ calm' = FALSE
  /\ UNCHANGED <<bridge, link, request, wire, answer, performed>>

(* The end of Stop, or of the process: connections break; an answer that is *)
(* under way is lost, or has already arrived.                               *)
Vanish(p) ==
  /\ life[p] \in {"live", "stopping"}
  /\ life' = [life EXCEPT ![p] = "gone"]
  /\ session' = [session EXCEPT ![p] = "none"]
  /\ \/ pipe = p /\ wire # "none" /\ wire' = "lost"
     \/ ~(pipe = p /\ wire = "asked") /\ UNCHANGED wire
  /\ calm' = FALSE
  /\ UNCHANGED <<bridge, link, request, answer, performed>>

-----------------------------------------------------------------------------
Handle == EnsureBackendReady \/ Enumerate \/ ConnectToPipe \/ Send
            \/ Discard \/ InitializeBackendSession \/ Forward

Next ==
  \/ Initialize \/ HandleListConnectionsTool
  \/ \E p \in Pipes : HandleConnectTool(p)
  \/ \E t \in {"tools", "call"} : HandleToolsRequest(t)
  \/ Handle
  \/ \E p \in Pipes : HandleRequestObject(p) \/ Launch(p) \/ Stop(p) \/ Vanish(p)

Spec == Init /\ [][Next]_vars

-----------------------------------------------------------------------------
TypeOK ==
  /\ life \in [Pipes -> {"unborn", "live", "stopping", "gone"}]
  /\ session \in [Pipes -> {"none", "fresh", "initialized"}]
  /\ initialized \in BOOLEAN /\ manual_pipe_selection \in BOOLEAN
  /\ selected_pipe \in Pipes \union {None}
  /\ connected_pipe \in Pipes \union {None} /\ pipe \in Pipes \union {None}
  /\ backend_initialized \in BOOLEAN
  /\ step \in {"idle", "ensure", "enumerate", "connect", "initialize", "forward"}
  /\ tool \in {"list", "connect", "tools", "call"} /\ fallback \in BOOLEAN
  /\ wire \in {"none", "asked", "result", "error", "lost"}
  /\ answer \in {"none", "result", "error", "unavailable"}
  /\ performed \in Seq(Pipes) /\ calm \in BOOLEAN

(* A tool call runs in at most one game and at most once, in the game that *)
(* is selected, whatever dies meanwhile; a call that is answered with a    *)
(* result has run (EnsureBackendReady trusts an open connection, and       *)
(* tools/call is forwarded without a retry).                               *)
CallsRunOnceWhereSelected ==
  /\ Len(performed) <= 1
  /\ \A i \in 1..Len(performed) : performed[i] = selected_pipe
  /\ answer = "result" /\ tool = "call" => Len(performed) = 1

(* backend_initialized is read without asking the game: while it is set,   *)
(* the bridge is on the pipe it is selected for, and the game there knows  *)
(* the session, unless it is on its way out.                               *)
SessionsAreReal ==
  /\ pipe = connected_pipe
  /\ step # "initialize" /\ pipe # None => backend_initialized
  /\ backend_initialized =>
       /\ connected_pipe # None
       /\ step # "connect" => connected_pipe = selected_pipe
       /\ life[connected_pipe] = "live" => session[connected_pipe] = "initialized"

(* A request during which one game, of a version the bridge knows, is the   *)
(* only one, is told that there is no backend in two cases only: the user   *)
(* chose a pipe by hand; or the bridge still had the link to a game that    *)
(* has ended, which it trusts without asking (main.cpp:736) until the call  *)
(* sent there fails.  That costs one request: the link is then gone, and    *)
(* the next request finds the game that is there.  Not covered: a game whose *)
(* pipe other clients hold for longer than the bridge waits, and answers    *)
(* that the bridge cannot use.                                              *)
AutoConnectsUnlessChosen ==
  [][calm' /\ answer' = "unavailable" =>
       \/ manual_pipe_selection
       \/ pipe \notin Available \union {None} /\ pipe' = None]_vars
=============================================================================
