----------------------------- MODULE ShaderWatcher -----------------------------
(***************************************************************************)
(* Live shaders: src/utils/shader_compiler_watcher.hpp and the part of the  *)
(* dev kit that consumes its results (src/addons/devkit/addon.cpp).  A      *)
(* worker thread arms a directory notification, compiles what changed and   *)
(* queues the results; the present thread takes them and activates the      *)
(* replacements, starts and stops the worker, and on demand compiles on its *)
(* own.  An editor writes and deletes files at any moment, also while they  *)
(* are compiled.                                                            *)
(*                                                                         *)
(* The watched directory is fixed and one device presents.                  *)
(***************************************************************************)
EXTENDS Naturals

CONSTANTS
  Shader,         \* hashes of the shaders the directory may hold files for
  Sessions,       \* what may happen in a session, one record of bounds for each
  None            \* no entry

ASSUME WatcherAssumption ==
  /\ Sessions \subseteq [shaders : SUBSET Shader,    \* those whose files change
                         edits : Nat,      \* writes and deletions
                         defines : Nat,    \* calls of SetShaderDefines
                         toggles : Nat,    \* of "Live Shaders"
                         manual : Nat,     \* loads and unloads by hand
                         faults : BOOLEAN] \* may scanning and arming fail?
  /\ None \notin Nat \X Nat

Thread == {"worker", "present"}

VARIABLES
  session,      \* which of the sessions this is
  \* the directory (external): when each file was last written, 0 if absent
  file, edits,
  \* the watcher's shared state
  enabled, running, changed, compilePending,
  mutex,        \* the thread that holds it exclusively, or None
  cache,        \* custom_shaders_cache
  metadata,     \* build_metadata_cache
  pending,      \* pending_custom_shaders_cache
  defines,      \* shared_shader_defines_revision
  \* the directory notification
  armed,        \* ReadDirectoryChangesExW is outstanding
  fired,        \* it completed: the worker's callback is queued
  \* the worker thread
  worker,       \* where it is; "none": no thread
  \* CompileCustomShaders, for each thread that may be in it
  scan,         \* where it is
  todo, listed, \* files still to look at, files found
  entry,        \* the file it compiles and the metadata collected for it
  \* the present thread
  frame,        \* where it is
  live,         \* setting_live_reload
  taken,        \* the shaders it took from the watcher
  active,       \* the replacements in use
  toggles, manual

disk == <<session, file, edits>>
flags == <<enabled, running, changed, compilePending>>
caches == <<cache, metadata, pending>>
notification == <<armed, fired>>
scanner == <<scan, todo, listed, entry>>
user == <<live, toggles, manual>>
presenting == <<frame, taken, active>>
vars == <<disk, flags, mutex, caches, defines, notification, worker, scanner, user, presenting>>

\* A CustomShader: what was compiled, with which defines.  A file that cannot
\* be read leaves an exception instead, and `removed' marks a file that is gone.
Failed == <<0, 0>>
Removed == <<0, 1>>
Compiled(written) == IF written = 0 THEN Failed ELSE <<written, defines + 2>>

\* What the dev kit makes of it.
Usable(shader) == IF shader \in {None, Failed, Removed} THEN None ELSE shader

Init ==
  /\ session \in Sessions
  /\ file \in {f \in [Shader -> {0, 1}] : \A h \in Shader \ session.shaders : f[h] = 0}
  /\ edits = 1
  /\ enabled = FALSE /\ running = FALSE /\ changed = FALSE /\ compilePending = FALSE
  /\ mutex = None
  /\ cache = [h \in Shader |-> None] /\ metadata = [h \in Shader |-> None]
  /\ pending = [h \in Shader |-> None]
  /\ defines = 0
  /\ armed = FALSE /\ fired = FALSE
  /\ worker = "none"
  /\ scan = [t \in Thread |-> "none"]
  /\ todo = [t \in Thread |-> {}] /\ listed = [t \in Thread |-> {}]
  /\ entry = [t \in Thread |-> None]
  /\ frame = "idle" /\ live = FALSE
  /\ taken = [h \in Shader |-> None] /\ active = [h \in Shader |-> None]
  /\ toggles = 0 /\ manual = 0

(***************************************************************************)
(* The editor.  A change completes an outstanding notification.            *)
(***************************************************************************)
Edit(h, written) ==
  /\ edits < session.edits
  /\ written # file[h]
  /\ edits' = edits + 1
  /\ file' = [file EXCEPT ![h] = written]
  /\ fired' = (fired \/ armed)
  /\ armed' = FALSE
  /\ UNCHANGED <<session, flags, mutex, caches, defines, worker, scanner, user, presenting>>

Editor == \E h \in session.shaders : Edit(h, edits + 1) \/ Edit(h, 0)

-----------------------------------------------------------------------------
(***************************************************************************)
(* CompileCustomShaders, called by thread t.                               *)
(***************************************************************************)
ScanLock(t) ==
  /\ scan[t] = "lock" /\ mutex = None
  /\ mutex' = t
  /\ scan' = [scan EXCEPT ![t] = "list"]
  /\ UNCHANGED <<disk, flags, caches, defines, notification, worker, todo, listed, entry,
                 user, presenting>>

ScanList(t) ==
  /\ scan[t] = "list"
  /\ todo' = [todo EXCEPT ![t] = {h \in Shader : file[h] # 0}]
  /\ listed' = [listed EXCEPT ![t] = {h \in Shader : file[h] # 0}]
  /\ scan' = [scan EXCEPT ![t] = "next"]
  /\ UNCHANGED <<disk, flags, mutex, caches, defines, notification, worker, entry,
                 user, presenting>>

\* Defect for comparison: the mutex is not released.
ScanFailsLocked(t) ==
  /\ scan[t] \in {"list", "next"} /\ session.faults
  /\ scan' = [scan EXCEPT ![t] = "none"]
  /\ todo' = [todo EXCEPT ![t] = {}] /\ listed' = [listed EXCEPT ![t] = {}]
  /\ UNCHANGED <<disk, flags, mutex, caches, defines, notification, worker, entry, user,
                 presenting>>

\* The directory iteration, or the look at a file, throws: the scan is given up,
\* with what it has queued so far and nothing removed.
ScanFails(t) ==
  /\ scan[t] \in {"list", "next"} /\ session.faults
  /\ mutex' = None
  /\ scan' = [scan EXCEPT ![t] = "none"]
  /\ todo' = [todo EXCEPT ![t] = {}] /\ listed' = [listed EXCEPT ![t] = {}]
  /\ UNCHANGED <<disk, flags, caches, defines, notification, worker, entry, user, presenting>>

\* The metadata of the next file is collected; if it is what the cached build
\* was made from, the file is skipped.
ScanStamp(t) ==
  /\ scan[t] = "next"
  /\ \E h \in todo[t] :
       /\ todo' = [todo EXCEPT ![t] = @ \ {h}]
       /\ LET stamp == <<file[h], defines>>
          IN  IF metadata[h] = stamp /\ cache[h] # None
                THEN UNCHANGED <<scan, entry>>
                ELSE /\ scan' = [scan EXCEPT ![t] = "compile"]
                     /\ entry' = [entry EXCEPT ![t] = <<h, stamp>>]
  /\ UNCHANGED <<disk, flags, mutex, caches, defines, notification, worker, listed,
                 user, presenting>>

\* Defect for comparison: the metadata is collected after the compilation.
ScanCompileStampingLate(t) ==
  /\ scan[t] = "compile"
  /\ LET h == entry[t][1]
         old == entry[t][2][1]
         shader == Compiled(old)
     IN  /\ metadata' = [metadata EXCEPT ![h] = <<file[h], defines>>]
         /\ cache' = [cache EXCEPT ![h] = shader]
         /\ IF cache[h] = shader
              THEN UNCHANGED <<pending, changed>>
              ELSE pending' = [pending EXCEPT ![h] = shader] /\ changed' = TRUE
  /\ scan' = [scan EXCEPT ![t] = "next"]
  /\ entry' = [entry EXCEPT ![t] = None]
  /\ UNCHANGED <<disk, enabled, running, compilePending, mutex, defines, notification, worker,
                 todo, listed, user, presenting>>

\* The file is compiled as it is by now, and queued if the result differs.
ScanCompile(t) ==
  /\ scan[t] = "compile"
  /\ LET h == entry[t][1]
         shader == Compiled(file[h])
     IN  /\ metadata' = [metadata EXCEPT ![h] = entry[t][2]]
         /\ cache' = [cache EXCEPT ![h] = shader]
         /\ IF cache[h] = shader
              THEN UNCHANGED <<pending, changed>>
              ELSE pending' = [pending EXCEPT ![h] = shader] /\ changed' = TRUE
  /\ scan' = [scan EXCEPT ![t] = "next"]
  /\ entry' = [entry EXCEPT ![t] = None]
  /\ UNCHANGED <<disk, enabled, running, compilePending, mutex, defines, notification, worker,
                 todo, listed, user, presenting>>

\* Defect for comparison: what is gone leaves the cache but is not queued.
ScanEndSilently(t) ==
  /\ scan[t] = "next" /\ todo[t] = {}
  /\ LET gone == {h \in Shader \ listed[t] : metadata[h] # None}
     IN  /\ metadata' = [h \in Shader |-> IF h \in gone THEN None ELSE metadata[h]]
         /\ cache' = [h \in Shader |-> IF h \in gone THEN None ELSE cache[h]]
  /\ pending' = pending
  /\ changed' = (\E h \in Shader : pending[h] # None)
  /\ mutex' = None
  /\ scan' = [scan EXCEPT ![t] = "none"]
  /\ listed' = [listed EXCEPT ![t] = {}]
  /\ UNCHANGED <<disk, enabled, running, compilePending, defines, notification, worker,
                 todo, entry, user, presenting>>

\* What is cached and was not found is queued as removed.
ScanEnd(t) ==
  /\ scan[t] = "next" /\ todo[t] = {}
  /\ LET gone == {h \in Shader \ listed[t] : metadata[h] # None}
     IN  /\ metadata' = [h \in Shader |-> IF h \in gone THEN None ELSE metadata[h]]
         /\ cache' = [h \in Shader |-> IF h \in gone THEN None ELSE cache[h]]
         /\ pending' = [h \in Shader |->
                          IF h \in gone /\ cache[h] # None THEN Removed ELSE pending[h]]
         /\ changed' = ((\E h \in Shader : pending'[h] # None)
                          /\ (changed \/ \E h \in gone : cache[h] # None))
  /\ mutex' = None
  /\ scan' = [scan EXCEPT ![t] = "none"]
  /\ listed' = [listed EXCEPT ![t] = {}]
  /\ UNCHANGED <<disk, enabled, running, compilePending, defines, notification, worker,
                 todo, entry, user, presenting>>

Scan(t) ==
  ScanLock(t) \/ ScanList(t) \/ ScanFails(t) \/ ScanStamp(t) \/ ScanCompile(t) \/ ScanEnd(t)

-----------------------------------------------------------------------------
(***************************************************************************)
(* Watch, the worker's loop.                                               *)
(***************************************************************************)

\* The top of the loop: the worker was disabled and gives the directory up.
WorkerEnd ==
  /\ worker = "top" /\ ~enabled
  /\ running' = FALSE
  /\ armed' = FALSE /\ fired' = FALSE
  /\ worker' = "ended"
  /\ UNCHANGED <<disk, enabled, changed, compilePending, mutex, caches, defines, scanner,
                 user, presenting>>

WorkerGo ==
  /\ worker = "top" /\ enabled
  /\ worker' = "arm"
  /\ UNCHANGED <<disk, flags, mutex, caches, defines, notification, scanner, user, presenting>>

\* The directory's path is read under the mutex; the notification is armed
\* before anything is compiled.
WorkerArm ==
  /\ worker = "arm" /\ mutex = None
  /\ worker' = "take"
  /\ \/ running /\ UNCHANGED <<running, armed>>
     \/ ~running /\ running' = TRUE /\ armed' = TRUE
     \/ ~running /\ session.faults /\ UNCHANGED <<running, armed>>
  /\ UNCHANGED <<disk, enabled, changed, compilePending, mutex, caches, defines, fired, scanner,
                 user, presenting>>

\* shared_compile_pending.exchange(false).
WorkerTake ==
  /\ worker = "take"
  /\ compilePending' = FALSE
  /\ worker' = IF compilePending THEN "scan" ELSE "wait"
  /\ scan' = [scan EXCEPT !["worker"] = IF compilePending THEN "lock" ELSE "none"]
  /\ UNCHANGED <<disk, enabled, running, changed, mutex, caches, defines, notification,
                 todo, listed, entry, user, presenting>>

WorkerScanned ==
  /\ worker = "scan" /\ scan["worker"] = "none"
  /\ worker' = "wait"
  /\ UNCHANGED <<disk, flags, mutex, caches, defines, notification, scanner, user, presenting>>

\* Defect for comparison: the callback only marks the watch as over.
WorkerCallbackQuiet ==
  /\ worker = "wait" /\ running /\ fired
  /\ fired' = FALSE /\ running' = FALSE
  /\ worker' = "top"
  /\ UNCHANGED <<disk, enabled, changed, compilePending, mutex, caches, defines, armed, scanner,
                 user, presenting>>

\* The alertable wait runs HandleEventCallback.
WorkerCallback ==
  /\ worker = "wait" /\ running /\ fired
  /\ fired' = FALSE /\ running' = FALSE
  /\ compilePending' = TRUE
  /\ worker' = "top"
  /\ UNCHANGED <<disk, enabled, changed, mutex, caches, defines, armed, scanner,
                 user, presenting>>

\* The wait, or the sleep of a worker without a notification, times out.
WorkerTimeout ==
  /\ worker = "wait" /\ ~(running /\ fired)
  /\ worker' = "top"
  /\ UNCHANGED <<disk, flags, mutex, caches, defines, notification, scanner, user, presenting>>

Worker ==
  \/ WorkerEnd \/ WorkerGo \/ WorkerArm \/ WorkerTake \/ WorkerScanned
  \/ WorkerCallback \/ WorkerTimeout \/ Scan("worker")

-----------------------------------------------------------------------------
(***************************************************************************)
(* The present thread: what the user asks for between two presents.        *)
(***************************************************************************)
Toggle ==
  /\ frame = "idle" /\ toggles < session.toggles
  /\ toggles' = toggles + 1
  /\ live' = ~live
  /\ UNCHANGED <<disk, flags, mutex, caches, defines, notification, worker, scanner, manual,
                 presenting>>

\* Defect for comparison: nobody is told to compile again.
SetShaderDefinesQuietly ==
  /\ frame = "idle" /\ mutex = None /\ defines < session.defines
  /\ defines' = defines + 1
  /\ UNCHANGED <<disk, flags, mutex, caches, notification, worker, scanner, user, presenting>>

SetShaderDefines ==
  /\ frame = "idle" /\ mutex = None /\ defines < session.defines
  /\ defines' = defines + 1
  /\ compilePending' = TRUE
  /\ UNCHANGED <<disk, enabled, running, changed, mutex, caches, notification, worker, scanner,
                 user, presenting>>

\* "Load Shaders": live shaders are switched off, and the present thread
\* compiles on its own, beside a worker that has not been stopped yet.
Load ==
  /\ frame = "idle" /\ manual < session.manual
  /\ manual' = manual + 1
  /\ live' = FALSE
  /\ scan' = [scan EXCEPT !["present"] = "lock"]
  /\ frame' = "load"
  /\ UNCHANGED <<disk, flags, mutex, caches, defines, notification, worker, todo, listed, entry,
                 toggles, taken, active>>

LoadGet ==
  /\ frame = "load" /\ scan["present"] = "none" /\ mutex = None
  /\ taken' = cache
  /\ frame' = "discard"
  /\ UNCHANGED <<disk, flags, mutex, caches, defines, notification, worker, scanner, user, active>>

\* FlushCompiledShaders, its result unused.
LoadFlush ==
  /\ frame = "discard" /\ mutex = None
  /\ pending' = [h \in Shader |-> None]
  /\ changed' = FALSE
  /\ frame' = "apply"
  /\ UNCHANGED <<disk, enabled, running, compilePending, mutex, cache, metadata, defines,
                 notification, worker, scanner, user, taken, active>>

\* "Unload Shaders".
Unload ==
  /\ frame = "idle" /\ manual < session.manual
  /\ manual' = manual + 1
  /\ live' = FALSE
  /\ active' = [h \in Shader |-> None]
  /\ scan' = [scan EXCEPT !["present"] = "lock"]
  /\ frame' = "unload"
  /\ UNCHANGED <<disk, flags, mutex, caches, defines, notification, worker, todo, listed, entry,
                 toggles, taken>>

UnloadReturn ==
  /\ frame = "unload" /\ scan["present"] = "none"
  /\ frame' = "idle"
  /\ UNCHANGED <<disk, flags, mutex, caches, defines, notification, worker, scanner, user,
                 taken, active>>

(***************************************************************************)
(* OnPresent.                                                              *)
(***************************************************************************)

\* Live: the worker is started if it is not enabled, and HasChanged is read next.
PresentLive ==
  /\ frame = "idle" /\ live
  /\ frame' = "check"
  /\ IF enabled
       THEN UNCHANGED <<enabled, compilePending, worker>>
       ELSE enabled' = TRUE /\ compilePending' = TRUE /\ worker' = "top"
  /\ UNCHANGED <<disk, running, changed, mutex, caches, defines, notification, scanner, user,
                 taken, active>>

PresentCheck ==
  /\ frame = "check"
  /\ frame' = IF changed THEN "flush" ELSE "idle"
  /\ UNCHANGED <<disk, flags, mutex, caches, defines, notification, worker, scanner, user,
                 taken, active>>

\* FlushCompiledShaders.
PresentFlush ==
  /\ frame = "flush" /\ mutex = None
  /\ taken' = pending
  /\ pending' = [h \in Shader |-> None]
  /\ changed' = FALSE
  /\ frame' = "apply"
  /\ UNCHANGED <<disk, enabled, running, compilePending, mutex, cache, metadata, defines,
                 notification, worker, scanner, user, active>>

PresentApply ==
  /\ frame = "apply"
  /\ active' = [h \in Shader |-> IF taken[h] = None THEN active[h] ELSE Usable(taken[h])]
  /\ taken' = [h \in Shader |-> None]
  /\ frame' = "idle"
  /\ UNCHANGED <<disk, flags, mutex, caches, defines, notification, worker, scanner, user>>

\* Not live: Stop, and wait for the worker to end.
PresentStop ==
  /\ frame = "idle" /\ ~live /\ enabled
  /\ enabled' = FALSE
  /\ frame' = "joining"
  /\ UNCHANGED <<disk, running, changed, compilePending, mutex, caches, defines, notification,
                 worker, scanner, user, taken, active>>

PresentJoin ==
  /\ frame = "joining" /\ worker = "ended"
  /\ worker' = "none"
  /\ frame' = "idle"
  /\ UNCHANGED <<disk, flags, mutex, caches, defines, notification, scanner, user, taken, active>>

Present ==
  \/ LoadGet \/ LoadFlush \/ UnloadReturn \/ Scan("present")
  \/ PresentLive \/ PresentCheck \/ PresentFlush \/ PresentApply \/ PresentStop \/ PresentJoin

User == Toggle \/ SetShaderDefines \/ Load \/ Unload

Next == Editor \/ Worker \/ User \/ Present

Spec == Init /\ [][Next]_vars

\* Both threads run on and the game goes on presenting; the user and the editor
\* need not do anything.
FairSpec == Spec /\ WF_vars(Worker) /\ WF_vars(Present)

-----------------------------------------------------------------------------
\* The watcher's flags, maps and positions in the code.
Entry == Nat \X Nat

FileTypes ==
  /\ session \in Sessions
  /\ file \in [Shader -> Nat] /\ edits \in Nat /\ defines \in Nat

FlagTypes ==
  /\ enabled \in BOOLEAN /\ running \in BOOLEAN /\ changed \in BOOLEAN
  /\ compilePending \in BOOLEAN /\ armed \in BOOLEAN /\ fired \in BOOLEAN
  /\ mutex \in Thread \union {None}
  /\ worker \in {"none", "top", "arm", "take", "scan", "wait", "ended"}

CacheTypes ==
  /\ cache \in [Shader -> Entry \union {None}]
  /\ metadata \in [Shader -> Entry \union {None}]
  /\ pending \in [Shader -> Entry \union {None}]

ScanTypes ==
  /\ scan \in [Thread -> {"none", "lock", "list", "next", "compile"}]
  /\ todo \in [Thread -> SUBSET Shader] /\ listed \in [Thread -> SUBSET Shader]
  /\ entry \in [Thread -> (Shader \X Entry) \union {None}]

PresentTypes ==
  /\ frame \in {"idle", "load", "discard", "unload", "check", "flush", "apply", "joining"}
  /\ taken \in [Shader -> Entry \union {None}]
  /\ active \in [Shader -> Entry \union {None}]
  /\ live \in BOOLEAN /\ toggles \in Nat /\ manual \in Nat

TypeOK == FileTypes /\ FlagTypes /\ CacheTypes /\ ScanTypes /\ PresentTypes

\* A build is never taken for the build of a newer file: if the metadata says
\* that the file on disk was compiled, the cached shader is the one compiled
\* from it, also when the file was written while it was read.
MetadataNeverFlatters ==
  \A h \in Shader :
    file[h] # 0 /\ metadata[h] = <<file[h], defines>> => cache[h] = Compiled(file[h])

\* What a shader will be once the present thread has applied what it took and
\* what is queued.
Upcoming(h) ==
  IF pending[h] # None THEN Usable(pending[h])
  ELSE IF frame = "apply" /\ taken[h] # None THEN Usable(taken[h])
  ELSE active[h]

\* Nobody loads or unloads by hand, and no system call fails.
Undisturbed == session.manual = 0 /\ ~session.faults

\* The replacements in use and the updates on their way add up to the cache: no
\* update is lost between the two threads, none is applied twice or out of order.
UpdatesAddUp == Undisturbed => \A h \in Shader : Upcoming(h) = Usable(cache[h])

\* While a worker rests, every difference between the directory and its builds
\* has been signalled to it, provided that arming did not fail.
NoChangeGoesUnnoticed ==
  Undisturbed /\ worker = "wait" /\ running /\ ~fired /\ ~compilePending =>
    \A h \in Shader :
      IF file[h] = 0 THEN cache[h] = None ELSE metadata[h] = <<file[h], defines>>

\* If live shaders stay on and the editor rests, the replacements in use are in
\* the end those of the files on disk with the defines that are set.
LiveShadersConverge ==
  <>[](Undisturbed /\ live) => <>[](\A h \in Shader : active[h] = Usable(Compiled(file[h])))

\* Switching live shaders off stops the worker and never hangs the present
\* thread, whatever scan is under way.
PresentNeverHangs == frame # "idle" ~> frame = "idle"
=============================================================================
