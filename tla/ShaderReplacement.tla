------------------------ MODULE ShaderReplacement ------------------------
(***************************************************************************)
(* The shader replacements of utils/shader.hpp over the pipeline records   *)
(* of utils/pipeline.hpp, for one device.  The game creates and destroys   *)
(* pipelines on any thread; threads that record commands resolve the       *)
(* replacement of a pipeline they bind, building it from the bytes         *)
(* registered for its shaders; the presenting thread registers and         *)
(* withdraws bytes while they do.  Every record has a lock of its own (a   *)
(* shard of the map), taken and released by each step below.               *)
(*                                                                         *)
(* Replacements change at run time only where they are resolved late       *)
(* (use_replace_async: the dev kit and the games that reload shaders), and *)
(* that is what is modelled: OnInitPipeline builds nothing, and records of *)
(* destroyed pipelines are kept.                                           *)
(***************************************************************************)
EXTENDS Naturals, FiniteSets

CONSTANTS Pipelines,     \* pipeline handles, used again by the game
          Shaders,       \* shader hashes
          Bytes,         \* replacement bytecode
          Replacements,  \* handles of replacement pipelines, used again too
          Threads,       \* threads that record commands
          MaxGenerations, MaxUpdates,  \* bounds: pipelines created, calls made
          None

ASSUME NoneAssumption == None \notin Bytes \union Replacements \union Shaders

VARIABLES
  runtime,       \* runtime_replacements: the bytes registered for a hash, or None
  handles,       \* shader_pipeline_handles
  info,          \* pipeline_infos
  generation,    \* next_pipeline_generation
  leaving,       \* pipelines in OnDestroyPipeline, and the replacement it took
  alive,         \* replacement pipelines that exist on the device
  recipe,        \* what each was built for, and from
  work,          \* WithReplacementPipeline on each thread
  update,        \* AddRuntimeReplacement or RemoveRuntimeReplacements
  updates        \* how many there were

pipelines == <<handles, info, generation, leaving>>
device    == <<alive, recipe>>
vars == <<runtime, pipelines, device, work, update, updates>>

-----------------------------------------------------------------------------
Nothing == [s \in Shaders |-> None]

(* A record that was never there behaves like a destroyed one. *)
NoInfo == [generation |-> 0, destroyed |-> TRUE, shaders |-> {},
           replacement_revision |-> 0, initialized_replacement |-> FALSE,
           replacement_pipeline |-> None]

Idle == [step |-> "idle", pipeline |-> None, generation |-> 0, revision |-> 0,
         unread |-> {}, seen |-> Nothing, candidate |-> None]

Done == [step |-> "idle", todo |-> {}, bytes |-> None, hash |-> None,
         handles |-> {}, trash |-> {}]

Init ==
  /\ runtime = Nothing
  /\ handles = [s \in Shaders |-> {}]
  /\ info = [p \in Pipelines |-> NoInfo]
  /\ generation = 0
  /\ leaving = [p \in Pipelines |-> [busy |-> FALSE, replacement |-> None]]
  /\ alive = {}
  /\ recipe = [r \in Replacements |-> [generation |-> 0, bytes |-> Nothing]]
  /\ work = [t \in Threads |-> Idle]
  /\ update = Done
  /\ updates = 0

-----------------------------------------------------------------------------
(* The game. *)

Forget(h, p) == [s \in Shaders |-> h[s] \ {p}]

(* pipeline::OnInitPipeline.  A handle that comes back without having been  *)
(* destroyed is destroyed first.                                            *)
OnInitPipeline(p, shaders) ==
  /\ ~leaving[p].busy /\ generation < MaxGenerations
  /\ generation' = generation + 1
  /\ alive' = IF info[p].destroyed THEN alive
              ELSE alive \ {info[p].replacement_pipeline}
  /\ info' = [info EXCEPT ![p] = [NoInfo EXCEPT !.generation = generation + 1,
                                                !.destroyed = FALSE,
                                                !.shaders = shaders]]
  /\ handles' = [s \in Shaders |-> IF s \in shaders THEN handles[s] \union {p}
                                   ELSE handles[s] \ {p}]
  /\ UNCHANGED <<runtime, leaving, recipe, work, update, updates>>

(* pipeline::OnDestroyPipeline, under the lock of the record ... *)
OnDestroyPipeline(p) ==
  /\ ~info[p].destroyed
  /\ leaving' = [leaving EXCEPT ![p] =
                   [busy |-> TRUE, replacement |-> info[p].replacement_pipeline]]
  /\ info' = [info EXCEPT ![p].replacement_pipeline = None,
                          ![p].destroyed = TRUE,
                          ![p].replacement_revision = @ + 1]
  /\ UNCHANGED <<runtime, handles, generation, device, work, update, updates>>

(* ... and its callback, shader::OnDestroyPipeline. *)
FinishDestroy(p) ==
  /\ leaving[p].busy
  /\ handles' = Forget(handles, p)
  /\ alive' = alive \ {leaving[p].replacement}
  /\ leaving' = [leaving EXCEPT ![p] = [busy |-> FALSE, replacement |-> None]]
  /\ UNCHANGED <<runtime, info, generation, recipe, work, update, updates>>

-----------------------------------------------------------------------------
(* WithReplacementPipeline, called for a pipeline that is bound. *)

(* The first look, under the lock. *)
Peek(t, p) ==
  /\ work[t].step = "idle"
  /\ ~info[p].destroyed /\ ~info[p].initialized_replacement
  /\ work' = [work EXCEPT ![t] =
                [Idle EXCEPT !.step = "read", !.pipeline = p,
                             !.generation = info[p].generation,
                             !.revision = info[p].replacement_revision,
                             !.unread = info[p].shaders]]
  /\ UNCHANGED <<runtime, pipelines, device, update, updates>>

(* The bytes registered for one of its shaders are copied. *)
Read(t, s) ==
  /\ work[t].step = "read" /\ s \in work[t].unread
  /\ work' = [work EXCEPT ![t].unread = @ \ {s}, ![t].seen[s] = runtime[s]]
  /\ UNCHANGED <<runtime, pipelines, device, update, updates>>

(* create_pipeline, unless no shader is replaced; it may fail. *)
Create(t) ==
  /\ work[t].step = "read" /\ work[t].unread = {}
  /\ \/ /\ work[t].seen = Nothing
        /\ work' = [work EXCEPT ![t].step = "commit"]
        /\ UNCHANGED device
     \/ /\ work[t].seen # Nothing
        /\ \E r \in Replacements \ alive :
             /\ alive' = alive \union {r}
             /\ recipe' = [recipe EXCEPT ![r] = [generation |-> work[t].generation,
                                                 bytes |-> work[t].seen]]
             /\ work' = [work EXCEPT ![t].step = "commit", ![t].candidate = r]
     \/ /\ work[t].seen # Nothing
        /\ work' = [work EXCEPT ![t] = Idle]
        /\ UNCHANGED device
  /\ UNCHANGED <<runtime, pipelines, update, updates>>

(* A bug for comparison: a record that was updated meanwhile still counts.  *)
UnchangedButUpdated(i, w) == ~i.destroyed /\ i.generation = w.generation

(* Whether a record is still the one the thread looked at. *)
Unchanged(i, w) ==
  /\ ~i.destroyed /\ i.generation = w.generation
  /\ i.replacement_revision = w.revision

(* A bug for comparison: a candidate replaces the one another thread put in. *)
CommitOver(t) ==
  LET w == work[t]
      i == info[w.pipeline] IN
  /\ w.step = "commit"
  /\ \/ /\ Unchanged(i, w)
        /\ info' = [info EXCEPT ![w.pipeline].replacement_pipeline = w.candidate,
                                ![w.pipeline].initialized_replacement = TRUE]
        /\ UNCHANGED alive
     \/ /\ ~Unchanged(i, w)
        /\ alive' = alive \ {w.candidate}
        /\ UNCHANGED info
  /\ work' = [work EXCEPT ![t] = Idle]
  /\ UNCHANGED <<runtime, handles, generation, leaving, recipe, update, updates>>

(* The candidate is put into the record, under the lock, or destroyed. *)
Commit(t) ==
  LET w == work[t]
      i == info[w.pipeline] IN
  /\ w.step = "commit"
  /\ \/ /\ Unchanged(i, w) /\ ~i.initialized_replacement
        /\ info' = [info EXCEPT ![w.pipeline].replacement_pipeline = w.candidate,
                                ![w.pipeline].initialized_replacement = TRUE]
        /\ UNCHANGED alive
     \/ /\ ~(Unchanged(i, w) /\ ~i.initialized_replacement)
        /\ alive' = alive \ {w.candidate}
        /\ UNCHANGED info
  /\ work' = [work EXCEPT ![t] = Idle]
  /\ UNCHANGED <<runtime, handles, generation, leaving, recipe, update, updates>>

-----------------------------------------------------------------------------
(* AddRuntimeReplacement and RemoveRuntimeReplacements, on the presenting   *)
(* thread.                                                                  *)

AddRuntimeReplacement(s, b) ==
  /\ update = Done /\ updates < MaxUpdates
  /\ update' = [Done EXCEPT !.step = "assign", !.todo = {s}, !.bytes = b]
  /\ updates' = updates + 1
  /\ UNCHANGED <<runtime, pipelines, device, work>>

RemoveRuntimeReplacements(filter) ==
  /\ update = Done /\ updates < MaxUpdates
  /\ \E s \in filter : runtime[s] # None
  /\ update' = [Done EXCEPT !.step = "assign",
                            !.todo = {s \in filter : runtime[s] # None}]
  /\ updates' = updates + 1
  /\ UNCHANGED <<runtime, pipelines, device, work>>

Assign(s) ==
  /\ update.step = "assign" /\ s \in update.todo
  /\ runtime' = [runtime EXCEPT ![s] = update.bytes]
  /\ update' = [update EXCEPT !.step = "copy", !.todo = @ \ {s}, !.hash = s]
  /\ UNCHANGED <<pipelines, device, work, updates>>

(* GetShaderPipelineHandles. *)
Copy ==
  /\ update.step = "copy"
  /\ update' = [update EXCEPT !.step = "invalidate", !.handles = handles[update.hash]]
  /\ UNCHANGED <<runtime, pipelines, device, work, updates>>

(* One record loses its replacement, under its lock. *)
Invalidate(p) ==
  /\ update.step = "invalidate" /\ p \in update.handles
  /\ \/ /\ update.hash \in info[p].shaders
        /\ info' = [info EXCEPT ![p].replacement_pipeline = None,
                                ![p].replacement_revision = @ + 1,
                                ![p].initialized_replacement = FALSE]
        /\ update' = [update EXCEPT !.handles = @ \ {p},
                        !.trash = @ \union ({info[p].replacement_pipeline} \ {None})]
     \/ /\ update.hash \notin info[p].shaders
        /\ update' = [update EXCEPT !.handles = @ \ {p}]
        /\ UNCHANGED info
  /\ UNCHANGED <<runtime, handles, generation, leaving, device, work, updates>>

(* The next hash, or the end: what was taken from the records is destroyed. *)
Sweep ==
  /\ update.step = "invalidate" /\ update.handles = {}
  /\ \/ /\ update.todo # {}
        /\ update' = [update EXCEPT !.step = "assign", !.hash = None]
        /\ UNCHANGED alive
     \/ /\ update.todo = {}
        /\ alive' = alive \ update.trash
        /\ update' = Done
  /\ UNCHANGED <<runtime, pipelines, recipe, work, updates>>

-----------------------------------------------------------------------------
Game ==
  \E p \in Pipelines :
    \/ \E shaders \in SUBSET Shaders : OnInitPipeline(p, shaders)
    \/ OnDestroyPipeline(p) \/ FinishDestroy(p)

Resolve(t) ==
  \/ \E p \in Pipelines : Peek(t, p)
  \/ \E s \in Shaders : Read(t, s)
  \/ Create(t) \/ Commit(t)

Call ==
  \/ \E s \in Shaders, b \in Bytes : AddRuntimeReplacement(s, b)
  \/ \E filter \in SUBSET Shaders : RemoveRuntimeReplacements(filter)

Carry ==
  \/ \E s \in Shaders : Assign(s)
  \/ Copy
  \/ \E p \in Pipelines : Invalidate(p)
  \/ Sweep

Next == Game \/ (\E t \in Threads : Resolve(t)) \/ Call \/ Carry

Spec == Init /\ [][Next]_vars

-----------------------------------------------------------------------------
Patch == [Shaders -> Bytes \union {None}]

PipelineInfo ==
  [generation : Nat, destroyed : BOOLEAN, shaders : SUBSET Shaders,
   replacement_revision : Nat, initialized_replacement : BOOLEAN,
   replacement_pipeline : Replacements \union {None}]

Work ==
  [step : {"idle", "read", "commit"}, pipeline : Pipelines \union {None},
   generation : Nat, revision : Nat, unread : SUBSET Shaders, seen : Patch,
   candidate : Replacements \union {None}]

Update ==
  [step : {"idle", "assign", "copy", "invalidate"}, todo : SUBSET Shaders,
   bytes : Bytes \union {None}, hash : Shaders \union {None},
   handles : SUBSET Pipelines, trash : SUBSET Replacements]

TypeOK ==
  /\ runtime \in Patch
  /\ handles \in [Shaders -> SUBSET Pipelines]
  /\ info \in [Pipelines -> PipelineInfo]
  /\ generation \in Nat
  /\ leaving \in [Pipelines ->
       [busy : BOOLEAN, replacement : Replacements \union {None}]]
  /\ alive \subseteq Replacements
  /\ recipe \in [Replacements -> [generation : Nat, bytes : Patch]]
  /\ work \in [Threads -> Work]
  /\ update \in Update
  /\ update.step \in {"copy", "invalidate"} => update.hash \in Shaders
  /\ updates \in Nat

(* Who holds a replacement pipeline and is to destroy it: a record, a       *)
(* pipeline that is being destroyed, a thread that built it, or the update. *)
Holders == ({"record", "destroy"} \X Pipelines) \union ({"candidate"} \X Threads)
             \union {<<"update", None>>}

Held(h) ==
  CASE h[1] = "record"    -> {info[h[2]].replacement_pipeline} \ {None}
    [] h[1] = "destroy"   -> {leaving[h[2]].replacement} \ {None}
    [] h[1] = "candidate" -> {work[h[2]].candidate} \ {None}
    [] h[1] = "update"    -> update.trash

(* A replacement pipeline that exists has exactly one holder, and one that  *)
(* does not exist has none: none is leaked, and none is destroyed twice or  *)
(* taken by a record after its destruction, however pipelines come and go   *)
(* while threads build for them and updates withdraw what they built.       *)
EveryReplacementHasOneHolder ==
  /\ UNION {Held(h) : h \in Holders} = alive
  /\ \A g, h \in Holders : g # h => Held(g) \intersect Held(h) = {}

(* What a pipeline's shaders are replaced by, and whether its replacement   *)
(* was made for it and from that; it has none if nothing is registered.     *)
Wanted(p) == [s \in Shaders |-> IF s \in info[p].shaders THEN runtime[s] ELSE None]

Current(p) ==
  LET r == info[p].replacement_pipeline IN
  IF r = None THEN Wanted(p) = Nothing
  ELSE recipe[r] = [generation |-> info[p].generation, bytes |-> Wanted(p)]

(* When no update is under way, every pipeline that counts as resolved has   *)
(* the replacement for the bytes registered now: a thread that was building  *)
(* from older bytes while they were exchanged does not put its result in.    *)
ReplacementsAreCurrent ==
  update = Done =>
    \A p \in Pipelines :
      ~info[p].destroyed /\ info[p].initialized_replacement => Current(p)
=============================================================================
