--------------------- MODULE ShaderReplacement_proofs ---------------------
(***************************************************************************)
(* No replacement pipeline is leaked or destroyed twice, and pipelines      *)
(* follow the registered bytes, for any number of pipelines, shaders,       *)
(* threads and updates.                                                     *)
(***************************************************************************)
EXTENDS ShaderReplacement, TLAPS

\* What each record and each thread says about itself.
LocalInv ==
  /\ \A p \in Pipelines :
       /\ info[p].destroyed \/ ~info[p].initialized_replacement
            => info[p].replacement_pipeline = None
       /\ leaving[p].busy => info[p].destroyed
       /\ ~leaving[p].busy => leaving[p].replacement = None
       /\ info[p].generation <= generation
  /\ \A t \in Threads :
       /\ work[t].step # "idle" => work[t].pipeline \in Pipelines
       /\ work[t].step # "commit" => work[t].candidate = None
       /\ work[t].generation <= generation

\* F says what each of the holders in D holds; everything in A has one holder.
Each(D, F, A) ==
  /\ \A h \in D : F[h] \subseteq A
  /\ \A r \in A : \E h \in D : r \in F[h]
  /\ \A g, h \in D : g # h => F[g] \intersect F[h] = {}

Owner == [h \in Holders |-> Held(h)]

\* The update under way has yet to invalidate p for s.
PendingFor(p, s) ==
  /\ update.hash = s
  /\ update.step = "copy" \/ (update.step = "invalidate" /\ p \in update.handles)

\* A record is current, or the update will see that it is not.
RecordInv(p) ==
  ~info[p].destroyed =>
    /\ \A s \in info[p].shaders : p \in handles[s]
    /\ info[p].initialized_replacement =>
         Current(p) \/ \E s \in info[p].shaders : PendingFor(p, s)

\* So is what a thread read, as long as the record is the one it looked at.
WorkInv(t) ==
  LET w == work[t]
      i == info[w.pipeline] IN
  w.step # "idle" =>
    /\ i.generation = w.generation => w.revision <= i.replacement_revision
    /\ w.step = "commit" =>
         /\ w.unread = {}
         /\ w.candidate = None => w.seen = Nothing
         /\ w.candidate # None =>
              recipe[w.candidate] = [generation |-> w.generation, bytes |-> w.seen]
    /\ Unchanged(i, w) =>
         /\ w.unread \subseteq i.shaders
         /\ \A s \in Shaders \ i.shaders : w.seen[s] = None
         /\ \A s \in i.shaders \ w.unread : w.seen[s] = runtime[s] \/ PendingFor(w.pipeline, s)

FreshInv == (\A p \in Pipelines : RecordInv(p)) /\ (\A t \in Threads : WorkInv(t))

Inv == TypeOK /\ LocalInv /\ Each(Holders, Owner, alive)

-----------------------------------------------------------------------------
\* The records the steps build keep to their types.
LEMMA InfoRecords ==
  ASSUME NEW n \in Nat, NEW S \in SUBSET Shaders
  PROVE [NoInfo EXCEPT !.generation = n, !.destroyed = FALSE, !.shaders = S]
          \in PipelineInfo
  BY DEF NoInfo, PipelineInfo

LEMMA ResolvedRecords ==
  ASSUME NEW i \in PipelineInfo, NEW r \in Replacements \union {None}
  PROVE [i EXCEPT !.replacement_pipeline = r, !.initialized_replacement = TRUE]
          \in PipelineInfo
  BY DEF PipelineInfo

LEMMA UpdateRecords ==
  ASSUME NEW u \in Update, NEW P, NEW R \in SUBSET Replacements
  PROVE /\ [u EXCEPT !.handles = @ \ P] \in Update
        /\ [u EXCEPT !.handles = @ \ P, !.trash = @ \union R] \in Update
  BY DEF Update

\* Every variable keeps to its type.
LEMMA TypeStep == TypeOK /\ [Next]_vars => TypeOK'
<1> SUFFICES ASSUME TypeOK, [Next]_vars PROVE TypeOK'
  OBVIOUS
<1> USE DEF TypeOK, pipelines, device
<1>0. /\ Nothing \in Patch /\ NoInfo \in PipelineInfo /\ Idle \in Work /\ Done \in Update
  BY DEF Nothing, NoInfo, Idle, Done, Patch, PipelineInfo, Work, Update
<1>1. ASSUME NEW p \in Pipelines, NEW shaders \in SUBSET Shaders, OnInitPipeline(p, shaders)
      PROVE TypeOK'
  <2>1. [NoInfo EXCEPT !.generation = generation + 1, !.destroyed = FALSE,
                       !.shaders = shaders] \in PipelineInfo
    <3>1. generation + 1 \in Nat
      OBVIOUS
    <3> QED
      BY <3>1, InfoRecords, Zenon
  <2>2. info' \in [Pipelines -> PipelineInfo]
    BY <1>1, <2>1 DEF OnInitPipeline
  <2>3. handles' \in [Shaders -> SUBSET Pipelines]
    BY <1>1 DEF OnInitPipeline
  <2> QED
    BY <1>1, <2>2, <2>3 DEF OnInitPipeline
<1>2. ASSUME NEW p \in Pipelines, OnDestroyPipeline(p)
      PROVE TypeOK'
  BY <1>2 DEF OnDestroyPipeline, PipelineInfo
<1>3. ASSUME NEW p \in Pipelines, FinishDestroy(p)
      PROVE TypeOK'
  BY <1>3 DEF FinishDestroy, Forget
<1>4. ASSUME NEW t \in Threads, NEW p \in Pipelines, Peek(t, p)
      PROVE TypeOK'
  <2>1. [Idle EXCEPT !.step = "read", !.pipeline = p, !.generation = info[p].generation,
                     !.revision = info[p].replacement_revision,
                     !.unread = info[p].shaders] \in Work
    BY <1>0 DEF Work, PipelineInfo
  <2> QED
    BY <1>4, <2>1 DEF Peek
<1>5. ASSUME NEW t \in Threads, NEW s \in Shaders, Read(t, s)
      PROVE TypeOK'
  <2>1. [work[t].seen EXCEPT ![s] = runtime[s]] \in Patch
    BY DEF Patch, Work
  <2>2. [work[t] EXCEPT !.unread = @ \ {s}, !.seen = [@ EXCEPT ![s] = runtime[s]]] \in Work
    BY <2>1 DEF Work
  <2>3. work' \in [Threads -> Work]
    BY <1>5, <2>2 DEF Read
  <2> QED
    BY <1>5, <2>3 DEF Read
<1>6. ASSUME NEW t \in Threads, Create(t)
      PROVE TypeOK'
  <2>1. CASE UNCHANGED device
    <3>1. [work[t] EXCEPT !.step = "commit"] \in Work
      BY DEF Work
    <3>2. work' \in [Threads -> Work]
      BY <1>0, <1>6, <2>1, <3>1 DEF Create
    <3> QED
      BY <1>6, <2>1, <3>2 DEF Create
  <2>2. ASSUME NEW r \in Replacements \ alive,
               recipe' = [recipe EXCEPT ![r] = [generation |-> work[t].generation,
                                               bytes |-> work[t].seen]],
               alive' = alive \union {r},
               work' = [work EXCEPT ![t].step = "commit", ![t].candidate = r]
        PROVE TypeOK'
    <3>1. recipe' \in [Replacements -> [generation : Nat, bytes : Patch]]
      BY <2>2 DEF Work
    <3>2. [work[t] EXCEPT !.step = "commit", !.candidate = r] \in Work
      BY DEF Work
    <3>3. work' \in [Threads -> Work]
      BY <2>2, <3>2
    <3> QED
      BY <1>6, <2>2, <3>1, <3>3 DEF Create
  <2> QED
    BY <1>6, <2>1, <2>2 DEF Create
<1>7. ASSUME NEW t \in Threads, Commit(t)
      PROVE TypeOK'
  <2>1. work' \in [Threads -> Work]
    BY <1>0, <1>7 DEF Commit
  <2>2. info' \in [Pipelines -> PipelineInfo]
    <3>1. work[t].candidate \in Replacements \union {None}
      BY DEF Work
    <3>2. CASE UNCHANGED info
      BY <3>2
    <3>3. CASE work[t].pipeline \in Pipelines
      <4>1. info[work[t].pipeline] \in PipelineInfo
        BY <3>3
      <4>2. [info[work[t].pipeline] EXCEPT !.replacement_pipeline = work[t].candidate,
                                           !.initialized_replacement = TRUE]
              \in PipelineInfo
        BY <3>1, <4>1, ResolvedRecords
      <4> QED
        BY <1>7, <4>2 DEF Commit
    <3>4. CASE work[t].pipeline \notin Pipelines
      BY <1>7, <3>4 DEF Commit
    <3> QED
      BY <3>2, <3>3, <3>4
  <2> QED
    BY <1>7, <2>1, <2>2 DEF Commit
<1>8. ASSUME NEW s \in Shaders, NEW b \in Bytes, AddRuntimeReplacement(s, b)
      PROVE TypeOK'
  <2>1. [Done EXCEPT !.step = "assign", !.todo = {s}, !.bytes = b] \in Update
    BY <1>0 DEF Update
  <2>2. update' = [Done EXCEPT !.step = "assign", !.todo = {s}, !.bytes = b]
    BY <1>8 DEF AddRuntimeReplacement
  <2>3. update'.step = "assign"
    BY <2>2 DEF Done
  <2> QED
    BY <1>8, <2>1, <2>2, <2>3 DEF AddRuntimeReplacement
<1>9. ASSUME NEW filter \in SUBSET Shaders, RemoveRuntimeReplacements(filter)
      PROVE TypeOK'
  <2>1. [Done EXCEPT !.step = "assign", !.todo = {s \in filter : runtime[s] # None}]
          \in Update
    BY <1>0 DEF Update
  <2>2. update' = [Done EXCEPT !.step = "assign", !.todo = {s \in filter : runtime[s] # None}]
    BY <1>9 DEF RemoveRuntimeReplacements
  <2>3. update'.step = "assign"
    BY <2>2 DEF Done
  <2> QED
    BY <1>9, <2>1, <2>2, <2>3 DEF RemoveRuntimeReplacements
<1>10. ASSUME NEW s \in Shaders, Assign(s)
       PROVE TypeOK'
  BY <1>10 DEF Assign, Update, Patch
<1>11. ASSUME Copy
       PROVE TypeOK'
  BY <1>11 DEF Copy, Update
<1>12. ASSUME NEW p \in Pipelines, Invalidate(p)
       PROVE TypeOK'
  <2>1. info' \in [Pipelines -> PipelineInfo]
    BY <1>12 DEF Invalidate, PipelineInfo
  <2>2. {info[p].replacement_pipeline} \ {None} \in SUBSET Replacements
    BY DEF PipelineInfo
  <2>3. update' \in Update /\ update'.step = update.step /\ update'.hash = update.hash
    <3>1. \/ update' = [update EXCEPT !.handles = @ \ {p}]
          \/ update' = [update EXCEPT !.handles = @ \ {p},
                         !.trash = @ \union ({info[p].replacement_pipeline} \ {None})]
      BY <1>12 DEF Invalidate
    <3>2. update' \in Update
      <4> DEFINE R == {info[p].replacement_pipeline} \ {None}
      <4>1. update \in Update /\ R \in SUBSET Replacements
        BY <2>2
      <4> HIDE DEF R
      <4>2. /\ [update EXCEPT !.handles = @ \ {p}] \in Update
            /\ [update EXCEPT !.handles = @ \ {p}, !.trash = @ \union R] \in Update
        BY <4>1, UpdateRecords, Zenon
      <4> QED
        BY <3>1, <4>2 DEF R
    <3> QED
      BY <3>1, <3>2 DEF Update
  <2> QED
    BY <1>12, <2>1, <2>3 DEF Invalidate
<1>13. ASSUME Sweep
       PROVE TypeOK'
  <2>1. CASE update.todo # {}
    BY <1>13, <2>1 DEF Sweep, Update
  <2>2. CASE update.todo = {}
    <3>1. update' = Done /\ Done.step = "idle"
      BY <1>13, <2>2 DEF Sweep, Done
    <3> QED
      BY <1>0, <1>13, <3>1 DEF Sweep
  <2> QED
    BY <2>1, <2>2
<1>14. CASE UNCHANGED vars
  BY <1>14 DEF vars
<1> QED
  BY <1>1, <1>2, <1>3, <1>4, <1>5, <1>6, <1>7, <1>8, <1>9, <1>10, <1>11, <1>12,
     <1>13, <1>14
     DEF Next, Game, Resolve, Call, Carry

-----------------------------------------------------------------------------
\* The three things a step can do to what is held: one holder passes it to
\* another, destroys it, or takes a new replacement pipeline.
LEMMA Passed ==
  ASSUME NEW D, NEW F, NEW G, NEW A, NEW g \in D, NEW h \in D, g # h,
         Each(D, F, A), G[g] = {}, G[h] = F[g] \union F[h],
         \A k \in D \ {g, h} : G[k] = F[k]
  PROVE Each(D, G, A)
<1>1. \A k \in D : G[k] \subseteq A
  BY DEF Each
<1>2. \A r \in A : \E k \in D : r \in G[k]
  <2> SUFFICES ASSUME NEW r \in A PROVE \E k \in D : r \in G[k]
    OBVIOUS
  <2>1. PICK k \in D : r \in F[k]
    BY DEF Each
  <2>2. CASE k \in {g, h}
    BY <2>1, <2>2
  <2>3. CASE k \notin {g, h}
    BY <2>1, <2>3
  <2> QED
    BY <2>2, <2>3
<1>3. \A k, l \in D : k # l => G[k] \intersect G[l] = {}
  BY DEF Each
<1> QED
  BY <1>1, <1>2, <1>3 DEF Each

LEMMA Destroyed ==
  ASSUME NEW D, NEW F, NEW G, NEW A, NEW g \in D,
         Each(D, F, A), G[g] = {},
         \A k \in D \ {g} : G[k] = F[k]
  PROVE Each(D, G, A \ F[g])
  BY DEF Each

LEMMA Taken ==
  ASSUME NEW D, NEW F, NEW G, NEW A, NEW g \in D, NEW r, r \notin A,
         Each(D, F, A), F[g] = {}, G[g] = {r},
         \A k \in D \ {g} : G[k] = F[k]
  PROVE Each(D, G, A \union {r})
  BY DEF Each

LEMMA Kept ==
  ASSUME NEW D, NEW F, NEW G, NEW A,
         Each(D, F, A), \A k \in D : G[k] = F[k]
  PROVE Each(D, G, A)
  BY DEF Each

\* Who the holders are, and what they hold before and after a step.
LEMMA HolderCases ==
  /\ \A p \in Pipelines : <<"record", p>> \in Holders /\ <<"destroy", p>> \in Holders
  /\ \A t \in Threads : <<"candidate", t>> \in Holders
  /\ <<"update", None>> \in Holders
  /\ \A k \in Holders : \/ \E p \in Pipelines : k \in {<<"record", p>>, <<"destroy", p>>}
                        \/ \E t \in Threads : k = <<"candidate", t>>
                        \/ k = <<"update", None>>
  BY DEF Holders

LEMMA OwnerValues ==
  /\ \A p \in Pipelines :
       /\ Owner[<<"record", p>>] = {info[p].replacement_pipeline} \ {None}
       /\ Owner[<<"destroy", p>>] = {leaving[p].replacement} \ {None}
       /\ Owner'[<<"record", p>>] = {info'[p].replacement_pipeline} \ {None}
       /\ Owner'[<<"destroy", p>>] = {leaving'[p].replacement} \ {None}
  /\ \A t \in Threads :
       /\ Owner[<<"candidate", t>>] = {work[t].candidate} \ {None}
       /\ Owner'[<<"candidate", t>>] = {work'[t].candidate} \ {None}
  /\ Owner[<<"update", None>>] = update.trash
  /\ Owner'[<<"update", None>>] = update'.trash
<1>1. \A p \in Pipelines : <<"record", p>> \in Holders /\ <<"destroy", p>> \in Holders
  BY HolderCases
<1>2. \A t \in Threads : <<"candidate", t>> \in Holders
  BY HolderCases
<1>3. <<"update", None>> \in Holders
  BY HolderCases
<1>4. Owner' = [h \in Holders |-> Held(h)']
  BY DEF Owner, Holders
<1> QED
  BY <1>1, <1>2, <1>3, <1>4 DEF Owner, Held

\* Whoever holds what it held before, except the holders in X.
LEMMA Others ==
  ASSUME NEW X,
         \A p \in Pipelines :
           /\ <<"record", p>> \notin X =>
                info'[p].replacement_pipeline = info[p].replacement_pipeline
           /\ <<"destroy", p>> \notin X => leaving'[p].replacement = leaving[p].replacement,
         \A t \in Threads :
           <<"candidate", t>> \notin X => work'[t].candidate = work[t].candidate,
         <<"update", None>> \notin X => update'.trash = update.trash
  PROVE \A k \in Holders \ X : Owner'[k] = Owner[k]
<1> SUFFICES ASSUME NEW k \in Holders \ X PROVE Owner'[k] = Owner[k]
  OBVIOUS
<1>1. ASSUME NEW p \in Pipelines, k = <<"record", p>> PROVE Owner'[k] = Owner[k]
  BY <1>1, OwnerValues
<1>2. ASSUME NEW p \in Pipelines, k = <<"destroy", p>> PROVE Owner'[k] = Owner[k]
  BY <1>2, OwnerValues
<1>3. ASSUME NEW t \in Threads, k = <<"candidate", t>> PROVE Owner'[k] = Owner[k]
  BY <1>3, OwnerValues
<1>4. CASE k = <<"update", None>>
  BY <1>4, OwnerValues
<1> QED
  BY <1>1, <1>2, <1>3, <1>4, HolderCases

\* The property is this count of holders.
LEMMA OneHolderEach ==
  Each(Holders, Owner, alive) => EveryReplacementHasOneHolder
  BY DEF Each, Owner, EveryReplacementHasOneHolder

-----------------------------------------------------------------------------
LEMMA InitInv == Init => Inv
<1> SUFFICES ASSUME Init PROVE Inv
  OBVIOUS
<1>1. /\ Nothing \in Patch /\ NoInfo \in PipelineInfo /\ Idle \in Work /\ Done \in Update
      /\ Done.step = "idle" /\ Done.trash = {}
      /\ Idle.step = "idle" /\ Idle.candidate = None /\ Idle.generation = 0
      /\ NoInfo.replacement_pipeline = None /\ NoInfo.generation = 0
  BY DEF Nothing, NoInfo, Idle, Done, Patch, PipelineInfo, Work, Update
<1>2. TypeOK
  BY <1>1 DEF Init, TypeOK
<1>3. LocalInv
  BY <1>1 DEF Init, LocalInv
<1>4. Each(Holders, Owner, alive)
  <2>1. \A k \in Holders : Owner[k] = {}
    <3> SUFFICES ASSUME NEW k \in Holders PROVE Owner[k] = {}
      OBVIOUS
    <3>1. ASSUME NEW p \in Pipelines, k \in {<<"record", p>>, <<"destroy", p>>}
          PROVE Owner[k] = {}
      BY <1>1, <3>1, OwnerValues DEF Init
    <3>2. ASSUME NEW t \in Threads, k = <<"candidate", t>> PROVE Owner[k] = {}
      BY <1>1, <3>2, OwnerValues DEF Init
    <3>3. CASE k = <<"update", None>>
      BY <1>1, <3>3, OwnerValues DEF Init
    <3> QED
      BY <3>1, <3>2, <3>3, HolderCases
  <2> QED
    BY <2>1 DEF Each, Init
<1> QED
  BY <1>2, <1>3, <1>4 DEF Inv

\* What each record and thread says of itself stays true.
LEMMA LocalStep == TypeOK /\ LocalInv /\ [Next]_vars => LocalInv'
<1> SUFFICES ASSUME TypeOK, LocalInv, [Next]_vars PROVE LocalInv'
  OBVIOUS
<1> USE DEF LocalInv, TypeOK, pipelines, device
<1>0. /\ Idle.step = "idle" /\ Idle.candidate = None /\ Idle.generation = 0
      /\ NoInfo.replacement_pipeline = None
  BY DEF Idle, NoInfo
<1>1. ASSUME NEW p \in Pipelines, NEW shaders \in SUBSET Shaders, OnInitPipeline(p, shaders)
      PROVE LocalInv'
  <2>1. /\ info'[p].replacement_pipeline = None /\ info'[p].generation = generation'
        /\ \A q \in Pipelines \ {p} : info'[q] = info[q]
    BY <1>1 DEF OnInitPipeline, NoInfo
  <2>2. generation' = generation + 1 /\ UNCHANGED <<work, leaving>> /\ ~leaving[p].busy
    BY <1>1 DEF OnInitPipeline
  <2>3. \A q \in Pipelines : info[q].generation \in Nat
    BY DEF PipelineInfo
  <2>4. \A t \in Threads : work[t].generation \in Nat
    BY DEF Work
  <2> QED
    BY <2>1, <2>2, <2>3, <2>4
<1>2. ASSUME NEW p \in Pipelines, OnDestroyPipeline(p)
      PROVE LocalInv'
  BY <1>2 DEF OnDestroyPipeline, PipelineInfo
<1>3. ASSUME NEW p \in Pipelines, FinishDestroy(p)
      PROVE LocalInv'
  BY <1>3 DEF FinishDestroy
<1>4. ASSUME NEW t \in Threads, NEW p \in Pipelines, Peek(t, p)
      PROVE LocalInv'
  <2>1. /\ work'[t].step = "read" /\ work'[t].pipeline = p /\ work'[t].candidate = None
        /\ work'[t].generation = info[p].generation
        /\ \A u \in Threads \ {t} : work'[u] = work[u]
    BY <1>4, <1>0 DEF Peek, Idle
  <2> QED
    BY <1>4, <2>1 DEF Peek
<1>5. ASSUME NEW t \in Threads, NEW s \in Shaders, Read(t, s)
      PROVE LocalInv'
  <2>1. /\ work'[t].step = work[t].step /\ work'[t].pipeline = work[t].pipeline
        /\ work'[t].candidate = work[t].candidate /\ work'[t].generation = work[t].generation
        /\ \A u \in Threads \ {t} : work'[u] = work[u]
    BY <1>5 DEF Read, Work
  <2> QED
    BY <1>5, <2>1 DEF Read
<1>6. ASSUME NEW t \in Threads, Create(t)
      PROVE LocalInv'
  <2>1. /\ \/ work'[t] = Idle
           \/ /\ work'[t].step = "commit" /\ work'[t].pipeline = work[t].pipeline
              /\ work'[t].generation = work[t].generation
        /\ work[t].step = "read"
        /\ \A u \in Threads \ {t} : work'[u] = work[u]
        /\ UNCHANGED <<info, leaving, generation>>
    BY <1>6 DEF Create, Work
  <2> QED
    BY <1>0, <2>1
<1>7. ASSUME NEW t \in Threads, Commit(t)
      PROVE LocalInv'
  <2>1. /\ work'[t] = Idle /\ \A u \in Threads \ {t} : work'[u] = work[u]
        /\ UNCHANGED <<leaving, generation>>
    BY <1>7 DEF Commit
  <2>2. \A q \in Pipelines :
           /\ info'[q].generation = info[q].generation
           /\ info'[q].destroyed = info[q].destroyed
           /\ \/ info'[q] = info[q]
              \/ ~info'[q].destroyed /\ info'[q].initialized_replacement
    BY <1>7 DEF Commit, Unchanged, PipelineInfo
  <2> QED
    BY <1>0, <2>1, <2>2
<1>8. CASE Call
  BY <1>8 DEF Call, AddRuntimeReplacement, RemoveRuntimeReplacements
<1>9. ASSUME NEW s \in Shaders, Assign(s)
      PROVE LocalInv'
  BY <1>9 DEF Assign
<1>10. CASE Copy
  BY <1>10 DEF Copy
<1>11. ASSUME NEW p \in Pipelines, Invalidate(p)
       PROVE LocalInv'
  BY <1>11 DEF Invalidate, PipelineInfo
<1>12. CASE Sweep
  BY <1>12 DEF Sweep
<1>13. CASE UNCHANGED vars
  BY <1>13 DEF vars
<1> QED
  BY <1>1, <1>2, <1>3, <1>4, <1>5, <1>6, <1>7, <1>8, <1>9, <1>10, <1>11, <1>12, <1>13
     DEF Next, Game, Resolve, Carry

\* Replacement pipelines pass from holder to holder, one at a time.
LEMMA HolderStep == Inv /\ [Next]_vars => Each(Holders, Owner, alive)'
<1> SUFFICES ASSUME Inv, [Next]_vars PROVE Each(Holders, Owner', alive')
  BY DEF Each, Holders
<1> USE DEF pipelines, device
<1>0. TypeOK /\ LocalInv /\ Each(Holders, Owner, alive)
  BY DEF Inv
<1>t. /\ None \notin Replacements
      /\ \A p \in Pipelines : /\ info[p].replacement_pipeline \in Replacements \union {None}
                              /\ leaving[p].replacement \in Replacements \union {None}
      /\ \A t \in Threads : work[t].candidate \in Replacements \union {None}
      /\ DOMAIN info = Pipelines /\ DOMAIN leaving = Pipelines /\ DOMAIN work = Threads
      /\ alive \subseteq Replacements
  BY <1>0, NoneAssumption DEF TypeOK, PipelineInfo, Work
<1>h. \A p, q \in Pipelines, t, u \in Threads :
        /\ <<"record", p>> # <<"destroy", q>> /\ <<"record", p>> # <<"candidate", t>>
        /\ <<"record", p>> # <<"update", None>> /\ <<"destroy", p>> # <<"candidate", t>>
        /\ <<"destroy", p>> # <<"update", None>> /\ <<"candidate", t>> # <<"update", None>>
  OBVIOUS
<1>1. ASSUME NEW p \in Pipelines, NEW shaders \in SUBSET Shaders, OnInitPipeline(p, shaders)
      PROVE Each(Holders, Owner', alive')
  <2>1. /\ info'[p].replacement_pipeline = None
        /\ \A q \in Pipelines \ {p} : info'[q] = info[q]
        /\ UNCHANGED <<leaving, work, update>>
        /\ alive' = IF info[p].destroyed THEN alive
                    ELSE alive \ {info[p].replacement_pipeline}
    BY <1>1, <1>t DEF OnInitPipeline, NoInfo
  <2>2. \A k \in Holders \ {<<"record", p>>} : Owner'[k] = Owner[k]
    BY <2>1, Others
  <2>3. Owner'[<<"record", p>>] = {} /\ <<"record", p>> \in Holders
    BY <2>1, HolderCases, OwnerValues
  <2>4. alive' = alive \ Owner[<<"record", p>>]
    <3>1. None \notin alive /\ Owner[<<"record", p>>] = {info[p].replacement_pipeline} \ {None}
      BY <1>t, OwnerValues
    <3>2. info[p].destroyed => info[p].replacement_pipeline = None
      BY <1>0 DEF LocalInv
    <3> QED
      BY <2>1, <3>1, <3>2
  <2> QED
    BY <1>0, <2>2, <2>3, <2>4, Destroyed
<1>2. ASSUME NEW p \in Pipelines, OnDestroyPipeline(p)
      PROVE Each(Holders, Owner', alive')
  <2>1. /\ info'[p].replacement_pipeline = None
        /\ leaving'[p].replacement = info[p].replacement_pipeline
        /\ leaving[p].replacement = None
        /\ \A q \in Pipelines \ {p} : info'[q] = info[q] /\ leaving'[q] = leaving[q]
        /\ UNCHANGED <<work, update, alive>>
    BY <1>2, <1>0, <1>t DEF OnDestroyPipeline, LocalInv, TypeOK, PipelineInfo
  <2>2. \A k \in Holders \ {<<"record", p>>, <<"destroy", p>>} : Owner'[k] = Owner[k]
    BY <2>1, Others
  <2>3. /\ <<"record", p>> \in Holders /\ <<"destroy", p>> \in Holders
        /\ <<"record", p>> # <<"destroy", p>>
        /\ Owner'[<<"record", p>>] = {}
        /\ Owner'[<<"destroy", p>>] = Owner[<<"record", p>>] \union Owner[<<"destroy", p>>]
    BY <2>1, HolderCases, OwnerValues
  <2> QED
    BY <1>0, <2>1, <2>2, <2>3, Passed
<1>3. ASSUME NEW p \in Pipelines, FinishDestroy(p)
      PROVE Each(Holders, Owner', alive')
  <2>1. /\ leaving'[p].replacement = None
        /\ \A q \in Pipelines \ {p} : leaving'[q] = leaving[q]
        /\ UNCHANGED <<info, work, update>>
        /\ alive' = alive \ {leaving[p].replacement}
    BY <1>3, <1>t DEF FinishDestroy
  <2>2. \A k \in Holders \ {<<"destroy", p>>} : Owner'[k] = Owner[k]
    BY <2>1, Others
  <2>3. Owner'[<<"destroy", p>>] = {} /\ <<"destroy", p>> \in Holders
    BY <2>1, HolderCases, OwnerValues
  <2>4. alive' = alive \ Owner[<<"destroy", p>>]
    <3>1. None \notin alive /\ Owner[<<"destroy", p>>] = {leaving[p].replacement} \ {None}
      BY <1>t, OwnerValues
    <3> QED
      BY <2>1, <3>1
  <2> QED
    BY <1>0, <2>2, <2>3, <2>4, Destroyed
<1>4. ASSUME NEW t \in Threads, Create(t), ~UNCHANGED device
      PROVE Each(Holders, Owner', alive')
  <2>1. PICK r \in Replacements \ alive :
          alive' = alive \union {r}
          /\ work' = [work EXCEPT ![t].step = "commit", ![t].candidate = r]
    BY <1>4 DEF Create
  <2>2. /\ work'[t].candidate = r /\ work[t].candidate = None
        /\ \A u \in Threads \ {t} : work'[u] = work[u]
        /\ UNCHANGED <<info, leaving, update>>
    BY <1>4, <2>1, <1>0 DEF Create, LocalInv, TypeOK, Work
  <2>3. \A k \in Holders \ {<<"candidate", t>>} : Owner'[k] = Owner[k]
    BY <2>2, Others
  <2>4. /\ <<"candidate", t>> \in Holders /\ r \notin alive
        /\ Owner[<<"candidate", t>>] = {} /\ Owner'[<<"candidate", t>>] = {r}
    BY <2>2, <1>t, HolderCases, OwnerValues
  <2> QED
    BY <1>0, <2>1, <2>3, <2>4, Taken
<1>5. ASSUME NEW t \in Threads, Create(t), UNCHANGED device
      PROVE Each(Holders, Owner', alive')
  <2>1. /\ work'[t].candidate = work[t].candidate
        /\ \A u \in Threads \ {t} : work'[u] = work[u]
        /\ UNCHANGED <<info, leaving, update, alive>>
    <3>1. CASE work' = [work EXCEPT ![t] = Idle]
      BY <1>5, <3>1, <1>0 DEF Create, Idle, LocalInv, TypeOK, Work
    <3>2. CASE work' = [work EXCEPT ![t].step = "commit"]
      BY <1>5, <3>2, <1>0 DEF Create, TypeOK, Work
    <3>3. CASE \E r \in Replacements \ alive : alive' = alive \union {r}
      BY <1>5, <3>3
    <3> QED
      BY <1>5, <3>1, <3>2, <3>3 DEF Create
  <2>2. \A k \in Holders \ {} : Owner'[k] = Owner[k]
    BY <2>1, Others
  <2> QED
    BY <1>0, <2>1, <2>2, Kept
<1>6. ASSUME NEW t \in Threads, Commit(t)
      PROVE Each(Holders, Owner', alive')
  <2> DEFINE p == work[t].pipeline
  <2>1. /\ work'[t].candidate = None /\ p \in Pipelines
        /\ \A u \in Threads \ {t} : work'[u] = work[u]
        /\ UNCHANGED <<leaving, update>>
    BY <1>6, <1>0, <1>t DEF Commit, LocalInv, Idle
  <2>2. CASE Unchanged(info[p], work[t]) /\ ~info[p].initialized_replacement
    <3>1. /\ info[p].replacement_pipeline = None
          /\ info'[p].replacement_pipeline = work[t].candidate
          /\ \A q \in Pipelines \ {p} : info'[q] = info[q]
          /\ alive' = alive
      BY <1>6, <2>1, <2>2, <1>0 DEF Commit, LocalInv, TypeOK, PipelineInfo
    <3>2. \A k \in Holders \ {<<"candidate", t>>, <<"record", p>>} : Owner'[k] = Owner[k]
      BY <2>1, <3>1, Others
    <3>3. /\ <<"candidate", t>> \in Holders /\ <<"record", p>> \in Holders
          /\ <<"candidate", t>> # <<"record", p>>
          /\ Owner'[<<"candidate", t>>] = {}
          /\ Owner'[<<"record", p>>] = Owner[<<"candidate", t>>] \union Owner[<<"record", p>>]
      BY <2>1, <3>1, HolderCases, OwnerValues
    <3> QED
      BY <1>0, <3>1, <3>2, <3>3, Passed
  <2>3. CASE ~(Unchanged(info[p], work[t]) /\ ~info[p].initialized_replacement)
    <3>1. info' = info /\ alive' = alive \ {work[t].candidate}
      BY <1>6, <2>3 DEF Commit
    <3>2. \A k \in Holders \ {<<"candidate", t>>} : Owner'[k] = Owner[k]
      BY <2>1, <3>1, Others
    <3>3. /\ <<"candidate", t>> \in Holders /\ Owner'[<<"candidate", t>>] = {}
          /\ alive' = alive \ Owner[<<"candidate", t>>]
      BY <2>1, <3>1, <1>t, HolderCases, OwnerValues
    <3> QED
      BY <1>0, <3>2, <3>3, Destroyed
  <2> QED
    BY <2>2, <2>3
<1>7. ASSUME NEW p \in Pipelines, Invalidate(p)
      PROVE Each(Holders, Owner', alive')
  <2>1. CASE update.hash \in info[p].shaders
    <3>1. /\ info'[p].replacement_pipeline = None
          /\ \A q \in Pipelines \ {p} : info'[q] = info[q]
          /\ update'.trash = update.trash \union ({info[p].replacement_pipeline} \ {None})
          /\ UNCHANGED <<leaving, work, alive>>
      BY <1>7, <2>1, <1>0 DEF Invalidate, TypeOK, PipelineInfo, Update
    <3>2. \A k \in Holders \ {<<"record", p>>, <<"update", None>>} : Owner'[k] = Owner[k]
      BY <3>1, Others
    <3>3. /\ <<"record", p>> \in Holders /\ <<"update", None>> \in Holders
          /\ <<"record", p>> # <<"update", None>>
          /\ Owner'[<<"record", p>>] = {}
          /\ Owner'[<<"update", None>>]
               = Owner[<<"record", p>>] \union Owner[<<"update", None>>]
      BY <3>1, <1>h, HolderCases, OwnerValues
    <3> QED
      BY <1>0, <3>1, <3>2, <3>3, Passed
  <2>2. CASE update.hash \notin info[p].shaders
    <3>1. update'.trash = update.trash /\ UNCHANGED <<info, leaving, work, alive>>
      BY <1>7, <2>2, <1>0 DEF Invalidate, TypeOK, Update
    <3>2. \A k \in Holders \ {} : Owner'[k] = Owner[k]
      BY <3>1, Others
    <3> QED
      BY <1>0, <3>1, <3>2, Kept
  <2> QED
    BY <2>1, <2>2
<1>8. CASE Sweep
  <2>1. CASE update.todo # {}
    <3>1. update'.trash = update.trash /\ UNCHANGED <<info, leaving, work, alive>>
      BY <1>8, <2>1, <1>0 DEF Sweep, TypeOK, Update
    <3>2. \A k \in Holders \ {} : Owner'[k] = Owner[k]
      BY <3>1, Others
    <3> QED
      BY <1>0, <3>1, <3>2, Kept
  <2>2. CASE update.todo = {}
    <3>1. /\ update'.trash = {} /\ alive' = alive \ update.trash
          /\ UNCHANGED <<info, leaving, work>>
      BY <1>8, <2>2 DEF Sweep, Done
    <3>2. \A k \in Holders \ {<<"update", None>>} : Owner'[k] = Owner[k]
      BY <3>1, Others
    <3>3. /\ <<"update", None>> \in Holders /\ Owner'[<<"update", None>>] = {}
          /\ alive' = alive \ Owner[<<"update", None>>]
      BY <3>1, HolderCases, OwnerValues
    <3> QED
      BY <1>0, <3>2, <3>3, Destroyed
  <2> QED
    BY <2>1, <2>2
<1>9. ASSUME update'.trash = update.trash,
             \A t \in Threads : work'[t].candidate = work[t].candidate,
             UNCHANGED <<info, leaving, alive>>
      PROVE Each(Holders, Owner', alive')
  <2>1. \A k \in Holders \ {} : Owner'[k] = Owner[k]
    BY <1>9, Others
  <2> QED
    BY <1>0, <1>9, <2>1, Kept
<1>10. ASSUME NEW t \in Threads, NEW p \in Pipelines, Peek(t, p)
       PROVE Each(Holders, Owner', alive')
  <2>1. \A u \in Threads : work'[u].candidate = work[u].candidate
    BY <1>10, <1>0, <1>t DEF Peek, Idle, LocalInv
  <2> QED
    BY <1>9, <1>10, <2>1 DEF Peek
<1>11. ASSUME NEW t \in Threads, NEW s \in Shaders, Read(t, s)
       PROVE Each(Holders, Owner', alive')
  <2>1. \A u \in Threads : work'[u].candidate = work[u].candidate
    BY <1>11, <1>0 DEF Read, TypeOK, Work
  <2> QED
    BY <1>9, <1>11, <2>1 DEF Read
<1>12. CASE Call
  BY <1>9, <1>12 DEF Call, AddRuntimeReplacement, RemoveRuntimeReplacements, Done
<1>13. ASSUME NEW s \in Shaders, Assign(s)
       PROVE Each(Holders, Owner', alive')
  BY <1>9, <1>13, <1>0 DEF Assign, TypeOK, Update
<1>14. CASE Copy
  BY <1>9, <1>14, <1>0 DEF Copy, TypeOK, Update
<1>15. CASE UNCHANGED vars
  BY <1>9, <1>15 DEF vars
<1> QED
  BY <1>1, <1>2, <1>3, <1>4, <1>5, <1>6, <1>7, <1>8, <1>10, <1>11, <1>12, <1>13,
     <1>14, <1>15
     DEF Next, Game, Resolve, Carry

-----------------------------------------------------------------------------
\* What the other steps cannot disturb: a record, its bytes and its recipe.
LEMMA RecordKept ==
  ASSUME NEW p \in Pipelines, TypeOK, Each(Holders, Owner, alive), RecordInv(p),
         info'[p] = info[p], UNCHANGED runtime,
         \A s \in Shaders : p \in handles[s] => p \in handles'[s],
         \A r \in alive : recipe'[r] = recipe[r],
         \A s \in info[p].shaders : p \in handles[s] /\ PendingFor(p, s) => PendingFor(p, s)'
  PROVE RecordInv(p)'
<1>1. info[p].shaders \subseteq Shaders
  BY DEF TypeOK, PipelineInfo
<1>2. info[p].replacement_pipeline # None => info[p].replacement_pipeline \in alive
  <2>1. Owner[<<"record", p>>] \subseteq alive
    BY HolderCases DEF Each
  <2>2. Owner[<<"record", p>>] = {info[p].replacement_pipeline} \ {None}
    BY OwnerValues
  <2> QED
    BY <2>1, <2>2
<1>3. Current(p)' <=> Current(p)
  BY <1>2 DEF Current, Wanted
<1> QED
  BY <1>1, <1>3 DEF RecordInv

LEMMA WorkKept ==
  ASSUME NEW t \in Threads, TypeOK, LocalInv, Each(Holders, Owner, alive), WorkInv(t),
         \A p \in Pipelines : RecordInv(p),
         work'[t] = work[t], UNCHANGED runtime,
         \/ info'[work[t].pipeline] = info[work[t].pipeline]
         \/ /\ ~Unchanged(info[work[t].pipeline], work[t])'
            /\ info'[work[t].pipeline].generation = work[t].generation =>
                 work[t].revision <= info'[work[t].pipeline].replacement_revision,
         \A r \in alive : recipe'[r] = recipe[r],
         \A p \in Pipelines : \A s \in info[p].shaders :
           p \in handles[s] /\ PendingFor(p, s) => PendingFor(p, s)'
  PROVE WorkInv(t)'
<1> SUFFICES ASSUME work[t].step # "idle" PROVE WorkInv(t)'
  BY DEF WorkInv
<1> DEFINE p == work[t].pipeline
<1>1. p \in Pipelines
  BY DEF LocalInv
<1>2. work[t].candidate # None => work[t].candidate \in alive
  <2>1. Owner[<<"candidate", t>>] \subseteq alive
    BY HolderCases DEF Each
  <2>2. Owner[<<"candidate", t>>] = {work[t].candidate} \ {None}
    BY OwnerValues
  <2> QED
    BY <2>1, <2>2
<1>3. CASE info'[p] = info[p]
  <2>1. Unchanged(info[p], work[t])' <=> Unchanged(info[p], work[t])
    BY <1>3 DEF Unchanged
  <2>2. Unchanged(info[p], work[t]) => \A s \in info[p].shaders : p \in handles[s]
    BY <1>1 DEF Unchanged, RecordInv
  <2> QED
    BY <1>1, <1>2, <1>3, <2>1, <2>2 DEF WorkInv
<1>4. CASE /\ ~Unchanged(info[p], work[t])'
           /\ info'[p].generation = work[t].generation =>
                work[t].revision <= info'[p].replacement_revision
  BY <1>2, <1>4 DEF WorkInv
<1> QED
  BY <1>3, <1>4

\* A thread that builds from bytes that were exchanged finds a record that
\* was updated, or is told from the update under way that it will be.
LEMMA FreshStep == Inv /\ FreshInv /\ [Next]_vars => FreshInv'
<1> SUFFICES ASSUME Inv, FreshInv, [Next]_vars PROVE FreshInv'
  OBVIOUS
<1> USE DEF pipelines, device
<1>0. TypeOK /\ LocalInv /\ Each(Holders, Owner, alive)
  BY DEF Inv
<1>f. /\ \A p \in Pipelines : RecordInv(p)
      /\ \A t \in Threads : WorkInv(t)
  BY DEF FreshInv
<1>t. /\ \A p \in Pipelines : /\ info[p].generation \in Nat /\ info[p].shaders \subseteq Shaders
                              /\ info[p].replacement_revision \in Nat
                              /\ info[p].generation <= generation
      /\ \A t \in Threads : /\ work[t].generation \in Nat /\ work[t].revision \in Nat
                            /\ work[t].generation <= generation
                            /\ work[t].step # "idle" => work[t].pipeline \in Pipelines
      /\ generation \in Nat /\ DOMAIN info = Pipelines /\ DOMAIN work = Threads
  BY <1>0 DEF TypeOK, LocalInv, PipelineInfo, Work
<1>i. Idle.step = "idle" /\ Done.step = "idle"
  BY DEF Idle, Done
<1>1. ASSUME NEW p \in Pipelines, NEW shaders \in SUBSET Shaders, OnInitPipeline(p, shaders)
      PROVE FreshInv'
  <2>1. /\ info'[p].generation = generation + 1 /\ ~info'[p].initialized_replacement
        /\ info'[p].shaders = shaders
        /\ \A q \in Pipelines \ {p} : info'[q] = info[q]
        /\ UNCHANGED <<runtime, recipe, work, update>>
    BY <1>1, <1>t DEF OnInitPipeline, NoInfo
  <2>2. /\ \A s \in shaders : p \in handles'[s]
        /\ \A q \in Pipelines \ {p}, s \in Shaders : q \in handles[s] => q \in handles'[s]
    BY <1>1 DEF OnInitPipeline
  <2>3. RecordInv(p)'
    BY <2>1, <2>2 DEF RecordInv
  <2>4. ASSUME NEW q \in Pipelines \ {p} PROVE RecordInv(q)'
    BY <2>1, <2>2, <1>0, <1>f, RecordKept DEF PendingFor
  <2>5. ASSUME NEW t \in Threads PROVE WorkInv(t)'
    <3>1. CASE work[t].step = "idle"
      BY <2>1, <3>1 DEF WorkInv
    <3>2. CASE work[t].step # "idle"
      <4>1. info'[p].generation # work[t].generation
        <5>1. work[t].generation \in Nat /\ generation \in Nat /\ work[t].generation <= generation
          BY <1>t
        <5>2. info'[p].generation = generation + 1
          BY <2>1
        <5> QED
          BY <5>1, <5>2
      <4>2. \/ info'[work[t].pipeline] = info[work[t].pipeline]
            \/ /\ ~Unchanged(info[work[t].pipeline], work[t])'
               /\ info'[work[t].pipeline].generation = work[t].generation =>
                    work[t].revision <= info'[work[t].pipeline].replacement_revision
        BY <2>1, <1>t, <3>2, <4>1 DEF Unchanged
      <4>3. WorkInv(t) /\ \A q \in Pipelines : RecordInv(q)
        BY <1>f
      <4>4. /\ \A r \in alive : recipe'[r] = recipe[r]
            /\ \A q \in Pipelines : \A s \in info[q].shaders :
                 q \in handles[s] /\ PendingFor(q, s) => PendingFor(q, s)'
            /\ work'[t] = work[t] /\ UNCHANGED runtime
        BY <2>1 DEF PendingFor
      <4> QED
        BY <1>0, <4>2, <4>3, <4>4, WorkKept
    <3> QED
      BY <3>1, <3>2
  <2> QED
    BY <2>3, <2>4, <2>5 DEF FreshInv
<1>2. ASSUME NEW p \in Pipelines, OnDestroyPipeline(p)
      PROVE FreshInv'
  <2>1. /\ info'[p].destroyed /\ info'[p].generation = info[p].generation
        /\ info'[p].replacement_revision = info[p].replacement_revision + 1
        /\ \A q \in Pipelines \ {p} : info'[q] = info[q]
        /\ UNCHANGED <<runtime, handles, recipe, work, update>>
    BY <1>2, <1>0 DEF OnDestroyPipeline, TypeOK, PipelineInfo
  <2>2. RecordInv(p)'
    BY <2>1 DEF RecordInv
  <2>3. ASSUME NEW q \in Pipelines \ {p} PROVE RecordInv(q)'
    BY <2>1, <1>0, <1>f, RecordKept DEF PendingFor
  <2>4. ASSUME NEW t \in Threads PROVE WorkInv(t)'
    <3>1. CASE work[t].step = "idle"
      BY <2>1, <3>1 DEF WorkInv
    <3>2. CASE work[t].step # "idle"
      <4>1. info[p].generation = work[t].generation /\ work[t].pipeline = p =>
              work[t].revision <= info'[p].replacement_revision
        <5>1. info[p].generation = work[t].generation /\ work[t].pipeline = p =>
                work[t].revision <= info[p].replacement_revision
          BY <1>f, <3>2 DEF WorkInv
        <5>2. work[t].revision \in Nat /\ info[p].replacement_revision \in Nat
          BY <1>t
        <5>3. info'[p].replacement_revision = info[p].replacement_revision + 1
          BY <2>1
        <5> QED
          BY <5>1, <5>2, <5>3
      <4>2. \/ info'[work[t].pipeline] = info[work[t].pipeline]
            \/ /\ ~Unchanged(info[work[t].pipeline], work[t])'
               /\ info'[work[t].pipeline].generation = work[t].generation =>
                    work[t].revision <= info'[work[t].pipeline].replacement_revision
        BY <2>1, <1>t, <3>2, <4>1 DEF Unchanged
      <4>3. WorkInv(t) /\ \A q \in Pipelines : RecordInv(q)
        BY <1>f
      <4>4. /\ \A r \in alive : recipe'[r] = recipe[r]
            /\ \A q \in Pipelines : \A s \in info[q].shaders :
                 q \in handles[s] /\ PendingFor(q, s) => PendingFor(q, s)'
            /\ work'[t] = work[t] /\ UNCHANGED runtime
        BY <2>1 DEF PendingFor
      <4> QED
        BY <1>0, <4>2, <4>3, <4>4, WorkKept
    <3> QED
      BY <3>1, <3>2
  <2> QED
    BY <2>2, <2>3, <2>4 DEF FreshInv
<1>3. ASSUME NEW p \in Pipelines, FinishDestroy(p)
      PROVE FreshInv'
  <2>1. /\ UNCHANGED <<runtime, info, recipe, work, update>>
        /\ info[p].destroyed
        /\ \A q \in Pipelines \ {p}, s \in Shaders : q \in handles[s] => q \in handles'[s]
    BY <1>3, <1>0 DEF FinishDestroy, Forget, LocalInv
  <2>2. ASSUME NEW q \in Pipelines PROVE RecordInv(q)'
    <3>1. CASE q = p
      BY <2>1, <3>1 DEF RecordInv
    <3>2. CASE q # p
      BY <2>1, <1>0, <1>f, <3>2, RecordKept DEF PendingFor
    <3> QED
      BY <3>1, <3>2
  <2>3. ASSUME NEW t \in Threads PROVE WorkInv(t)'
    BY <2>1, <1>0, <1>f, WorkKept DEF PendingFor
  <2> QED
    BY <2>2, <2>3 DEF FreshInv
<1>4. ASSUME NEW t \in Threads, NEW p \in Pipelines, Peek(t, p)
      PROVE FreshInv'
  <2>1. /\ work'[t].step = "read" /\ work'[t].pipeline = p
        /\ work'[t].generation = info[p].generation
        /\ work'[t].revision = info[p].replacement_revision
        /\ work'[t].unread = info[p].shaders /\ work'[t].seen = Nothing
        /\ \A u \in Threads \ {t} : work'[u] = work[u]
        /\ UNCHANGED <<runtime, info, handles, recipe, update>>
    BY <1>4, <1>t DEF Peek, Idle
  <2>2. WorkInv(t)'
    BY <2>1, <1>t DEF WorkInv, Nothing
  <2>3. ASSUME NEW u \in Threads \ {t} PROVE WorkInv(u)'
    BY <2>1, <1>0, <1>f, WorkKept DEF PendingFor
  <2>4. ASSUME NEW q \in Pipelines PROVE RecordInv(q)'
    BY <2>1, <1>0, <1>f, RecordKept DEF PendingFor
  <2> QED
    BY <2>2, <2>3, <2>4 DEF FreshInv
<1>5. ASSUME NEW t \in Threads, NEW s \in Shaders, Read(t, s)
      PROVE FreshInv'
  <2>1. /\ work[t].step = "read" /\ s \in work[t].unread
        /\ work'[t].step = "read" /\ work'[t].pipeline = work[t].pipeline
        /\ work'[t].generation = work[t].generation /\ work'[t].revision = work[t].revision
        /\ work'[t].unread = work[t].unread \ {s}
        /\ work'[t].seen = [work[t].seen EXCEPT ![s] = runtime[s]]
        /\ work[t].seen \in [Shaders -> Bytes \union {None}]
        /\ \A u \in Threads \ {t} : work'[u] = work[u]
        /\ UNCHANGED <<runtime, info, handles, recipe, update>>
    BY <1>5, <1>0 DEF Read, TypeOK, Work, Patch
  <2>2. WorkInv(t)'
    <3>1. WorkInv(t) /\ work[t].pipeline \in Pipelines
      BY <2>1, <1>f, <1>t
    <3>2. \A p : info'[p] = info[p] /\ \A u : PendingFor(p, u)' <=> PendingFor(p, u)
      BY <2>1 DEF PendingFor
    <3>3. \A u \in Shaders : work'[t].seen[u] = IF u = s THEN runtime[s] ELSE work[t].seen[u]
      BY <2>1
    <3> QED
      BY <2>1, <3>1, <3>2, <3>3, <1>t DEF WorkInv, Unchanged
  <2>3. ASSUME NEW u \in Threads \ {t} PROVE WorkInv(u)'
    BY <2>1, <1>0, <1>f, WorkKept DEF PendingFor
  <2>4. ASSUME NEW q \in Pipelines PROVE RecordInv(q)'
    BY <2>1, <1>0, <1>f, RecordKept DEF PendingFor
  <2> QED
    BY <2>2, <2>3, <2>4 DEF FreshInv
<1>6. ASSUME NEW t \in Threads, Create(t)
      PROVE FreshInv'
  <2>1. /\ \A u \in Threads \ {t} : work'[u] = work[u]
        /\ \A r \in alive : recipe'[r] = recipe[r]
        /\ UNCHANGED <<runtime, info, handles, update>>
    BY <1>6, <1>0 DEF Create, TypeOK
  <2>2. /\ work[t].step = "read" /\ work[t].unread = {} /\ work[t].candidate = None
    BY <1>6, <1>0 DEF Create, LocalInv
  <2>3. WorkInv(t)'
    <3>1. CASE work'[t] = Idle
      BY <1>i, <3>1 DEF WorkInv
    <3>2. CASE /\ work'[t].step = "commit" /\ work'[t].pipeline = work[t].pipeline
               /\ work'[t].generation = work[t].generation
               /\ work'[t].revision = work[t].revision
               /\ work'[t].unread = work[t].unread /\ work'[t].seen = work[t].seen
               /\ \/ work'[t].candidate = None /\ work[t].seen = Nothing
                  \/ /\ work'[t].candidate # None
                     /\ recipe'[work'[t].candidate]
                          = [generation |-> work[t].generation, bytes |-> work[t].seen]
      BY <2>1, <2>2, <3>2, <1>f, <1>t DEF WorkInv, Unchanged, PendingFor
    <3>3. CASE UNCHANGED device /\ work' = [work EXCEPT ![t].step = "commit"]
               /\ work[t].seen = Nothing
      BY <2>2, <3>2, <3>3, <1>0 DEF TypeOK, Work
    <3>4. ASSUME NEW r \in Replacements,
                 recipe' = [recipe EXCEPT ![r] = [generation |-> work[t].generation,
                                                 bytes |-> work[t].seen]],
                 work' = [work EXCEPT ![t].step = "commit", ![t].candidate = r]
          PROVE WorkInv(t)'
      <4>1. r # None
        BY NoneAssumption
      <4> QED
        BY <2>2, <3>2, <3>4, <4>1, <1>0 DEF TypeOK, Work
    <3> QED
      BY <1>6, <1>t, <3>1, <3>3, <3>4 DEF Create
  <2>4. ASSUME NEW u \in Threads \ {t} PROVE WorkInv(u)'
    BY <2>1, <1>0, <1>f, WorkKept DEF PendingFor
  <2>5. ASSUME NEW q \in Pipelines PROVE RecordInv(q)'
    BY <2>1, <1>0, <1>f, RecordKept DEF PendingFor
  <2> QED
    BY <2>3, <2>4, <2>5 DEF FreshInv
<1>7. ASSUME NEW t \in Threads, Commit(t)
      PROVE FreshInv'
  <2>p. PICK p \in Pipelines : p = work[t].pipeline
    BY <1>7, <1>t DEF Commit
  <2> DEFINE fits == Unchanged(info[p], work[t]) /\ ~info[p].initialized_replacement
  <2>0. /\ work[t].step = "commit" /\ work' = [work EXCEPT ![t] = Idle]
        /\ UNCHANGED <<runtime, handles, recipe, update>>
        /\ ~fits => info' = info
    BY <1>7, <2>p DEF Commit
  <2>1. /\ work'[t] = Idle /\ work[t].step = "commit"
        /\ \A u \in Threads \ {t} : work'[u] = work[u]
        /\ UNCHANGED <<runtime, handles, recipe, update>>
        /\ ~fits => info' = info
    BY <2>0, <1>t
  <2>2. /\ \A q \in Pipelines \ {p} : info'[q] = info[q]
        /\ fits => /\ info'[p].replacement_pipeline = work[t].candidate
                   /\ info'[p].initialized_replacement
        /\ info'[p].shaders = info[p].shaders
        /\ info'[p].generation = info[p].generation
        /\ info'[p].destroyed = info[p].destroyed
        /\ info'[p].replacement_revision = info[p].replacement_revision
    BY <1>7, <1>0, <2>1, <2>p DEF Commit, TypeOK, PipelineInfo
  <2>3. RecordInv(p)'
    <3>1. CASE ~fits
      <4>1. \A s : PendingFor(p, s)' <=> PendingFor(p, s)
        BY <2>1 DEF PendingFor
      <4>2. RecordInv(p) /\ info'[p] = info[p] /\ UNCHANGED <<runtime, handles, recipe>>
        BY <2>1, <3>1, <1>f
      <4> HIDE DEF fits
      <4> QED
        BY <2>1, <1>0, <4>1, <4>2, RecordKept
    <3>2. CASE fits
      <4>1. /\ \A s \in Shaders \ info[p].shaders : work[t].seen[s] = None
            /\ \A s \in info[p].shaders : work[t].seen[s] = runtime[s] \/ PendingFor(p, s)
            /\ work[t].candidate = None => work[t].seen = Nothing
            /\ work[t].candidate # None =>
                 recipe[work[t].candidate]
                   = [generation |-> info[p].generation, bytes |-> work[t].seen]
        BY <2>1, <2>p, <3>2, <1>f DEF WorkInv, Unchanged
      <4>r. /\ RecordInv(p) /\ UNCHANGED <<handles, runtime, recipe>>
            /\ ~info[p].destroyed
            /\ \A s : PendingFor(p, s)' <=> PendingFor(p, s)
        BY <2>1, <3>2, <1>f DEF PendingFor, Unchanged
      <4> HIDE DEF fits
      <4>2. CASE \E s \in info[p].shaders : PendingFor(p, s)
        BY <2>2, <4>2, <4>r DEF RecordInv
      <4>3. CASE \A s \in info[p].shaders : work[t].seen[s] = runtime[s]
        <5>1. work[t].seen \in [Shaders -> Bytes \union {None}]
          BY <1>0 DEF TypeOK, Work, Patch
        <5>2. Wanted(p)' = work[t].seen
          BY <2>2, <4>1, <4>3, <4>r, <5>1 DEF Wanted
        <5>3. Current(p)'
          BY <2>2, <3>2, <4>1, <4>r, <5>2 DEF Current, Nothing
        <5> QED
          BY <2>2, <3>2, <4>r, <5>3 DEF RecordInv
      <4> QED
        BY <4>1, <4>2, <4>3
    <3> QED
      BY <3>1, <3>2
  <2>4. ASSUME NEW q \in Pipelines \ {p} PROVE RecordInv(q)'
    BY <2>1, <2>2, <1>0, <1>f, RecordKept DEF PendingFor
  <2>5. WorkInv(t)'
    BY <2>1, <1>i DEF WorkInv
  <2>6. ASSUME NEW u \in Threads \ {t} PROVE WorkInv(u)'
    <3>1. CASE work[u].pipeline = p
      <4>1. /\ WorkInv(u) /\ work'[u] = work[u] /\ UNCHANGED <<runtime, recipe>>
            /\ \A s : PendingFor(p, s)' <=> PendingFor(p, s)
        BY <2>1, <1>f DEF PendingFor
      <4>2. Unchanged(info'[p], work[u]) <=> Unchanged(info[p], work[u])
        BY <2>2 DEF Unchanged
      <4> HIDE DEF fits
      <4> QED
        BY <2>2, <3>1, <4>1, <4>2 DEF WorkInv
    <3>2. CASE work[u].pipeline # p
      <4>1. CASE work[u].step = "idle"
        BY <2>1, <4>1 DEF WorkInv
      <4>2. CASE work[u].step # "idle"
        <5>1. info'[work[u].pipeline] = info[work[u].pipeline]
          BY <2>2, <3>2, <4>2, <1>t
        <5>2. WorkInv(u) /\ \A q \in Pipelines : RecordInv(q)
          BY <1>f
        <5>3. /\ \A r \in alive : recipe'[r] = recipe[r]
              /\ \A q \in Pipelines : \A s \in info[q].shaders :
                   q \in handles[s] /\ PendingFor(q, s) => PendingFor(q, s)'
              /\ work'[u] = work[u] /\ UNCHANGED runtime
          BY <2>1 DEF PendingFor
        <5> QED
          BY <1>0, <5>1, <5>2, <5>3, WorkKept
      <4> QED
        BY <4>1, <4>2
    <3> QED
      BY <3>1, <3>2
  <2> QED
    BY <2>3, <2>4, <2>5, <2>6 DEF FreshInv
<1>8. ASSUME UNCHANGED <<runtime, info, handles, recipe, work>>,
             \A p \in Pipelines : \A s \in info[p].shaders :
               p \in handles[s] /\ PendingFor(p, s) => PendingFor(p, s)'
      PROVE FreshInv'
  <2>1. ASSUME NEW q \in Pipelines PROVE RecordInv(q)'
    BY <1>8, <1>0, <1>f, RecordKept
  <2>2. ASSUME NEW t \in Threads PROVE WorkInv(t)'
    BY <1>8, <1>0, <1>f, WorkKept
  <2> QED
    BY <2>1, <2>2 DEF FreshInv
<1>9. CASE Call
  BY <1>8, <1>9, <1>i DEF Call, AddRuntimeReplacement, RemoveRuntimeReplacements, PendingFor
<1>10. ASSUME NEW s \in Shaders, Assign(s)
       PROVE FreshInv'
  <2>1. /\ update'.hash = s /\ update'.step = "copy" /\ update.step = "assign"
        /\ \A u \in Shaders \ {s} : runtime'[u] = runtime[u]
        /\ UNCHANGED <<info, handles, recipe, work>>
    BY <1>10, <1>0 DEF Assign, TypeOK, Update, Patch
  <2>2. \A p : PendingFor(p, s)' /\ \A u : ~PendingFor(p, u)
    BY <2>1 DEF PendingFor
  <2>3. ASSUME NEW q \in Pipelines PROVE RecordInv(q)'
    <3>1. CASE s \in info[q].shaders
      BY <2>1, <2>2, <3>1, <1>f DEF RecordInv
    <3>2. CASE s \notin info[q].shaders
      <4>1. Wanted(q)' = Wanted(q)
        BY <2>1, <3>2, <1>t DEF Wanted
      <4>2. Current(q)' <=> Current(q)
        BY <2>1, <4>1 DEF Current
      <4> QED
        BY <2>1, <2>2, <4>2, <1>f DEF RecordInv
    <3> QED
      BY <3>1, <3>2
  <2>4. ASSUME NEW t \in Threads PROVE WorkInv(t)'
    <3>1. CASE work[t].step = "idle"
      BY <2>1, <3>1 DEF WorkInv
    <3>2. CASE work[t].step # "idle"
      <4>1. /\ WorkInv(t) /\ work[t].pipeline \in Pipelines
            /\ info[work[t].pipeline].shaders \subseteq Shaders
        BY <1>f, <1>t, <3>2
      <4>2. /\ \A u \in Shaders : u # s => runtime'[u] = runtime[u]
            /\ work'[t] = work[t] /\ UNCHANGED <<info, recipe>>
        BY <2>1
      <4>3. PendingFor(work[t].pipeline, s)' /\ \A u : ~PendingFor(work[t].pipeline, u)
        BY <2>2, <4>2
      <4> QED
        BY <4>1, <4>2, <4>3 DEF WorkInv, Unchanged
    <3> QED
      BY <3>1, <3>2
  <2> QED
    BY <2>3, <2>4 DEF FreshInv
<1>11. CASE Copy
  <2>1. /\ update.step = "copy" /\ update'.step = "invalidate" /\ update'.hash = update.hash
        /\ update'.handles = handles[update.hash]
        /\ UNCHANGED <<runtime, info, handles, recipe, work>>
    BY <1>11, <1>0 DEF Copy, TypeOK, Update
  <2> QED
    BY <1>8, <2>1 DEF PendingFor
<1>12. ASSUME NEW p \in Pipelines, Invalidate(p)
       PROVE FreshInv'
  <2>1. /\ update'.step = update.step /\ update'.hash = update.hash
        /\ update'.handles = update.handles \ {p}
        /\ update.step = "invalidate"
        /\ UNCHANGED <<runtime, handles, recipe, work>>
        /\ \A q \in Pipelines \ {p} : info'[q] = info[q]
    BY <1>12, <1>0 DEF Invalidate, TypeOK, PipelineInfo, Update
  <2>2. \A q \in Pipelines \ {p} : \A s : PendingFor(q, s) => PendingFor(q, s)'
    BY <2>1 DEF PendingFor
  <2>3. CASE update.hash \in info[p].shaders
    <3>1. /\ ~info'[p].initialized_replacement
          /\ info'[p].shaders = info[p].shaders /\ info'[p].destroyed = info[p].destroyed
          /\ info'[p].generation = info[p].generation
          /\ info'[p].replacement_revision = info[p].replacement_revision + 1
      BY <1>12, <2>3, <1>0 DEF Invalidate, TypeOK, PipelineInfo
    <3>2. RecordInv(p)'
      BY <2>1, <3>1, <1>f DEF RecordInv
    <3>3. ASSUME NEW q \in Pipelines \ {p} PROVE RecordInv(q)'
      BY <2>1, <2>2, <1>0, <1>f, RecordKept
    <3>4. ASSUME NEW t \in Threads PROVE WorkInv(t)'
      <4>1. CASE work[t].step = "idle"
        BY <2>1, <4>1 DEF WorkInv
      <4>2. CASE work[t].step # "idle" /\ work[t].pipeline = p
        <5>0. /\ WorkInv(t)
              /\ work[t].revision \in Nat /\ info[p].replacement_revision \in Nat
          BY <1>f, <1>t
        <5>1. info[p].generation = work[t].generation =>
                work[t].revision < info'[p].replacement_revision
          <6>1. info[p].generation = work[t].generation =>
                  work[t].revision <= info[p].replacement_revision
            BY <4>2, <5>0 DEF WorkInv
          <6> QED
            BY <3>1, <5>0, <6>1
        <5>2. ~Unchanged(info'[p], work[t])
          BY <3>1, <5>0, <5>1 DEF Unchanged
        <5>3. info'[p].generation = work[t].generation =>
                work[t].revision <= info'[p].replacement_revision
          BY <3>1, <5>0, <5>1
        <5>4. work'[t] = work[t] /\ UNCHANGED recipe
          BY <2>1
        <5> QED
          BY <4>2, <5>0, <5>2, <5>3, <5>4 DEF WorkInv
      <4>3. CASE work[t].step # "idle" /\ work[t].pipeline # p
        <5>1. WorkInv(t) /\ info'[work[t].pipeline] = info[work[t].pipeline]
          BY <2>1, <4>3, <1>f, <1>t
        <5>3. work'[t] = work[t] /\ UNCHANGED <<runtime, recipe>>
          BY <2>1
        <5>2. \A u : PendingFor(work[t].pipeline, u) => PendingFor(work[t].pipeline, u)'
          BY <2>2, <4>3, <5>3, <1>t DEF PendingFor
        <5> QED
          BY <5>1, <5>2, <5>3 DEF WorkInv, Unchanged
      <4> QED
        BY <4>1, <4>2, <4>3
    <3> QED
      BY <3>2, <3>3, <3>4 DEF FreshInv
  <2>4. CASE update.hash \notin info[p].shaders
    <3>1. info' = info
      BY <1>12, <2>4 DEF Invalidate
    <3>2. \A q \in Pipelines : \A s \in info[q].shaders : PendingFor(q, s) => PendingFor(q, s)'
      BY <2>1, <2>4 DEF PendingFor
    <3> QED
      BY <1>8, <2>1, <3>1, <3>2
  <2> QED
    BY <2>3, <2>4
<1>13. CASE Sweep
  <2>1. update.step = "invalidate" /\ update.handles = {}
        /\ UNCHANGED <<runtime, info, handles, recipe, work>>
    BY <1>13 DEF Sweep
  <2> QED
    BY <1>8, <2>1 DEF PendingFor
<1>14. CASE UNCHANGED vars
  BY <1>8, <1>14 DEF vars, PendingFor
<1> QED
  BY <1>1, <1>2, <1>3, <1>4, <1>5, <1>6, <1>7, <1>9, <1>10, <1>11, <1>12, <1>13, <1>14
     DEF Next, Game, Resolve, Carry

LEMMA InitFresh == Init => FreshInv
<1> SUFFICES ASSUME Init PROVE FreshInv
  OBVIOUS
<1>1. NoInfo.destroyed /\ Idle.step = "idle"
  BY DEF NoInfo, Idle
<1> QED
  BY <1>1 DEF Init, FreshInv, RecordInv, WorkInv

-----------------------------------------------------------------------------
\* The invariant, in every state.
LEMMA Invariance == Spec => []Inv
<1>1. Inv /\ [Next]_vars => Inv'
  BY TypeStep, LocalStep, HolderStep DEF Inv
<1> QED
  BY <1>1, InitInv, PTL DEF Spec

\* Every variable keeps to its type: records, threads and the update under
\* way hold handles, hashes and bytes of the kinds the code gives them.
THEOREM Types == Spec => []TypeOK
BY Invariance, PTL DEF Inv

\* However the game's pipelines come and go while threads build replacements
\* for them and the presenting thread withdraws them, every replacement
\* pipeline that exists on the device has exactly one holder that will destroy
\* it, and a destroyed one has none (shader.hpp, WithReplacementPipeline,
\* AddRuntimeReplacement, RemoveRuntimeReplacements, OnDestroyPipeline).
THEOREM OneHolder == Spec => []EveryReplacementHasOneHolder
<1>1. Inv => EveryReplacementHasOneHolder
  BY OneHolderEach DEF Inv
<1> QED
  BY <1>1, Invariance, PTL

\* When no update is under way, every pipeline that counts as resolved has the
\* replacement made for it from the bytes registered now (shader.hpp, the
\* commit of WithReplacementPipeline against the invalidation of an update).
THEOREM Currency == Spec => []ReplacementsAreCurrent
<1>1. Inv /\ FreshInv => ReplacementsAreCurrent
  <2>1. Done.step = "idle"
    BY DEF Done
  <2> QED
    BY <2>1 DEF FreshInv, RecordInv, PendingFor, ReplacementsAreCurrent
<1>2. Inv /\ [Next]_vars => Inv'
  BY TypeStep, LocalStep, HolderStep DEF Inv
<1> QED
  BY <1>1, <1>2, InitInv, InitFresh, FreshStep, PTL DEF Spec
=============================================================================
