--------------------------- MODULE CrossAddon_proofs ---------------------------
(***************************************************************************)
(* The invariants and action properties of CrossAddon hold for every set   *)
(* of modules, callbacks and events.  Inv is inductive; every other result *)
(* follows from it.                                                        *)
(***************************************************************************)
EXTENDS CrossAddon, FiniteSetTheorems, TLAPS

\* A freshly zeroed control block, with nobody in it, satisfies the invariant.
LEMMA InitInv == Init => Inv
BY CallbackAssumption
   DEF Init, Inv, TypeOK, MembershipIsOneDeep, SequencesOrdered, HandlerIsEldest, Eldest,
       OnlyHandlerRegistered, DetachedLeavesNothing, HandlerInSync, Known

(***************************************************************************)
(* What the two halves of an election do to the registrations, whatever    *)
(* the values they are applied to.                                         *)
(***************************************************************************)

\* After a hand-over and a synchronisation with an active handler, only that
\* handler holds registrations, and they are exactly the wanted ones.
LEMMA ElectAndSync ==
  ASSUME TypeOK, OnlyHandlerRegistered,
         NEW h \in Module, NEW act \in [Module -> BOOLEAN], act[h],
         NEW recs \in [Module -> SUBSET Callback], NEW lv \in [Module -> SUBSET Callback]
  PROVE  LET reg == Sync(h, act, recs, lv, HandOver(h, registered))
         IN  /\ reg \in [Module -> SUBSET Callback]
             /\ \A m \in Module : reg[m] # {} => m = h
             /\ reg[h] = {c \in recs[h] : EventOf[c] \in WantedEvents(act, lv)}
<1>1. h # NoModule
  BY CallbackAssumption
<1>2. HandOver(h, registered) \in [Module -> SUBSET Callback]
  BY DEF TypeOK, HandOver, Withdraw
<1>3. \A m \in Module : HandOver(h, registered)[m] # {} => m = h
  BY CallbackAssumption DEF TypeOK, HandOver, Withdraw, OnlyHandlerRegistered
<1>4. {c \in recs[h] : EventOf[c] \in WantedEvents(act, lv)} \in SUBSET Callback
  OBVIOUS
<1> QED
  BY <1>1, <1>2, <1>3, <1>4 DEF Sync

\* An election among the actives yields an active module that none precedes,
\* and null only when no module is active.
LEMMA EldestIsActive ==
  ASSUME NEW act, NEW seq, NEW h \in Eldest(act, seq)
  PROVE  /\ h = NoModule => \A m \in Module : ~act[m]
         /\ h # NoModule => h \in Module /\ act[h]
BY CallbackAssumption DEF Eldest

(***************************************************************************)
(* Joining, the common part of the three registering calls.                *)
(***************************************************************************)
LEMMA JoinKeeps ==
  ASSUME Inv, NEW m \in Module, Join(m)
  PROVE  /\ sequence' \in [Module -> Nat]
         /\ active' \in [Module -> BOOLEAN]
         /\ registrationCount' \in [Module -> Nat]
         /\ bound' \in [Module -> BOOLEAN]
         /\ nextSequence' \in Nat \ {0}
         /\ handler' \in Module
         /\ active'[m] /\ active'[handler']
         /\ MembershipIsOneDeep'
         /\ SequencesOrdered'
         /\ HandlerIsEldest'
         /\ \A n \in Module : active[n] => active'[n]
<1> USE DEF Inv
<1>1. /\ sequence' \in [Module -> Nat]
      /\ active' \in [Module -> BOOLEAN]
      /\ registrationCount' \in [Module -> Nat]
      /\ bound' \in [Module -> BOOLEAN]
      /\ nextSequence' \in Nat \ {0}
      /\ active'[m]
      /\ \A n \in Module : active[n] => active'[n]
  BY DEF Join, TypeOK
<1>2. MembershipIsOneDeep'
  <2> SUFFICES ASSUME NEW n \in Module
               PROVE  /\ registrationCount'[n] = IF active'[n] THEN 1 ELSE 0
                      /\ bound'[n] <=> active'[n]
    BY DEF MembershipIsOneDeep
  <2>1. CASE n = m
    BY <2>1 DEF Join, TypeOK, MembershipIsOneDeep
  <2>2. CASE n # m
    BY <2>2 DEF Join, TypeOK, MembershipIsOneDeep
  <2> QED
    BY <2>1, <2>2
<1>3. SequencesOrdered'
  BY DEF Join, TypeOK, SequencesOrdered, Known
<1>4. HandlerIsEldest'
  <2>1. CASE active[m]
    <3>1. active' = active /\ sequence' = sequence /\ handler' = handler
      BY <2>1 DEF Join, TypeOK, SequencesOrdered
    <3> QED
      BY <3>1 DEF HandlerIsEldest
  <2>2. CASE ~active[m]
    BY <2>2 DEF Join, HandlerIsEldest
  <2> QED
    BY <2>1, <2>2
<1>5. handler' \in Module /\ active'[handler']
  BY <1>1, <1>4, EldestIsActive DEF HandlerIsEldest
<1> QED
  BY <1>1, <1>2, <1>3, <1>4, <1>5

\* A registering call: the module joins, the records change for it alone, and
\* the registrations are brought up to date.
LEMMA RegisteringKeepsInv ==
  ASSUME Inv, NEW m \in Module, Join(m),
         records' \in [Module -> SUBSET Callback],
         live' \in [Module -> SUBSET Callback],
         \A n \in Module : n # m => live'[n] = live[n],
         listed' \subseteq Module,
         registered' = Sync(handler', active', records', live', HandOver(handler', registered))
  PROVE  Inv'
<1>1. /\ handler' \in Module
      /\ active' \in [Module -> BOOLEAN]
      /\ active'[handler']
  BY JoinKeeps
<1>2. /\ registered' \in [Module -> SUBSET Callback]
      /\ \A n \in Module : registered'[n] # {} => n = handler'
      /\ registered'[handler'] =
           {c \in records'[handler'] : EventOf[c] \in WantedEvents(active', live')}
  BY <1>1, ElectAndSync DEF Inv
<1>3. TypeOK'
  BY <1>2, JoinKeeps DEF TypeOK
<1>4. OnlyHandlerRegistered'
  BY <1>2 DEF OnlyHandlerRegistered
<1>5. DetachedLeavesNothing'
  BY <1>1, <1>2, JoinKeeps DEF Inv, DetachedLeavesNothing
<1>6. HandlerInSync'
  BY <1>2 DEF HandlerInSync, WantedEvents
<1> QED
  BY <1>3, <1>4, <1>5, <1>6, JoinKeeps DEF Inv

\* Withdrawing one callback keeps the invariant: only the live sets shrink, and
\* the handler's registrations are recomputed from them.
LEMMA UnregisterEventKeepsInv ==
  ASSUME Inv, NEW m \in Module, NEW c \in Callback, UnregisterEvent(m, c)
  PROVE  Inv'
<1> USE DEF Inv, UnregisterEvent
<1>1. live' \in [Module -> SUBSET Callback] /\ \A n \in Module : live'[n] \subseteq live[n]
  BY DEF TypeOK
<1>2. CASE handler = NoModule
  <2>1. registered' = registered
    BY <1>2 DEF Sync
  <2>2. TypeOK' /\ OnlyHandlerRegistered' /\ DetachedLeavesNothing'
    BY <1>1, <2>1 DEF TypeOK, OnlyHandlerRegistered, DetachedLeavesNothing
  <2>3. HandlerInSync'
    BY <1>2 DEF HandlerInSync
  <2> QED
    BY <2>2, <2>3 DEF MembershipIsOneDeep, SequencesOrdered, HandlerIsEldest, Eldest, Known
<1>3. CASE handler # NoModule
  <2>1. handler \in Module /\ active[handler]
    BY <1>3, EldestIsActive DEF HandlerIsEldest
  <2>2. registered' = [registered EXCEPT ![handler] =
           {d \in records[handler] : EventOf[d] \in WantedEvents(active, live')}]
    BY <1>3, <2>1 DEF Sync
  <2>3. /\ registered' \in [Module -> SUBSET Callback]
        /\ \A n \in Module : registered'[n] # {} => n = handler
        /\ registered'[handler] =
             {d \in records[handler] : EventOf[d] \in WantedEvents(active, live')}
    <3>1. {d \in records[handler] : EventOf[d] \in WantedEvents(active, live')}
            \in SUBSET Callback
      BY <2>1 DEF TypeOK
    <3> QED
      BY <2>1, <2>2, <3>1 DEF TypeOK, OnlyHandlerRegistered
  <2>4. TypeOK' /\ OnlyHandlerRegistered' /\ DetachedLeavesNothing'
    BY <1>1, <2>1, <2>3 DEF TypeOK, OnlyHandlerRegistered, DetachedLeavesNothing
  <2>5. HandlerInSync'
    BY <2>3 DEF HandlerInSync, WantedEvents
  <2> QED
    BY <2>4, <2>5 DEF MembershipIsOneDeep, SequencesOrdered, HandlerIsEldest, Eldest, Known
<1> QED
  BY <1>2, <1>3

\* Leaving keeps the invariant: a member's count is one, so the call takes it
\* out, withdraws its registrations and elects a successor that is then synced.
LEMMA UnregisterModuleKeepsInv ==
  ASSUME Inv, NEW m \in Module, UnregisterModule(m)
  PROVE  Inv'
<1> USE DEF Inv
<1>1. registrationCount[m] = 1 /\ active[m]
  BY DEF UnregisterModule, MembershipIsOneDeep
<1>2. /\ Leave(m)
      /\ registrationCount' = [registrationCount EXCEPT ![m] = 0]
      /\ UNCHANGED <<sequence, nextSequence, records, listed>>
  BY <1>1 DEF UnregisterModule
<1>3. /\ active' \in [Module -> BOOLEAN]
      /\ ~active'[m]
      /\ \A n \in Module : n # m => active'[n] = active[n]
      /\ live' \in [Module -> SUBSET Callback]
      /\ live'[m] = {}
      /\ \A n \in Module : n # m => live'[n] = live[n]
      /\ bound' \in [Module -> BOOLEAN]
      /\ registrationCount' \in [Module -> Nat]
  BY <1>2 DEF Leave, TypeOK
<1>4. MembershipIsOneDeep' /\ SequencesOrdered'
  BY <1>2, <1>3 DEF Leave, TypeOK, MembershipIsOneDeep, SequencesOrdered, Known
<1>5. HandlerIsEldest'
  BY <1>2 DEF Leave, HandlerIsEldest, Eldest
<1> DEFINE reg == HandOver(handler', Withdraw(m, registered))
<1>6. /\ reg \in [Module -> SUBSET Callback]
      /\ reg[m] = {}
      /\ \A n \in Module : reg[n] # {} => n = handler'
  BY CallbackAssumption DEF HandOver, Withdraw, TypeOK, OnlyHandlerRegistered
<1>7. registered' = Sync(handler', active', records', live', reg)
  BY <1>2 DEF Leave
<1> HIDE DEF reg
<1>8. CASE handler' = NoModule
  <2>1. registered' = reg
    BY <1>7, <1>8 DEF Sync
  <2> QED
    BY <1>2, <1>3, <1>4, <1>5, <1>6, <1>8, <2>1, CallbackAssumption
    DEF TypeOK, OnlyHandlerRegistered, DetachedLeavesNothing, HandlerInSync
<1>9. CASE handler' # NoModule
  <2>1. handler' \in Module /\ active'[handler'] /\ handler' # m
    BY <1>3, <1>5, <1>9, EldestIsActive DEF HandlerIsEldest
  <2>2. /\ registered' \in [Module -> SUBSET Callback]
        /\ \A n \in Module : registered'[n] # {} => n = handler'
        /\ registered'[handler'] =
             {d \in records'[handler'] : EventOf[d] \in WantedEvents(active', live')}
    <3>1. records' \in [Module -> SUBSET Callback]
      BY <1>2 DEF TypeOK
    <3>2. registered' = [reg EXCEPT ![handler'] =
             {d \in records'[handler'] : EventOf[d] \in WantedEvents(active', live')}]
      BY <1>7, <1>9, <2>1 DEF Sync
    <3>3. {d \in records'[handler'] : EventOf[d] \in WantedEvents(active', live')}
            \in SUBSET Callback
      BY <2>1, <3>1
    <3> QED
      BY <1>6, <2>1, <3>2, <3>3
  <2>3. TypeOK'
    BY <1>2, <1>3, <2>1, <2>2 DEF TypeOK
  <2>4. OnlyHandlerRegistered' /\ DetachedLeavesNothing'
    BY <1>3, <2>1, <2>2 DEF OnlyHandlerRegistered, DetachedLeavesNothing
  <2>5. HandlerInSync'
    BY <2>2 DEF HandlerInSync, WantedEvents
  <2> QED
    BY <1>4, <1>5, <2>3, <2>4, <2>5
<1> QED
  BY <1>8, <1>9

\* Every call of the sharing interface keeps the invariant.
LEMMA StepInv == Inv /\ [Next]_vars => Inv'
<1> SUFFICES ASSUME Inv, [Next]_vars PROVE Inv'
  OBVIOUS
<1>1. ASSUME NEW m \in Module, RegisterModule(m) PROVE Inv'
  BY <1>1, RegisteringKeepsInv DEF RegisterModule, Inv, TypeOK
<1>2. ASSUME NEW m \in Module, NEW c \in Callback, NEW on \in BOOLEAN, RegisterEvent(m, c, on)
      PROVE  Inv'
  <2>1. /\ records' \in [Module -> SUBSET Callback]
        /\ live' \in [Module -> SUBSET Callback]
        /\ \A n \in Module : n # m => live'[n] = live[n]
        /\ listed' \subseteq Module
    BY <1>2 DEF RegisterEvent, Inv, TypeOK
  <2> QED
    BY <1>2, <2>1, RegisteringKeepsInv DEF RegisterEvent
<1>3. ASSUME NEW m \in Module, NEW c \in Callback, UnregisterEvent(m, c) PROVE Inv'
  BY <1>3, UnregisterEventKeepsInv
<1>4. ASSUME NEW m \in Module, UnregisterModule(m) PROVE Inv'
  BY <1>4, UnregisterModuleKeepsInv
<1>5. ASSUME NEW m \in Module, NEW on \in BOOLEAN, RegisterCallback(m, on) PROVE Inv'
  <2>1. listed' \subseteq Module
    BY <1>5 DEF RegisterCallback, Inv, TypeOK
  <2> QED
    BY <1>5, <2>1, RegisteringKeepsInv DEF RegisterCallback, Inv, TypeOK
<1>6. ASSUME NEW m \in Module, UnregisterCallback(m) PROVE Inv'
  BY <1>6 DEF UnregisterCallback, Inv, TypeOK, MembershipIsOneDeep, SequencesOrdered,
              HandlerIsEldest, Eldest, OnlyHandlerRegistered, DetachedLeavesNothing,
              HandlerInSync, WantedEvents, Known
<1>7. CASE UNCHANGED vars
  BY <1>7 DEF vars, Inv, TypeOK, MembershipIsOneDeep, SequencesOrdered,
              HandlerIsEldest, Eldest, OnlyHandlerRegistered, DetachedLeavesNothing,
              HandlerInSync, WantedEvents, Known
<1> QED
  BY <1>1, <1>2, <1>3, <1>4, <1>5, <1>6, <1>7 DEF Next

-----------------------------------------------------------------------------
(***************************************************************************)
(* The results.                                                            *)
(***************************************************************************)

\* Inv is an invariant of the specification.
LEMMA Invariance == Spec => []Inv
BY InitInv, StepInv, PTL DEF Spec

\* Every field of the shared block stays in its range.
THEOREM TypeCorrect == Spec => []TypeOK
<1>1. Inv => TypeOK
  BY DEF Inv
<1> QED
  BY <1>1, Invariance, PTL

\* Every registration of a DLL is undone by a single UnregisterModule.
THEOREM MembershipCorrect == Spec => []MembershipIsOneDeep
<1>1. Inv => MembershipIsOneDeep
  BY DEF Inv
<1> QED
  BY <1>1, Invariance, PTL

\* The event handler is always the eldest active module.
THEOREM HandlerCorrect == Spec => []HandlerIsEldest
<1>1. Inv => HandlerIsEldest
  BY DEF Inv
<1> QED
  BY <1>1, Invariance, PTL

\* ReShade never holds the callbacks of two modules, nor of one that left.
THEOREM RegistrationsCorrect == Spec => [](OnlyHandlerRegistered /\ DetachedLeavesNothing)
<1>1. Inv => OnlyHandlerRegistered /\ DetachedLeavesNothing
  BY DEF Inv
<1> QED
  BY <1>1, Invariance, PTL

\* No event reaches two members; a wanted event every member can serve reaches
\* exactly one; an event nobody wants reaches none.
THEOREM DeliveryCorrect == Spec => []DeliveredExactlyOnce
<1>1. Inv => DeliveredExactlyOnce
  <2> SUFFICES ASSUME Inv, NEW e \in Event PROVE DeliveredExactlyOnce!(e)
    BY DEF DeliveredExactlyOnce
  <2> USE DEF Inv
  <2> DEFINE receivers == {m \in Module : \E c \in registered[m] : EventOf[c] = e}
  <2>1. handler = NoModule => receivers = {}
    BY CallbackAssumption DEF OnlyHandlerRegistered
  <2>2. \A m \in receivers : m = handler
    BY DEF OnlyHandlerRegistered
  <2>3. ASSUME e \in WantedEvents(active, live),
               \A m \in Members : \E c \in records[m] : EventOf[c] = e
        PROVE  Cardinality(receivers) = 1
    <3>1. PICK m \in Module : active[m]
      BY <2>3 DEF WantedEvents
    <3>2. handler \in Module /\ active[handler]
      BY <3>1, EldestIsActive DEF HandlerIsEldest
    <3>3. PICK c \in records[handler] : EventOf[c] = e
      BY <2>3, <3>2 DEF Members
    <3>4. c \in registered[handler]
      BY <2>3, <3>2, <3>3, CallbackAssumption DEF HandlerInSync
    <3>5. receivers = {handler}
      BY <2>2, <3>2, <3>3, <3>4
    <3> QED
      BY <3>5, FS_Singleton
  <2>4. ASSUME e \notin WantedEvents(active, live) PROVE receivers = {}
    <3>1. CASE handler = NoModule
      BY <2>1, <3>1
    <3>2. CASE handler # NoModule
      BY <2>2, <2>4, <3>2 DEF HandlerInSync
    <3> QED
      BY <3>1, <3>2
  <2> QED
    BY <2>2, <2>3, <2>4
<1> QED
  BY <1>1, Invariance, PTL

\* No call interrupts the delivery of an event that is still wanted and that
\* the handler after the call can serve.
THEOREM DeliveryHasNoGap == Spec => NoDeliveryGap
<1> DEFINE Step ==
      \A e \in Event, m \in Module :
        /\ \E n \in Module : \E c \in registered[n] : EventOf[c] = e
        /\ e \in WantedEvents(active, live)'
        /\ handler' = m
        /\ \E c \in records'[m] : EventOf[c] = e
        => \E c \in registered'[m] : EventOf[c] = e
<1>1. Inv' => Step
  BY CallbackAssumption DEF Inv, HandlerInSync
<1>2. Inv /\ [Next]_vars => [Step]_vars
  BY <1>1, StepInv
<1> HIDE DEF Step
<1>3. Spec => [][Step]_vars
  BY <1>2, Invariance, PTL DEF Spec
<1> QED
  BY <1>3 DEF Step, NoDeliveryGap

\* Joining moves the role of handler only to a joiner that was already known
\* and is older than the handler it displaces.
LEMMA JoinDisplaces ==
  ASSUME Inv, NEW k \in Module, Join(k), NEW m \in Module,
         handler = m, handler' # m
  PROVE  handler' = k /\ Known(k) /\ sequence[k] < sequence[m]
<1> USE DEF Inv
<1>1. ~active[k]
  BY DEF Join
<1>2. handler' \in Module /\ active'[handler']
  BY JoinKeeps
<1>3. active[m] /\ \A n \in Module : active[n] => sequence[m] <= sequence[n]
  BY CallbackAssumption DEF HandlerIsEldest, Eldest
<1>4. m # k /\ sequence'[m] = sequence[m] /\ active'[m]
  BY <1>1, <1>3 DEF Join, TypeOK
<1>5. sequence'[handler'] <= sequence'[m]
  BY <1>2, <1>4, JoinKeeps, CallbackAssumption DEF HandlerIsEldest, Eldest
<1>6. handler' = k
  <2> SUFFICES ASSUME handler' # k PROVE FALSE
    OBVIOUS
  <2>1. active[handler'] /\ sequence'[handler'] = sequence[handler']
    BY <1>2 DEF Join, TypeOK
  <2> QED
    BY <1>2, <1>3, <1>4, <1>5, <2>1 DEF TypeOK, SequencesOrdered
<1>7. Known(k)
  BY <1>4, <1>5, <1>6 DEF Join, TypeOK, SequencesOrdered
<1>8. sequence[k] <= sequence[m]
  BY <1>4, <1>5, <1>6, <1>7 DEF Join
<1> QED
  BY <1>4, <1>6, <1>7, <1>8 DEF TypeOK, SequencesOrdered

\* A call that leaves the set of members alone or only removes one other member
\* does not move the role.
LEMMA LeaveKeepsHandler ==
  ASSUME Inv, NEW k \in Module, UnregisterModule(k), NEW m \in Module,
         handler = m, active'[m]
  PROVE  handler' = m
<1> USE DEF Inv
<1>1. Leave(k) /\ UNCHANGED sequence
  BY DEF UnregisterModule, MembershipIsOneDeep
<1>2. m # k
  BY <1>1 DEF Leave, TypeOK
<1>3. active[m] /\ \A n \in Module : active[n] => sequence[m] <= sequence[n]
  BY CallbackAssumption DEF HandlerIsEldest, Eldest
<1>4. handler' \in Module /\ active'[handler'] /\ sequence[handler'] <= sequence[m]
  BY <1>1, CallbackAssumption DEF Leave, Eldest
<1>5. active[handler']
  BY <1>1, <1>4 DEF Leave, TypeOK
<1> QED
  BY <1>3, <1>4, <1>5 DEF TypeOK, SequencesOrdered

\* A handler that stays a member is displaced only by an older module that
\* came back.
THEOREM HandlerIsStable == Spec => NewcomerNeverTakesOver
<1> DEFINE Step ==
      \A m \in Module :
        handler = m /\ active'[m] /\ handler' # m
          => \E n \in Module : handler' = n /\ Known(n) /\ sequence[n] < sequence[m]
<1>1. Inv /\ [Next]_vars => Step
  <2> SUFFICES ASSUME Inv, [Next]_vars, NEW m \in Module,
                      handler = m, active'[m], handler' # m
               PROVE  \E n \in Module : handler' = n /\ Known(n) /\ sequence[n] < sequence[m]
    OBVIOUS
  <2>1. PICK k \in Module :
          \/ Join(k)
          \/ \E c \in Callback : UnregisterEvent(k, c)
          \/ UnregisterModule(k)
          \/ UnregisterCallback(k)
    BY DEF Next, vars, RegisterModule, RegisterEvent, RegisterCallback
  <2>2. CASE Join(k)
    BY <2>2, JoinDisplaces
  <2>3. CASE UnregisterModule(k)
    BY <2>3, LeaveKeepsHandler
  <2>4. CASE (\E c \in Callback : UnregisterEvent(k, c)) \/ UnregisterCallback(k)
    BY <2>4 DEF UnregisterEvent, UnregisterCallback
  <2> QED
    BY <2>1, <2>2, <2>3, <2>4
<1> HIDE DEF Step
<1>2. Spec => [][Step]_vars
  BY <1>1, Invariance, PTL DEF Spec
<1> QED
  BY <1>2 DEF Step, NewcomerNeverTakesOver

=============================================================================
