------------------------------ MODULE CrossAddon ------------------------------
(***************************************************************************)
(* Several add-on DLLs of one process share one block of state per data    *)
(* type (src/utils/cross_addon.hpp).  Every DLL may carry the same ReShade *)
(* callbacks, so exactly one of them, the event handler, hands its copies  *)
(* to ReShade on behalf of all.  The process-wide ControlBlock lists one   *)
(* ModuleRecord per DLL token; a record outlives the registration of its   *)
(* DLL and is found again by token when the DLL returns.                   *)
(*                                                                         *)
(* The calls are made from DllMain and from add-on code under the loader   *)
(* lock, without a lock of their own, so one call is one action.           *)
(***************************************************************************)
EXTENDS Naturals, FiniteSets

CONSTANTS Module,     \* the add-on DLLs, by ModuleToken
          Callback,   \* the callbacks a DLL can register; each DLL has its copy
          Event,      \* reshade::addon_event
          EventOf,    \* the event a callback is written for
          NoModule    \* the null ModuleRecord pointer

ASSUME CallbackAssumption ==
  /\ EventOf \in [Callback -> Event]
  /\ NoModule \notin Module

VARIABLES
  sequence,           \* ModuleRecord::sequence; 0 while there is no record
  active,             \* ModuleRecord::active
  registrationCount,  \* ModuleRecord::registration_count
  bound,              \* Shared::module of the DLL is set
  handler,            \* ControlBlock::event_handler
  nextSequence,       \* ControlBlock::next_sequence
  records,            \* the callbacks with an EventRecord in the module's list
  live,               \* those whose EventRecord::active is set
  registered,         \* those whose reshade_registered is set: ReShade calls them
  listed              \* the modules whose callback is in a list of Data

vars == <<sequence, active, registrationCount, bound, handler, nextSequence,
          records, live, registered, listed>>

Known(m) == sequence[m] # 0

Members == {m \in Module : active[m]}

(***************************************************************************)
(* The helpers take the values they read, as the calls below apply them to *)
(* intermediate states.                                                    *)
(***************************************************************************)

\* ElectHandler's loop with IsBetterHandler: the active module with the
\* smallest sequence, or null.
Eldest(act, seq) ==
  LET candidates == {m \in Module : act[m]}
  IN  IF candidates = {}
        THEN {NoModule}
        ELSE {m \in candidates : \A n \in candidates : seq[m] <= seq[n]}

\* The events some active module has a live record of.
WantedEvents(act, lv) ==
  {EventOf[c] : c \in UNION {lv[m] : m \in {n \in Module : act[n]}}}

\* Defect for comparison: the handler registers only what it wants itself.
SyncOwnOnly(h, act, recs, lv, reg) ==
  IF h = NoModule \/ ~act[h] THEN reg ELSE [reg EXCEPT ![h] = lv[h]]

\* SyncReshadeEvents: only the handler's own records are ever registered,
\* each exactly when its event is wanted by anyone.
Sync(h, act, recs, lv, reg) ==
  IF h = NoModule \/ ~act[h]
    THEN reg
    ELSE [reg EXCEPT ![h] = {c \in recs[h] : EventOf[c] \in WantedEvents(act, lv)}]

\* UnregisterReshadeEvents on a module, if there is one.
Withdraw(m, reg) == IF m = NoModule THEN reg ELSE [reg EXCEPT ![m] = {}]

\* The registrations after ElectHandler chose h: a handler that lost the role
\* is withdrawn before the new one is synchronised.
HandOver(h, reg) == IF h = handler THEN reg ELSE Withdraw(handler, reg)

-----------------------------------------------------------------------------
Init ==
  /\ sequence = [m \in Module |-> 0]
  /\ active = [m \in Module |-> FALSE]
  /\ registrationCount = [m \in Module |-> 0]
  /\ bound = [m \in Module |-> FALSE]
  /\ handler = NoModule
  /\ nextSequence = 1
  /\ records = [m \in Module |-> {}]
  /\ live = [m \in Module |-> {}]
  /\ registered = [m \in Module |-> {}]
  /\ listed = {}

(***************************************************************************)
(* Shared::RegisterModule up to its last SyncReshadeEvents, the common     *)
(* prefix of every Register call: find or create the record, become active *)
(* once, elect.                                                            *)
(***************************************************************************)
Join(m) ==
  /\ sequence' = IF Known(m) THEN sequence ELSE [sequence EXCEPT ![m] = nextSequence]
  /\ nextSequence' = IF Known(m) THEN nextSequence ELSE nextSequence + 1
  /\ bound' = [bound EXCEPT ![m] = TRUE]
  /\ active' = [active EXCEPT ![m] = TRUE]
  /\ registrationCount' =
       [registrationCount EXCEPT ![m] = IF active[m] THEN @ ELSE @ + 1]
  /\ IF active[m] THEN handler' = handler
                  ELSE handler' \in Eldest(active', sequence')

\* Defect for comparison: a registration that ends without SyncReshadeEvents.
RegisterModuleWithoutSync(m) ==
  /\ Join(m)
  /\ registered' = HandOver(handler', registered)
  /\ UNCHANGED <<records, live, listed>>

\* The caller's Data& callback is not modelled: it touches the shared data only.
RegisterModule(m) ==
  /\ Join(m)
  /\ registered' = Sync(handler', active', records, live, HandOver(handler', registered))
  /\ UNCHANGED <<records, live, listed>>

(***************************************************************************)
(* RegisterEvent<ev>(callback, on).  When the record cannot be allocated   *)
(* the call returns after the nested RegisterModule: that outcome is a     *)
(* RegisterModule step.                                                    *)
(***************************************************************************)
RegisterEvent(m, c, on) ==
  /\ Join(m)
  /\ records' = [records EXCEPT ![m] = @ \union {c}]
  /\ live' = [live EXCEPT ![m] = IF on THEN @ \union {c} ELSE @ \ {c}]
  /\ registered' = Sync(handler', active', records', live', HandOver(handler', registered))
  /\ UNCHANGED listed

\* UnregisterEvent: the record stays, only its active flag is cleared.
UnregisterEvent(m, c) ==
  /\ bound[m]
  /\ c \in records[m]
  /\ live' = [live EXCEPT ![m] = @ \ {c}]
  /\ registered' = Sync(handler, active, records, live', registered)
  /\ UNCHANGED <<sequence, active, registrationCount, bound, handler,
                 nextSequence, records, listed>>

\* Defect for comparison: the departing module's records stay live.
LeaveKeepingEvents(m) ==
  /\ active' = [active EXCEPT ![m] = FALSE]
  /\ live' = live
  /\ handler' \in Eldest(active', sequence)
  /\ registered' = Sync(handler', active', records, live,
                        HandOver(handler', Withdraw(m, registered)))
  /\ bound' = [bound EXCEPT ![m] = FALSE]

\* The inner block of UnregisterModule, entered when the count reached zero.
Leave(m) ==
  /\ active' = [active EXCEPT ![m] = FALSE]
  /\ live' = [live EXCEPT ![m] = {}]
  /\ handler' \in Eldest(active', sequence)
  /\ registered' = Sync(handler', active', records, live',
                        HandOver(handler', Withdraw(m, registered)))
  /\ bound' = [bound EXCEPT ![m] = FALSE]

UnregisterModule(m) ==
  LET remaining == IF registrationCount[m] > 0 THEN registrationCount[m] - 1 ELSE 0
  IN  /\ bound[m]
      /\ registrationCount' = [registrationCount EXCEPT ![m] = remaining]
      /\ IF remaining = 0
           THEN Leave(m)
           ELSE UNCHANGED <<active, live, handler, registered, bound>>
      /\ UNCHANGED <<sequence, nextSequence, records, listed>>

\* RegisterCallback joins like every registration, even to remove (on = FALSE).
RegisterCallback(m, on) ==
  /\ Join(m)
  /\ listed' = IF on THEN listed \union {m} ELSE listed \ {m}
  /\ registered' = Sync(handler', active', records, live, HandOver(handler', registered))
  /\ UNCHANGED <<records, live>>

\* UnregisterCallback needs only the data pointer, which a DLL keeps after
\* UnregisterModule.
UnregisterCallback(m) ==
  /\ Known(m)
  /\ listed' = listed \ {m}
  /\ UNCHANGED <<sequence, active, registrationCount, bound, handler,
                 nextSequence, records, live, registered>>

Next ==
  \E m \in Module :
    \/ RegisterModule(m)
    \/ \E c \in Callback, on \in BOOLEAN : RegisterEvent(m, c, on)
    \/ \E c \in Callback : UnregisterEvent(m, c)
    \/ UnregisterModule(m)
    \/ \E on \in BOOLEAN : RegisterCallback(m, on)
    \/ UnregisterCallback(m)

Spec == Init /\ [][Next]_vars

-----------------------------------------------------------------------------
\* The shape of the shared block: which values each field of the ControlBlock
\* and of the ModuleRecords takes.
TypeOK ==
  /\ sequence \in [Module -> Nat]
  /\ active \in [Module -> BOOLEAN]
  /\ registrationCount \in [Module -> Nat]
  /\ bound \in [Module -> BOOLEAN]
  /\ handler \in Module \union {NoModule}
  /\ nextSequence \in Nat \ {0}
  /\ records \in [Module -> SUBSET Callback]
  /\ live \in [Module -> SUBSET Callback]
  /\ registered \in [Module -> SUBSET Callback]
  /\ listed \subseteq Module

\* registration_count only ever distinguishes members from the rest: however
\* often a DLL registered, one UnregisterModule takes it out.
MembershipIsOneDeep ==
  \A m \in Module :
    /\ registrationCount[m] = IF active[m] THEN 1 ELSE 0
    /\ bound[m] <=> active[m]

\* Between calls the handler is the active module that registered first in the
\* process, and there is a handler as soon as one module is active
\* (ElectHandler runs on every change of membership).
HandlerIsEldest == handler \in Eldest(active, sequence)

\* ReShade holds callbacks of the handler only: an event never reaches the
\* shared state twice, through the copies of two DLLs.
OnlyHandlerRegistered ==
  \A m \in Module : registered[m] # {} => m = handler

\* Once UnregisterModule returned, ReShade holds no callback of the DLL, so the
\* DLL may be unloaded, and its records no longer keep an event wanted.
DetachedLeavesNothing ==
  \A m \in Module : ~active[m] => registered[m] = {} /\ live[m] = {}

\* The handler's registrations are current: one per record of it whose event
\* some member wants (every call that changes either side ends in
\* SyncReshadeEvents).
HandlerInSync ==
  handler # NoModule =>
    registered[handler] = {c \in records[handler] : EventOf[c] \in WantedEvents(active, live)}

\* Sequence numbers order the records: no two share one, members have one, and
\* the next number to be given is larger than all.
SequencesOrdered ==
  /\ \A m \in Module : sequence[m] < nextSequence
  /\ \A m \in Module : active[m] => Known(m)
  /\ \A m, n \in Module : Known(m) /\ sequence[m] = sequence[n] => m = n

\* The inductive invariant behind the properties.
Inv ==
  /\ TypeOK
  /\ MembershipIsOneDeep
  /\ SequencesOrdered
  /\ HandlerIsEldest
  /\ OnlyHandlerRegistered
  /\ DetachedLeavesNothing
  /\ HandlerInSync

\* No event is delivered through the copies of two DLLs; an event that any member
\* wants, and that every member has a record of, reaches exactly one, whichever
\* sequence of calls led here; an event nobody wants reaches none.
DeliveredExactlyOnce ==
  \A e \in Event :
    LET receivers == {m \in Module : \E c \in registered[m] : EventOf[c] = e}
        wanted == e \in WantedEvents(active, live)
        uniform == \A m \in Members : \E c \in records[m] : EventOf[c] = e
    IN  /\ \A m, n \in receivers : m = n
        /\ wanted /\ uniform => Cardinality(receivers) = 1
        /\ ~wanted => receivers = {}

\* A handler that stays a member loses the role only to a DLL that was in the
\* process before it and came back: a first registration never takes over.
NewcomerNeverTakesOver ==
  [][\A m \in Module :
       handler = m /\ active'[m] /\ handler' # m
         => \E n \in Module : handler' = n /\ Known(n) /\ sequence[n] < sequence[m]]_vars

\* No call opens a gap in the delivery of an event: what was delivered before
\* and is still wanted afterwards is delivered afterwards, whoever handles it
\* now, provided the new handler has a callback for it.
NoDeliveryGap ==
  [][\A e \in Event, m \in Module :
       /\ \E n \in Module : \E c \in registered[n] : EventOf[c] = e
       /\ e \in WantedEvents(active, live)'
       /\ handler' = m
       /\ \E c \in records'[m] : EventOf[c] = e
       => \E c \in registered'[m] : EventOf[c] = e]_vars
=============================================================================
