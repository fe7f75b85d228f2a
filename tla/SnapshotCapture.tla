---------------------------- MODULE SnapshotCapture ----------------------------
(***************************************************************************)
(* The snapshot of one frame of one device, src/addons/devkit/addon.cpp:    *)
(* draws are appended by the threads that record command lists, stamped     *)
(* with an order by the threads that submit the lists (D3D12 and Vulkan),   *)
(* and sorted and indexed by the present that ends the capture.  All of     *)
(* them look at snapshot_device before they take the device's lock.         *)
(*                                                                         *)
(* When a capture begins is SnapshotQueue's business; here it may at any    *)
(* present.  A capture that another device's capture replaces is outside    *)
(* this module: its draws are neither sorted nor indexed, and the indexes   *)
(* of the capture before stay.                                             *)
(***************************************************************************)
EXTENDS Naturals, Sequences, FiniteSets

CONSTANTS Lists,      \* command lists
          Shaders,
          MaxDraws,   \* bound on the draws of a capture
          MaxSubmits, \* bound on the submissions during a capture
          MaxCounter  \* bound on the draws between two resets of a list

ASSUME CaptureAssumption == {MaxDraws, MaxSubmits, MaxCounter} \subseteq Nat

VARIABLES
  active,     \* snapshot_device is this device
  finishing,  \* the present has reset it and not yet taken the lock
  draws,      \* draw_details_list
  batch,      \* draw_detail_indexes_by_cmd_list
  usage,      \* shader_draw_indexes
  submits,    \* snapshot_submission_counter
  at,         \* what the thread that owns a command list does with it
  counter,    \* draw_counter of the list
  ticket      \* the order its submission drew

capture == <<active, finishing>>
cache == <<draws, batch, usage>>
captureVars == <<capture, cache, submits, at, counter, ticket>>

NoBatch == [l \in Lists |-> {}]

CaptureInit ==
  /\ active = FALSE /\ finishing = FALSE
  /\ draws = <<>> /\ batch = NoBatch /\ usage = [s \in Shaders |-> {}]
  /\ submits = 0
  /\ at = [l \in Lists |-> "open"]
  /\ counter = [l \in Lists |-> 0] /\ ticket = [l \in Lists |-> 0]

-----------------------------------------------------------------------------
\* OnDraw, OnCopyResource, OnCopyTextureRegion: the capture is on, ...  (The time
\* a draw is given is that of its appending; the code reads the clock on the
\* way to the lock.)
Draw(l) ==
  /\ at[l] = "open" /\ active /\ counter[l] < MaxCounter
  /\ Len(draws) + Cardinality({k \in Lists : at[k] = "drawing"}) < MaxDraws
  /\ at' = [at EXCEPT ![l] = "drawing"]
  /\ counter' = [counter EXCEPT ![l] = @ + 1]
  /\ UNCHANGED <<capture, cache, submits, ticket>>

\* ... and under the lock the draw is appended, capture or no capture.
AppendDraw(l, s) ==
  /\ at[l] = "drawing"
  /\ draws' = Append(draws, [list |-> l, nth |-> counter[l] - 1, shader |-> s,
                             time |-> Len(draws), order |-> 0])
  /\ batch' = [batch EXCEPT ![l] = @ \cup {Len(draws) + 1}]
  /\ at' = [at EXCEPT ![l] = "open"]
  /\ UNCHANGED <<capture, usage, submits, counter, ticket>>

\* The application closes a list before it submits it or records it anew.
Close(l) ==
  /\ at[l] = "open"
  /\ at' = [at EXCEPT ![l] = "closed"]
  /\ UNCHANGED <<capture, cache, submits, counter, ticket>>

\* OnExecuteCommandList: the order is drawn before the lock is taken.
Submit(l) ==
  /\ at[l] = "closed" /\ active /\ submits < MaxSubmits
  /\ submits' = submits + 1
  /\ ticket' = [ticket EXCEPT ![l] = submits + 1]
  /\ at' = [at EXCEPT ![l] = "submitting"]
  /\ UNCHANGED <<capture, cache, counter>>

Stamp(l) ==
  /\ at[l] = "submitting"
  /\ draws' = [i \in DOMAIN draws |->
                 IF i \in batch[l] /\ draws[i].order = 0
                 THEN [draws[i] EXCEPT !.order = ticket[l]] ELSE draws[i]]
  /\ batch' = [batch EXCEPT ![l] = {}]
  /\ at' = [at EXCEPT ![l] = "closed"] /\ ticket' = [ticket EXCEPT ![l] = 0]
  /\ UNCHANGED <<capture, usage, submits, counter>>

\* OnResetCommandList; the destruction and reuse of the list do the same.
Reset(l) ==
  /\ at[l] = "closed"
  /\ batch' = [batch EXCEPT ![l] = {}]
  /\ at' = [at EXCEPT ![l] = "open"] /\ counter' = [counter EXCEPT ![l] = 0]
  /\ UNCHANGED <<capture, draws, usage, submits, ticket>>

-----------------------------------------------------------------------------
\* OnPresent takes up a queued snapshot.  shader_draw_indexes stays as it is.
Begin ==
  /\ ~active /\ ~finishing
  /\ active' = TRUE
  /\ draws' = <<>> /\ batch' = NoBatch /\ submits' = 0
  /\ UNCHANGED <<finishing, usage, at, counter, ticket>>

StopCapturing ==
  /\ active
  /\ active' = FALSE /\ finishing' = TRUE
  /\ UNCHANGED <<cache, submits, at, counter, ticket>>

\* The comparison of the sort: submitted draws first, by their order, then by
\* their place in the list, or by the clock when the lists differ.
Before(a, b) ==
  IF (a.order = 0) # (b.order = 0) THEN a.order # 0
  ELSE IF a.order # b.order THEN a.order < b.order
  ELSE IF a.list = b.list THEN a.nth < b.nth ELSE a.time < b.time

\* What the sort may make of a list: an arrangement the comparison agrees with;
\* where it goes round in a circle, which the library leaves undefined, any.
Arrangements(s) ==
  LET perms == {p \in [DOMAIN s -> DOMAIN s] : \A i, j \in DOMAIN s : p[i] = p[j] => i = j}
      good == {p \in perms : \A i, j \in DOMAIN s : i < j => ~Before(s[p[j]], s[p[i]])}
  IN {[i \in DOMAIN s |-> s[p[i]]] : p \in IF good = {} THEN perms ELSE good}

UsageOf(s) == [h \in Shaders |-> {i \in DOMAIN s : s[i].shader = h}]

\* Defect for comparison: the indexes by list outlive the sort.
SortOnly ==
  /\ finishing
  /\ finishing' = FALSE
  /\ \E s \in Arrangements(draws) : draws' = s /\ usage' = UsageOf(s)
  /\ UNCHANGED <<active, batch, submits, at, counter, ticket>>

\* Defect for comparison: indexed first, then sorted.
IndexThenSort ==
  /\ finishing
  /\ finishing' = FALSE
  /\ draws' \in Arrangements(draws) /\ usage' = UsageOf(draws)
  /\ batch' = NoBatch
  /\ UNCHANGED <<active, submits, at, counter, ticket>>

\* Under the lock: sorted, and indexed from scratch.
Finish ==
  /\ finishing
  /\ finishing' = FALSE
  /\ \E s \in Arrangements(draws) : draws' = s /\ usage' = UsageOf(s)
  /\ batch' = NoBatch
  /\ UNCHANGED <<active, submits, at, counter, ticket>>

CaptureNext ==
  \/ \E l \in Lists : Draw(l) \/ Close(l) \/ Submit(l) \/ Stamp(l) \/ Reset(l)
                      \/ \E s \in Shaders : AppendDraw(l, s)
  \/ Begin \/ StopCapturing \/ Finish

CaptureSpec == CaptureInit /\ [][CaptureNext]_captureVars

-----------------------------------------------------------------------------
Draws == [list : Lists, nth : Nat, shader : Shaders, time : Nat, order : Nat]

CaptureTypeOK ==
  /\ active \in BOOLEAN /\ finishing \in BOOLEAN
  /\ draws \in Seq(Draws)
  /\ batch \in [Lists -> SUBSET Nat] /\ usage \in [Shaders -> SUBSET Nat]
  /\ submits \in Nat
  /\ at \in [Lists -> {"open", "drawing", "closed", "submitting"}]
  /\ counter \in [Lists -> Nat] /\ ticket \in [Lists -> Nat]

\* The indexes a submission will stamp are those of draws recorded into its
\* list since it was last reset, and not submitted yet: whatever the
\* sort moves, whichever capture the recording and the submission belong to.
BatchesNameTheirDraws ==
  \A l \in Lists : \A i \in batch[l] :
    /\ i \in DOMAIN draws /\ draws[i].list = l
    /\ draws[i].nth < counter[l] /\ draws[i].order = 0

\* Outside a capture, the overlay's "previous" and "next" buttons lead from a
\* shader to draws that use it, also with the draws that came in late.
UsageFitsTheDraws ==
  ~active /\ ~finishing =>
    \A s \in Shaders : \A i \in usage[s] : i \in DOMAIN draws /\ draws[i].shader = s
=============================================================================
