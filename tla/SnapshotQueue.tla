----------------------------- MODULE SnapshotQueue -----------------------------
(***************************************************************************)
(* Who may capture a frame: src/addons/devkit/addon.cpp keeps the device    *)
(* that is capturing and the one whose snapshot is queued in two atomics.   *)
(* Tools (on pipe threads, under the shared device list lock) and the menu  *)
(* of the overlay (under its device's lock) queue; presents begin and end   *)
(* the capture; the destruction of a device forgets it.  Every read and     *)
(* every write of an atomic is a step.                                      *)
(***************************************************************************)
EXTENDS Naturals

CONSTANTS Devices, Tools, Menus, None

Requesters == Tools \cup Menus

ASSUME QueueAssumption == None \notin Devices /\ Tools \cap Menus = {}

VARIABLES
  life,       \* where a device is between OnInitDevice and OnDestroyDevice
  snapshot,   \* snapshot_device
  queued,     \* snapshot_queued_device
  asking,     \* what a requester has found free so far
  target,     \* the device it asks for
  present     \* where OnPresent of a device is

vars == <<life, snapshot, queued, asking, target, present>>

\* device_data_list.
Tracked == {d \in Devices : life[d] \notin {"new", "gone"}}

Init ==
  /\ life = [d \in Devices |-> "new"]
  /\ snapshot = None /\ queued = None
  /\ asking = [r \in Requesters |-> "no"]
  /\ target = [r \in Requesters |-> None]
  /\ present = [d \in Devices |-> "out"]

-----------------------------------------------------------------------------
\* queue_snapshot and the "Snapshot" menu item: refused while there is a capture.
Ask(r, d) ==
  /\ asking[r] = "no" /\ d \in Tracked
  /\ snapshot = None
  /\ asking' = [asking EXCEPT ![r] = IF r \in Tools THEN "capture" ELSE "queue"]
  /\ target' = [target EXCEPT ![r] = d]
  /\ UNCHANGED <<life, snapshot, queued, present>>

\* The tool alone asks what is queued; whatever is there, it is refused.
ReadQueue(r) ==
  /\ asking[r] = "capture"
  /\ asking' = [asking EXCEPT ![r] = IF queued = None THEN "queue" ELSE "no"]
  /\ UNCHANGED <<life, snapshot, queued, target, present>>

\* QueueSnapshotCapture.
Queue(r) ==
  /\ asking[r] = "queue"
  /\ queued' = target[r]
  /\ asking' = [asking EXCEPT ![r] = "no"]
  /\ UNCHANGED <<life, snapshot, target, present>>

-----------------------------------------------------------------------------
\* OnPresent, its last part.
ReadCapture(d) ==
  /\ life[d] = "live" /\ present[d] = "out"
  /\ present' = [present EXCEPT ![d] = IF snapshot = None THEN "idle"
                                       ELSE IF snapshot = d THEN "ending" ELSE "out"]
  /\ UNCHANGED <<life, snapshot, queued, asking, target>>

TakeQueued(d) ==
  /\ present[d] = "idle"
  /\ present' = [present EXCEPT ![d] = IF queued = d THEN "taking" ELSE "out"]
  /\ UNCHANGED <<life, snapshot, queued, asking, target>>

Begin(d) ==
  /\ present[d] = "taking"
  /\ snapshot' = d
  /\ present' = [present EXCEPT ![d] = "begun"]
  /\ UNCHANGED <<life, queued, asking, target>>

\* Defect for comparison: the queue is left to be cleared when the capture ends.
ClearNothing(d) ==
  /\ present[d] = "begun"
  /\ present' = [present EXCEPT ![d] = "out"]
  /\ UNCHANGED <<life, snapshot, queued, asking, target>>

ClearQueue(d) ==
  /\ present[d] = "begun"
  /\ queued' = None
  /\ present' = [present EXCEPT ![d] = "out"]
  /\ UNCHANGED <<life, snapshot, asking, target>>

End(d) ==
  /\ present[d] = "ending"
  /\ snapshot' = None
  /\ present' = [present EXCEPT ![d] = "out"]
  /\ UNCHANGED <<life, queued, asking, target>>

-----------------------------------------------------------------------------
\* OnInitDevice.
InitDevice(d) ==
  /\ life[d] = "new"
  /\ life' = [life EXCEPT ![d] = "live"]
  /\ UNCHANGED <<snapshot, queued, asking, target, present>>

\* OnDestroyDevice: both atomics first, and only then the locks.  No present of
\* the device is under way.
FindCapture(d) ==
  /\ life[d] = "live" /\ present[d] = "out"
  /\ life' = [life EXCEPT ![d] = IF snapshot = d THEN "capturing" ELSE "not capturing"]
  /\ UNCHANGED <<snapshot, queued, asking, target, present>>

\* Defect for comparison: the capture is not forgotten.
KeepCapture(d) ==
  /\ life[d] = "capturing"
  /\ life' = [life EXCEPT ![d] = "not capturing"]
  /\ UNCHANGED <<snapshot, queued, asking, target, present>>

ForgetCapture(d) ==
  /\ life[d] = "capturing"
  /\ life' = [life EXCEPT ![d] = "not capturing"]
  /\ snapshot' = None
  /\ UNCHANGED <<queued, asking, target, present>>

FindQueued(d) ==
  /\ life[d] = "not capturing"
  /\ life' = [life EXCEPT ![d] = IF queued = d THEN "queued" ELSE "forgotten"]
  /\ UNCHANGED <<snapshot, queued, asking, target, present>>

ForgetQueued(d) ==
  /\ life[d] = "queued"
  /\ life' = [life EXCEPT ![d] = "forgotten"]
  /\ queued' = None
  /\ UNCHANGED <<snapshot, asking, target, present>>

\* Once the tools have left the list, and the menu the device.
Untrack(d) ==
  /\ life[d] = "forgotten"
  /\ \A r \in Tools : asking[r] = "no"
  /\ \A r \in Menus : asking[r] = "no" \/ target[r] # d
  /\ life' = [life EXCEPT ![d] = "gone"]
  /\ UNCHANGED <<snapshot, queued, asking, target, present>>

Present(d) == ReadCapture(d) \/ TakeQueued(d) \/ Begin(d) \/ ClearQueue(d) \/ End(d)
Request(r) == ReadQueue(r) \/ Queue(r)
Destroy(d) == ForgetCapture(d) \/ FindQueued(d) \/ ForgetQueued(d) \/ Untrack(d)

Next ==
  \/ \E r \in Requesters : ReadQueue(r) \/ Queue(r) \/ \E d \in Devices : Ask(r, d)
  \/ \E d \in Devices : ReadCapture(d) \/ TakeQueued(d) \/ Begin(d) \/ ClearQueue(d)
                        \/ End(d) \/ InitDevice(d) \/ FindCapture(d) \/ ForgetCapture(d)
                        \/ FindQueued(d) \/ ForgetQueued(d) \/ Untrack(d)

Spec == Init /\ [][Next]_vars

\* The devices keep presenting, and whoever has begun goes on.
FairSpec == Spec /\ \A d \in Devices : WF_vars(Present(d)) /\ WF_vars(Destroy(d))
                 /\ \A r \in Requesters : WF_vars(Request(r))

-----------------------------------------------------------------------------
\* A capture ends: with the next present of its device, with the device, or
\* because another device's capture took its place.  Every draw of the game
\* pays for a capture that stays on.
CapturesEnd == \A d \in Devices : snapshot = d ~> snapshot # d

\* "Queue a snapshot and wait for the next present": a queued snapshot leaves the
\* queue, so that it does not keep the other devices out, as long as its own device
\* lives, also when captures of other devices come before it and requests cross.
QueueMovesOn == \A d \in Devices : queued = d ~> queued # d \/ life[d] # "live"
=============================================================================
