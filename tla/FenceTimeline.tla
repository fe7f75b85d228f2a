----------------------------- MODULE FenceTimeline -----------------------------
(***************************************************************************)
(* What every backend of src/utils/gpu_fence.hpp promises its Fence: points *)
(* are numbered 1, 2, 3, ... as submissions are accepted, the completed     *)
(* value only grows and never passes the last accepted point, and a backend *)
(* that halted accepts nothing more.  A backend whose device or binding is  *)
(* gone reports the largest integer, UINT64_MAX in the code: "backend       *)
(* completion values are preserved, including UINT64_MAX".                  *)
(***************************************************************************)
EXTENDS Naturals

CONSTANTS MaxPoints   \* bound on the number of points accepted

ASSUME PointsAssumption == MaxPoints \in Nat

Lost == MaxPoints + 1       \* UINT64_MAX
Point == 1..MaxPoints

VARIABLES
  accepted,    \* the backend's value: the last point accepted
  completed,   \* what GetCompletedValue returns
  halted       \* no further point will be accepted

timeline == <<accepted, completed, halted>>

TimelineInit == accepted = 0 /\ completed = 0 /\ halted = FALSE

\* QueueFence accepts one more point.
Submit ==
  /\ ~halted /\ accepted < MaxPoints
  /\ accepted' = accepted + 1
  /\ UNCHANGED <<completed, halted>>

\* The GPU passes accepted points; an observer may see several at once.
Finish ==
  /\ completed < accepted
  /\ completed' \in (completed + 1)..accepted
  /\ UNCHANGED <<accepted, halted>>

\* The device is lost: every query from now on returns UINT64_MAX.
Lose ==
  /\ completed < Lost
  /\ completed' = Lost
  /\ UNCHANGED <<accepted, halted>>

Halt ==
  /\ ~halted
  /\ halted' = TRUE
  /\ UNCHANGED <<accepted, completed>>

TimelineNext == Submit \/ Finish \/ Lose \/ Halt

TimelineSpec == TimelineInit /\ [][TimelineNext]_timeline

=============================================================================
