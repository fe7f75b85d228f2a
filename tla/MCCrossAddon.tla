----------------------------- MODULE MCCrossAddon -----------------------------
(***************************************************************************)
(* Three DLLs and two events: enough for a handler, a successor, a         *)
(* returning eldest, and an event that only some of them want.              *)
(***************************************************************************)
EXTENDS CrossAddon, TLC

CONSTANTS m1, m2, m3, draw, present

MCModule == {m1, m2, m3}
MCEvent == {draw, present}
MCCallback == {"onDraw", "onPresent"}
MCEventOf == "onDraw" :> draw @@ "onPresent" :> present

Symmetry == Permutations(MCModule)
=============================================================================
