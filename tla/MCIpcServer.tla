------------------------------ MODULE MCIpcServer ------------------------------
(***************************************************************************)
(* Instances of the pipe server with two clients.                          *)
(***************************************************************************)
EXTENDS IpcServer, TLC

CONSTANTS k1, k2

MCClient == {k1, k2}

Symmetry == Permutations(MCClient)
=============================================================================
