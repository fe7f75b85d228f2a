---------------------------- MODULE MCShaderWatcher ----------------------------
(***************************************************************************)
(* A session with live shaders, two files and new defines; one in which the *)
(* user also loads and unloads by hand and system calls fail; and one in    *)
(* which they fail between two files.                                       *)
(***************************************************************************)
EXTENDS ShaderWatcher

CONSTANTS h1, h2

MCShader == {h1, h2}
MCSessions ==
  { [shaders |-> {h1, h2}, edits |-> 3, defines |-> 1, toggles |-> 2, manual |-> 0,
     faults |-> FALSE],
    [shaders |-> {h1}, edits |-> 3, defines |-> 0, toggles |-> 2, manual |-> 2,
     faults |-> TRUE],
    [shaders |-> {h1, h2}, edits |-> 2, defines |-> 0, toggles |-> 2, manual |-> 0,
     faults |-> TRUE] }
=============================================================================
