----------------------- MODULE MCShaderReplacement -----------------------
(* ShaderReplacement for TLC: handles, hashes and threads are alike. *)
EXTENDS ShaderReplacement, TLC

Symmetry ==
  Permutations(Threads) \union Permutations(Replacements)
    \union Permutations(Shaders) \union Permutations(Pipelines)
=============================================================================
