------------------------- MODULE MCRunVariableContext -------------------------
(* Two collection runs, up to two scenario runs, single requests.           *)
EXTENDS RunVariableContext, TLC

CONSTANTS r1, r2, s1, s2

(* Runs of a kind differ in nothing but their names. *)
Interchangeable == Permutations({r1, r2}) \union Permutations({s1, s2})
=============================================================================
