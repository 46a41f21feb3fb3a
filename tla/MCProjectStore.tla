--------------------------- MODULE MCProjectStore ---------------------------
(* The migration on activation and two more jobs of any kind, which may overlap. *)
EXTENDS ProjectStore, TLC

CONSTANTS s1, s2

Interchangeable == Permutations({s1, s2})
=============================================================================
