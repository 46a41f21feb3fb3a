----------------------- MODULE MCAuthenticationProfiles -----------------------
(* Two ids in every list of one or both, and three operations of any kind.     *)
EXTENDS AuthenticationProfiles, TLC

CONSTANTS a, b, c1, c2, s, t
MCProfiles == {a, b}
MCTokens == {s, t}
MCCallers == {c1, c2}
MCKeys == MCProfiles \X {"credential", "session"}
MCLists == {<<a>>, <<b>>, <<a, b>>, <<b, a>>}
Symmetry == Permutations(MCCallers) \cup Permutations(MCProfiles)
=============================================================================
