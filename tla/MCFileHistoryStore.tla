------------------------- MODULE MCFileHistoryStore -------------------------
(* One window and a history of at most two of three entries. *)
EXTENDS OneWindowHistory

CONSTANTS w1, e1, e2, e3
=============================================================================
