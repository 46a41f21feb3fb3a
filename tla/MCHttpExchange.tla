---------------------------- MODULE MCHttpExchange ----------------------------
(* Three origins, two of which differ in their scheme only. *)
EXTENDS HttpExchange, TLC

CONSTANTS httpA, httpsA, httpB, a, b

Hosts == (httpA :> a) @@ (httpsA :> a) @@ (httpB :> b)
=============================================================================
