---------------------------- MODULE HttpRedirects ----------------------------
(***************************************************************************)
(* What a request of src/execution/node-http-transport.ts is, and what a   *)
(* redirect makes of it. Headers are reduced to the classes that the       *)
(* redirect rules tell apart.                                              *)
(***************************************************************************)
EXTENDS Integers

CONSTANTS
  Origin,         \* scheme, hostname and effective port
  HostOf,         \* HostOf[o]: url.host of origin o
  MaxRedirects,   \* largest redirectPolicy.maxRedirects considered
  MaxBody         \* bound on the bytes a server sends

ASSUME HttpRedirectsAssumption ==
  /\ DOMAIN HostOf = Origin
  /\ MaxRedirects \in Nat
  /\ MaxBody \in Nat

Method == {"GET", "POST", "PUT"}
RedirectStatus == {"seeOther", "movedOrFound", "keepMethod"}   \* 303; 301, 302; 307, 308

(* credentials: Authorization, Cookie, Proxy-Authorization and the header   *)
(* an authentication profile marked sensitive. host: an explicit Host       *)
(* header. body: the body and its entity headers.                           *)
Request == [method : Method, origin : Origin,
            credentials : BOOLEAN, host : BOOLEAN, body : BOOLEAN]

(* Faulty: the credentials go with a redirect to another port or scheme.    *)
redirectRequestSameHost(r, status, to) ==
  LET becomesGet == status = "seeOther" \/ (status = "movedOrFound" /\ r.method = "POST")
      hostChanged == HostOf[to] # HostOf[r.origin]
  IN [method |-> IF becomesGet THEN "GET" ELSE r.method,
      origin |-> to,
      credentials |-> r.credentials /\ ~hostChanged,
      host |-> r.host /\ ~hostChanged,
      body |-> r.body /\ ~becomesGet]

redirectRequest(r, status, to) ==
  LET becomesGet == status = "seeOther" \/ (status = "movedOrFound" /\ r.method = "POST")
      crossOrigin == to # r.origin
      hostChanged == HostOf[to] # HostOf[r.origin]
  IN [method |-> IF becomesGet THEN "GET" ELSE r.method,
      origin |-> to,
      credentials |-> r.credentials /\ ~crossOrigin,
      host |-> r.host /\ ~hostChanged,
      body |-> r.body /\ ~becomesGet]
=============================================================================
