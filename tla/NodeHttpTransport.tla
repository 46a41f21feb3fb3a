-------------------------- MODULE NodeHttpTransport --------------------------
(***************************************************************************)
(* One exchange of src/execution/node-http-transport.ts: a request, the    *)
(* redirects it follows, and the body of the last response. Each hop is a  *)
(* node:http request of its own; the promise of a hop is settled by its    *)
(* response or by its error event. The body of a response that redirected, *)
(* was refused or had no status code is not read but drained               *)
(* (response.resume()): its request stays open beside the next hop, and    *)
(* after the promise has settled, for as long as the server sends, and can *)
(* still report an error.                                                  *)
(*                                                                         *)
(* A request is what a hop sends: its headers are reduced to those the     *)
(* redirect rules tell apart.                                              *)
(***************************************************************************)
EXTENDS HttpRedirects

VARIABLES
  policy,         \* redirectPolicy and maxResponseBytes, 0 when unlimited
  first,          \* the request the executor handed over
  request,        \* the request of the current hop
  visited,        \* origins a hop was sent to
  redirectCount,
  stage,          \* "sent", "reading" the body, "over"
  drains,         \* requests whose response is being drained
  bytes,          \* totalBytes of readBody
  result          \* what the promise of execute settled with

vars == <<policy, first, request, visited, redirectCount, stage, drains, bytes, result>>

Mode == {"follow", "manual", "error"}
Failure == {"redirect", "response-too-large", "network", "aborted", "invariant"}

Init ==
  /\ policy \in [mode : Mode, maxRedirects : 0..MaxRedirects, maxBytes : 0..MaxBody]
  /\ first \in Request
  /\ request = first
  /\ visited = {first.origin}
  /\ redirectCount = 0
  /\ stage = "sent"
  /\ drains = 0
  /\ bytes = 0
  /\ result = "none"

-----------------------------------------------------------------------------
(* A promise settles once. *)
Settled(how) == result' = IF result = "none" THEN how ELSE result

(* The current hop is the last one. *)
Ends(how) ==
  /\ stage' = "over"
  /\ Settled(how)
  /\ UNCHANGED <<policy, first, request, visited, redirectCount>>

-----------------------------------------------------------------------------
Drains == drains' = drains + 1

(* A redirect response with a usable Location: it is drained, and the next  *)
(* hop is sent.                                                             *)
Follow(status, to) ==
  /\ stage = "sent"
  /\ policy.mode = "follow" /\ redirectCount < policy.maxRedirects
  /\ request' = redirectRequest(request, status, to)
  /\ visited' = visited \union {to}
  /\ redirectCount' = redirectCount + 1
  /\ Drains
  /\ UNCHANGED <<policy, first, stage, bytes, result>>

(* Policy, limit, or a Location that is no HTTP URL. The promise settles at *)
(* once, the response is still being drained.                               *)
RefuseRedirect ==
  /\ stage = "sent"
  /\ policy.mode # "manual"
  /\ Ends("redirect") /\ Drains
  /\ UNCHANGED bytes

(* Any other response, and a redirect response in manual mode. *)
Respond ==
  /\ stage = "sent"
  /\ stage' = "reading"
  /\ UNCHANGED <<policy, first, request, visited, redirectCount, drains, bytes, result>>

RespondWithoutStatus == stage = "sent" /\ Ends("invariant") /\ Drains /\ UNCHANGED bytes

Chunk(n) ==
  /\ stage = "reading"
  /\ bytes + n <= MaxBody
  /\ IF policy.maxBytes > 0 /\ bytes + n > policy.maxBytes
       THEN Ends("response-too-large") /\ bytes' = 0
       ELSE /\ bytes' = bytes + n
            /\ UNCHANGED <<policy, first, request, visited, redirectCount, stage, result>>
  /\ UNCHANGED drains

EndOfBody == stage = "reading" /\ Ends("response") /\ UNCHANGED <<drains, bytes>>

(* A response that was drained has ended. *)
Drained ==
  /\ drains > 0
  /\ drains' = drains - 1
  /\ UNCHANGED <<policy, first, request, visited, redirectCount, stage, bytes, result>>

(* The error event of the current hop, or of its response. *)
Fail == stage # "over" /\ Ends("network") /\ UNCHANGED <<drains, bytes>>

(* The error event of a request whose response is being drained. Unless the *)
(* exchange has ended, the promise of that hop has not settled yet; the hops *)
(* after it go on.                                                          *)
FailEarlierHop ==
  /\ drains > 0
  /\ drains' = drains - 1
  /\ Settled("network")
  /\ UNCHANGED <<policy, first, request, visited, redirectCount, stage, bytes>>

(* The signal is aborted: every request of the exchange is destroyed. *)
Abort ==
  /\ stage # "over" \/ drains > 0
  /\ drains' = 0
  /\ Ends("aborted")
  /\ UNCHANGED bytes
-----------------------------------------------------------------------------
(* What the server answers. *)
Answer ==
  \/ \E status \in RedirectStatus, to \in Origin : Follow(status, to)
  \/ RefuseRedirect \/ Respond \/ RespondWithoutStatus
  \/ \E n \in 1..MaxBody : Chunk(n)
  \/ EndOfBody \/ Drained

Next == Answer \/ Fail \/ FailEarlierHop \/ Abort

Spec == Init /\ [][Next]_vars
-----------------------------------------------------------------------------
TypeOK ==
  /\ policy \in [mode : Mode, maxRedirects : 0..MaxRedirects, maxBytes : 0..MaxBody]
  /\ first \in Request
  /\ request \in Request
  /\ visited \subseteq Origin
  /\ redirectCount \in 0..policy.maxRedirects
  /\ stage \in {"sent", "reading", "over"}
  /\ drains \in 0..(redirectCount + (IF stage = "over" THEN 1 ELSE 0))
  /\ bytes \in 0..MaxBody
  /\ result \in {"none", "response"} \union Failure

(* "On a cross-origin hop the transport strips Authorization, Cookie, and   *)
(* Proxy-Authorization": however a chain of redirects leads away from the   *)
(* first origin and back, a request that carries credentials has been to no *)
(* other origin.                                                            *)
CredentialsStayAtOrigin == request.credentials => visited = {first.origin}

(* An explicit Host header is sent to no host but the one it was meant for. *)
HostHeaderStaysAtHost ==
  request.host => \A o \in visited : HostOf[o] = HostOf[first.origin]

(* "303 and POST responses with 301/302 become GET and remove entity        *)
(* headers/body; 307/308 retain method and body": a body is sent with the   *)
(* method it was written for, at every hop.                                 *)
BodyGoesWithMethod == request.body => first.body /\ request.method = first.method

(* The cap on the buffered body is respected by what is returned. *)
ResponseWithinLimit ==
  result = "response" /\ policy.maxBytes > 0 => bytes <= policy.maxBytes
=============================================================================
