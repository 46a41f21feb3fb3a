----------------------------- MODULE HttpExchange -----------------------------
(***************************************************************************)
(* RequestExecutor with the transport it calls: an HTTP call runs an       *)
(* exchange of NodeHttpTransport, whose promise is the transport's side of *)
(* the race, and the executor's controller is the signal of every request  *)
(* the exchange sends. A WebSocket call has no exchange.                   *)
(*                                                                         *)
(* The exchange is sent a microtask after the race began; a signal aborted *)
(* in between destroys the request as it is made.                          *)
(***************************************************************************)
EXTENDS RequestExecutor, HttpRedirects

VARIABLES policy, first, request, visited, redirectCount, hop, drains, bytes, result

Net == INSTANCE NodeHttpTransport WITH stage <- hop

net == <<policy, first, request, visited, redirectCount, hop, drains, bytes, result>>
allVars == <<vars, net>>

(* The request of a WebSocket call plays no part here. *)
CallInit ==
  /\ Init /\ Net!Init
  /\ IsWebSocket => first = (CHOOSE r \in Request : TRUE)
                    /\ policy.mode = "manual" /\ policy.maxRedirects = 0 /\ policy.maxBytes = 0

Sent == ~IsWebSocket /\ (stage = "racing" \/ winner # "none")

-----------------------------------------------------------------------------
(* The executor hears of an exchange when its promise settles, unless       *)
(* another side won the race.                                               *)
Heard ==
  IF stage # "racing" \/ result' = "none" THEN UNCHANGED vars
  ELSE \/ result' = "response" /\ HttpAnswers
       \/ result' = "network" /\ \E e \in Error : HttpFails(e)
       \/ result' = "response-too-large" /\ HttpFails("too-large")
       \/ result' \in {"redirect", "invariant"} /\ HttpFails(result')

Exchanges(step) == Sent /\ step /\ Heard

(* Faulty: the signal is not handed to the requests.                        *)
SignalledNobody == UNCHANGED net

(* The exchange hears of the controller. *)
Signalled ==
  IF Sent /\ kind = "none" /\ kind' # "none" /\ (hop # "over" \/ drains > 0)
    THEN Net!Abort
    ELSE UNCHANGED net

Calls(step) == step /\ Signalled

CallNext ==
  \/ Exchanges(Net!Answer) \/ Exchanges(Net!Fail) \/ Exchanges(Net!FailEarlierHop)
  \/ Calls(Begin) \/ Calls(Continue) \/ Calls(Session)
  \/ Calls(TimerFires) \/ Calls(CloseWaitElapses) \/ Calls(CallerAborts)

(* Synchronous code and microtasks run, timers fire; servers, peers and     *)
(* callers need never do anything.                                          *)
CallSpec ==
  /\ CallInit /\ [][CallNext]_allVars
  /\ WF_allVars(Calls(Begin)) /\ WF_allVars(Calls(Continue))
  /\ WF_allVars(Calls(TimerFires)) /\ WF_allVars(Calls(CloseWaitElapses))

-----------------------------------------------------------------------------
(* A request whose response redirected failed while the next hop was under  *)
(* way. The call reports that, nobody aborts the controller, and the timer  *)
(* is cleared: the later hops are on their own.                             *)
Strayed == hop # "over" /\ redirectCount > 0 /\ result = "network"

(* Every request of the exchange has ended. *)
NothingOpen == hop = "over" /\ drains = 0

(* "The socket is closed on every path": once execute has settled, the      *)
(* socket is closing or closed and no timer of the call is left. No request *)
(* of a call that was aborted is open; of a call nobody aborted the last    *)
(* hop is over unless it strayed, but responses that redirected or were     *)
(* refused may still be draining, which nothing ends any more.              *)
NothingOutlivesTheCall ==
  Settled => /\ socket \notin {"connecting", "open"} /\ ~closeWait /\ timer # "armed"
             /\ Sent => IF kind # "none" THEN NothingOpen ELSE hop = "over" \/ Strayed

(* "a transport that ignores its signal cannot delay timeout/cancellation   *)
(* completion", "@timeout bounds the whole session": a call that was aborted *)
(* or has a timeout settles, and every request of it has ended when the     *)
(* abort was what came first, or its last hop when the promise did; so does *)
(* a session that has its frame, although the peer never answers the close. *)
BoundedCallsEnd ==
  kind # "none" \/ call.timed \/ received
    ~> Settled /\ (Sent => NothingOpen \/ (kind = "none" /\ (hop = "over" \/ Strayed)))

(* However redirects lead away and back, credentials stay where they were   *)
(* meant to go.                                                             *)
CredentialsStayAtOrigin == Net!CredentialsStayAtOrigin
=============================================================================
