-------------------------- MODULE HttpExchange_proofs --------------------------
(***************************************************************************)
(* The composition does to each of its parts only what the part allows: to *)
(* an exchange what NodeHttpTransport lets happen to one, so what is proved *)
(* of every exchange holds of those the executor makes, aborts and is no   *)
(* longer interested in; to a call what RequestExecutor lets happen to one. *)
(***************************************************************************)
EXTENDS HttpExchange, TLAPS

(* The exchange. What NodeHttpTransport sends along any chain of redirects, *)
(* over any set of origins and for any bound on redirects and sizes.        *)

(* What redirectRequest makes of a request. *)
LEMMA RedirectRequestType ==
  ASSUME Net!TypeOK, NEW status \in Net!RedirectStatus, NEW to \in Origin
  PROVE  Net!redirectRequest(request, status, to) \in Net!Request
BY DEF Net!TypeOK, Net!redirectRequest, Net!Request, Net!Method

(* Every variable keeps its type; in particular no exchange follows more    *)
(* redirects than its policy allows.                                        *)
THEOREM TransportTypeCorrect == Net!Spec => []Net!TypeOK
<1>1. Net!Init => Net!TypeOK
  BY HttpRedirectsAssumption DEF Net!Init, Net!TypeOK, Net!Request
<1>2. Net!TypeOK /\ [Net!Next]_(Net!vars) => Net!TypeOK'
  <2> SUFFICES ASSUME Net!TypeOK, [Net!Next]_(Net!vars) PROVE Net!TypeOK'
    OBVIOUS
  <2> USE HttpRedirectsAssumption
  <2>1. ASSUME NEW status \in Net!RedirectStatus, NEW to \in Origin, Net!Follow(status, to)
        PROVE  Net!TypeOK'
    <3>1. request' \in Net!Request
      BY <2>1, RedirectRequestType DEF Net!Follow
    <3>2. redirectCount' \in 0..policy.maxRedirects
      BY <2>1 DEF Net!Follow, Net!TypeOK
    <3>3. visited' \subseteq Origin
      BY <2>1 DEF Net!Follow, Net!TypeOK
    <3>4. drains' \in 0..(redirectCount' + (IF hop' = "over" THEN 1 ELSE 0))
      BY <2>1 DEF Net!Follow, Net!Drains, Net!TypeOK
    <3> QED
      BY <2>1, <3>1, <3>2, <3>3, <3>4 DEF Net!Follow, Net!TypeOK
  <2>2. CASE Net!RefuseRedirect
    BY <2>2 DEF Net!RefuseRedirect, Net!Drains, Net!Ends, Net!Settled, Net!TypeOK, Net!Failure
  <2>3. CASE Net!Respond
    BY <2>3 DEF Net!Respond, Net!TypeOK
  <2>4. CASE Net!RespondWithoutStatus
    BY <2>4 DEF Net!RespondWithoutStatus, Net!Drains, Net!Ends, Net!Settled, Net!TypeOK, Net!Failure
  <2>5. ASSUME NEW n \in 1..MaxBody, Net!Chunk(n)
        PROVE  Net!TypeOK'
    <3>1. bytes' \in 0..MaxBody
      BY <2>5 DEF Net!Chunk, Net!TypeOK
    <3> QED
      BY <2>5, <3>1 DEF Net!Chunk, Net!Ends, Net!Settled, Net!TypeOK, Net!Failure
  <2>6. CASE Net!EndOfBody
    BY <2>6 DEF Net!EndOfBody, Net!Ends, Net!Settled, Net!TypeOK, Net!Failure
  <2>7. CASE Net!Fail
    BY <2>7 DEF Net!Fail, Net!Ends, Net!Settled, Net!TypeOK, Net!Failure
  <2>8. CASE Net!FailEarlierHop
    BY <2>8 DEF Net!FailEarlierHop, Net!Settled, Net!TypeOK, Net!Failure
  <2>9. CASE Net!Abort
    BY <2>9 DEF Net!Abort, Net!Ends, Net!Settled, Net!TypeOK, Net!Failure
  <2>10. CASE UNCHANGED Net!vars
    BY <2>10 DEF Net!vars, Net!TypeOK
  <2>11. CASE Net!Drained
    BY <2>11 DEF Net!Drained, Net!TypeOK
  <2> QED
    BY <2>1, <2>2, <2>3, <2>4, <2>5, <2>6, <2>7, <2>8, <2>9, <2>10, <2>11 DEF Net!Next, Net!Answer
<1> QED
  BY <1>1, <1>2, PTL DEF Net!Spec

-----------------------------------------------------------------------------
(* Only Follow changes the request or the origins visited. *)
LEMMA RequestUnchanged ==
  ASSUME [Net!Next]_(Net!vars)
  PROVE  \/ \E status \in Net!RedirectStatus, to \in Origin : Net!Follow(status, to)
         \/ UNCHANGED <<first, request, visited>>
BY DEF Net!Next, Net!Answer, Net!RefuseRedirect, Net!Respond, Net!RespondWithoutStatus, Net!Chunk, Net!EndOfBody, Net!Drained,
       Net!Fail, Net!FailEarlierHop, Net!Abort, Net!Ends, Net!vars

(* The current hop is one of those visited, which is what ties the          *)
(* hop-by-hop comparison of redirectRequest to the origin the exchange      *)
(* started at.                                                              *)
HopIsVisited == request.origin \in visited

(* No credentials are sent to an origin other than the first, nor back to   *)
(* the first after the chain has been elsewhere.                            *)
THEOREM CredentialsStay == Net!Spec => []Net!CredentialsStayAtOrigin
<1> DEFINE Inv == HopIsVisited /\ Net!CredentialsStayAtOrigin
<1>1. Net!Init => Inv
  BY DEF Net!Init, HopIsVisited, Net!CredentialsStayAtOrigin
<1>2. Net!TypeOK /\ Inv /\ [Net!Next]_(Net!vars) => Inv'
  <2> SUFFICES ASSUME Net!TypeOK, Inv, [Net!Next]_(Net!vars) PROVE Inv'
    OBVIOUS
  <2>1. ASSUME NEW status \in Net!RedirectStatus, NEW to \in Origin, Net!Follow(status, to)
        PROVE  Inv'
    <3>1. request'.origin = to /\ visited' = visited \union {to} /\ first' = first
      BY <2>1 DEF Net!Follow, Net!redirectRequest
    <3>2. HopIsVisited'
      BY <3>1 DEF HopIsVisited
    <3>3. request'.credentials => request.credentials /\ to = request.origin
      BY <2>1 DEF Net!Follow, Net!redirectRequest
    <3>4. Net!CredentialsStayAtOrigin'
      BY <3>1, <3>3 DEF HopIsVisited, Net!CredentialsStayAtOrigin
    <3> QED
      BY <3>2, <3>4
  <2>2. CASE UNCHANGED <<first, request, visited>>
    BY <2>2 DEF HopIsVisited, Net!CredentialsStayAtOrigin
  <2> QED
    BY <2>1, <2>2, RequestUnchanged
<1>3. Inv => Net!CredentialsStayAtOrigin
  OBVIOUS
<1> QED
  BY <1>1, <1>2, <1>3, TransportTypeCorrect, PTL DEF Net!Spec

(* An explicit Host header reaches only the host it was written for. *)
THEOREM HostHeaderStays == Net!Spec => []Net!HostHeaderStaysAtHost
<1> DEFINE Inv == HopIsVisited /\ Net!HostHeaderStaysAtHost
<1>1. Net!Init => Inv
  BY DEF Net!Init, HopIsVisited, Net!HostHeaderStaysAtHost
<1>2. Net!TypeOK /\ Inv /\ [Net!Next]_(Net!vars) => Inv'
  <2> SUFFICES ASSUME Net!TypeOK, Inv, [Net!Next]_(Net!vars) PROVE Inv'
    OBVIOUS
  <2>1. ASSUME NEW status \in Net!RedirectStatus, NEW to \in Origin, Net!Follow(status, to)
        PROVE  Inv'
    <3>1. request'.origin = to /\ visited' = visited \union {to} /\ first' = first
      BY <2>1 DEF Net!Follow, Net!redirectRequest
    <3>2. HopIsVisited'
      BY <3>1 DEF HopIsVisited
    <3>3. request'.host => request.host /\ HostOf[to] = HostOf[request.origin]
      BY <2>1 DEF Net!Follow, Net!redirectRequest
    <3>4. Net!HostHeaderStaysAtHost'
      BY <3>1, <3>3 DEF HopIsVisited, Net!HostHeaderStaysAtHost
    <3> QED
      BY <3>2, <3>4
  <2>2. CASE UNCHANGED <<first, request, visited>>
    BY <2>2 DEF HopIsVisited, Net!HostHeaderStaysAtHost
  <2> QED
    BY <2>1, <2>2, RequestUnchanged
<1> QED
  BY <1>1, <1>2, TransportTypeCorrect, PTL DEF Net!Spec

(* A body goes out only with the method it was written for. *)
THEOREM BodyStaysWithMethod == Net!Spec => []Net!BodyGoesWithMethod
<1>1. Net!Init => Net!BodyGoesWithMethod
  BY DEF Net!Init, Net!BodyGoesWithMethod
<1>2. Net!BodyGoesWithMethod /\ [Net!Next]_(Net!vars) => Net!BodyGoesWithMethod'
  <2> SUFFICES ASSUME Net!BodyGoesWithMethod, [Net!Next]_(Net!vars) PROVE Net!BodyGoesWithMethod'
    OBVIOUS
  <2>1. ASSUME NEW status \in Net!RedirectStatus, NEW to \in Origin, Net!Follow(status, to)
        PROVE  Net!BodyGoesWithMethod'
    <3>1. first' = first
      BY <2>1 DEF Net!Follow
    <3>2. request'.body => request.body /\ request'.method = request.method
      BY <2>1 DEF Net!Follow, Net!redirectRequest
    <3> QED
      BY <3>1, <3>2 DEF Net!BodyGoesWithMethod
  <2>2. CASE UNCHANGED <<first, request, visited>>
    BY <2>2 DEF Net!BodyGoesWithMethod
  <2> QED
    BY <2>1, <2>2, RequestUnchanged
<1> QED
  BY <1>1, <1>2, PTL DEF Net!Spec

(* What readBody has read, and so what it returns, is within the cap.       *)
THEOREM ResponsesStayWithinLimit == Net!Spec => []Net!ResponseWithinLimit
<1> DEFINE Inv == policy.maxBytes > 0 => bytes <= policy.maxBytes
<1>1. Net!TypeOK /\ Net!Init => Inv
  BY DEF Net!Init, Net!TypeOK
<1>2. Net!TypeOK /\ Inv /\ [Net!Next]_(Net!vars) => Inv'
  <2> SUFFICES ASSUME Net!TypeOK, Inv, [Net!Next]_(Net!vars) PROVE Inv'
    OBVIOUS
  <2>1. policy' = policy
    BY DEF Net!Next, Net!Answer, Net!Follow, Net!RefuseRedirect, Net!Respond, Net!RespondWithoutStatus, Net!Chunk, Net!EndOfBody,
           Net!Drained, Net!Fail, Net!FailEarlierHop, Net!Abort, Net!Ends, Net!vars
  <2>2. policy.maxBytes \in Nat /\ bytes \in Nat
    BY HttpRedirectsAssumption DEF Net!TypeOK
  <2>3. ASSUME NEW n \in 1..MaxBody, Net!Chunk(n)
        PROVE  policy.maxBytes > 0 => bytes' <= policy.maxBytes
    BY <2>2, <2>3 DEF Net!Chunk
  <2>4. CASE UNCHANGED bytes
    BY <2>1, <2>4
  <2> QED
    BY <2>1, <2>3, <2>4 DEF Net!Next, Net!Answer, Net!Follow, Net!RefuseRedirect, Net!Respond,
       Net!RespondWithoutStatus, Net!EndOfBody, Net!Drained, Net!Fail, Net!FailEarlierHop, Net!Abort, Net!Ends, Net!vars
<1>3. Inv => Net!ResponseWithinLimit
  BY DEF Net!ResponseWithinLimit
<1>4. Net!Init => Net!TypeOK
  BY HttpRedirectsAssumption DEF Net!Init, Net!TypeOK, Net!Request
<1> QED
  BY <1>1, <1>2, <1>3, <1>4, TransportTypeCorrect, PTL DEF Net!Spec

-----------------------------------------------------------------------------
(* The composition. *)

LEMMA StepsAreTransportSteps ==
  ASSUME CallNext
  PROVE  Net!Next \/ UNCHANGED net
  <1>1. CASE Net!Answer \/ Net!Fail \/ Net!FailEarlierHop
    BY <1>1 DEF Net!Next
  <1>2. CASE Net!Abort \/ UNCHANGED net
    BY <1>2 DEF Net!Next
  <1> QED
    BY <1>1, <1>2 DEF CallNext, Exchanges, Calls, Signalled

(* Whatever a call does, its exchange is one of NodeHttpTransport.          *)
THEOREM CallsRunExchanges == CallSpec => Net!Spec
<1>1. CallInit => Net!Init
  BY DEF CallInit
<1>2. [CallNext]_allVars => [Net!Next]_(Net!vars)
  <2> SUFFICES ASSUME [CallNext]_allVars PROVE Net!Next \/ UNCHANGED net
    BY DEF net, Net!vars
  <2>1. CASE CallNext
    BY <2>1, StepsAreTransportSteps
  <2>2. CASE UNCHANGED allVars
    BY <2>2 DEF allVars
  <2> QED
    BY <2>1, <2>2
<1> QED
  BY <1>1, <1>2, PTL DEF CallSpec, Net!Spec

(* However a call ends, no request of its exchange carries credentials to   *)
(* an origin they were not meant for.                                       *)
THEOREM CallCredentialsStay == CallSpec => []CredentialsStayAtOrigin
<1>1. Net!CredentialsStayAtOrigin => CredentialsStayAtOrigin
  BY DEF CredentialsStayAtOrigin, Net!CredentialsStayAtOrigin
<1> QED
  BY <1>1, CredentialsStay, CallsRunExchanges, PTL

-----------------------------------------------------------------------------
LEMMA StepsAreExecutorSteps ==
  ASSUME CallNext
  PROVE  Next \/ UNCHANGED vars
  <1>1. "network" \in Error
    BY RequestExecutorAssumption
  <1>2. CASE Heard
    BY <1>2, <1>1 DEF Heard, Next, Exchange
  <1>3. CASE Begin \/ Continue \/ Session \/ TimerFires \/ CloseWaitElapses \/ CallerAborts
    BY <1>3 DEF Next
  <1> QED
    BY <1>2, <1>3 DEF CallNext, Exchanges, Calls

(* The composition implements the executor with its abstract transport.     *)
THEOREM CallsAreExecuted == CallSpec => Spec
<1>1. CallInit => Init
  BY DEF CallInit
<1>2. [CallNext]_allVars => [Next]_vars
  BY StepsAreExecutorSteps DEF allVars
<1> QED
  BY <1>1, <1>2, PTL DEF CallSpec, Spec

(* Only the timer makes the timeout the cause, and only while the race is   *)
(* open, so that the abort settles it.                                      *)
CauseHolds ==
  /\ kind \in {"none", "cancelled", "timeout"}
  /\ timer = "fired" <=> kind = "timeout"
  /\ kind = "cancelled" => caller
  /\ stage \in {"called", "racing"} => kind = "none"
  /\ kind = "timeout" => winner = "aborted"
  /\ winner = "aborted" => kind # "none"
  /\ winner \notin {"TIMEOUT", "CANCELLED"}

LEMMA CauseKept ==
  ASSUME CauseHolds, FirstCauseIsReported, [Next]_vars
  PROVE  CauseHolds' /\ FirstCauseIsReported'
  <1> USE DEF CauseHolds, FirstCauseIsReported
  <1>1. ASSUME NEW how, how \notin {"aborted", "TIMEOUT", "CANCELLED"}, stage = "racing", Wins(how)
        PROVE  CauseHolds' /\ FirstCauseIsReported'
    BY <1>1 DEF Wins
  <1>2. CASE Begin
    BY <1>2 DEF Begin, StartCancelled, StartInvalid, Start, Return, session
  <1>3. CASE Continue
    BY <1>3 DEF Continue, Conclude, ConcludeThrowing, Return, classify, session
  <1>4. CASE TimerFires
    BY <1>4 DEF TimerFires, OnAbort, Cause
  <1>5. CASE CallerAborts
    BY <1>5 DEF CallerAborts, OnAbort, Cause
  <1>6. CASE CloseWaitElapses
    BY <1>6, <1>1 DEF CloseWaitElapses, Listening
  <1>7. \A e \in Error : e \notin {"aborted", "TIMEOUT", "CANCELLED"}
    BY RequestExecutorAssumption
  <1>8. CASE Exchange
    BY <1>8, <1>1, <1>7 DEF Exchange, HttpAnswers, HttpFails
  <1>9. CASE Open \/ TextFrame \/ SocketCloses \/ HandshakeEnds
    BY <1>9 DEF Open, TextFrame, SocketCloses, HandshakeEnds, Listening
  <1>10. CASE SendFails \/ (\E e \in {"unsupported", "too-large", "network"} : BadFrame(e))
              \/ (\E e \in Error \union {"connect"} : SocketFails(e))
    BY <1>10, <1>1, <1>7 DEF SendFails, BadFrame, SocketFails, Listening
  <1>11. CASE UNCHANGED vars
    BY <1>11 DEF vars
  <1> QED
    BY <1>2, <1>3, <1>4, <1>5, <1>6, <1>8, <1>9, <1>10, <1>11 DEF Next, Session

(* The first cause decides what a call reports, for any kinds of transport  *)
(* failure and whatever its exchange does.                                  *)
THEOREM FirstCauseDecides == CallSpec => []FirstCauseIsReported
<1>1. Init => CauseHolds /\ FirstCauseIsReported
  BY DEF Init, CauseHolds, FirstCauseIsReported
<1>2. Spec => [](CauseHolds /\ FirstCauseIsReported)
  BY <1>1, CauseKept, PTL DEF Spec
<1> QED
  BY <1>2, CallsAreExecuted, PTL

-----------------------------------------------------------------------------
(* What a call keeps open, by its stage. *)
SessionHolds ==
  /\ stage = "called" => socket = "none" /\ ~closeWait /\ timer # "armed" /\ winner = "none"
  /\ stage \in {"raced", "done", "threw"} =>
       socket \notin {"connecting", "open"} /\ ~closeWait
  /\ stage \in {"done", "threw"} => timer # "armed"
  /\ stage \in {"called", "racing"} => kind = "none" /\ winner = "none"

(* An exchange runs while the race is open, and its promise has not settled; *)
(* a race that ended leaves it over, or strayed. An abort leaves nothing.    *)
ExchangeHolds ==
  ~IsWebSocket =>
    /\ stage \in {"called", "racing"} => result = "none"
    /\ winner # "none" => hop = "over" \/ (redirectCount > 0 /\ result = "network")
    /\ Sent /\ kind # "none" => NothingOpen
    /\ stage = "raced" => winner # "none"
    /\ redirectCount \in Nat
    /\ drains \in 0..redirectCount \/ (hop = "over" /\ drains \in Nat)

LEMMA SessionKept ==
  ASSUME SessionHolds, [Next]_vars
  PROVE  SessionHolds'
  <1> USE DEF SessionHolds
  <1>0. \A s : Closed(s) \notin {"connecting", "open"}
    BY DEF Closed
  <1>1. ASSUME NEW how, stage = "racing", Wins(how)
        PROVE  SessionHolds'
    BY <1>0, <1>1 DEF Wins
  <1>2. CASE Begin
    BY <1>2 DEF Begin, StartCancelled, StartInvalid, Start, Return, session
  <1>3. CASE Continue
    BY <1>3 DEF Continue, Conclude, ConcludeThrowing, Return, session
  <1>4. CASE TimerFires
    BY <1>0, <1>4 DEF TimerFires, OnAbort, Cause
  <1>5. CASE CallerAborts
    BY <1>0, <1>5 DEF CallerAborts, OnAbort, Cause
  <1>6. CASE CloseWaitElapses
    BY <1>6, <1>1 DEF CloseWaitElapses, Listening
  <1>7. CASE Exchange
    BY <1>7, <1>1 DEF Exchange, HttpAnswers, HttpFails
  <1>8. CASE Open \/ TextFrame \/ SocketCloses \/ HandshakeEnds
    BY <1>8 DEF Open, TextFrame, SocketCloses, HandshakeEnds, Listening
  <1>9. CASE SendFails \/ (\E e \in {"unsupported", "too-large", "network"} : BadFrame(e))
              \/ (\E e \in Error \union {"connect"} : SocketFails(e))
    BY <1>9, <1>1 DEF SendFails, BadFrame, SocketFails, Listening
  <1>10. CASE UNCHANGED vars
    BY <1>10 DEF vars
  <1> QED
    BY <1>2, <1>3, <1>4, <1>5, <1>6, <1>7, <1>8, <1>9, <1>10 DEF Next, Session

(* A promise that settles ends the exchange or leaves it strayed, and one   *)
(* that settled stays so. Only an exchange of which something is open moves. *)
SettlesWell ==
  /\ redirectCount' \in Nat /\ ~NothingOpen
  /\ drains' \in 0..redirectCount' \/ (hop' = "over" /\ drains' \in Nat)
  /\ hop = "over" => hop' = "over"
  /\ result # "none" => result' = result /\ (redirectCount > 0 => redirectCount' > 0)
  /\ result = "none" /\ result' # "none" =>
       hop' = "over" \/ (redirectCount' > 0 /\ result' = "network")

LEMMA ExchangeSettles ==
  ASSUME Net!Answer \/ Net!Fail \/ Net!FailEarlierHop, redirectCount \in Nat,
         drains \in 0..redirectCount \/ (hop = "over" /\ drains \in Nat)
  PROVE  SettlesWell
  <1> USE DEF Net!Ends, Net!Settled, Net!Drains, NothingOpen, SettlesWell
  <1>1. ASSUME NEW status, NEW to, Net!Follow(status, to)
        PROVE  SettlesWell
    BY <1>1 DEF Net!Follow
  <1>2. ASSUME NEW n, Net!Chunk(n)
        PROVE  SettlesWell
    BY <1>2 DEF Net!Chunk
  <1>3. CASE Net!RefuseRedirect
    BY <1>3 DEF Net!RefuseRedirect
  <1>4. CASE Net!Respond
    BY <1>4 DEF Net!Respond
  <1>5. CASE Net!RespondWithoutStatus
    BY <1>5 DEF Net!RespondWithoutStatus
  <1>6. CASE Net!EndOfBody
    BY <1>6 DEF Net!EndOfBody
  <1>7. CASE Net!Drained
    BY <1>7 DEF Net!Drained
  <1>8. CASE Net!Fail
    BY <1>8 DEF Net!Fail
  <1>9. CASE Net!FailEarlierHop
    BY <1>9 DEF Net!FailEarlierHop
  <1>10. CASE Net!Answer
    BY <1>1, <1>2, <1>3, <1>4, <1>5, <1>6, <1>7, <1>10 DEF Net!Answer
  <1> QED
    BY <1>8, <1>9, <1>10

LEMMA ExchangeKept ==
  ASSUME SessionHolds, SessionHolds', ExchangeHolds, CallNext
  PROVE  ExchangeHolds'
  <1>1. ASSUME Sent, Net!Answer \/ Net!Fail \/ Net!FailEarlierHop, Heard
        PROVE  ExchangeHolds'
    <2>0. redirectCount \in Nat /\ ~IsWebSocket
      BY <1>1 DEF Sent, ExchangeHolds
    <2>1. SettlesWell
      BY <1>1, <2>0, ExchangeSettles DEF ExchangeHolds
    <2>2. kind = "none"
      BY <1>1, <2>0, <2>1 DEF ExchangeHolds, SettlesWell
    <2>3. CASE UNCHANGED vars /\ (stage # "racing" \/ result' = "none")
      <3>1. stage' = stage /\ winner' = winner /\ kind' = kind /\ call' = call
        BY <2>3 DEF vars
      <3>2. stage = "called" => FALSE
        BY <1>1 DEF Sent, SessionHolds
      <3>3. stage = "racing" => winner = "none" /\ result' = "none"
        BY <2>3 DEF SessionHolds
      <3>4. winner # "none" => hop' = "over" \/ (redirectCount' > 0 /\ result' = "network")
        BY <2>0, <2>1 DEF ExchangeHolds, SettlesWell
      <3> QED
        BY <2>0, <2>1, <2>2, <3>1, <3>2, <3>3, <3>4 DEF ExchangeHolds, SettlesWell
    <2>4. CASE stage = "racing" /\ result' # "none"
      <3>1. /\ stage' = "raced" /\ kind' = kind
            /\ winner' \in {"answer", "network", "too-large", "redirect", "invariant"} \union Error
        BY <1>1, <2>4 DEF Heard, HttpAnswers, HttpFails, Wins
      <3>2. result = "none"
        BY <2>0, <2>4 DEF ExchangeHolds
      <3>3. winner' # "none"
        BY <3>1, RequestExecutorAssumption
      <3> QED
        BY <2>1, <2>2, <2>4, <3>1, <3>2, <3>3 DEF ExchangeHolds, SettlesWell
    <2> QED
      BY <1>1, <2>3, <2>4 DEF Heard
  <1>2. ASSUME Begin \/ Continue \/ Session \/ TimerFires \/ CloseWaitElapses \/ CallerAborts,
               Signalled, ~IsWebSocket'
        PROVE  ExchangeHolds'
    <2>1. call' = call /\ ~IsWebSocket
      BY <1>2 DEF Begin, Continue, Session, TimerFires, CloseWaitElapses, CallerAborts,
        StartCancelled, StartInvalid, Start, Conclude, ConcludeThrowing, Open, SendFails, TextFrame,
        SocketCloses, BadFrame, SocketFails, HandshakeEnds, Wins, IsWebSocket
    <2>2. /\ stage' \in {"called", "racing"} => stage \in {"called", "racing"}
          /\ winner' # winner => stage = "racing" /\ kind = "none" /\ kind' # "none"
          /\ kind' # kind => stage \in {"racing", "raced"}
          /\ stage' = "raced" => stage = "raced" \/ winner' # "none"
          /\ stage \in {"racing", "raced"} => stage' # "called"
          /\ stage = "raced" => winner' = winner
          /\ stage' = "racing" => kind' = "none"
      BY <1>2, <2>1 DEF Begin, Continue, Session, TimerFires, CloseWaitElapses, CallerAborts,
        StartCancelled, StartInvalid, Start, Conclude, ConcludeThrowing, Open, SendFails, TextFrame,
        SocketCloses, BadFrame, SocketFails, HandshakeEnds, Wins, OnAbort, Cause, Return, Listening,
        SessionHolds
    <2>3. stage \in {"racing", "raced"} => Sent
      BY <2>1 DEF Sent, ExchangeHolds
    <2>4. CASE UNCHANGED net
      <3>1. UNCHANGED <<hop, result, redirectCount, drains>>
        BY <2>4 DEF net
      <3>2. kind' # kind /\ kind = "none" => NothingOpen
        <4>1. SUFFICES ASSUME kind' # kind, kind = "none", ~NothingOpen PROVE FALSE
          OBVIOUS
        <4>2. hop # "over" \/ drains > 0
          BY <2>1, <4>1 DEF NothingOpen, ExchangeHolds
        <4>3. Net!Abort
          BY <1>2, <2>2, <2>3, <4>1, <4>2 DEF Signalled
        <4> QED
          BY <3>1, <4>1, <4>3 DEF Net!Abort, Net!Ends, NothingOpen
      <3>3. winner' # winner => hop = "over"
        BY <2>2, <3>2 DEF NothingOpen
      <3>4. Sent' /\ kind' # "none" => NothingOpen'
        <4>1. SUFFICES ASSUME Sent', kind' # "none" PROVE NothingOpen
          BY <3>1 DEF NothingOpen
        <4>2. kind # "none" => winner # "none"
          BY <2>1, <2>2, <4>1 DEF Sent, SessionHolds
        <4>3. kind # "none" => Sent
          BY <2>1, <4>2 DEF Sent
        <4> QED
          BY <2>1, <3>2, <4>1, <4>3 DEF ExchangeHolds
      <3> QED
        BY <2>1, <2>2, <3>1, <3>3, <3>4 DEF ExchangeHolds
    <2>5. CASE kind' # "none" /\ Net!Abort
      <3>1. stage' \notin {"called", "racing"}
        BY <2>5 DEF SessionHolds
      <3>2. hop' = "over" /\ redirectCount' = redirectCount /\ drains' = 0
        BY <2>5 DEF Net!Abort, Net!Ends
      <3> QED
        BY <2>1, <2>2, <3>1, <3>2 DEF ExchangeHolds, NothingOpen
    <2> QED
      BY <1>2, <2>4, <2>5 DEF Signalled
  <1>3. CASE IsWebSocket'
    BY <1>3 DEF ExchangeHolds
  <1> QED
    BY <1>1, <1>2, <1>3 DEF CallNext, Exchanges, Calls

(* When a call that was aborted has settled, nothing of it is left; of a    *)
(* call nobody aborted its last hop is over or strayed, and only responses  *)
(* that are being drained are left: for any transport failures, redirects   *)
(* and sizes.                                                               *)
THEOREM CallsLeaveNothing == CallSpec => []NothingOutlivesTheCall
<1> DEFINE Inv == SessionHolds /\ ExchangeHolds
<1>1. CallInit => Inv
  BY DEF CallInit, Init, Net!Init, SessionHolds, ExchangeHolds, Sent
<1>2. Inv /\ [CallNext]_allVars => Inv'
  <2> SUFFICES ASSUME Inv, [CallNext]_allVars PROVE Inv'
    OBVIOUS
  <2>1. [Next]_vars
    BY StepsAreExecutorSteps DEF allVars
  <2>2. SessionHolds'
    BY <2>1, SessionKept
  <2>3. CASE CallNext
    BY <2>2, <2>3, ExchangeKept
  <2>4. CASE UNCHANGED allVars
    BY <2>2, <2>4 DEF allVars, vars, net, ExchangeHolds, IsWebSocket, Sent, NothingOpen
  <2> QED
    BY <2>2, <2>3, <2>4
<1>3. Inv => NothingOutlivesTheCall
  BY DEF SessionHolds, ExchangeHolds, NothingOutlivesTheCall, Settled, Sent, Strayed
<1> QED
  BY <1>1, <1>2, <1>3, PTL DEF CallSpec
===============================================================================
