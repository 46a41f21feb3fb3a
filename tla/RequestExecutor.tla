--------------------------- MODULE RequestExecutor ---------------------------
(***************************************************************************)
(* One call of DefaultRequestExecutor.execute                              *)
(* (src/execution/request-executor.ts): the request is handed to a         *)
(* transport, and the completion of the transport races against the abort  *)
(* of a controller that the caller's signal and the timeout share.         *)
(*                                                                         *)
(* The HTTP transport appears by what its promise may do, which includes   *)
(* never settling (NodeHttpTransport has the detail); the WebSocket session *)
(* of src/execution/websocket-transport.ts is modelled event by event.     *)
(*                                                                         *)
(* The race is settled by whatever comes first; the continuation of        *)
(* execute runs as a microtask, before any other event or timer, but       *)
(* another microtask, of the caller, may run in between.                   *)
(***************************************************************************)
EXTENDS Integers

CONSTANT Error     \* kinds of transport failure that DNS, TLS and sockets report

ASSUME RequestExecutorAssumption ==
  /\ "network" \in Error
  /\ Error \intersect {"none", "answer", "aborted", "invalid", "invariant", "send", "receive",
                       "connect", "unsupported", "redirect", "too-large", "SUCCESS",
                       "CANCELLED", "TIMEOUT"} = {}

VARIABLES
  call,        \* protocol, whether a timeout is set, whether a message is sent
  caller,      \* the caller's signal is aborted
  stage,       \* "called", "racing", "raced", "done", "threw"
  kind,        \* cancellationKind, "none" when undefined
  timer,       \* the timeout: "off", "armed", "fired"
  winner,      \* what settled the race: "none", "answer", "aborted", or a failure
  code,        \* what execute returned
  socket,      \* state of the WebSocket: "none", "connecting", "open", "closing", "closed"
  received,    \* a text frame was received
  closeWait    \* the timer of the close handshake is armed

vars == <<call, caller, stage, kind, timer, winner, code, socket, received, closeWait>>
session == <<socket, received, closeWait>>

Failure == Error \union {"connect", "send", "receive", "unsupported", "redirect", "too-large"}
Code == {"none", "SUCCESS", "CANCELLED", "TIMEOUT", "invalid"} \union Failure

Init ==
  /\ call \in [protocol : {"http", "websocket"}, timed : BOOLEAN, message : BOOLEAN]
  /\ call.message => call.protocol = "websocket"
  /\ caller \in BOOLEAN
  /\ stage = "called"
  /\ kind = "none" /\ timer = "off" /\ winner = "none" /\ code = "none"
  /\ socket = "none" /\ received = FALSE /\ closeWait = FALSE

IsWebSocket == call.protocol = "websocket"

-----------------------------------------------------------------------------
Return(c) ==
  /\ stage' = "done"
  /\ code' = c

(* An aborted caller comes before anything else is looked at. *)
StartCancelled ==
  /\ stage = "called" /\ caller
  /\ Return("CANCELLED")
  /\ UNCHANGED <<call, caller, kind, timer, winner, session>>

(* Unknown protocol, bad URL, body or message that cannot be sent. *)
StartInvalid ==
  /\ stage = "called" /\ ~caller
  /\ Return("invalid")
  /\ UNCHANGED <<call, caller, kind, timer, winner, session>>

(* Listeners and timer are installed and the transport is called; creating  *)
(* the WebSocket may throw.                                                 *)
Start ==
  /\ stage = "called" /\ ~caller
  /\ timer' = IF call.timed THEN "armed" ELSE "off"
  /\ UNCHANGED <<call, caller, kind, code, received, closeWait>>
  /\ \/ /\ stage' = "racing"
        /\ socket' = IF IsWebSocket THEN "connecting" ELSE "none"
        /\ UNCHANGED winner
     \/ /\ IsWebSocket
        /\ stage' = "raced" /\ winner' = "connect"
        /\ UNCHANGED socket

-----------------------------------------------------------------------------
(* closeQuietly *)
Closed(s) == CASE s = "connecting" -> "closed"
               [] s \in {"open", "closing"} -> "closing"
               [] OTHER -> s

(* The transport's promise settles first. finish, in the WebSocket session, *)
(* also ends the listening, clears closeWait and closes the socket.         *)
Wins(how) ==
  /\ stage' = "raced"
  /\ winner' = how
  /\ socket' = Closed(socket)
  /\ closeWait' = FALSE
  /\ UNCHANGED <<call, caller, kind, timer, code, received>>

HttpAnswers == ~IsWebSocket /\ stage = "racing" /\ Wins("answer")

(* "invariant": the transport broke its contract, which is thrown on. *)
HttpFails(e) == ~IsWebSocket /\ stage = "racing" /\ Wins(e)

(* Faulty: a later cause takes the place of an earlier one.                 *)
CauseLatest(why) == why

(* abort: the first cause stays. *)
Cause(why) == IF kind = "none" THEN why ELSE kind

(* Faulty: only the transport is told, the race waits for it.               *)
OnAbortUnraced(why) ==
  /\ kind' = Cause(why)
  /\ UNCHANGED <<stage, winner, socket, closeWait>>

(* The controller is aborted. Its listeners settle the race if it is still  *)
(* open: for HTTP the rejection of abortPromise, for WebSocket that of the  *)
(* session, whose listener was there first.                                 *)
OnAbort(why) ==
  /\ kind' = Cause(why)
  /\ IF stage = "racing" /\ kind = "none"
       THEN /\ stage' = "raced" /\ winner' = "aborted"
            /\ socket' = Closed(socket) /\ closeWait' = FALSE
       ELSE UNCHANGED <<stage, winner, socket, closeWait>>

TimerFires ==
  /\ stage = "racing" /\ timer = "armed"
  /\ timer' = "fired"
  /\ OnAbort("timeout")
  /\ UNCHANGED <<call, caller, code, received>>

CallerAborts ==
  /\ ~caller
  /\ caller' = TRUE
  /\ IF stage \in {"racing", "raced"}
       THEN OnAbort("cancelled")
       ELSE UNCHANGED <<kind, stage, winner, socket, closeWait>>
  /\ UNCHANGED <<call, timer, code, received>>

-----------------------------------------------------------------------------
(* The WebSocket session. Its events reach it until finish.                 *)
Listening == IsWebSocket /\ stage = "racing"

(* "open": the message is queued, or queueing it throws. *)
Open ==
  /\ Listening /\ socket = "connecting"
  /\ \/ /\ socket' = "open"
        /\ UNCHANGED <<call, caller, stage, kind, timer, winner, code, received, closeWait>>
     \/ /\ call.message
        /\ stage' = "raced" /\ winner' = "send"
        /\ socket' = "closing" /\ closeWait' = FALSE
        /\ UNCHANGED <<call, caller, kind, timer, code, received>>

(* The send callback reports an error; it is ignored after a frame came.    *)
SendFails ==
  /\ Listening /\ socket = "open" /\ call.message /\ ~received
  /\ Wins("send")

(* A frame that is not text, or is too large, or cannot be decoded. *)
BadFrame(e) ==
  /\ Listening /\ socket = "open" /\ ~received
  /\ Wins(e)

(* The first text frame: close, and wait for the peer a moment. *)
TextFrame ==
  /\ Listening /\ socket = "open" /\ ~received
  /\ received' = TRUE
  /\ closeWait' = TRUE
  /\ socket' = Closed(socket)
  /\ UNCHANGED <<call, caller, stage, kind, timer, winner, code>>

CloseWaitElapses == Listening /\ closeWait /\ Wins("answer")

(* "close": the session is over, with or without a frame. *)
SocketCloses ==
  /\ Listening /\ socket # "closed"
  /\ stage' = "raced"
  /\ winner' = CASE received -> "answer"
                 [] ~received /\ socket = "connecting" -> "connect"
                 [] OTHER -> "receive"
  /\ socket' = "closed" /\ closeWait' = FALSE
  /\ UNCHANGED <<call, caller, kind, timer, code, received>>

(* "error": the session fails, also when a frame was received already.      *)
SocketFails(e) ==
  /\ Listening
  /\ e = "connect" => socket = "connecting"
  /\ e = "network" => socket # "connecting"
  /\ Wins(e)

(* After finish the peer, or the limit ws puts on it, ends the handshake.   *)
HandshakeEnds ==
  /\ stage \in {"raced", "done"} /\ socket = "closing"
  /\ socket' = "closed"
  /\ UNCHANGED <<call, caller, stage, kind, timer, winner, code, received, closeWait>>

-----------------------------------------------------------------------------
(* The code of the result. A WebSocket session that failed while the        *)
(* controller was aborted was ended by it.                                  *)
classify ==
  CASE winner = "answer" -> "SUCCESS"
    [] winner = "aborted" \/ (IsWebSocket /\ winner # "answer" /\ kind # "none") ->
         IF kind = "timeout" THEN "TIMEOUT" ELSE "CANCELLED"
    [] OTHER -> winner

(* The continuation of execute, and its finally block. *)
Conclude ==
  /\ stage = "raced" /\ winner # "invariant"
  /\ Return(classify)
  /\ timer' = IF timer = "armed" THEN "off" ELSE timer
  /\ UNCHANGED <<call, caller, kind, winner, session>>

(* An HTTP transport that breaks its contract, or answers nonsense. *)
ConcludeThrowing ==
  /\ stage = "raced" /\ ~IsWebSocket /\ winner \in {"answer", "invariant"}
  /\ stage' = "threw"
  /\ timer' = IF timer = "armed" THEN "off" ELSE timer
  /\ UNCHANGED <<call, caller, kind, winner, code, session>>
-----------------------------------------------------------------------------
Exchange ==
  \/ HttpAnswers
  \/ \E e \in Error \union {"redirect", "too-large", "invariant"} : HttpFails(e)

Session ==
  \/ Open \/ SendFails \/ TextFrame \/ SocketCloses
  \/ \E e \in {"unsupported", "too-large", "network"} : BadFrame(e)
  \/ \E e \in Error \union {"connect"} : SocketFails(e)
  \/ HandshakeEnds

Begin == StartCancelled \/ StartInvalid \/ Start
Continue == Conclude \/ ConcludeThrowing

Next == Begin \/ Continue \/ TimerFires \/ CloseWaitElapses \/ Exchange \/ Session \/ CallerAborts

Spec == Init /\ [][Next]_vars
-----------------------------------------------------------------------------
Settled == stage \in {"done", "threw"}

TypeOK ==
  /\ call \in [protocol : {"http", "websocket"}, timed : BOOLEAN, message : BOOLEAN]
  /\ caller \in BOOLEAN
  /\ stage \in {"called", "racing", "raced", "done", "threw"}
  /\ kind \in {"none", "cancelled", "timeout"}
  /\ timer \in {"off", "armed", "fired"}
  /\ winner \in {"none", "answer", "aborted", "invariant"} \union Failure
  /\ code \in Code
  /\ socket \in {"none", "connecting", "open", "closing", "closed"}
  /\ received \in BOOLEAN
  /\ closeWait \in BOOLEAN

(* "the first observed event determines classification": a timeout that     *)
(* ended the race is reported as one, although the caller cancels before    *)
(* the result is made; and nothing is reported that did not happen.         *)
FirstCauseIsReported ==
  stage = "done" =>
    /\ timer = "fired" => code = "TIMEOUT"
    /\ code = "TIMEOUT" => timer = "fired"
    /\ code = "CANCELLED" => caller
=============================================================================
