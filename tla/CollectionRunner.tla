--------------------------- MODULE CollectionRunner ---------------------------
(***************************************************************************)
(* One run of CollectionRunnerService (src/collection-runner/              *)
(* collection-runner.ts): the planned requests in order, each read,        *)
(* attempted and perhaps retried, under a failure policy, while the user   *)
(* may cancel and other runs may take the orchestrator's slot.             *)
(*                                                                         *)
(* An attempt is one call of the orchestrator, here what that call may     *)
(* return and what it committed (see ExecutionOrchestrator). Requests are  *)
(* their ordinals; PlannedRun shows where a plan comes from.               *)
(***************************************************************************)
EXTENDS Integers, Sequences, FiniteSets, RetryEligibility

CONSTANTS
  Total,         \* number of planned requests
  MaxRetries,    \* largest value of retry.maxRetries considered
  RunVariables,  \* names of variables that requests extract into the run store
  RunPlans       \* lists of planned requests

Planned == 1..Total

(* needs: the variables of the implicit edges into the request. produces:   *)
(* what it extracts as far as the analysis of its text knew. yields: what   *)
(* the text extracts that is read when its turn comes.                      *)
PlannedRequest ==
  [needs : SUBSET RunVariables, produces : SUBSET RunVariables,
   yields : SUBSET RunVariables, destructive : BOOLEAN]

ASSUME CollectionRunnerAssumption ==
  /\ Total \in Nat \ {0}
  /\ MaxRetries \in Nat
  /\ RunPlans \subseteq [Planned -> PlannedRequest]

VARIABLES
  requests,   \* of the plan
  options,    \* failure policy, maxAttempts, skipDestructiveRequests of the plan
  aborted,    \* the run's AbortSignal
  stage,      \* "between" requests, "reading", "attempting", "waiting", "ended"
  attempt,    \* attemptNumber of the current request, 0 before the first
  results,    \* results pushed so far, in plan order
  runStatus,  \* status, which is final once stage is "ended"
  stop,       \* the loop's stop flag
  store,      \* the run variable store: the variables it holds
  committed   \* how often each request was committed to history

effects == <<store, committed>>
runVars == <<requests, options, aborted, stage, attempt, results, runStatus, stop, effects>>

Policy == {"stop-on-first-error", "continue-on-error", "skip-invalid"}
Stage == {"between", "reading", "attempting", "waiting", "ended"}
Result == [outcome : Outcome, category : Category, attempts : 0..(MaxRetries + 1)]

current == Len(results) + 1

(* Entry of execute. *)
Entry ==
  /\ options \in [policy : Policy, maxAttempts : 1..(MaxRetries + 1), skipDestructive : BOOLEAN]
  /\ stage = "between" /\ attempt = 0 /\ results = <<>>
  /\ runStatus = "completed" /\ stop = FALSE
  /\ store = {}
  /\ committed = [r \in Planned |-> 0]

RunInit == Entry /\ requests \in RunPlans /\ aborted \in BOOLEAN

-----------------------------------------------------------------------------
(* failure-policies.ts *)
classifyInvalid == IF options.policy = "skip-invalid" THEN "Skipped" ELSE "Failed"

(* Faulty: only failures stop the loop. *)
shouldStopAfterFailure(outcome) == outcome = "Failed" /\ options.policy = "stop-on-first-error"

shouldStopAfter(outcome) ==
  outcome = "Cancelled" \/ (outcome = "Failed" /\ options.policy = "stop-on-first-error")

(* The end of an iteration of the loop over the plan: the result is pushed, *)
(* then cancellation and policy decide whether the loop stops.              *)
Finish(outcome, category, attempts) ==
  /\ results' = Append(results, [outcome |-> outcome, category |-> category,
                                 attempts |-> attempts])
  /\ stage' = "between"
  /\ attempt' = 0
  /\ stop' = (stop \/ shouldStopAfter(outcome))
  /\ runStatus' = CASE outcome = "Cancelled" -> "cancelled"
                    [] outcome # "Cancelled" /\ shouldStopAfter(outcome) -> "stopped"
                    [] OTHER -> runStatus
  /\ UNCHANGED <<requests, options, aborted>>

(* The head of the loop once it is to stop: the rest of the plan is skipped *)
(* after a policy stop and cancelled after a cancellation.                  *)
PassOver ==
  /\ stage = "between" /\ current \in Planned
  /\ stop \/ aborted
  /\ runStatus' = IF runStatus = "stopped" THEN "stopped" ELSE "cancelled"
  /\ results' = Append(results,
       IF runStatus = "stopped"
         THEN [outcome |-> "Skipped", category |-> "none", attempts |-> 0]
         ELSE [outcome |-> "Cancelled", category |-> "none", attempts |-> 0])
  /\ UNCHANGED <<requests, options, aborted, stage, attempt, stop, effects>>

(* freezeRunSummary and the "completed" event. *)
End ==
  /\ stage = "between" /\ current = Total + 1
  /\ stage' = "ended"
  /\ UNCHANGED <<requests, options, aborted, attempt, results, runStatus, stop, effects>>

-----------------------------------------------------------------------------
MayStart == stage = "between" /\ current \in Planned /\ ~stop /\ ~aborted

MissingVariables(r) == requests[r].needs \ store

(* findPreflightSkipReason: a variable missing from the run store excuses   *)
(* the request unless a static definition, which may change during the run, *)
(* provides it.                                                             *)
SkipMissingVariable ==
  /\ MayStart
  /\ MissingVariables(current) # {}
  /\ Finish("Skipped", "dependency", 0)
  /\ UNCHANGED effects

SkipDestructive ==
  /\ MayStart
  /\ options.skipDestructive /\ requests[current].destructive
  /\ Finish("Skipped", "destructive", 0)
  /\ UNCHANGED effects

StartReading ==
  /\ MayStart
  /\ ~(options.skipDestructive /\ requests[current].destructive)
  /\ stage' = "reading"
  /\ UNCHANGED <<requests, options, aborted, attempt, results, runStatus, stop, effects>>

ReadFails ==
  /\ stage = "reading"
  /\ Finish(classifyInvalid, "unread", 0)
  /\ UNCHANGED effects

(* Faulty: the signal is not looked at before an attempt. *)
EnterAttemptAnyway ==
  /\ stage' = "attempting"
  /\ attempt' = attempt + 1
  /\ UNCHANGED <<requests, options, aborted, results, runStatus, stop>>

(* The head of the attempt loop, after the read and after each backoff: an  *)
(* aborted signal ends the request with the attempts made so far.           *)
EnterAttempt ==
  IF aborted
    THEN Finish("Cancelled", "none", attempt)
    ELSE /\ stage' = "attempting"
         /\ attempt' = attempt + 1
         /\ UNCHANGED <<requests, options, aborted, results, runStatus, stop>>

ReadSucceeds ==
  /\ stage = "reading"
  /\ EnterAttempt
  /\ UNCHANGED effects

-----------------------------------------------------------------------------
retriesRemaining == options.maxAttempts - attempt

(* After an attempt: return the result or wait for the next attempt.        *)
AfterAttempt(result) ==
  IF retriesRemaining > 0 /\ EligibleFromResult(result)
    THEN /\ stage' = "waiting"
         /\ UNCHANGED <<requests, options, aborted, attempt, results, runStatus, stop>>
    ELSE Finish(result.outcome, result.category, attempt)

(* Faulty: every attempt commits; the last attempt is not told apart. *)
shouldCommitAlways(f) == TRUE
shouldCommitIneligible(f) == ~EligibleFromContext(f)

(* shouldCommitSideEffects, which the orchestrator calls with the facts of  *)
(* the response before it commits history and runs extraction.              *)
shouldCommitSideEffects(f) == retriesRemaining <= 0 \/ ~EligibleFromContext(f)

(* The response arrived. Extraction runs after a commit, and may find some  *)
(* of the variables or fail in a way that blocks.                           *)
Answered(f, extracts, blocking) ==
  /\ stage = "attempting"
  /\ extracts # {} => f.httpSuccess
  /\ extracts # {} \/ blocking => shouldCommitSideEffects(f)
  /\ committed' = [committed EXCEPT ![current] =
                     IF shouldCommitSideEffects(f) THEN @ + 1 ELSE @]
  /\ store' = store \union extracts
  /\ AfterAttempt(Mapped(f, blocking))

(* Cancelled before the request was sent, or at the transport, which leaves *)
(* a CANCELLED entry in history.                                            *)
AttemptCancelled(atTransport) ==
  /\ stage = "attempting"
  /\ aborted
  /\ committed' = [committed EXCEPT ![current] = IF atTransport THEN @ + 1 ELSE @]
  /\ UNCHANGED store
  /\ AfterAttempt(Blank("Cancelled", "cancelled"))

(* A manual run, a scenario or MCP took the orchestrator's slot.            *)
AttemptReplaced ==
  /\ stage = "attempting"
  /\ UNCHANGED effects
  /\ AfterAttempt(Blank("Cancelled", "cancelled"))

AttemptInvalid ==
  /\ stage = "attempting"
  /\ UNCHANGED effects
  /\ AfterAttempt(Blank(classifyInvalid, "precondition"))

(* The call threw; mapping a result that came back cannot.                  *)
AttemptThrows ==
  /\ stage = "attempting"
  /\ UNCHANGED effects
  /\ AfterAttempt(Blank("Failed", "transport"))

(* cancellableDelay: the timer, or the abort of the signal.                 *)
DelayElapses ==
  /\ stage = "waiting"
  /\ ~aborted
  /\ EnterAttempt
  /\ UNCHANGED effects

(* Faulty: the abort clears the timer and resolves nothing. *)
DelayAbortedUnresolved == stage = "waiting" /\ aborted /\ UNCHANGED runVars

DelayAborted ==
  /\ stage = "waiting"
  /\ aborted
  /\ Finish("Cancelled", "none", attempt)
  /\ UNCHANGED effects

Cancel ==
  /\ stage # "ended" /\ ~aborted
  /\ aborted' = TRUE
  /\ UNCHANGED <<requests, options, stage, attempt, results, runStatus, stop, effects>>
-----------------------------------------------------------------------------
Attempt ==
  /\ stage = "attempting"
  /\ \/ \E f \in Facts, extracts \in SUBSET requests[current].yields, blocking \in BOOLEAN :
          Answered(f, extracts, blocking)
     \/ \E atTransport \in BOOLEAN : AttemptCancelled(atTransport)
     \/ AttemptReplaced
     \/ AttemptInvalid
     \/ AttemptThrows

RunnerStep ==
  \/ PassOver \/ End
  \/ SkipMissingVariable \/ SkipDestructive \/ StartReading
  \/ ReadFails \/ ReadSucceeds
  \/ Attempt
  \/ DelayElapses \/ DelayAborted

RunNext == RunnerStep \/ Cancel

RunSpec == RunInit /\ [][RunNext]_runVars
-----------------------------------------------------------------------------
RunTypeOK ==
  /\ requests \in [Planned -> PlannedRequest]
  /\ options \in [policy : Policy, maxAttempts : 1..(MaxRetries + 1), skipDestructive : BOOLEAN]
  /\ aborted \in BOOLEAN
  /\ stage \in Stage
  /\ attempt \in 0..(MaxRetries + 1)
  /\ results \in Seq(Result)
  /\ Len(results) <= Total
  /\ runStatus \in {"completed", "stopped", "cancelled"}
  /\ stop \in BOOLEAN
  /\ store \subseteq RunVariables
  /\ committed \in [Planned -> Nat]

Pushed == 1..Len(results)

(* However often a request is retried, at most one of its attempts is       *)
(* committed to history and extracts variables: the answer given before the *)
(* commit and the one given after the attempt never disagree.               *)
CommittedAtMostOnce == \A r \in Planned : committed[r] <= 1

(* The response a result is made from is the one that was committed: no     *)
(* reported response is missing from history because a retry was expected   *)
(* that did not happen.                                                     *)
ReportedResponseIsCommitted ==
  \A r \in Pushed :
    \/ results[r].outcome = "Passed"
    \/ results[r].category \in {"assertion", "extraction", "protocol"}
    => committed[r] = 1

(* The status of a run and its results tell the same story: completed means *)
(* nothing was cancelled and the policy tolerated every failure; stopped    *)
(* means the stop-on-first-error policy, one failure and only skips after   *)
(* it; cancelled means everything from some request on is cancelled.        *)
StatusExplainsResults ==
  LET Is(r, o) == results[r].outcome = o
  IN /\ runStatus = "completed" =>
          \A r \in Pushed : ~Is(r, "Cancelled") /\ ~shouldStopAfter(results[r].outcome)
     /\ runStatus = "stopped" =>
          /\ options.policy = "stop-on-first-error"
          /\ \E r \in Pushed :
               /\ Is(r, "Failed")
               /\ \A q \in Pushed : q < r => Is(q, "Passed") \/ Is(q, "Skipped")
               /\ \A q \in Pushed : q > r => Is(q, "Skipped")
     /\ runStatus = "cancelled" =>
          \E r \in Pushed :
            \A q \in Pushed : Is(q, "Cancelled") <=> q >= r

(* Once the run is cancelled no further request and no further attempt is   *)
(* started, whatever the runner was doing when the signal came.             *)
NothingStartsAfterCancel ==
  [][aborted => /\ stage' = "attempting" => stage = "attempting"
                /\ stage' = "reading" => stage = "reading"]_runVars

=============================================================================
