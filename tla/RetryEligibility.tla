--------------------------- MODULE RetryEligibility ---------------------------
(***************************************************************************)
(* src/collection-runner/retry-eligibility.ts with the part of             *)
(* collection-runner.ts that maps an orchestrator result.                  *)
(*                                                                         *)
(* The collection runner asks twice whether an attempt may be retried:     *)
(* before the history commit, from the facts of the response (the          *)
(* orchestrator commits exactly when no retry follows), and after the      *)
(* orchestrator returned, from the mapped result (the loop goes on exactly *)
(* when a retry follows). Were the two answers ever to differ, a response  *)
(* would be committed twice, or never.                                     *)
(***************************************************************************)

(* HTTP status by what the rule tables tell apart: COLLECTION_RETRYABLE_    *)
(* STATUS_CODES, COLLECTION_NON_RETRYABLE_STATUS_CODES, any other, and none *)
(* (transport failure or WebSocket).                                        *)
Status == {"none", "retryable", "nonRetryable", "other"}

(* The assertion report: no report, a report with no failed and no          *)
(* malformed expectation, a report with one.                                *)
Asserts == {"absent", "passed", "failed"}

Unknown == "unknown"          \* an optional boolean that is undefined
Optional == {"yes", "no", Unknown}

(* What executor.execute and the assertion engine establish of one attempt  *)
(* that was not cancelled.                                                  *)
Facts ==
  {f \in [httpSuccess : BOOLEAN, status : Status, asserts : Asserts,
          graphqlFailed : BOOLEAN, retryable : Optional] :
     /\ f.httpSuccess => f.retryable = Unknown
     /\ ~f.httpSuccess => f.status = "none" /\ ~f.graphqlFailed /\ f.retryable # Unknown
     /\ f.graphqlFailed => f.status # "none"}

Outcome == {"Passed", "Failed", "Skipped", "Cancelled"}
Category == {"none", "precondition", "transport", "assertion", "extraction",
             "protocol", "unread", "cancelled", "dependency", "destructive"}

-----------------------------------------------------------------------------
(* isTransportRetryable *)
TransportRetryable(a) ==
  IF a.status # "none" THEN a.status = "retryable" ELSE a.presentationRetryable # "no"

(* isCollectionRetryEligibleFromAttempt: the single rule table.             *)
EligibleFromAttempt(a) ==
  /\ a.outcome \notin {"Cancelled", "Skipped"}
  /\ a.outcome = "Failed" =>
       a.category \notin {"precondition", "unread", "extraction", "cancelled"}
  /\ a.status # "nonRetryable"
  /\ IF a.status = "retryable"
       THEN ~a.evaluated \/ a.assertionFailed
       ELSE a.outcome = "Failed" /\ a.category = "transport" /\ TransportRetryable(a)

(* isCollectionRetryEligibleFromSideEffectContext                           *)
EligibleFromContext(f) ==
  LET category ==
        CASE ~f.httpSuccess -> "transport"
          [] f.httpSuccess /\ f.asserts = "failed" -> "assertion"
          [] f.httpSuccess /\ f.asserts # "failed" /\ f.graphqlFailed -> "protocol"
          [] OTHER -> "none"
  IN EligibleFromAttempt(
       [outcome |-> IF category = "none" THEN "Passed" ELSE "Failed",
        category |-> category, status |-> f.status,
        evaluated |-> f.asserts # "absent", assertionFailed |-> f.asserts = "failed",
        presentationRetryable |-> f.retryable])

-----------------------------------------------------------------------------
(* The orchestrator reports success when response, assertions and GraphQL   *)
(* envelope are all fine.                                                   *)
OrchestratorSucceeds(f) == f.httpSuccess /\ f.asserts # "failed" /\ ~f.graphqlFailed

(* mapOrchestratorResult with describeExecutionFailure: blocking tells that *)
(* the extraction report, present only if extraction ran, has a required or *)
(* malformed rule that failed.                                              *)
MappedCategory(f, blocking) ==
  CASE OrchestratorSucceeds(f) -> IF blocking THEN "extraction" ELSE "none"
    [] ~f.httpSuccess -> "transport"
    [] f.httpSuccess /\ f.asserts = "failed" -> "assertion"
    [] OTHER -> "protocol"

Mapped(f, blocking) ==
  [outcome |-> IF MappedCategory(f, blocking) = "none" THEN "Passed" ELSE "Failed",
   category |-> MappedCategory(f, blocking), status |-> f.status,
   evaluated |-> f.asserts # "absent", assertionFailed |-> f.asserts = "failed",
   presentationRetryable |-> f.retryable]

(* toAttemptView, for a result that came without an execution: nothing of   *)
(* the response is known.                                                   *)
Blank(outcome, category) ==
  [outcome |-> outcome, category |-> category, status |-> "none",
   evaluated |-> FALSE, assertionFailed |-> FALSE, presentationRetryable |-> Unknown]

(* isCollectionRetryEligible: from the mapped result. *)
EligibleFromResult(result) == EligibleFromAttempt(result)
=============================================================================
