---------------------------- MODULE ScenarioEngine ----------------------------
(***************************************************************************)
(* One run of ScenarioEngine (src/scenarios/execution/scenario-engine.ts)  *)
(* with the step runners under step-runners/: the steps of a valid scenario *)
(* in topological order, each activated by a completed predecessor.        *)
(*                                                                         *)
(* Steps are numbered by their place in controlFlow.executionOrder. What a *)
(* request attempt returns is the outcome of the orchestrator; values of   *)
(* variables and outputs are left out, except that resolving them may      *)
(* throw.                                                                  *)
(***************************************************************************)
EXTENDS Integers, FiniteSets

CONSTANTS
  Size,        \* number of steps
  Scenarios    \* the scenarios considered

Step == 1..Size
Kind == {"request", "delay", "condition", "variable", "group"}

(* What validateScenario lets through: one entry, every other step has a    *)
(* predecessor, no cycle, and a condition branches along its connections.   *)
Valid(s) ==
  /\ s.kind \in [Step -> Kind]
  /\ s.edges \subseteq {e \in Step \X Step : e[1] < e[2]}
  /\ \A to \in Step \ {1} : \E from \in Step : <<from, to>> \in s.edges
  /\ s.branch \in [Step -> SUBSET Step]
  /\ \A c \in Step : s.kind[c] = "condition" =>
       s.branch[c] # {} /\ \A to \in s.branch[c] : <<c, to>> \in s.edges
  /\ s.maxRetries \in [Step -> Nat]
  /\ s.delayed \in BOOLEAN
  /\ s.stopOnFailure \subseteq Step
  /\ s.stopPolicy \in BOOLEAN

ASSUME ScenarioEngineAssumption ==
  /\ Size \in Nat \ {0}
  /\ \A s \in Scenarios : Valid(s)

VARIABLES
  scenario,    \* the scenario that is run
  aborted,     \* context.signal: the caller's signal or the timeout
  stage,       \* where the run is
  step,        \* the step the loop is at
  attempt,     \* attemptIndex of the current request step
  active,      \* the active set
  status,      \* status of the result of each step, "none" before
  chosen,      \* successors each completed step activated
  runStatus,   \* status of the run once it ended
  sent         \* attempts each step handed to the orchestrator

vars == <<scenario, aborted, stage, step, attempt, active, status, chosen, runStatus, sent>>

Stage == {"loop", "sleeping", "reading", "attempting", "backoff", "ended", "rejected"}
StepStatus == {"none", "completed", "failed", "skipped", "cancelled"}

Init ==
  /\ scenario \in Scenarios
  /\ aborted = FALSE
  /\ stage = "loop" /\ step = 1 /\ attempt = 0
  /\ active = {1}
  /\ status = [s \in Step |-> "none"]
  /\ chosen = [s \in Step |-> {}]
  /\ runStatus = "none"
  /\ sent = [s \in Step |-> 0]

-----------------------------------------------------------------------------
successors(s) == {to \in Step : <<s, to>> \in scenario.edges}

resolveFailurePolicyStop(s) == scenario.stopPolicy \/ s \in scenario.stopOnFailure

(* Faulty: the steps a cancellation leaves over count as skipped.           *)
ConcludeSkipping(results, how) ==
  /\ stage' = "ended"
  /\ runStatus' = how
  /\ status' = [s \in Step |-> IF results[s] # "none" THEN results[s] ELSE "skipped"]
  /\ UNCHANGED step

(* After the loop: the steps without a result get one, and the terminal     *)
(* event is emitted.                                                        *)
Conclude(results, how) ==
  /\ stage' = "ended"
  /\ runStatus' = how
  /\ status' = [s \in Step |->
       IF results[s] # "none" THEN results[s]
       ELSE IF how = "cancelled" THEN "cancelled" ELSE "skipped"]
  /\ UNCHANGED step

(* The loop goes on to the next step; after the last one the run completes. *)
Continue(results) ==
  IF step = Size
    THEN Conclude(results, "completed")
    ELSE /\ status' = results
         /\ step' = step + 1
         /\ stage' = "loop"
         /\ UNCHANGED runStatus

(* Faulty: every successor is activated, whatever was chosen.               *)
ResultActivatesAll(st, next) ==
  /\ attempt' = 0
  /\ chosen' = [chosen EXCEPT ![step] = next]
  /\ active' = active \union successors(step)
  /\ UNCHANGED <<scenario, aborted, sent>>
  /\ Continue([status EXCEPT ![step] = st])

(* The end of an iteration whose step has result st and, if completed,      *)
(* activates the successors next.                                           *)
Result(st, next) ==
  LET results == [status EXCEPT ![step] = st]
  IN /\ attempt' = 0
     /\ chosen' = [chosen EXCEPT ![step] = next]
     /\ active' = active \union next
     /\ UNCHANGED <<scenario, aborted, sent>>
     /\ \/ st = "cancelled" /\ Conclude(results, "cancelled")
        \/ st = "failed" /\ resolveFailurePolicyStop(step) /\ Conclude(results, "failed")
        \/ st = "failed" /\ ~resolveFailurePolicyStop(step) /\ Continue(results)
        \/ st \in {"completed", "skipped"} /\ Continue(results)

Completed == Result("completed", successors(step))
Unsuccessful(st) == Result(st, {})

(* A step runner throws: runScenario rejects, no terminal event is emitted. *)
Reject ==
  /\ stage' = "rejected"
  /\ UNCHANGED <<scenario, aborted, step, attempt, active, status, chosen, runStatus, sent>>

Enter(next) ==
  /\ stage' = next
  /\ UNCHANGED <<scenario, aborted, step, attempt, active, status, chosen, runStatus, sent>>

-----------------------------------------------------------------------------
(* The head of the loop. *)
SkipInactive ==
  /\ stage = "loop"
  /\ step \notin active
  /\ Unsuccessful("skipped")

(* The signal is aborted when the loop, or the runner, looks at it. *)
CancelStep ==
  /\ stage = "loop"
  /\ step \in active /\ aborted
  /\ Unsuccessful("cancelled")

MayRun(kind) ==
  stage = "loop" /\ step \in active /\ ~aborted /\ scenario.kind[step] = kind

(* ConditionStepRunner chooses one branch or fails. *)
RunCondition ==
  /\ MayRun("condition")
  /\ \/ \E to \in scenario.branch[step] : Result("completed", {to})
     \/ Unsuccessful("failed")

RunVariable == MayRun("variable") /\ (Completed \/ Unsuccessful("failed"))

RunGroup == MayRun("group") /\ Completed

StartDelay == MayRun("delay") /\ Enter("sleeping")

DelayElapses == stage = "sleeping" /\ ~aborted /\ Completed

(* Faulty: the abort clears the timer and settles nothing.                  *)
DelayAbortedUnsettled == stage = "sleeping" /\ aborted /\ UNCHANGED vars

DelayAborted == stage = "sleeping" /\ aborted /\ Unsuccessful("cancelled")

-----------------------------------------------------------------------------
(* RequestStepRunner. The template is read and the inputs are substituted   *)
(* before the first attempt; both may throw.                                *)
StartRequest == MayRun("request") /\ Enter("reading")

ReadThrows == stage = "reading" /\ Reject

(* Faulty: the signal is not looked at before an attempt.                   *)
EnterAttemptAnyway ==
  /\ stage' = "attempting"
  /\ attempt' = attempt + 1
  /\ sent' = [sent EXCEPT ![step] = @ + 1]
  /\ UNCHANGED <<scenario, aborted, step, active, status, chosen, runStatus>>

(* The head of the attempt loop. *)
EnterAttempt ==
  IF aborted
    THEN Unsuccessful("cancelled")
    ELSE /\ stage' = "attempting"
         /\ attempt' = attempt + 1
         /\ sent' = [sent EXCEPT ![step] = @ + 1]
         /\ UNCHANGED <<scenario, aborted, step, active, status, chosen, runStatus>>

ReadSucceeds == stage = "reading" /\ EnterAttempt

AttemptSucceeds == stage = "attempting" /\ Completed

(* An output of a successful response cannot be extracted or resolved. *)
OutputThrows == stage = "attempting" /\ Reject

AttemptCancelled == stage = "attempting" /\ aborted /\ Unsuccessful("cancelled")

AttemptReplaced == stage = "attempting" /\ Unsuccessful("cancelled")

AttemptPrecondition == stage = "attempting" /\ Unsuccessful("skipped")

(* The request failed or its execution threw. A delay between attempts is a *)
(* sleep, which rejects at once if the signal is aborted already.           *)
AttemptFails ==
  /\ stage = "attempting"
  /\ \/ attempt > scenario.maxRetries[step] /\ Unsuccessful("failed")
     \/ attempt <= scenario.maxRetries[step] /\ ~scenario.delayed /\ EnterAttempt
     \/ attempt <= scenario.maxRetries[step] /\ scenario.delayed /\ ~aborted /\ Enter("backoff")
     \/ attempt <= scenario.maxRetries[step] /\ scenario.delayed /\ aborted /\ Reject

BackoffElapses == stage = "backoff" /\ ~aborted /\ EnterAttempt

(* maybeDelay does not catch the rejection of the sleep. *)
BackoffAborted == stage = "backoff" /\ aborted /\ Reject

(* The caller aborts its signal, or the timeout of the scenario expires. *)
Abort ==
  /\ stage \notin {"ended", "rejected"} /\ ~aborted
  /\ aborted' = TRUE
  /\ UNCHANGED <<scenario, stage, step, attempt, active, status, chosen, runStatus, sent>>
-----------------------------------------------------------------------------
Attempt ==
  \/ AttemptSucceeds \/ OutputThrows \/ AttemptCancelled \/ AttemptReplaced
  \/ AttemptPrecondition \/ AttemptFails

EngineStep ==
  \/ SkipInactive \/ CancelStep
  \/ RunCondition \/ RunVariable \/ RunGroup
  \/ StartDelay \/ DelayElapses \/ DelayAborted
  \/ StartRequest \/ ReadThrows \/ ReadSucceeds
  \/ Attempt
  \/ BackoffElapses \/ BackoffAborted

Next == EngineStep \/ Abort

Spec == Init /\ [][Next]_vars

(* Timers fire, files are read and the orchestrator settles. *)
FairSpec == Spec /\ WF_vars(EngineStep)
-----------------------------------------------------------------------------
TypeOK ==
  /\ scenario \in Scenarios
  /\ aborted \in BOOLEAN
  /\ stage \in Stage
  /\ step \in Step
  /\ attempt \in Nat
  /\ active \subseteq Step
  /\ status \in [Step -> StepStatus]
  /\ chosen \in [Step -> SUBSET Step]
  /\ runStatus \in {"none", "completed", "failed", "cancelled"}
  /\ sent \in [Step -> Nat]

(* The report of a run agrees with the control flow, however branches split *)
(* and join: nothing is run, let alone sent, unless it is the entry or some *)
(* completed predecessor chose it, and in a run that was neither cancelled  *)
(* nor stopped everything so reached was run.                               *)
Reached(s) == s = 1 \/ \E p \in Step : status[p] = "completed" /\ s \in chosen[p]
Ran(s) == sent[s] > 0 \/ status[s] \in {"completed", "failed"}

RanExactlyTheReached ==
  \A s \in Step :
    /\ Ran(s) => Reached(s)
    /\ runStatus = "completed" /\ Reached(s) => Ran(s)

(* The status of a run and the results of its steps tell the same story.    *)
StatusExplainsSteps ==
  /\ stage = "ended" => runStatus # "none" /\ \A s \in Step : status[s] # "none"
  /\ runStatus = "completed" =>
       \A s \in Step : /\ status[s] # "cancelled"
                       /\ status[s] = "failed" => ~resolveFailurePolicyStop(s)
  /\ runStatus = "failed" =>
       \E s \in Step : /\ status[s] = "failed" /\ resolveFailurePolicyStop(s)
                       /\ \A later \in Step : later > s => status[later] = "skipped"
  /\ runStatus = "cancelled" =>
       \E s \in Step : \A t \in Step : status[t] = "cancelled" <=> t >= s

(* Once the signal is aborted nothing more is sent, not even a retry of the *)
(* attempt in flight.                                                       *)
NothingSentAfterAbort == [][aborted => sent' = sent]_vars

(* Every run settles. *)
RunSettles == <>(stage \in {"ended", "rejected"})
=============================================================================
