------------------------- MODULE ScenarioEngine_proofs -------------------------
(***************************************************************************)
(* Proofs about ScenarioEngine for any valid scenario of any size: the     *)
(* types, that exactly the steps reached are run, that the status of a run *)
(* explains its results, and that nothing is sent after an abort.          *)
(*                                                                         *)
(* The engine goes through the steps in order and connections lead         *)
(* forward. So when the loop is at a step, every earlier one has its final *)
(* result, every later one has none and was not sent, and nothing that     *)
(* happens from here on can reach an earlier one.                          *)
(***************************************************************************)
EXTENDS ScenarioEngine, TLAPS

(* Exactly the steps reached are in the active set. *)
ActiveAreReached == \A s \in Step : s \in active <=> Reached(s)

OnlyActiveRan == \A s \in Step : Ran(s) => s \in active

(* What is known of a run that has not ended. *)
Earlier(s) ==
  /\ status[s] \in {"completed", "failed", "skipped"}
  /\ status[s] = "failed" => ~resolveFailurePolicyStop(s)
  /\ s \in active => Ran(s)

Progress ==
  stage # "ended" =>
    /\ runStatus = "none"
    /\ \A s \in Step : s < step => Earlier(s)
    /\ \A s \in Step : s >= step => status[s] = "none"
    /\ \A s \in Step : s > step => sent[s] = 0
    /\ stage \notin {"loop", "rejected"} => step \in active
    /\ stage = "attempting" => sent[step] > 0

Inv == /\ TypeOK /\ ActiveAreReached /\ OnlyActiveRan /\ Progress
       /\ RanExactlyTheReached /\ StatusExplainsSteps

LEMMA SizeIs == Size \in Nat \ {0}
  BY ScenarioEngineAssumption

(* Connections and branches lead to later steps. *)
LEMMA SuccessorsAreLater ==
  ASSUME TypeOK
  PROVE  /\ successors(step) \subseteq Step /\ \A to \in successors(step) : to > step
         /\ scenario.kind[step] = "condition" => scenario.branch[step] \subseteq successors(step)
         /\ scenario.maxRetries[step] \in Nat
  <1>1. Valid(scenario) /\ step \in Step
    BY ScenarioEngineAssumption DEF TypeOK
  <1>2. scenario.edges \subseteq {e \in Step \X Step : e[1] < e[2]}
    BY <1>1 DEF Valid
  <1>3. \A to \in successors(step) : to > step
    BY <1>2 DEF successors, Step
  <1>4. scenario.kind[step] = "condition" => scenario.branch[step] \subseteq successors(step)
    BY <1>1 DEF Valid, successors
  <1> QED
    BY <1>1, <1>3, <1>4 DEF Valid, successors

-----------------------------------------------------------------------------
(* The step the loop is at gets its result, and chooses its successors.     *)
LEMMA Reaches ==
  ASSUME Inv, stage # "ended",
         NEW st \in StepStatus \ {"none"}, NEW next \in SUBSET successors(step),
         st # "completed" => next = {},
         chosen' = [chosen EXCEPT ![step] = next], active' = active \union next,
         \A s \in Step : status'[s] = "completed" <=>
                           IF s = step THEN st = "completed" ELSE status[s] = "completed"
  PROVE  ActiveAreReached'
  <1>1. step \in Step /\ chosen \in [Step -> SUBSET Step] /\ status[step] = "none"
    BY SizeIs DEF Inv, TypeOK, Progress, Step
  <1>2. \A p \in Step : chosen'[p] = IF p = step THEN next ELSE chosen[p]
    BY <1>1
  <1>3. ASSUME NEW s \in Step
        PROVE  Reached(s)' <=> Reached(s) \/ s \in next
    <2>1. CASE st = "completed"
      BY <1>1, <1>2, <2>1 DEF Reached
    <2>2. CASE st # "completed"
      BY <1>1, <1>2, <2>2 DEF Reached
    <2> QED
      BY <2>1, <2>2
  <1> QED
    BY <1>3 DEF Inv, ActiveAreReached

(* What a result needs to be true of the step it is for. *)
Earned(st) ==
  /\ st \in {"completed", "failed"} => step \in active
  /\ st = "skipped" => step \notin active \/ sent[step] > 0

(* The end of an iteration. *)
LEMMA ResultKeeps ==
  ASSUME Inv, stage \notin {"ended", "rejected"},
         NEW st \in StepStatus \ {"none"}, NEW next \in SUBSET successors(step),
         st # "completed" => next = {}, Earned(st), Result(st, next)
  PROVE  Inv'
  <1> DEFINE results == [status EXCEPT ![step] = st]
  <1>1. /\ attempt' = 0 /\ chosen' = [chosen EXCEPT ![step] = next]
        /\ active' = active \union next /\ UNCHANGED <<scenario, aborted, sent>>
    BY DEF Result
  <1>2. /\ step \in Step /\ step \in Int /\ Size \in Nat \ {0} /\ step <= Size /\ Step \subseteq Int
        /\ status \in [Step -> StepStatus] /\ chosen \in [Step -> SUBSET Step]
        /\ active \subseteq Step /\ sent \in [Step -> Nat]
    BY SizeIs DEF Inv, TypeOK, Step
  <1>3. /\ runStatus = "none" /\ \A s \in Step : s < step => Earlier(s)
        /\ \A s \in Step : s >= step => status[s] = "none"
        /\ \A s \in Step : s > step => sent[s] = 0
    BY DEF Inv, Progress
  <1>4. next \subseteq Step /\ \A to \in next : to > step
    BY SuccessorsAreLater DEF Inv
  <1>5. results \in [Step -> StepStatus]
        /\ \A s \in Step : results[s] = IF s = step THEN st ELSE status[s]
    BY <1>2
  <1>6. \A s \in Step : resolveFailurePolicyStop(s)' <=> resolveFailurePolicyStop(s)
    BY <1>1 DEF resolveFailurePolicyStop
  <1>7. \E how \in {"completed", "failed", "cancelled"} :
          /\ \/ st = "cancelled" /\ how = "cancelled"
             \/ st = "failed" /\ resolveFailurePolicyStop(step) /\ how = "failed"
             \/ /\ st = "failed" => ~resolveFailurePolicyStop(step)
                /\ st # "cancelled" /\ how = "completed"
          /\ \/ Conclude(results, how) /\ (how = "completed" => step = Size)
             \/ /\ how = "completed" /\ step # Size
                /\ status' = results /\ step' = step + 1 /\ stage' = "loop" /\ UNCHANGED runStatus
    <2>1. CASE st = "cancelled" /\ Conclude(results, "cancelled")
      BY <2>1
    <2>2. CASE st = "failed" /\ resolveFailurePolicyStop(step) /\ Conclude(results, "failed")
      BY <2>2
    <2>3. CASE /\ st = "failed" => ~resolveFailurePolicyStop(step)
               /\ st # "cancelled" /\ Continue(results)
      BY <2>3 DEF Continue
    <2> QED
      BY <2>1, <2>2, <2>3 DEF Result
  <1> HIDE DEF results
  (* What was earned, as the final account sees it. *)
  <1>8. ASSUME NEW s \in Step, s <= step, st # "cancelled"
        PROVE  s \in active => sent[s] > 0 \/ results[s] \in {"completed", "failed"}
    <2>1. CASE s = step
      BY <1>5, <2>1, <1>8 DEF Earned, StepStatus
    <2>2. CASE s # step
      BY <1>2, <1>3, <1>5, <1>8, <2>2 DEF Earlier, Ran
    <2> QED
      BY <2>1, <2>2
  <1>9. ASSUME NEW s \in Step, sent[s] > 0 \/ results[s] \in {"completed", "failed"}
        PROVE  s \in active
    <2>1. CASE s = step
      BY <1>5, <1>9, <2>1 DEF Earned, Inv, OnlyActiveRan, Ran
    <2>2. CASE s # step
      BY <1>5, <1>9, <2>2 DEF Inv, OnlyActiveRan, Ran
    <2> QED
      BY <2>1, <2>2
  <1>10. CASE /\ step # Size /\ status' = results /\ step' = step + 1 /\ stage' = "loop"
              /\ UNCHANGED runStatus /\ st # "cancelled"
              /\ st = "failed" => ~resolveFailurePolicyStop(step)
    <2>1. TypeOK'
      BY <1>1, <1>2, <1>4, <1>5, <1>10 DEF Inv, TypeOK, Step, Stage
    <2>2. ActiveAreReached'
      BY <1>1, <1>5, <1>10, Reaches
    <2>3. OnlyActiveRan'
      BY <1>1, <1>9, <1>10 DEF OnlyActiveRan, Ran
    <2>4. ASSUME NEW s \in Step, s < step + 1
          PROVE  Earlier(s)'
      <3>1. s <= step
        BY <1>2, <2>4
      <3>2. results[s] \in {"completed", "failed", "skipped"}
        BY <1>2, <1>3, <1>5, <1>10, <3>1 DEF Earlier, StepStatus
      <3>3. results[s] = "failed" => ~resolveFailurePolicyStop(s)
        BY <1>2, <1>3, <1>5, <1>10, <3>1 DEF Earlier
      <3>4. s \in active' => sent[s] > 0 \/ results[s] \in {"completed", "failed"}
        BY <1>1, <1>2, <1>4, <1>8, <1>10, <3>1
      <3> QED
        BY <1>1, <1>6, <1>10, <3>2, <3>3, <3>4 DEF Earlier, Ran
    <2>5. Progress'
      BY <1>1, <1>2, <1>3, <1>5, <1>10, <2>4 DEF Progress
    <2>6. RanExactlyTheReached'
      BY <1>3, <1>10, <2>2, <2>3 DEF RanExactlyTheReached, OnlyActiveRan, ActiveAreReached
    <2>7. StatusExplainsSteps'
      BY <1>3, <1>10 DEF StatusExplainsSteps
    <2> QED
      BY <2>1, <2>2, <2>3, <2>5, <2>6, <2>7 DEF Inv
  <1>11. ASSUME NEW how \in {"completed", "failed", "cancelled"}, Conclude(results, how),
                how = "completed" => step = Size,
                \/ st = "cancelled" /\ how = "cancelled"
                \/ st = "failed" /\ resolveFailurePolicyStop(step) /\ how = "failed"
                \/ /\ st = "failed" => ~resolveFailurePolicyStop(step)
                   /\ st # "cancelled" /\ how = "completed"
         PROVE  Inv'
    <2>1. /\ stage' = "ended" /\ runStatus' = how /\ step' = step
          /\ \A s \in Step : status'[s] = IF results[s] # "none" THEN results[s]
                                          ELSE IF how = "cancelled" THEN "cancelled" ELSE "skipped"
          /\ status' \in [Step -> StepStatus]
      <3>1. status' = [s \in Step |-> IF results[s] # "none" THEN results[s]
                                      ELSE IF how = "cancelled" THEN "cancelled" ELSE "skipped"]
        BY <1>11 DEF Conclude
      <3> QED
        BY <1>5, <1>11, <3>1 DEF Conclude, StepStatus
    <2>2. \A s \in Step : /\ s < step => status'[s] = status[s]
                          /\ s = step => status'[s] = st
                          /\ s > step => status'[s] = IF how = "cancelled" THEN "cancelled" ELSE "skipped"
                          /\ status'[s] # "none"
      BY <1>2, <1>3, <1>5, <2>1 DEF Earlier
    <2>3. TypeOK'
      BY <1>1, <1>2, <1>4, <2>1 DEF Inv, TypeOK, Stage
    <2>4. ActiveAreReached'
      <3>1. \A s \in Step : status'[s] = "completed" <=>
                              IF s = step THEN st = "completed" ELSE status[s] = "completed"
        BY <1>2, <1>3, <2>2
      <3> QED
        BY <1>1, <3>1, Reaches
    <2>5. OnlyActiveRan'
      <3>1. \A s \in Step : status'[s] \in {"completed", "failed"} => results[s] \in {"completed", "failed"}
        BY <2>1
      <3> QED
        BY <1>1, <1>9, <3>1 DEF OnlyActiveRan, Ran
    <2>6. Progress'
      BY <2>1 DEF Progress
    <2>7. RanExactlyTheReached'
      <3>1. ASSUME NEW s \in Step, how = "completed", s \in active'
            PROVE  Ran(s)'
        <4>1. s <= step /\ st # "cancelled" /\ s \in active
          BY <1>1, <1>2, <1>4, <1>11, <3>1 DEF Step
        <4>2. sent[s] > 0 \/ results[s] \in {"completed", "failed"}
          BY <1>8, <4>1
        <4> QED
          BY <1>1, <2>1, <4>2 DEF Ran
      <3> QED
        BY <2>1, <2>4, <2>5, <3>1 DEF RanExactlyTheReached, OnlyActiveRan, ActiveAreReached
    <2>8. StatusExplainsSteps'
      <3>1. how = "completed" => \A s \in Step : /\ status'[s] # "cancelled"
                                                 /\ status'[s] = "failed" => ~resolveFailurePolicyStop(s)
        BY <1>2, <1>3, <1>11, <2>2 DEF Earlier, Step
      <3>2. how = "failed" => /\ status'[step] = "failed" /\ resolveFailurePolicyStop(step)
                              /\ \A later \in Step : later > step => status'[later] = "skipped"
        BY <1>2, <1>11, <2>2
      <3>3. how = "cancelled" => \A t \in Step : status'[t] = "cancelled" <=> t >= step
        BY <1>2, <1>3, <1>11, <2>2 DEF Earlier
      <3> QED
        BY <1>2, <1>6, <2>1, <2>2, <3>1, <3>2, <3>3 DEF StatusExplainsSteps
    <2> QED
      BY <2>3, <2>4, <2>5, <2>6, <2>7, <2>8 DEF Inv
  <1> QED
    BY <1>7, <1>10, <1>11

-----------------------------------------------------------------------------
(* The steps of a run that end no iteration. *)

(* The loop, or the runner, goes on, waits or gives up. *)
LEMMA EnterKeeps ==
  ASSUME Inv, stage \notin {"ended", "rejected"}, NEW next \in Stage \ {"ended", "attempting", "loop"},
         next # "rejected" => step \in active,
         stage' = next,
         UNCHANGED <<scenario, aborted, step, attempt, active, status, chosen, runStatus, sent>>
  PROVE  Inv'
  <1>1. TypeOK'
    BY DEF Inv, TypeOK
  <1>2. ActiveAreReached' /\ OnlyActiveRan' /\ RanExactlyTheReached'
    BY DEF Inv, ActiveAreReached, OnlyActiveRan, RanExactlyTheReached, Reached, Ran
  <1>3. Progress'
    BY DEF Inv, Progress, Earlier, Ran, resolveFailurePolicyStop
  <1>4. StatusExplainsSteps'
    BY DEF Inv, Progress, StatusExplainsSteps
  <1> QED
    BY <1>1, <1>2, <1>3, <1>4 DEF Inv

(* A step that only fails to be completed. *)
LEMMA UnsuccessfulKeeps ==
  ASSUME Inv, stage \notin {"ended", "rejected"},
         NEW st \in {"failed", "skipped", "cancelled"}, Earned(st), Unsuccessful(st)
  PROVE  Inv'
  <1>1. {} \in SUBSET successors(step) /\ st \in StepStatus \ {"none"} /\ st # "completed"
    BY DEF StepStatus
  <1> QED
    BY <1>1, ResultKeeps DEF Unsuccessful

LEMMA CompletedKeeps ==
  ASSUME Inv, stage \notin {"ended", "rejected"}, step \in active, Completed
  PROVE  Inv'
  BY ResultKeeps DEF Completed, Earned, StepStatus

(* An attempt is sent, or the request is cancelled. *)
LEMMA EnterAttemptKeeps ==
  ASSUME Inv, stage \notin {"ended", "rejected", "loop"}, EnterAttempt
  PROVE  Inv'
  <1>1. CASE aborted
    BY <1>1, UnsuccessfulKeeps DEF EnterAttempt, Earned
  <1>2. CASE ~aborted
    <2>1. /\ stage' = "attempting" /\ attempt' = attempt + 1
          /\ sent' = [sent EXCEPT ![step] = @ + 1]
          /\ UNCHANGED <<scenario, aborted, step, active, status, chosen, runStatus>>
      BY <1>2 DEF EnterAttempt
    <2>2. step \in Step /\ step \in active /\ runStatus = "none" /\ sent \in [Step -> Nat]
      BY DEF Inv, TypeOK, Progress
    <2>3. /\ sent' \in [Step -> Nat] /\ sent'[step] > 0
          /\ \A s \in Step : s # step => sent'[s] = sent[s]
      BY <2>1, <2>2
    <2>4. TypeOK'
      BY <2>1, <2>3 DEF Inv, TypeOK, Stage
    <2>5. ActiveAreReached' /\ OnlyActiveRan'
      BY <2>1, <2>2, <2>3 DEF Inv, ActiveAreReached, OnlyActiveRan, Reached, Ran
    <2>6. Progress'
      <3>1. step \in Int /\ Step \subseteq Int
        BY <2>2 DEF Step
      <3>2. \A s \in Step : s > step => s # step
        BY <3>1
      <3>3. \A s \in Step : s < step => Earlier(s)'
        BY <2>1, <2>2, <2>3, <3>1 DEF Inv, Progress, Earlier, Ran, resolveFailurePolicyStop
      <3> QED
        BY <2>1, <2>2, <2>3, <3>2, <3>3 DEF Inv, Progress
    <2>7. RanExactlyTheReached' /\ StatusExplainsSteps'
      BY <2>1, <2>2, <2>5 DEF RanExactlyTheReached, StatusExplainsSteps, OnlyActiveRan,
         ActiveAreReached
    <2> QED
      BY <2>4, <2>5, <2>6, <2>7 DEF Inv
  <1> QED
    BY <1>1, <1>2

LEMMA InitHolds == Init => Inv
  <1> SUFFICES ASSUME Init PROVE Inv
    OBVIOUS
  <1> USE SizeIs
  <1>1. 1 \in Step /\ Step \subseteq Int
    BY DEF Step
  <1>2. TypeOK
    BY <1>1 DEF Init, TypeOK, Stage, StepStatus
  <1>3. ActiveAreReached /\ OnlyActiveRan /\ RanExactlyTheReached /\ StatusExplainsSteps
    BY DEF Init, ActiveAreReached, OnlyActiveRan, RanExactlyTheReached, StatusExplainsSteps,
       Reached, Ran
  <1>4. Progress
    BY <1>1 DEF Init, Progress, Step
  <1> QED
    BY <1>2, <1>3, <1>4 DEF Inv

LEMMA NextHolds == Inv /\ [Next]_vars => Inv'
  <1> SUFFICES ASSUME Inv, [Next]_vars PROVE Inv'
    OBVIOUS
  <1>1. /\ stage \notin {"loop", "rejected", "ended"} => step \in active
        /\ stage = "attempting" => sent[step] > 0
    BY DEF Inv, Progress
  <1>2. CASE SkipInactive
    BY <1>2, UnsuccessfulKeeps DEF SkipInactive, Earned
  <1>3. CASE CancelStep \/ DelayAborted \/ AttemptCancelled \/ AttemptReplaced
    <2>1. stage \notin {"ended", "rejected"} /\ Unsuccessful("cancelled")
      BY <1>3 DEF CancelStep, DelayAborted, AttemptCancelled, AttemptReplaced
    <2> QED
      BY <2>1, UnsuccessfulKeeps DEF Earned
  <1>4. CASE RunCondition
    <2>1. stage = "loop" /\ step \in active /\ scenario.kind[step] = "condition"
      BY <1>4 DEF RunCondition, MayRun
    <2>2. ASSUME NEW to \in scenario.branch[step], Result("completed", {to})
          PROVE  Inv'
      <3>1. {to} \in SUBSET successors(step)
        BY <2>1, <2>2, SuccessorsAreLater DEF Inv
      <3> QED
        BY <2>1, <2>2, <3>1, ResultKeeps DEF Earned, StepStatus
    <2>3. CASE Unsuccessful("failed")
      BY <2>1, <2>3, UnsuccessfulKeeps DEF Earned
    <2> QED
      BY <1>4, <2>2, <2>3 DEF RunCondition
  <1>5. CASE RunVariable \/ RunGroup
    <2>1. stage = "loop" /\ step \in active /\ (Completed \/ Unsuccessful("failed"))
      BY <1>5 DEF RunVariable, RunGroup, MayRun
    <2> QED
      BY <2>1, CompletedKeeps, UnsuccessfulKeeps DEF Earned
  <1>6. CASE StartDelay \/ StartRequest
    <2>1. PICK next \in {"sleeping", "reading"} : Enter(next)
      BY <1>6 DEF StartDelay, StartRequest
    <2>2. stage = "loop" /\ step \in active
      BY <1>6 DEF StartDelay, StartRequest, MayRun
    <2> QED
      BY <2>1, <2>2, EnterKeeps DEF Enter, Stage
  <1>7. CASE DelayElapses \/ AttemptSucceeds
    <2>1. stage \in {"sleeping", "attempting"} /\ Completed
      BY <1>7 DEF DelayElapses, AttemptSucceeds
    <2> QED
      BY <1>1, <2>1, CompletedKeeps
  <1>8. ASSUME stage \in {"reading", "attempting", "backoff"}, Reject
        PROVE  Inv'
    BY <1>8, EnterKeeps DEF Reject, Stage
  <1>9. CASE ReadThrows \/ OutputThrows \/ BackoffAborted
    BY <1>8, <1>9 DEF ReadThrows, OutputThrows, BackoffAborted
  <1>10. CASE ReadSucceeds \/ BackoffElapses
    BY <1>10, EnterAttemptKeeps DEF ReadSucceeds, BackoffElapses
  <1>11. CASE AttemptPrecondition
    BY <1>1, <1>11, UnsuccessfulKeeps DEF AttemptPrecondition, Earned
  <1>12. CASE AttemptFails
    <2>1. stage = "attempting" /\ step \in active
      BY <1>1, <1>12 DEF AttemptFails
    <2>2. CASE Unsuccessful("failed")
      BY <2>1, <2>2, UnsuccessfulKeeps DEF Earned
    <2>3. CASE EnterAttempt
      BY <2>1, <2>3, EnterAttemptKeeps
    <2>4. CASE Enter("backoff")
      BY <2>1, <2>4, EnterKeeps DEF Enter, Stage
    <2>5. CASE Reject
      BY <2>1, <2>5, <1>8
    <2> QED
      BY <1>12, <2>2, <2>3, <2>4, <2>5 DEF AttemptFails
  <1>13. CASE Abort
    <2>1. /\ stage # "ended" /\ aborted' = TRUE
          /\ UNCHANGED <<scenario, stage, step, attempt, active, status, chosen, runStatus, sent>>
      BY <1>13 DEF Abort
    <2>2. TypeOK' /\ ActiveAreReached' /\ OnlyActiveRan' /\ RanExactlyTheReached'
      BY <2>1 DEF Inv, TypeOK, ActiveAreReached, OnlyActiveRan, RanExactlyTheReached, Reached, Ran
    <2>3. Progress' /\ StatusExplainsSteps'
      BY <2>1 DEF Inv, Progress, StatusExplainsSteps, Earlier, Ran, resolveFailurePolicyStop
    <2> QED
      BY <2>2, <2>3 DEF Inv
  <1>14. CASE UNCHANGED vars
    <2>1. TypeOK' /\ ActiveAreReached' /\ OnlyActiveRan' /\ RanExactlyTheReached'
      BY <1>14 DEF vars, Inv, TypeOK, ActiveAreReached, OnlyActiveRan, RanExactlyTheReached,
         Reached, Ran
    <2>2. Progress' /\ StatusExplainsSteps'
      BY <1>14 DEF vars, Inv, Progress, StatusExplainsSteps, Earlier, Ran, resolveFailurePolicyStop
    <2> QED
      BY <2>1, <2>2 DEF Inv
  <1> QED
    BY <1>2, <1>3, <1>4, <1>5, <1>6, <1>7, <1>9, <1>10, <1>11, <1>12, <1>13, <1>14
       DEF Next, EngineStep, Attempt

LEMMA ScenarioInv == Spec => []Inv
  BY InitHolds, NextHolds, PTL DEF Spec

-----------------------------------------------------------------------------
(* Every variable keeps its type, for scenarios of any size.                *)
THEOREM ScenarioTypeCorrect == Spec => []TypeOK
  BY ScenarioInv, PTL DEF Inv

(* However branches split and join and wherever a run ends, no step is run  *)
(* that no completed predecessor chose, and a run that completes ran every  *)
(* step that was.                                                           *)
THEOREM RunsExactlyTheReached == Spec => []RanExactlyTheReached
  BY ScenarioInv, PTL DEF Inv

(* The status of a run explains the results of its steps.                   *)
THEOREM ScenarioStatusIsExplained == Spec => []StatusExplainsSteps
  BY ScenarioInv, PTL DEF Inv

(* No attempt and no retry is sent once the signal is aborted.              *)
THEOREM AbortStopsSending == Spec => NothingSentAfterAbort
  <1>1. ASSUME [Next]_vars, aborted
        PROVE  sent' = sent
    <2>1. \A st, next : Result(st, next) => sent' = sent
      BY DEF Result
    <2>2. EnterAttempt => sent' = sent
      BY <1>1, <2>1 DEF EnterAttempt, Unsuccessful
    <2>3. \A next : Enter(next) => sent' = sent
      BY DEF Enter
    <2>4. Reject => sent' = sent
      BY DEF Reject
    <2> QED
      BY <1>1, <2>1, <2>2, <2>3, <2>4
         DEF Next, EngineStep, Attempt, SkipInactive, CancelStep, RunCondition, RunVariable,
             RunGroup, StartDelay, DelayElapses, DelayAborted, StartRequest, ReadThrows,
             ReadSucceeds, AttemptSucceeds, OutputThrows, AttemptCancelled, AttemptReplaced,
             AttemptPrecondition, AttemptFails, BackoffElapses, BackoffAborted, Abort, Completed,
             Unsuccessful, vars
  <1> QED
    BY <1>1, PTL DEF Spec, NothingSentAfterAbort
=============================================================================
