------------------------------ MODULE PlannedRun ------------------------------
(***************************************************************************)
(* A collection run from its membership plan to its end: the plan is       *)
(* analysed and put in order (DependencyPlanning), and unless it is        *)
(* refused the runner executes it in that order (CollectionRunner), as     *)
(* executeConfiguredCollectionRun in src/collection-runner/vscode/         *)
(* register-collection-runner.ts composes them.                            *)
(*                                                                         *)
(* The analysis reads the texts before the run, the runner reads each when *)
(* its turn comes: a text that could not be read or parsed then may be     *)
(* sound now, and extract what no edge of the plan accounts for.           *)
(***************************************************************************)
EXTENDS DependencyPlanning, CollectionRunner

CONSTANT Destructive    \* members whose method is DELETE

ASSUME PlannedRunAssumption ==
  Size = Total /\ Variables = RunVariables /\ Destructive \subseteq Members

planning == vars
runVarsAndPlan == <<planning, runVars>>

RunNotBegun == Entry /\ requests = <<>> /\ aborted = FALSE

PlannedInit == Init /\ RunNotBegun

-----------------------------------------------------------------------------
(* The PlannedRequest of the member r: of its edges the preflight looks at   *)
(* the implicit ones that lead into it.                                      *)
incoming(r) == {e \in into(r) : e.kind = "implicit"}

Request(r) ==
  [needs |-> {e.label : e \in incoming(r)},
   produces |-> IF r \in plan.readable THEN plan.produces[r] ELSE {},
   yields |-> plan.produces[r], destructive |-> r \in Destructive]

(* What enrichment kept besides the order is not used any more.              *)
Hand(list) ==
  /\ phase = "planned"
  /\ requests' = [i \in Planned |-> Request(list[i])]
  /\ phase' = "executing" /\ plan' = <<>>
  /\ refusal' = "" /\ edges' = {} /\ stack' = <<>> /\ done' = <<>> /\ cycles' = {}
  /\ blocked' = <<>> /\ ready' = {} /\ order' = <<>>
  /\ UNCHANGED <<options, aborted, stage, attempt, results, runStatus, stop, effects>>

(* Faulty: the runner is given the requests as the membership lists them.    *)
StartUnsorted == Hand([r \in Members |-> r])

(* The reordered requests go to the runner.                                  *)
Start == Hand(order)

Enrich == Next /\ UNCHANGED runVars

Executes(step) == phase = "executing" /\ step /\ UNCHANGED planning

PlannedNext == Enrich \/ Start \/ Executes(RunnerStep) \/ Executes(Cancel)

(* Reads, attempts and delays end (RunsSettle); the user may never cancel.   *)
PlannedSpec ==
  /\ PlannedInit /\ [][PlannedNext]_runVarsAndPlan
  /\ WF_runVarsAndPlan(Enrich \/ Start \/ Executes(RunnerStep))

-----------------------------------------------------------------------------
(* "topo order guarantees the producer ran first, so a missing value means   *)
(* it failed, was skipped, or did not extract the variable": a request       *)
(* skipped for a missing variable would have missed it at the end of the run *)
(* as well, unless the only one to extract it had not been analysed.         *)
SkippedConsumersStayWithout ==
  \A r \in Pushed : results[r].category = "dependency" =>
    \E v \in requests[r].needs :
      \/ v \notin store
      \/ \E p \in Planned : v \in requests[p].yields \ requests[p].produces

(* Every plan is refused or executed to its end, whatever fails and however  *)
(* it is retried.                                                            *)
RunEnds == <>(phase = "refused" \/ stage = "ended")
=============================================================================
