------------------------ MODULE ExecutionOrchestrator ------------------------
(***************************************************************************)
(* The single-request workflow of                                          *)
(* src/orchestration/execution-orchestrator.ts and its replacement         *)
(* concurrency policy, with the recorder it reports to                     *)
(* (src/history/recorder.ts) and the status presenters it drives.          *)
(*                                                                         *)
(* One orchestrator serves every way of running a request: the Run         *)
(* command, the request editor, the collection runner, scenarios and MCP.  *)
(* Each call of runAtSourceLocation is a run; a run is a chain of          *)
(* synchronous sections separated by awaits, and everything else in the    *)
(* extension host may happen at an await:                                  *)
(*                                                                         *)
(*   "resolving"   parse ... variables, then await the authentication      *)
(*   "executing"   await executor.execute                                  *)
(*   "recording"   await historyRecorder.record (the append is queued)     *)
(*   "extracting"  await postExecutionObserver.onExecuted                  *)
(*   "done"        the promise of the run is settled                       *)
(*                                                                         *)
(* Request, response and reports are abstracted to the verdict the end of  *)
(* the run branches on.                                                    *)
(***************************************************************************)
EXTENDS Integers, Sequences

CONSTANT MaxRuns        \* bound on nextRunId: how many runs a behaviour has

ASSUME MaxRunsAssumption == MaxRuns \in Nat \ {0}

VARIABLES
  nextRunId,    \* last id handed out
  active,       \* id of the run that owns the slot, NoRun when undefined
  disposed,     \* dispose() was called
  pc,           \* where each run is
  abort,        \* abort reason of each run's controller, "no" while unaborted
  verdict,      \* what the end of each run branches on
  outcome,      \* RunRequestOutcome each run returned
  recorder,     \* activeRunId of DefaultHistoryRecorder
  appends,      \* runs whose history append is queued, in queue order
  history,      \* runs whose append succeeded, oldest first
  extracted,    \* runs whose onExecuted was called
  status,       \* the status bar: what it says and which run said it
  suppressed,   \* SuppressibleExecutionStatusPresenter.suppressed
  shown,        \* run whose result the response viewer shows
  problems      \* run whose assertion report the Problems view shows

slot == <<nextRunId, active, disposed>>
run == <<pc, abort, verdict, outcome>>
effects == <<recorder, appends, history, extracted>>
ui == <<status, suppressed, shown, problems>>
vars == <<slot, run, effects, ui>>

NoRun == 0
RunId == 1..MaxRuns
Stage == {"unborn", "resolving", "executing", "recording", "extracting", "done"}
Reason == {"no", "replaced", "cancelled", "disposed"}
Verdict == {"none", "success", "failed", "cancelled"}
Outcome == {"none", "success", "failed", "cancelled", "replaced",
            "precondition-failed"}
StatusKind == {"idle", "running", "success", "failed", "cancelled"}

Live(r) == pc[r] \notin {"unborn", "done"}
isCurrent(r) == active = r

Init ==
  /\ nextRunId = 0 /\ active = NoRun /\ disposed = FALSE
  /\ pc = [r \in RunId |-> "unborn"]
  /\ abort = [r \in RunId |-> "no"]
  /\ verdict = [r \in RunId |-> "none"]
  /\ outcome = [r \in RunId |-> "none"]
  /\ recorder = NoRun /\ appends = <<>> /\ history = <<>> /\ extracted = {}
  /\ status = [kind |-> "idle", by |-> NoRun]
  /\ suppressed = FALSE /\ shown = NoRun /\ problems = NoRun

-----------------------------------------------------------------------------
(* The presenters. An update is dropped while suppressed and after dispose. *)

StatusAfter(kind, r) ==
  IF suppressed \/ disposed THEN status ELSE [kind |-> kind, by |-> r]

(* setSuppressed: the collection run view takes over the status bar.        *)
SetSuppressed(b) ==
  /\ suppressed' = b
  /\ status' = IF b /\ ~disposed THEN [kind |-> "idle", by |-> NoRun] ELSE status
  /\ UNCHANGED <<slot, run, effects, shown, problems>>

(* The timer a terminal status arms puts the bar back to idle.              *)
IdleTimer ==
  /\ status.kind \notin {"idle", "running"}
  /\ ~disposed
  /\ status' = [kind |-> "idle", by |-> NoRun]
  /\ UNCHANGED <<slot, run, effects, suppressed, shown, problems>>

-----------------------------------------------------------------------------
(* Faulty: the slot is taken without aborting the run that had it. *)
AbortedNobody(id, why) == abort

(* AbortController.abort: the first reason stays.                           *)
Aborted(id, why) ==
  [r \in RunId |-> IF r = id /\ abort[r] = "no" THEN why ELSE abort[r]]

(* Entry of runAtSourceLocation: replace the active run, take the slot.     *)
Begin ==
  /\ ~disposed
  /\ nextRunId < MaxRuns
  /\ nextRunId' = nextRunId + 1
  /\ abort' = Aborted(active, "replaced")
  /\ active' = nextRunId'
  /\ pc' = [pc EXCEPT ![nextRunId'] = "resolving"]
  /\ recorder' = nextRunId'
  /\ status' = StatusAfter("running", nextRunId')
  /\ UNCHANGED <<disposed, verdict, outcome, appends, history, extracted,
                 suppressed, shown, problems>>

(* The caller's signal or the progress notification cancels the run.        *)
Cancel(r) ==
  /\ Live(r)
  /\ abort' = Aborted(r, "cancelled")
  /\ UNCHANGED <<slot, pc, verdict, outcome, effects, ui>>

dispose ==
  /\ ~disposed
  /\ disposed' = TRUE
  /\ abort' = Aborted(active, "disposed")
  /\ active' = NoRun
  /\ status' = [kind |-> "idle", by |-> NoRun]
  /\ UNCHANGED <<nextRunId, pc, verdict, outcome, effects,
                 suppressed, shown, problems>>

-----------------------------------------------------------------------------
(* Ways a run ends. Every return passes the finally block: the run releases *)
(* the slot if it still owns it.                                            *)
Return(r, o) ==
  /\ pc' = [pc EXCEPT ![r] = "done"]
  /\ outcome' = [outcome EXCEPT ![r] = o]
  /\ active' = IF isCurrent(r) THEN NoRun ELSE active
  /\ UNCHANGED <<nextRunId, disposed, abort>>

(* Faulty: the promise of a replaced run is left pending. *)
ReturnReplacedNever(r) == UNCHANGED <<slot, run, status>>

ReturnReplaced(r) ==
  /\ Return(r, "replaced")
  /\ UNCHANGED status

(* Faulty: a cancelled run leaves the status bar alone. *)
FinishCancellationSilently(r) ==
  IF isCurrent(r) THEN Return(r, "cancelled") /\ UNCHANGED status ELSE ReturnReplaced(r)

(* finishCancellationResult *)
FinishCancellation(r) ==
  IF isCurrent(r)
    THEN /\ Return(r, "cancelled")
         /\ status' = StatusAfter("cancelled", r)
    ELSE ReturnReplaced(r)

(* Faulty: no look at the slot before a precondition is reported. *)
FailPreconditionUnchecked(r) ==
  Return(r, "precondition-failed") /\ status' = StatusAfter("failed", r)

(* failPreconditionResult *)
FailPrecondition(r) ==
  IF isCurrent(r)
    THEN /\ Return(r, "precondition-failed")
         /\ status' = StatusAfter("failed", r)
    ELSE ReturnReplaced(r)

(* Faulty: every exception is taken for a cancellation. *)
CatchAsCancellation(r) == FinishCancellation(r)

(* The catch block. *)
Catch(r) ==
  IF isCurrent(r) /\ abort[r] # "no"
    THEN FinishCancellation(r)
    ELSE FailPrecondition(r)

NoEffect == UNCHANGED <<verdict, effects, suppressed, shown, problems>>

-----------------------------------------------------------------------------
(* "resolving": what happens when the authentication resolver settles, or   *)
(* a synchronous step before it refuses the request. Once the signal is     *)
(* aborted every outcome of the resolver, an error too, counts as aborted.  *)

ResolveAborted(r) ==
  /\ pc[r] = "resolving"
  /\ abort[r] # "no"
  /\ FinishCancellation(r)
  /\ NoEffect

ResolvePrecondition(r) ==
  /\ pc[r] = "resolving"
  /\ abort[r] = "no"
  /\ FailPrecondition(r)
  /\ NoEffect

ResolveThrows(r) ==
  /\ pc[r] = "resolving"
  /\ abort[r] = "no"
  /\ Catch(r)
  /\ NoEffect

(* Ready: both rechecks follow the await, then the request is sent.         *)
ResolveReady(r) ==
  /\ pc[r] = "resolving"
  /\ NoEffect
  /\ IF isCurrent(r) /\ abort[r] = "no"
       THEN /\ pc' = [pc EXCEPT ![r] = "executing"]
            /\ UNCHANGED <<slot, abort, outcome, status>>
       ELSE FinishCancellation(r)

-----------------------------------------------------------------------------
(* The last section: Problems, viewer, status, return. It is synchronous and *)
(* looks at neither the slot nor the abort signal. view is what showViewer   *)
(* and the panel make of it: no viewer wanted, opened, or opening failed.    *)
View == {"hidden", "opens", "fails"}

Present(r, v, view) ==
  LET final == IF view = "fails" THEN "failed" ELSE v
  IN /\ problems' = IF v = "cancelled" THEN problems ELSE r
     /\ shown' = IF view = "opens" THEN r ELSE shown
     /\ status' = StatusAfter(final, r)
     /\ Return(r, final)
     /\ UNCHANGED suppressed

(* Extraction seam, between the history commit and the last section. post   *)
(* is shouldRunPostExecution, which the caller's options decide.            *)
AfterHistory(r, v, post, view) ==
  IF post /\ v # "cancelled" /\ isCurrent(r)
    THEN /\ pc' = [pc EXCEPT ![r] = "extracting"]
         /\ extracted' = extracted \union {r}
         /\ UNCHANGED <<slot, abort, outcome, ui>>
    ELSE Present(r, v, view) /\ UNCHANGED extracted

(* "executing": the executor settles with verdict v. It reports CANCELLED   *)
(* only for an aborted signal; the transport may also win that race. The    *)
(* options of the caller decide commit (shouldCommitHistory) and post.      *)
ExecuteSettles(r, v, commit, post, view) ==
  /\ pc[r] = "executing"
  /\ v = "cancelled" => abort[r] # "no"
  /\ UNCHANGED <<recorder, history>>
  /\ IF ~isCurrent(r)
       THEN /\ ReturnReplaced(r)
            /\ UNCHANGED <<verdict, appends, extracted, suppressed, shown, problems>>
       ELSE /\ verdict' = [verdict EXCEPT ![r] = v]
            /\ IF commit /\ recorder = r
                 THEN /\ pc' = [pc EXCEPT ![r] = "recording"]
                      /\ appends' = Append(appends, r)
                      /\ UNCHANGED <<slot, abort, outcome, extracted, ui>>
                 ELSE AfterHistory(r, v, post, view) /\ UNCHANGED appends

(* Assertion evaluation or an option callback throws after the response.    *)
ExecuteThrows(r) ==
  /\ pc[r] = "executing"
  /\ Catch(r)
  /\ NoEffect

(* Faulty: appends are not serialized, a later one overtakes. *)
AppendSettlesOvertaking(ok, post, view) ==
  /\ appends # <<>>
  /\ LET r == appends[Len(appends)]
     IN /\ appends' = SubSeq(appends, 1, Len(appends) - 1)
        /\ history' = IF ok THEN Append(history, r) ELSE history
        /\ AfterHistory(r, verdict[r], post, view)
  /\ UNCHANGED <<verdict, recorder>>

(* "recording": the write queue settles the oldest append; a rejected one   *)
(* is swallowed. The run that awaited it goes on.                           *)
AppendSettles(ok, post, view) ==
  /\ appends # <<>>
  /\ LET r == Head(appends)
     IN /\ appends' = Tail(appends)
        /\ history' = IF ok THEN Append(history, r) ELSE history
        /\ AfterHistory(r, verdict[r], post, view)
  /\ UNCHANGED <<verdict, recorder>>

(* "extracting": onExecuted settles either way; a rejection is swallowed.   *)
ExtractionSettles(r, view) ==
  /\ pc[r] = "extracting"
  /\ Present(r, verdict[r], view)
  /\ UNCHANGED <<verdict, effects>>
-----------------------------------------------------------------------------
Resolve(r) ==
  ResolveAborted(r) \/ ResolvePrecondition(r) \/ ResolveThrows(r) \/ ResolveReady(r)

Execute(r) ==
  \/ \E v \in Verdict \ {"none"}, commit, post \in BOOLEAN, view \in View :
       ExecuteSettles(r, v, commit, post, view)
  \/ ExecuteThrows(r)

Record == \E ok, post \in BOOLEAN, view \in View : AppendSettles(ok, post, view)

Extract(r) == \E view \in View : ExtractionSettles(r, view)

(* The awaits that settle by themselves: the executor has a timeout, the    *)
(* write queue and the observer end with their file operations. A user, a   *)
(* caller or the host need never act.                                       *)
Settle == Record \/ \E r \in RunId : Resolve(r) \/ Execute(r) \/ Extract(r)

Environment ==
  \/ Begin
  \/ \E r \in RunId : Cancel(r)
  \/ dispose
  \/ \E b \in BOOLEAN : SetSuppressed(b)
  \/ IdleTimer

Next == Settle \/ Environment

Spec == Init /\ [][Next]_vars

Fairness == WF_vars(Record) /\ \A r \in RunId : WF_vars(Resolve(r) \/ Execute(r) \/ Extract(r))

FairSpec == Spec /\ Fairness
-----------------------------------------------------------------------------
(* Types of every variable. *)
TypeOK ==
  /\ nextRunId \in 0..MaxRuns
  /\ active \in 0..MaxRuns
  /\ disposed \in BOOLEAN
  /\ pc \in [RunId -> Stage]
  /\ abort \in [RunId -> Reason]
  /\ verdict \in [RunId -> Verdict]
  /\ outcome \in [RunId -> Outcome]
  /\ recorder \in 0..MaxRuns
  /\ appends \in Seq(RunId)
  /\ history \in Seq(RunId)
  /\ extracted \subseteq RunId
  /\ status \in [kind : StatusKind, by : 0..MaxRuns]
  /\ suppressed \in BOOLEAN
  /\ shown \in 0..MaxRuns
  /\ problems \in 0..MaxRuns

(* A run that lost the slot but is still somewhere in the pipeline has been *)
(* told to stop: at most one unaborted request is in flight at any time.    *)
StaleRunsAreAborted == \A r \in RunId : Live(r) /\ ~isCurrent(r) => abort[r] # "no"

Increasing(s) == \A i, j \in 1..Len(s) : i < j => s[i] < s[j]

(* History lists executions in the order they were started, each at most    *)
(* once, although appends are asynchronous and runs overlap.                *)
HistoryInRunOrder == Increasing(history \o appends)

(* Why it is so: only the newest run can own the slot, and a run is handed  *)
(* to history after it was executed and never executed again.               *)
RecordedInOrder ==
  /\ active \in {NoRun, nextRunId}
  /\ HistoryInRunOrder
  /\ \A i \in 1..Len(history \o appends) :
       LET r == (history \o appends)[i]
       IN r <= nextRunId /\ pc[r] \notin {"unborn", "resolving", "executing"}

(* A caller is told "replaced" only because a newer run or dispose took the *)
(* slot; "cancelled" only because somebody aborted the run; and a run that  *)
(* failed a precondition left nothing behind in history or variables.       *)
OutcomeIsExplained ==
  \A r \in RunId :
    /\ outcome[r] = "replaced" => (r < nextRunId \/ disposed) /\ abort[r] # "no"
    /\ outcome[r] = "cancelled" => abort[r] # "no"
    /\ outcome[r] \in {"precondition-failed", "replaced"} =>
         /\ \A i \in 1..Len(history) : history[i] # r
         /\ r \notin extracted \union {shown, problems}

(* A run replaced (or disposed) before its response arrived has no effect:  *)
(* whatever its authentication or transport answers, it returns "replaced"  *)
(* and touches neither status, viewer, Problems, history nor variables.     *)
LateAnswerIsInert ==
  [][\A r \in RunId :
       (~isCurrent(r) /\ pc[r] \in {"resolving", "executing"} /\ pc'[r] # pc[r]) =>
         /\ outcome'[r] = "replaced"
         /\ UNCHANGED <<active, ui, appends, history, extracted>>]_vars

(* Every accepted run settles. *)
RunsSettle == \A r \in RunId : pc[r] = "resolving" ~> pc[r] = "done"

(* The status bar does not keep saying "Running" for ever, although         *)
(* replaced runs return without reporting.                                  *)
StatusSettles == status.kind = "running" ~> status.kind # "running"

(* "A newer run aborts the active run; stale runs cannot update UI": the    *)
(* status bar is changed only by the run that holds the slot.               *)
StaleRunsCannotUpdateStatus ==
  [][status' # status /\ status'.by # NoRun => status'.by \in {active, active'}]_vars
=============================================================================
