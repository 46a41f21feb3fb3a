--------------------- MODULE ExecutionOrchestrator_proofs ---------------------
(***************************************************************************)
(* Proofs about ExecutionOrchestrator for any number of runs: the types,   *)
(* that every superseded run was told to stop, that history lists the      *)
(* executions in the order in which they were started, that what callers   *)
(* are told has its cause, and that late answers have no effect.           *)
(***************************************************************************)
EXTENDS ExecutionOrchestrator, TLAPS

USE DEF NoRun, Stage, Reason, Verdict, Outcome, StatusKind

(* Run identifiers are the positive ones the counter may reach. *)
LEMMA RunIds ==
  /\ RunId \subseteq 0..MaxRuns
  /\ \A n \in 0..MaxRuns : n < MaxRuns => n + 1 \in RunId
  BY MaxRunsAssumption DEF RunId

(* Initially every variable has its type. *)
LEMMA InitTypeOK == Init => TypeOK
  <1> SUFFICES ASSUME Init PROVE TypeOK
    OBVIOUS
  <1>1. 0 \in 0..MaxRuns
    BY MaxRunsAssumption
  <1>2. appends \in Seq(RunId) /\ history \in Seq(RunId)
    BY DEF Init
  <1> QED
    BY <1>1, <1>2 DEF Init, TypeOK

(* Aborting a run yields a well-typed table of reasons. *)
LEMMA AbortedType ==
  ASSUME TypeOK, NEW id, NEW why \in Reason
  PROVE  Aborted(id, why) \in [RunId -> Reason]
  BY DEF TypeOK, Aborted

(* Whatever a presenter is asked to show, the status stays well-typed. *)
LEMMA StatusAfterType ==
  ASSUME TypeOK, NEW kind \in StatusKind, NEW r \in 0..MaxRuns
  PROVE  StatusAfter(kind, r) \in [kind : StatusKind, by : 0..MaxRuns]
  <1>1. CASE suppressed \/ disposed
    BY <1>1 DEF TypeOK, StatusAfter
  <1>2. CASE ~(suppressed \/ disposed)
    BY <1>2 DEF StatusAfter
  <1> QED
    BY <1>1, <1>2

-----------------------------------------------------------------------------
(* Every way a run ends is a Return with some outcome, and the status bar is *)
(* left alone or updated by that run.                                       *)
Updated(r) == status' = status \/ \E kind \in StatusKind : status' = StatusAfter(kind, r)
Ends(r) == (\E o \in Outcome : Return(r, o)) /\ Updated(r)

SlotTypes ==
  /\ nextRunId \in 0..MaxRuns /\ active \in 0..MaxRuns /\ disposed \in BOOLEAN
  /\ pc \in [RunId -> Stage] /\ abort \in [RunId -> Reason]
  /\ outcome \in [RunId -> Outcome]
  /\ status \in [kind : StatusKind, by : 0..MaxRuns]

ViewTypes ==
  /\ extracted \subseteq RunId /\ suppressed \in BOOLEAN
  /\ shown \in 0..MaxRuns /\ problems \in 0..MaxRuns

(* A run that returns leaves slot, stages and outcomes well-typed. *)
LEMMA EndsType ==
  ASSUME TypeOK, NEW r \in RunId, Ends(r)
  PROVE  SlotTypes'
  <1>1. status' \in [kind : StatusKind, by : 0..MaxRuns]
    <2>1. r \in 0..MaxRuns
      BY RunIds
    <2>2. CASE status' = status
      BY <2>2 DEF TypeOK
    <2>3. ASSUME NEW kind \in StatusKind, status' = StatusAfter(kind, r)
          PROVE  status' \in [kind : StatusKind, by : 0..MaxRuns]
      BY <2>1, <2>3, StatusAfterType
    <2> QED
      BY <2>2, <2>3 DEF Ends, Updated
  <1>2. PICK o \in Outcome : Return(r, o)
    BY DEF Ends
  <1>3. active' \in 0..MaxRuns
    BY <1>2, MaxRunsAssumption DEF Return, TypeOK
  <1>4. disposed' \in BOOLEAN
    BY <1>2, Zenon DEF Return, TypeOK
  <1>5. pc' \in [RunId -> Stage] /\ outcome' \in [RunId -> Outcome]
    BY <1>2 DEF Return, TypeOK
  <1> QED
    BY <1>1, <1>2, <1>3, <1>4, <1>5 DEF Return, TypeOK, SlotTypes

(* Whatever settles the authentication, the run goes on to the executor as  *)
(* the owner of the slot or ends.                                           *)
LEMMA ResolveCases ==
  ASSUME NEW r \in RunId, Resolve(r)
  PROVE  /\ pc[r] = "resolving"
         /\ NoEffect
         /\ \/ /\ pc' = [pc EXCEPT ![r] = "executing"]
               /\ isCurrent(r)
               /\ UNCHANGED <<slot, abort, outcome, status>>
            \/ Ends(r)
  <1>1. FinishCancellation(r) => Ends(r)
    BY DEF FinishCancellation, ReturnReplaced, Ends, Updated
  <1>2. FailPrecondition(r) => Ends(r)
    BY DEF FailPrecondition, ReturnReplaced, Ends, Updated
  <1>3. Catch(r) => Ends(r)
    BY <1>1, <1>2 DEF Catch
  <1> QED
    BY <1>1, <1>2, <1>3
       DEF Resolve, ResolveAborted, ResolvePrecondition, ResolveThrows, ResolveReady

(* The last section of a run ends it. *)
LEMMA PresentEnds ==
  ASSUME NEW r \in RunId, NEW v \in Verdict \ {"none"}, NEW view \in View, Present(r, v, view)
  PROVE  Ends(r) /\ shown' \in {shown, r} /\ problems' \in {problems, r} /\ UNCHANGED suppressed
  <1>1. PICK final \in {"success", "failed", "cancelled"} :
          Return(r, final) /\ status' = StatusAfter(final, r)
    BY DEF Present
  <1>2. Ends(r)
    BY <1>1 DEF Ends, Updated
  <1> QED
    BY <1>2 DEF Present

(* A run that lies behind the executor knows its verdict, which the last    *)
(* section turns into a status and an outcome: the types rest on it.        *)
HasVerdict ==
  /\ \A r \in RunId : pc[r] = "extracting" => verdict[r] # "none"
  /\ \A i \in 1..Len(appends) : verdict[appends[i]] # "none"

Inv == TypeOK /\ HasVerdict

(* The step from a settled history append, or from the response itself, to  *)
(* extraction or to the end of the run. *)
LEMMA AfterHistoryCases ==
  ASSUME NEW r \in RunId, NEW v \in Verdict \ {"none"}, NEW post \in BOOLEAN,
         NEW view \in View, AfterHistory(r, v, post, view)
  PROVE  \/ /\ isCurrent(r)
            /\ pc' = [pc EXCEPT ![r] = "extracting"]
            /\ extracted' = extracted \union {r}
            /\ UNCHANGED <<slot, abort, outcome, ui>>
         \/ /\ Ends(r)
            /\ shown' \in {shown, r} /\ problems' \in {problems, r}
            /\ UNCHANGED <<suppressed, extracted>>
  BY PresentEnds DEF AfterHistory

(* That step keeps the types of everything but the history queue. *)
LEMMA AfterHistoryType ==
  ASSUME TypeOK, NEW r \in RunId, NEW v \in Verdict \ {"none"}, NEW post \in BOOLEAN,
         NEW view \in View, AfterHistory(r, v, post, view)
  PROVE  SlotTypes' /\ ViewTypes'
  <1>1. CASE /\ pc' = [pc EXCEPT ![r] = "extracting"]
             /\ extracted' = extracted \union {r}
             /\ UNCHANGED <<slot, abort, outcome, ui>>
    BY <1>1 DEF TypeOK, SlotTypes, ViewTypes, slot, ui
  <1>2. CASE /\ Ends(r)
             /\ shown' \in {shown, r} /\ problems' \in {problems, r}
             /\ UNCHANGED <<suppressed, extracted>>
    <2>1. shown' \in 0..MaxRuns /\ problems' \in 0..MaxRuns
      BY <1>2, RunIds DEF TypeOK
    <2>2. suppressed' \in BOOLEAN /\ extracted' \subseteq RunId
      BY <1>2 DEF TypeOK
    <2> QED
      BY <1>2, <2>1, <2>2, EndsType DEF ViewTypes
  <1> QED
    BY <1>1, <1>2, AfterHistoryCases

(* Every step of the workflow preserves the types. *)
LEMMA NextTypeOK == Inv /\ [Next]_vars => TypeOK'
  <1> SUFFICES ASSUME TypeOK, HasVerdict, [Next]_vars PROVE TypeOK'
    BY DEF Inv
  <1> USE RunIds
  <1>1. CASE Begin
    <2>1. nextRunId' \in RunId /\ nextRunId' \in 0..MaxRuns
      BY <1>1 DEF Begin, TypeOK
    <2>2. abort' \in [RunId -> Reason]
      BY <1>1, AbortedType DEF Begin
    <2>3. status' \in [kind : StatusKind, by : 0..MaxRuns]
      BY <1>1, <2>1, StatusAfterType DEF Begin
    <2> QED
      BY <1>1, <2>1, <2>2, <2>3 DEF Begin, TypeOK
  <1>2. ASSUME NEW r \in RunId, Cancel(r) PROVE TypeOK'
    <2>1. abort' \in [RunId -> Reason]
      BY <1>2, AbortedType DEF Cancel
    <2> QED
      BY <1>2, <2>1 DEF Cancel, TypeOK, slot, effects, ui
  <1>3. CASE dispose
    <2>1. abort' \in [RunId -> Reason]
      BY <1>3, AbortedType DEF dispose
    <2>2. disposed' \in BOOLEAN
      BY <1>3, Zenon DEF dispose
    <2>3. 0 \in 0..MaxRuns
      BY MaxRunsAssumption
    <2> QED
      BY <1>3, <2>1, <2>2, <2>3 DEF dispose, TypeOK, effects
  <1>4. ASSUME NEW b \in BOOLEAN, SetSuppressed(b) PROVE TypeOK'
    <2>1. suppressed' \in BOOLEAN
      BY <1>4, Zenon DEF SetSuppressed
    <2>2. status' \in [kind : StatusKind, by : 0..MaxRuns]
      BY <1>4, MaxRunsAssumption DEF SetSuppressed, TypeOK
    <2> QED
      BY <1>4, <2>1, <2>2 DEF SetSuppressed, TypeOK, slot, run, effects
  <1>5. CASE IdleTimer
    BY <1>5, MaxRunsAssumption DEF IdleTimer, TypeOK, slot, run, effects
  <1>6. ASSUME NEW r \in RunId, Resolve(r) PROVE TypeOK'
    <2>1. CASE Ends(r)
      BY <1>6, <2>1, ResolveCases, EndsType DEF TypeOK, SlotTypes, NoEffect, effects
    <2>2. CASE /\ pc' = [pc EXCEPT ![r] = "executing"]
               /\ UNCHANGED <<slot, abort, outcome, status>>
      BY <1>6, <2>2, ResolveCases DEF TypeOK, NoEffect, slot, effects
    <2> QED
      BY <1>6, <2>1, <2>2, ResolveCases
  <1>7. ASSUME NEW r \in RunId, NEW v \in Verdict \ {"none"}, NEW commit \in BOOLEAN,
               NEW post \in BOOLEAN, NEW view \in View,
               ExecuteSettles(r, v, commit, post, view)
        PROVE  TypeOK'
    <2>1. recorder' \in 0..MaxRuns /\ history' \in Seq(RunId)
      BY <1>7 DEF ExecuteSettles, TypeOK
    <2>2. CASE ~isCurrent(r)
      <3>1. Ends(r)
        BY <1>7, <2>2 DEF ExecuteSettles, ReturnReplaced, Ends, Updated
      <3> QED
        BY <1>7, <2>1, <2>2, <3>1, EndsType DEF ExecuteSettles, TypeOK, SlotTypes
    <2>3. CASE isCurrent(r)
      <3>1. verdict' \in [RunId -> Verdict]
        BY <1>7, <2>3 DEF ExecuteSettles, TypeOK
      <3>2. CASE commit /\ recorder = r
        <4>1. appends' = Append(appends, r) /\ pc' = [pc EXCEPT ![r] = "recording"]
          BY <1>7, <2>3, <3>2 DEF ExecuteSettles
        <4>2. appends' \in Seq(RunId) /\ pc' \in [RunId -> Stage]
          BY <4>1 DEF TypeOK
        <4>3. UNCHANGED <<slot, abort, outcome, extracted, ui>>
          BY <1>7, <2>3, <3>2 DEF ExecuteSettles
        <4> QED
          BY <2>1, <3>1, <4>2, <4>3 DEF TypeOK, slot, ui
      <3>3. CASE ~(commit /\ recorder = r)
        <4>1. AfterHistory(r, v, post, view) /\ UNCHANGED appends
          BY <1>7, <2>3, <3>3 DEF ExecuteSettles
        <4>2. SlotTypes' /\ ViewTypes'
          BY <4>1, AfterHistoryType, Zenon
        <4> QED
          BY <2>1, <3>1, <4>1, <4>2 DEF TypeOK, SlotTypes, ViewTypes
      <3> QED
        BY <3>2, <3>3
    <2> QED
      BY <2>2, <2>3
  <1>8. ASSUME NEW r \in RunId, ExecuteThrows(r) PROVE TypeOK'
    <2>1. Ends(r)
      BY <1>8 DEF ExecuteThrows, Catch, FinishCancellation, FailPrecondition,
         ReturnReplaced, Ends, Updated
    <2> QED
      BY <1>8, <2>1, EndsType DEF ExecuteThrows, NoEffect, effects, TypeOK, SlotTypes
  <1>9. ASSUME NEW ok \in BOOLEAN, NEW post \in BOOLEAN, NEW view \in View,
               AppendSettles(ok, post, view)
        PROVE  TypeOK'
    <2>1. Head(appends) \in RunId /\ Tail(appends) \in Seq(RunId)
      BY <1>9 DEF AppendSettles, TypeOK
    <2>2. verdict[Head(appends)] \in Verdict \ {"none"}
      <3>1. 1 \in 1..Len(appends) /\ Head(appends) = appends[1]
        BY <1>9 DEF AppendSettles, TypeOK
      <3> QED
        BY <2>1, <3>1 DEF HasVerdict, TypeOK
    <2>3. appends' \in Seq(RunId) /\ history' \in Seq(RunId)
      BY <1>9, <2>1 DEF AppendSettles, TypeOK
    <2>4. AfterHistory(Head(appends), verdict[Head(appends)], post, view)
      BY <1>9 DEF AppendSettles
    <2>5. SlotTypes' /\ ViewTypes'
      BY <2>1, <2>2, <2>4, AfterHistoryType, Zenon
    <2> QED
      BY <1>9, <2>3, <2>5 DEF AppendSettles, TypeOK, SlotTypes, ViewTypes
  <1>10. ASSUME NEW r \in RunId, NEW view \in View, ExtractionSettles(r, view) PROVE TypeOK'
    <2>1. verdict[r] \in Verdict \ {"none"}
      BY <1>10 DEF ExtractionSettles, HasVerdict, TypeOK
    <2>2. Ends(r) /\ shown' \in {shown, r} /\ problems' \in {problems, r} /\ UNCHANGED suppressed
      BY <1>10, <2>1, PresentEnds DEF ExtractionSettles
    <2>3. shown' \in 0..MaxRuns /\ problems' \in 0..MaxRuns
      BY <2>2, RunIds DEF TypeOK
    <2> QED
      BY <1>10, <2>2, <2>3, EndsType DEF ExtractionSettles, effects, TypeOK, SlotTypes
  <1>11. CASE UNCHANGED vars
    BY <1>11 DEF vars, slot, run, effects, ui, TypeOK
  <1> QED
    BY <1>1, <1>2, <1>3, <1>4, <1>5, <1>6, <1>7, <1>8, <1>9, <1>10, <1>11
       DEF Next, Settle, Environment, Execute, Record, Extract

(* What a run that ends does to stages, slot and abort reasons. *)
LEMMA EndsEffect ==
  ASSUME NEW r \in RunId, Ends(r)
  PROVE  /\ pc' = [pc EXCEPT ![r] = "done"]
         /\ active' = IF isCurrent(r) THEN NoRun ELSE active
         /\ UNCHANGED <<nextRunId, abort>>
  BY DEF Ends, Return

(* A run goes on to extraction or ends. *)
GoesOn(r) ==
  \/ isCurrent(r) /\ pc' = [pc EXCEPT ![r] = "extracting"] /\ UNCHANGED <<slot, abort>>
  \/ Ends(r)

(* What a settled executor does to the run and to the history queue. *)
LEMMA ExecuteCases ==
  ASSUME TypeOK, NEW r \in RunId, NEW v \in Verdict \ {"none"}, NEW commit \in BOOLEAN,
         NEW post \in BOOLEAN, NEW view \in View, ExecuteSettles(r, v, commit, post, view)
  PROVE  /\ pc[r] = "executing"
         /\ UNCHANGED history
         /\ \/ Ends(r) /\ UNCHANGED <<verdict, appends>>
            \/ /\ verdict' = [verdict EXCEPT ![r] = v]
               /\ \/ GoesOn(r) /\ UNCHANGED appends
                  \/ /\ isCurrent(r)
                     /\ pc' = [pc EXCEPT ![r] = "recording"]
                     /\ appends' = Append(appends, r)
                     /\ UNCHANGED <<slot, abort>>
  <1>1. pc[r] = "executing" /\ UNCHANGED history
    BY DEF ExecuteSettles
  <1>2. CASE ~isCurrent(r)
    <2>1. Ends(r) /\ UNCHANGED <<verdict, appends>>
      BY <1>2 DEF ExecuteSettles, ReturnReplaced, Ends, Updated
    <2> QED
      BY <1>1, <2>1
  <1>3. CASE isCurrent(r)
    <2>1. verdict' = [verdict EXCEPT ![r] = v]
      BY <1>3 DEF ExecuteSettles
    <2>2. CASE commit /\ recorder = r
      BY <1>1, <1>3, <2>1, <2>2 DEF ExecuteSettles
    <2>3. CASE ~(commit /\ recorder = r)
      <3>1. AfterHistory(r, v, post, view) /\ UNCHANGED appends
        BY <1>3, <2>3 DEF ExecuteSettles
      <3>2. GoesOn(r)
        BY <3>1, AfterHistoryCases, Zenon DEF GoesOn
      <3> QED
        BY <1>1, <2>1, <3>1, <3>2
    <2> QED
      BY <2>2, <2>3
  <1> QED
    BY <1>2, <1>3

(* What a settled append does to its run and to history. *)
LEMMA AppendCases ==
  ASSUME TypeOK, HasVerdict, NEW ok \in BOOLEAN, NEW post \in BOOLEAN, NEW view \in View,
         AppendSettles(ok, post, view)
  PROVE  /\ appends # <<>> /\ Head(appends) \in RunId
         /\ appends' = Tail(appends)
         /\ history' \in {history, Append(history, Head(appends))}
         /\ UNCHANGED verdict
         /\ verdict[Head(appends)] # "none"
         /\ GoesOn(Head(appends))
  <1>1. appends # <<>> /\ Head(appends) \in RunId
    BY DEF AppendSettles, TypeOK
  <1>2. appends' = Tail(appends) /\ UNCHANGED verdict
        /\ history' \in {history, Append(history, Head(appends))}
    BY DEF AppendSettles
  <1>3. verdict[Head(appends)] \in Verdict \ {"none"}
    <2>1. 1 \in 1..Len(appends) /\ Head(appends) = appends[1]
      BY <1>1 DEF TypeOK
    <2> QED
      BY <1>1, <2>1 DEF HasVerdict, TypeOK
  <1>4. AfterHistory(Head(appends), verdict[Head(appends)], post, view)
    BY DEF AppendSettles
  <1>5. GoesOn(Head(appends))
    BY <1>1, <1>3, <1>4, AfterHistoryCases, Zenon DEF GoesOn
  <1> QED
    BY <1>1, <1>2, <1>3, <1>5

(* An exception after the response and a settled extraction end the run. *)
LEMMA LastSteps ==
  ASSUME TypeOK, HasVerdict, NEW r \in RunId,
         \/ ExecuteThrows(r)
         \/ \E view \in View : ExtractionSettles(r, view)
  PROVE  pc[r] \in {"executing", "extracting"} /\ Ends(r) /\ UNCHANGED <<verdict, appends, history>>
  <1>1. CASE ExecuteThrows(r)
    BY <1>1 DEF ExecuteThrows, Catch, FinishCancellation, FailPrecondition, ReturnReplaced,
       NoEffect, effects, Ends, Updated
  <1>2. ASSUME NEW view \in View, ExtractionSettles(r, view)
        PROVE  pc[r] = "extracting" /\ Ends(r) /\ UNCHANGED <<verdict, appends, history>>
    <2>1. verdict[r] \in Verdict \ {"none"}
      BY <1>2 DEF ExtractionSettles, HasVerdict, TypeOK
    <2> QED
      BY <1>2, <2>1, PresentEnds DEF ExtractionSettles, effects
  <1> QED
    BY <1>1, <1>2

(* Every step preserves that a run behind the executor has a verdict. *)
LEMMA NextHasVerdict == Inv /\ [Next]_vars => HasVerdict'
  <1> SUFFICES ASSUME TypeOK, HasVerdict, [Next]_vars PROVE HasVerdict'
    BY DEF Inv
  <1> USE DEF HasVerdict
  <1>1. CASE Begin
    BY <1>1 DEF Begin, TypeOK
  <1>2. ASSUME NEW r \in RunId, Cancel(r) PROVE HasVerdict'
    BY <1>2 DEF Cancel, effects
  <1>3. CASE dispose
    BY <1>3 DEF dispose, effects
  <1>4. ASSUME NEW b \in BOOLEAN, SetSuppressed(b) PROVE HasVerdict'
    BY <1>4 DEF SetSuppressed, run, effects
  <1>5. CASE IdleTimer
    BY <1>5 DEF IdleTimer, run, effects
  <1>6. ASSUME NEW r \in RunId, Resolve(r) PROVE HasVerdict'
    BY <1>6, ResolveCases, EndsEffect DEF TypeOK, NoEffect, effects
  <1>7. ASSUME NEW r \in RunId, NEW v \in Verdict \ {"none"}, NEW commit \in BOOLEAN,
               NEW post \in BOOLEAN, NEW view \in View,
               ExecuteSettles(r, v, commit, post, view)
        PROVE  HasVerdict'
    <2>0. /\ UNCHANGED history
          /\ \/ Ends(r) /\ UNCHANGED <<verdict, appends>>
             \/ /\ verdict' = [verdict EXCEPT ![r] = v]
                /\ \/ GoesOn(r) /\ UNCHANGED appends
                   \/ /\ isCurrent(r)
                      /\ pc' = [pc EXCEPT ![r] = "recording"]
                      /\ appends' = Append(appends, r)
                      /\ UNCHANGED <<slot, abort>>
      BY <1>7, ExecuteCases, Zenon
    <2>1. CASE Ends(r) /\ UNCHANGED <<verdict, appends>>
      BY <2>1, EndsEffect DEF TypeOK
    <2>2. CASE verdict' = [verdict EXCEPT ![r] = v] /\ GoesOn(r) /\ UNCHANGED appends
      BY <2>2, EndsEffect DEF TypeOK, GoesOn
    <2>3. CASE /\ verdict' = [verdict EXCEPT ![r] = v]
               /\ pc' = [pc EXCEPT ![r] = "recording"]
               /\ appends' = Append(appends, r)
      BY <2>3 DEF TypeOK
    <2> QED
      BY <2>0, <2>1, <2>2, <2>3
  <1>8. ASSUME NEW r \in RunId, ExecuteThrows(r) \/ \E view \in View : ExtractionSettles(r, view)
        PROVE  HasVerdict'
    BY <1>8, LastSteps, EndsEffect DEF TypeOK
  <1>9. ASSUME NEW ok \in BOOLEAN, NEW post \in BOOLEAN, NEW view \in View,
               AppendSettles(ok, post, view)
        PROVE  HasVerdict'
    <2> DEFINE h == Head(appends)
    <2>1. /\ appends # <<>> /\ h \in RunId /\ appends' = Tail(appends)
          /\ UNCHANGED verdict /\ verdict[h] # "none" /\ GoesOn(h)
      BY <1>9, AppendCases, Zenon
    <2>2. \A i \in 1..Len(appends') : verdict[appends'[i]] # "none"
      BY <2>1 DEF TypeOK
    <2>3. \A r \in RunId : pc'[r] = "extracting" => pc[r] = "extracting" \/ r = h
      BY <2>1, EndsEffect DEF TypeOK, GoesOn
    <2> QED
      BY <2>1, <2>2, <2>3
  <1>10. CASE UNCHANGED vars
    BY <1>10 DEF vars, run, effects
  <1> QED
    BY <1>1, <1>2, <1>3, <1>4, <1>5, <1>6, <1>7, <1>8, <1>9, <1>10
       DEF Next, Settle, Environment, Execute, Record, Extract

(* The strengthened type invariant is inductive. *)
LEMMA SpecInv == Spec => []Inv
  <1>1. Init => Inv
    BY InitTypeOK DEF Init, Inv, HasVerdict
  <1>2. Inv /\ [Next]_vars => Inv'
    BY NextTypeOK, NextHasVerdict DEF Inv
  <1> QED
    BY <1>1, <1>2, PTL DEF Spec

(* Every variable keeps its type, for any number of runs. *)
THEOREM TypeCorrect == Spec => []TypeOK
  <1>1. Inv => TypeOK
    BY DEF Inv
  <1> QED
    BY <1>1, SpecInv, PTL

-----------------------------------------------------------------------------
(* Superseded runs. Slot and stage change together: a run that loses the    *)
(* slot without ending is aborted by the step that takes it.                *)

(* A run that moves one stage while it owns the slot supersedes nobody.     *)
LEMMA MovesAsOwner ==
  ASSUME TypeOK, StaleRunsAreAborted, NEW r \in RunId, isCurrent(r),
         NEW stage \in Stage, pc' = [pc EXCEPT ![r] = stage], UNCHANGED <<active, abort>>
  PROVE  StaleRunsAreAborted'
  BY DEF TypeOK, StaleRunsAreAborted, Live, isCurrent

(* A run that ends supersedes nobody: it can only free its own slot.        *)
LEMMA EndsSupersedesNobody ==
  ASSUME TypeOK, StaleRunsAreAborted, NEW r \in RunId, Ends(r)
  PROVE  StaleRunsAreAborted'
  <1>1. /\ pc' = [pc EXCEPT ![r] = "done"]
        /\ active' = IF isCurrent(r) THEN NoRun ELSE active
        /\ UNCHANGED abort
    BY EndsEffect
  <1>2. ASSUME NEW s \in RunId, Live(s)', ~isCurrent(s)' PROVE abort'[s] # "no"
    <2>1. s # r /\ Live(s)
      BY <1>1, <1>2 DEF TypeOK, Live
    <2>2. ~isCurrent(s)
      BY <1>1, <1>2, <2>1 DEF isCurrent
    <2> QED
      BY <1>1, <2>1, <2>2 DEF StaleRunsAreAborted
  <1> QED
    BY <1>2 DEF StaleRunsAreAborted

(* Nor does a run that goes on to extraction or ends.                       *)
LEMMA GoesOnSupersedesNobody ==
  ASSUME TypeOK, StaleRunsAreAborted, NEW r \in RunId, GoesOn(r)
  PROVE  StaleRunsAreAborted'
  BY MovesAsOwner, EndsSupersedesNobody DEF GoesOn, slot

(* Every step keeps superseded runs aborted. *)
LEMMA NextStaleRunsAreAborted ==
  Inv /\ StaleRunsAreAborted /\ [Next]_vars => StaleRunsAreAborted'
  <1> SUFFICES ASSUME TypeOK, HasVerdict, StaleRunsAreAborted, [Next]_vars
               PROVE  StaleRunsAreAborted'
    BY DEF Inv
  <1>1. CASE Begin
    <2>1. \A r \in RunId : abort'[r] = IF r = active /\ abort[r] = "no" THEN "replaced" ELSE abort[r]
      BY <1>1 DEF Begin, Aborted
    <2>2. \A r \in RunId : r # active' => pc'[r] = pc[r]
      BY <1>1 DEF Begin, TypeOK
    <2> QED
      BY <2>1, <2>2 DEF StaleRunsAreAborted, Live, isCurrent
  <1>2. ASSUME NEW r \in RunId, Cancel(r) PROVE StaleRunsAreAborted'
    <2>1. \A s \in RunId : abort[s] # "no" => abort'[s] # "no"
      BY <1>2 DEF Cancel, Aborted
    <2> QED
      BY <1>2, <2>1 DEF Cancel, slot, StaleRunsAreAborted, Live, isCurrent
  <1>3. CASE dispose
    <2>1. \A r \in RunId : abort'[r] = IF r = active /\ abort[r] = "no" THEN "disposed" ELSE abort[r]
      BY <1>3 DEF dispose, Aborted
    <2> QED
      BY <1>3, <2>1 DEF dispose, StaleRunsAreAborted, Live, isCurrent
  <1>4. ASSUME NEW b \in BOOLEAN, SetSuppressed(b) PROVE StaleRunsAreAborted'
    BY <1>4 DEF SetSuppressed, slot, run, StaleRunsAreAborted, Live, isCurrent
  <1>5. CASE IdleTimer
    BY <1>5 DEF IdleTimer, slot, run, StaleRunsAreAborted, Live, isCurrent
  <1>6. ASSUME NEW r \in RunId, Resolve(r) PROVE StaleRunsAreAborted'
    <2>1. CASE Ends(r)
      BY <2>1, EndsSupersedesNobody
    <2>2. CASE /\ pc' = [pc EXCEPT ![r] = "executing"]
               /\ isCurrent(r)
               /\ UNCHANGED <<slot, abort, outcome, status>>
      BY <2>2, MovesAsOwner DEF slot
    <2> QED
      BY <1>6, <2>1, <2>2, ResolveCases
  <1>7. ASSUME NEW r \in RunId, NEW v \in Verdict \ {"none"}, NEW commit \in BOOLEAN,
               NEW post \in BOOLEAN, NEW view \in View,
               ExecuteSettles(r, v, commit, post, view)
        PROVE  StaleRunsAreAborted'
    <2>1. \/ GoesOn(r)
          \/ isCurrent(r) /\ pc' = [pc EXCEPT ![r] = "recording"] /\ UNCHANGED <<slot, abort>>
      <3>1. Ends(r) => GoesOn(r)
        BY DEF GoesOn
      <3>2. \/ Ends(r) /\ UNCHANGED <<verdict, appends>>
            \/ /\ verdict' = [verdict EXCEPT ![r] = v]
               /\ \/ GoesOn(r) /\ UNCHANGED appends
                  \/ /\ isCurrent(r)
                     /\ pc' = [pc EXCEPT ![r] = "recording"]
                     /\ appends' = Append(appends, r)
                     /\ UNCHANGED <<slot, abort>>
        BY <1>7, ExecuteCases, Zenon
      <3> QED
        BY <1>7, <3>1, <3>2
    <2> QED
      BY <2>1, GoesOnSupersedesNobody, MovesAsOwner DEF slot
  <1>8. ASSUME NEW r \in RunId, ExecuteThrows(r) \/ \E view \in View : ExtractionSettles(r, view)
        PROVE  StaleRunsAreAborted'
    BY <1>8, LastSteps, EndsSupersedesNobody
  <1>9. ASSUME NEW ok \in BOOLEAN, NEW post \in BOOLEAN, NEW view \in View,
               AppendSettles(ok, post, view)
        PROVE  StaleRunsAreAborted'
    <2>1. Head(appends) \in RunId /\ GoesOn(Head(appends))
      BY <1>9, AppendCases, Zenon
    <2> QED
      BY <2>1, GoesOnSupersedesNobody
  <1>10. CASE UNCHANGED vars
    BY <1>10 DEF vars, slot, run, StaleRunsAreAborted, Live, isCurrent
  <1> QED
    BY <1>1, <1>2, <1>3, <1>4, <1>5, <1>6, <1>7, <1>8, <1>9, <1>10
       DEF Next, Settle, Environment, Execute, Record, Extract

(* A run that lost the slot while it was in the pipeline has been told to   *)
(* stop, however many runs overlap: replacement and dispose abort exactly   *)
(* the owner, and no other step takes the slot from a live run.             *)
THEOREM SupersededRunsAreAborted == Spec => []StaleRunsAreAborted
  <1>1. Init => StaleRunsAreAborted
    BY DEF Init, StaleRunsAreAborted, Live
  <1> QED
    BY <1>1, NextStaleRunsAreAborted, SpecInv, PTL DEF Spec

-----------------------------------------------------------------------------
(* The order of history. A run is handed to the queue while it owns the     *)
(* slot, hence as the newest run, after every entry was handed over.        *)

Logged == history \o appends
BeforeRecording == {"unborn", "resolving", "executing"}

(* The log is a sequence of runs. *)
LEMMA LoggedType ==
  ASSUME TypeOK
  PROVE  /\ Logged \in Seq(RunId)
         /\ \A i \in 1..Len(Logged) : Logged[i] \in RunId
  BY DEF TypeOK, Logged

(* RecordedInOrder, read entry by entry. *)
LEMMA EntriesAre ==
  RecordedInOrder <=>
    /\ active \in {NoRun, nextRunId}
    /\ Increasing(Logged)
    /\ \A i \in 1..Len(Logged) :
         Logged[i] <= nextRunId /\ pc[Logged[i]] \notin BeforeRecording
  BY DEF RecordedInOrder, HistoryInRunOrder, Logged, BeforeRecording

(* The same of the next state. *)
LEMMA EntriesAreNext ==
  ASSUME active' \in {NoRun, nextRunId'}, Increasing(Logged)',
         \A i \in 1..Len(Logged') :
           Logged'[i] <= nextRunId' /\ pc'[Logged'[i]] \notin BeforeRecording
  PROVE  RecordedInOrder'
  BY DEF RecordedInOrder, HistoryInRunOrder, Logged, BeforeRecording, Increasing

(* A step that neither records nor starts a run cannot disturb the order.   *)
LEMMA EntriesStay ==
  ASSUME TypeOK, RecordedInOrder, UNCHANGED <<appends, history, nextRunId>>,
         active' \in {active, NoRun},
         \A r \in RunId : pc'[r] \in BeforeRecording => pc[r] \in BeforeRecording
  PROVE  RecordedInOrder'
  <1>1. UNCHANGED Logged
    BY DEF Logged
  <1>2. \A i \in 1..Len(Logged') :
          Logged'[i] <= nextRunId' /\ pc'[Logged'[i]] \notin BeforeRecording
    BY <1>1, LoggedType, EntriesAre
  <1>3. active' \in {NoRun, nextRunId'} /\ Increasing(Logged)'
    BY <1>1, EntriesAre DEF Increasing
  <1> QED
    BY <1>2, <1>3, EntriesAreNext

(* A run that advances behind the executor, or ends, is such a step.        *)
LEMMA GoesOnKeepsEntries ==
  ASSUME TypeOK, RecordedInOrder, NEW r \in RunId, GoesOn(r)
  PROVE  /\ active' \in {active, NoRun} /\ UNCHANGED nextRunId
         /\ \A s \in RunId : pc'[s] \in BeforeRecording => pc[s] \in BeforeRecording
  <1>1. CASE pc' = [pc EXCEPT ![r] = "extracting"] /\ UNCHANGED <<slot, abort>>
    BY <1>1 DEF TypeOK, slot, BeforeRecording
  <1>2. CASE Ends(r)
    <2>1. /\ pc' = [pc EXCEPT ![r] = "done"]
          /\ active' = IF isCurrent(r) THEN NoRun ELSE active
          /\ UNCHANGED nextRunId
      BY <1>2, EndsEffect
    <2> QED
      BY <2>1 DEF TypeOK, BeforeRecording
  <1> QED
    BY <1>1, <1>2 DEF GoesOn

(* The owner of the slot, handed over, becomes the last entry.              *)
LEMMA HandOver ==
  ASSUME TypeOK, RecordedInOrder, NEW r \in RunId, isCurrent(r), pc[r] = "executing",
         pc' = [pc EXCEPT ![r] = "recording"], appends' = Append(appends, r),
         UNCHANGED <<history, active, nextRunId>>
  PROVE  RecordedInOrder'
  <1>1. Logged' = Append(Logged, r)
    BY SMTT(60) DEF Logged, TypeOK
  <1>2. r = nextRunId
    BY RunIds, EntriesAre DEF isCurrent, RunId
  <1>3. \A i \in 1..Len(Logged) : Logged[i] < r
    <2>1. ASSUME NEW i \in 1..Len(Logged) PROVE Logged[i] < r
      <3>1. Logged[i] \in RunId /\ Logged[i] <= r /\ pc[Logged[i]] # "executing"
        BY <1>2, LoggedType, EntriesAre DEF BeforeRecording
      <3> QED
        BY <3>1 DEF RunId
    <2> QED
      BY <2>1
  <1>4. Increasing(Logged)'
    BY <1>1, <1>3, LoggedType, EntriesAre DEF Increasing
  <1>5. \A i \in 1..Len(Logged') :
          Logged'[i] <= nextRunId' /\ pc'[Logged'[i]] \notin BeforeRecording
    <2>1. ASSUME NEW i \in 1..Len(Logged')
          PROVE  Logged'[i] <= nextRunId' /\ pc'[Logged'[i]] \notin BeforeRecording
      <3>1. CASE i \in 1..Len(Logged)
        <4>1. Logged'[i] = Logged[i]
          BY <1>1, <3>1, LoggedType
        <4> QED
          BY <3>1, <4>1, LoggedType, EntriesAre DEF TypeOK, BeforeRecording
      <3>2. CASE i = Len(Logged) + 1
        <4>1. Logged'[i] = r
          BY <1>1, <3>2, LoggedType
        <4> QED
          BY <1>2, <4>1, TypeOK DEF TypeOK, BeforeRecording, RunId
      <3> QED
        BY <1>1, <3>1, <3>2, LoggedType
    <2> QED
      BY <2>1
  <1>6. active' \in {NoRun, nextRunId'}
    BY EntriesAre
  <1> QED
    BY <1>4, <1>5, <1>6, EntriesAreNext

(* Settling the oldest append keeps the log or drops one entry of it.       *)
LEMMA LogAfterAppend ==
  ASSUME TypeOK, appends # <<>>, appends' = Tail(appends),
         history' \in {history, Append(history, Head(appends))}
  PROVE  \/ Logged' = Logged
         \/ /\ Len(Logged') = Len(Logged) - 1
            /\ \A i \in 1..Len(Logged') :
                 Logged'[i] = Logged[IF i <= Len(history) THEN i ELSE i + 1]
  <1>1. CASE history' = history
    <2>1. /\ Len(appends) \in Nat \ {0} /\ Len(appends') = Len(appends) - 1
          /\ \A i \in 1..Len(appends') : appends'[i] = appends[i + 1]
      BY DEF TypeOK
    <2>2. appends' \in Seq(RunId) /\ Len(history) \in Nat
      BY DEF TypeOK
    <2>3. /\ Len(Logged) = Len(history) + Len(appends)
          /\ \A i \in 1..Len(Logged) :
               Logged[i] = IF i <= Len(history) THEN history[i] ELSE appends[i - Len(history)]
      BY DEF Logged, TypeOK
    <2>4. /\ Len(Logged') = Len(history) + Len(appends')
          /\ \A i \in 1..Len(Logged') :
               Logged'[i] = IF i <= Len(history) THEN history[i] ELSE appends'[i - Len(history)]
      BY <1>1, <2>2 DEF Logged, TypeOK
    <2>5. ASSUME NEW i \in 1..Len(Logged')
          PROVE  Logged'[i] = Logged[IF i <= Len(history) THEN i ELSE i + 1]
      <3>1. CASE i <= Len(history)
        BY <2>1, <2>2, <2>3, <2>4, <3>1
      <3>2. CASE i > Len(history)
        <4>1. i - Len(history) \in 1..Len(appends') /\ i + 1 \in 1..Len(Logged)
              /\ ~(i <= Len(history)) /\ ~(i + 1 <= Len(history))
              /\ (i - Len(history)) + 1 = (i + 1) - Len(history)
          BY <2>1, <2>2, <2>3, <2>4, <3>2
        <4> QED
          BY <2>1, <2>3, <2>4, <4>1
      <3> QED
        BY <2>2, <2>4, <3>1, <3>2
    <2>6. Len(Logged') = Len(Logged) - 1
      <3>1. Len(appends) \in Nat /\ Len(appends') = Len(appends) - 1 /\ Len(history) \in Nat
        BY <2>1, <2>2
      <3> QED
        BY <3>1, <2>3, <2>4
    <2> QED
      BY <2>5, <2>6
  <1>2. CASE history' = Append(history, Head(appends))
    <2>1. /\ Len(Logged') = Len(Logged)
          /\ \A i \in 1..Len(Logged) : Logged'[i] = Logged[i]
      BY <1>2 DEF Logged, TypeOK
    <2>2. Logged \in Seq(RunId) /\ Logged' \in Seq(RunId)
      BY <1>2 DEF Logged, TypeOK
    <2> QED
      BY <2>1, <2>2
  <1> QED
    BY <1>1, <1>2

(* So it keeps the order.                                                   *)
LEMMA AppendKeepsEntries ==
  ASSUME TypeOK, RecordedInOrder, appends # <<>>, Head(appends) \in RunId,
         appends' = Tail(appends), history' \in {history, Append(history, Head(appends))},
         GoesOn(Head(appends))
  PROVE  RecordedInOrder'
  <1>1. /\ active' \in {active, NoRun} /\ UNCHANGED nextRunId
        /\ \A s \in RunId : pc'[s] \in BeforeRecording => pc[s] \in BeforeRecording
    BY GoesOnKeepsEntries
  <1>2. active' \in {NoRun, nextRunId'}
    BY <1>1, EntriesAre
  <1>3. CASE Logged' = Logged
    <2>1. Increasing(Logged)'
      BY <1>3, EntriesAre DEF Increasing
    <2>2. \A i \in 1..Len(Logged') :
            Logged'[i] <= nextRunId' /\ pc'[Logged'[i]] \notin BeforeRecording
      BY <1>1, <1>3, LoggedType, EntriesAre
    <2> QED
      BY <1>2, <2>1, <2>2, EntriesAreNext
  <1>4. CASE /\ Len(Logged') = Len(Logged) - 1
             /\ \A i \in 1..Len(Logged') :
                  Logged'[i] = Logged[IF i <= Len(history) THEN i ELSE i + 1]
    <2> DEFINE at(i) == IF i <= Len(history) THEN i ELSE i + 1
    <2>1. Len(history) \in Nat /\ Len(Logged) \in Nat
      BY LoggedType DEF TypeOK
    <2>2. \A i \in 1..Len(Logged') : at(i) \in 1..Len(Logged) /\ Logged'[i] = Logged[at(i)]
      BY <1>4, <2>1
    <2>3. \A i, j \in 1..Len(Logged') : i < j => at(i) < at(j)
      BY <2>1
    <2> HIDE DEF at
    <2>4. Increasing(Logged)'
      BY <2>2, <2>3, EntriesAre DEF Increasing
    <2>5. \A i \in 1..Len(Logged') :
            Logged'[i] <= nextRunId' /\ pc'[Logged'[i]] \notin BeforeRecording
      BY <1>1, <2>2, LoggedType, EntriesAre
    <2> QED
      BY <1>2, <2>4, <2>5, EntriesAreNext
  <1> QED
    BY <1>3, <1>4, LogAfterAppend

(* Every step keeps the log in the order of the runs. *)
LEMMA NextRecordedInOrder == Inv /\ RecordedInOrder /\ [Next]_vars => RecordedInOrder'
  <1> SUFFICES ASSUME TypeOK, HasVerdict, RecordedInOrder, [Next]_vars
               PROVE  RecordedInOrder'
    BY DEF Inv
  <1>1. CASE Begin
    <2>1. UNCHANGED Logged /\ nextRunId' = nextRunId + 1
      BY <1>1 DEF Begin, Logged
    <2>2. \A i \in 1..Len(Logged) : Logged[i] <= nextRunId' /\ pc'[Logged[i]] = pc[Logged[i]]
      <3>1. ASSUME NEW i \in 1..Len(Logged)
            PROVE  Logged[i] <= nextRunId' /\ pc'[Logged[i]] = pc[Logged[i]]
        <4>1. Logged[i] \in Nat /\ Logged[i] <= nextRunId /\ nextRunId \in Nat
          BY LoggedType, EntriesAre DEF RunId, TypeOK
        <4> QED
          BY <1>1, <2>1, <4>1 DEF Begin, TypeOK
      <3> QED
        BY <3>1
    <2>3. Increasing(Logged)'
      BY <2>1, EntriesAre DEF Increasing
    <2>4. active' = nextRunId'
      BY <1>1 DEF Begin
    <2> QED
      BY <2>1, <2>2, <2>3, <2>4, EntriesAre, EntriesAreNext
  <1>2. ASSUME NEW r \in RunId, Cancel(r) PROVE RecordedInOrder'
    BY <1>2, EntriesStay DEF Cancel, slot, effects
  <1>3. CASE dispose
    BY <1>3, EntriesStay DEF dispose, effects
  <1>4. ASSUME NEW b \in BOOLEAN, SetSuppressed(b) PROVE RecordedInOrder'
    BY <1>4, EntriesStay DEF SetSuppressed, slot, run, effects
  <1>5. CASE IdleTimer
    BY <1>5, EntriesStay DEF IdleTimer, slot, run, effects
  <1>6. ASSUME NEW r \in RunId, Resolve(r) PROVE RecordedInOrder'
    <2>1. /\ pc[r] = "resolving" /\ NoEffect
          /\ \/ pc' = [pc EXCEPT ![r] = "executing"] /\ UNCHANGED slot
             \/ Ends(r)
      BY <1>6, ResolveCases DEF slot
    <2>2. UNCHANGED <<appends, history>>
      BY <2>1 DEF NoEffect, effects
    <2>3. CASE pc' = [pc EXCEPT ![r] = "executing"] /\ UNCHANGED slot
      BY <2>1, <2>2, <2>3, EntriesStay DEF TypeOK, slot, BeforeRecording
    <2>4. CASE Ends(r)
      BY <2>2, <2>4, GoesOnKeepsEntries, EntriesStay DEF GoesOn
    <2> QED
      BY <2>1, <2>3, <2>4
  <1>7. ASSUME NEW r \in RunId, NEW v \in Verdict \ {"none"}, NEW commit \in BOOLEAN,
               NEW post \in BOOLEAN, NEW view \in View,
               ExecuteSettles(r, v, commit, post, view)
        PROVE  RecordedInOrder'
    <2>1. /\ pc[r] = "executing"
          /\ UNCHANGED history
          /\ \/ Ends(r) /\ UNCHANGED <<verdict, appends>>
             \/ /\ verdict' = [verdict EXCEPT ![r] = v]
                /\ \/ GoesOn(r) /\ UNCHANGED appends
                   \/ /\ isCurrent(r)
                      /\ pc' = [pc EXCEPT ![r] = "recording"]
                      /\ appends' = Append(appends, r)
                      /\ UNCHANGED <<slot, abort>>
      BY <1>7, ExecuteCases, Zenon
    <2>2. CASE GoesOn(r) /\ UNCHANGED <<appends, history>>
      BY <2>2, GoesOnKeepsEntries, EntriesStay
    <2>3. CASE /\ isCurrent(r)
               /\ pc' = [pc EXCEPT ![r] = "recording"]
               /\ appends' = Append(appends, r)
               /\ UNCHANGED <<slot, abort>>
      BY <2>1, <2>3, HandOver DEF slot
    <2> QED
      BY <2>1, <2>2, <2>3 DEF GoesOn
  <1>8. ASSUME NEW r \in RunId, ExecuteThrows(r) \/ \E view \in View : ExtractionSettles(r, view)
        PROVE  RecordedInOrder'
    <2>1. GoesOn(r) /\ UNCHANGED <<appends, history>>
      BY <1>8, LastSteps DEF GoesOn
    <2> QED
      BY <2>1, GoesOnKeepsEntries, EntriesStay
  <1>9. ASSUME NEW ok \in BOOLEAN, NEW post \in BOOLEAN, NEW view \in View,
               AppendSettles(ok, post, view)
        PROVE  RecordedInOrder'
    <2>1. /\ appends # <<>> /\ Head(appends) \in RunId
          /\ appends' = Tail(appends)
          /\ history' \in {history, Append(history, Head(appends))}
          /\ GoesOn(Head(appends))
      BY <1>9, AppendCases, Zenon
    <2> QED
      BY <2>1, AppendKeepsEntries
  <1>10. CASE UNCHANGED vars
    BY <1>10, EntriesStay DEF vars, slot, run, effects
  <1> QED
    BY <1>1, <1>2, <1>3, <1>4, <1>5, <1>6, <1>7, <1>8, <1>9, <1>10
       DEF Next, Settle, Environment, Execute, Record, Extract

(* The slot belongs to nobody or to the newest run, and whatever is logged  *)
(* was executed before and is no newer: the inductive reason for the order. *)
THEOREM LogFollowsRuns == Spec => []RecordedInOrder
  <1>1. Init => RecordedInOrder
    BY DEF Init, RecordedInOrder, HistoryInRunOrder, Increasing
  <1> QED
    BY <1>1, NextRecordedInOrder, SpecInv, PTL DEF Spec

(* History lists executions in the order in which the runs were started,    *)
(* each once, although appends settle later and runs replace one another.   *)
THEOREM HistoryIsInRunOrder == Spec => []HistoryInRunOrder
  <1>1. RecordedInOrder => HistoryInRunOrder
    BY DEF RecordedInOrder
  <1> QED
    BY <1>1, LogFollowsRuns, PTL
-----------------------------------------------------------------------------
(* What callers are told. A step of a run changes nothing of another; it    *)
(* goes on as the owner of the slot, or returns with an outcome that has    *)
(* its cause.                                                               *)

Untouched == UNCHANGED <<extracted, shown, problems>>

Explained(r) ==
  \/ outcome'[r] \in {"success", "failed"}
  \/ outcome'[r] = "cancelled" /\ abort[r] # "no"
  \/ /\ pc[r] \in BeforeRecording /\ Untouched
     /\ \/ outcome'[r] = "precondition-failed"
        \/ outcome'[r] = "replaced" /\ ~isCurrent(r)

StepOf(r) ==
  /\ Live(r)
  /\ UNCHANGED <<nextRunId, disposed, abort>>
  /\ active' = active \/ (isCurrent(r) /\ pc'[r] = "done" /\ active' = NoRun)
  /\ \A s \in RunId \ {r} : pc'[s] = pc[s] /\ outcome'[s] = outcome[s] /\ verdict'[s] = verdict[s]
  /\ verdict'[r] = "cancelled" => abort[r] # "no"
  /\ extracted' \subseteq extracted \union {r} /\ shown' \in {shown, r} /\ problems' \in {problems, r}
  /\ \/ pc'[r] = "done" /\ Explained(r)
     \/ /\ isCurrent(r) /\ outcome'[r] = outcome[r]
        /\ \/ pc'[r] \in {"recording", "extracting"}
           \/ pc[r] = "resolving" /\ pc'[r] = "executing" /\ Untouched

(* The run is not in the queue, or enters it, or leaves it as the first.    *)
QueueStep(r) ==
  \/ pc[r] # "recording" /\ pc'[r] # "recording" /\ UNCHANGED <<appends, history>>
  \/ pc[r] = "executing" /\ pc'[r] = "recording" /\ appends' = Append(appends, r) /\ UNCHANGED history
  \/ /\ appends # <<>> /\ r = Head(appends) /\ appends' = Tail(appends)
     /\ pc'[r] # "recording"
     /\ history' \in {history, Append(history, r)}

(* The inductive reason for what callers are told: a run without the slot   *)
(* was overtaken, an open run has told nothing yet and, before it is        *)
(* recorded, has left nothing behind.                                       *)
OpenRuns ==
  /\ \A r \in RunId :
       /\ r > nextRunId => pc[r] = "unborn"
       /\ Live(r) /\ ~isCurrent(r) => r < nextRunId \/ disposed
       /\ pc[r] # "done" => outcome[r] = "none"
       /\ pc[r] \in BeforeRecording => r \notin extracted \union {shown, problems}
       /\ verdict[r] = "cancelled" => abort[r] # "no"
  /\ \A i \in 1..Len(appends) : pc[appends[i]] = "recording"

OutcomeInv == Inv /\ StaleRunsAreAborted /\ RecordedInOrder /\ OpenRuns

(* A run that returns early, from a section before its response is recorded. *)
LEMMA EarlyReturns ==
  ASSUME TypeOK, OpenRuns, NEW r \in RunId, pc[r] \in {"resolving", "executing"}, NoEffect,
         \/ FinishCancellation(r) /\ (isCurrent(r) => abort[r] # "no")
         \/ FailPrecondition(r)
         \/ Catch(r)
         \/ ReturnReplaced(r) /\ ~isCurrent(r)
  PROVE  /\ StepOf(r) /\ QueueStep(r)
         /\ ~isCurrent(r) => outcome'[r] = "replaced" /\ UNCHANGED <<active, status>>
  <1>1. PICK o \in Outcome :
          /\ Return(r, o)
          /\ \/ o = "cancelled" /\ isCurrent(r) /\ abort[r] # "no"
             \/ o = "precondition-failed" /\ isCurrent(r)
             \/ o = "replaced" /\ ~isCurrent(r) /\ UNCHANGED status
    BY DEF FinishCancellation, FailPrecondition, Catch, ReturnReplaced
  <1>2. /\ pc' = [pc EXCEPT ![r] = "done"] /\ outcome' = [outcome EXCEPT ![r] = o]
        /\ active' = IF isCurrent(r) THEN NoRun ELSE active
        /\ UNCHANGED <<nextRunId, disposed, abort>>
    BY <1>1 DEF Return
  <1>3. UNCHANGED <<verdict, appends, history, extracted, shown, problems>>
    BY DEF NoEffect, effects
  <1>4. pc'[r] = "done" /\ outcome'[r] = o
    BY <1>2 DEF TypeOK
  <1>5. Explained(r)
    BY <1>1, <1>3, <1>4 DEF Explained, Untouched, BeforeRecording
  <1>6. \A s \in RunId \ {r} : pc'[s] = pc[s] /\ outcome'[s] = outcome[s] /\ verdict'[s] = verdict[s]
    BY <1>2, <1>3 DEF TypeOK
  <1>7. StepOf(r)
    BY <1>2, <1>3, <1>4, <1>5, <1>6 DEF StepOf, Live, OpenRuns
  <1> QED
    BY <1>1, <1>2, <1>3, <1>4, <1>7 DEF QueueStep

(* The section after the history commit. *)
LEMMA LateSteps ==
  ASSUME TypeOK, OpenRuns, NEW r \in RunId, Live(r), NEW v \in Verdict \ {"none"},
         v = "cancelled" => abort[r] # "no", NEW view \in View,
         \/ Present(r, v, view) /\ UNCHANGED extracted
         \/ \E post \in BOOLEAN : AfterHistory(r, v, post, view),
         verdict' \in {verdict, [verdict EXCEPT ![r] = v]}
  PROVE  StepOf(r) /\ pc'[r] \in {"extracting", "done"}
  <1>1. verdict'[r] = "cancelled" => abort[r] # "no"
    BY DEF TypeOK, OpenRuns
  <1>2. \A s \in RunId \ {r} : verdict'[s] = verdict[s]
    BY DEF TypeOK
  <1>3. CASE Present(r, v, view) /\ UNCHANGED extracted
    <2>1. PICK final \in {"success", "failed", "cancelled"} :
            Return(r, final) /\ (final = "cancelled" => abort[r] # "no")
      BY <1>3 DEF Present
    <2>2. /\ pc' = [pc EXCEPT ![r] = "done"] /\ outcome' = [outcome EXCEPT ![r] = final]
          /\ active' = IF isCurrent(r) THEN NoRun ELSE active
          /\ UNCHANGED <<nextRunId, disposed, abort>>
      BY <2>1 DEF Return
    <2>3. pc'[r] = "done" /\ Explained(r)
      BY <2>1, <2>2 DEF TypeOK, Explained
    <2>4. \A s \in RunId \ {r} : pc'[s] = pc[s] /\ outcome'[s] = outcome[s]
      BY <2>2 DEF TypeOK
    <2>5. extracted' \subseteq extracted \union {r} /\ shown' \in {shown, r} /\ problems' \in {problems, r}
      BY <1>3 DEF Present
    <2> QED
      BY <1>1, <1>2, <2>2, <2>3, <2>4, <2>5 DEF StepOf
  <1>4. CASE /\ isCurrent(r) /\ pc' = [pc EXCEPT ![r] = "extracting"]
             /\ extracted' = extracted \union {r}
             /\ UNCHANGED <<slot, abort, outcome, ui>>
    BY <1>1, <1>2, <1>4 DEF StepOf, TypeOK, slot, ui
  <1> QED
    BY <1>3, <1>4 DEF AfterHistory

(* Whatever a settled promise makes of its run is a step of it.             *)
LEMMA SettleSteps ==
  ASSUME Inv, RecordedInOrder, OpenRuns, Settle
  PROVE  \E r \in RunId :
           /\ StepOf(r) /\ QueueStep(r)
           /\ ~isCurrent(r) /\ pc[r] \in {"resolving", "executing"} =>
                outcome'[r] = "replaced" /\ UNCHANGED <<active, ui, appends, history, extracted>>
  <1> USE DEF Inv
  <1>1. ASSUME NEW r \in RunId, Resolve(r)
        PROVE  /\ StepOf(r) /\ QueueStep(r)
               /\ ~isCurrent(r) => outcome'[r] = "replaced"
                                     /\ UNCHANGED <<active, ui, appends, history, extracted>>
    <2>1. pc[r] = "resolving" /\ NoEffect
      BY <1>1 DEF Resolve, ResolveAborted, ResolvePrecondition, ResolveThrows, ResolveReady
    <2>2. CASE /\ pc' = [pc EXCEPT ![r] = "executing"] /\ isCurrent(r)
               /\ UNCHANGED <<slot, abort, outcome, status>>
      BY <2>1, <2>2 DEF StepOf, QueueStep, Untouched, NoEffect, effects, slot, TypeOK, OpenRuns, Live
    <2>3. CASE \/ FinishCancellation(r) /\ (isCurrent(r) => abort[r] # "no")
               \/ FailPrecondition(r) \/ Catch(r)
      BY <2>1, <2>3, EarlyReturns DEF NoEffect, effects, ui
    <2> QED
      BY <1>1, <2>2, <2>3
         DEF Resolve, ResolveAborted, ResolvePrecondition, ResolveThrows, ResolveReady
  <1>2. ASSUME NEW r \in RunId, ExecuteThrows(r)
        PROVE  /\ StepOf(r) /\ QueueStep(r)
               /\ ~isCurrent(r) => outcome'[r] = "replaced"
                                     /\ UNCHANGED <<active, ui, appends, history, extracted>>
    BY <1>2, EarlyReturns DEF ExecuteThrows, NoEffect, effects, ui
  <1>3. ASSUME NEW r \in RunId, NEW v \in Verdict \ {"none"}, NEW commit \in BOOLEAN,
               NEW post \in BOOLEAN, NEW view \in View,
               ExecuteSettles(r, v, commit, post, view)
        PROVE  /\ StepOf(r) /\ QueueStep(r)
               /\ ~isCurrent(r) => outcome'[r] = "replaced"
                                     /\ UNCHANGED <<active, ui, appends, history, extracted>>
    <2>1. /\ pc[r] = "executing" /\ Live(r) /\ (v = "cancelled" => abort[r] # "no")
          /\ UNCHANGED history
      BY <1>3 DEF ExecuteSettles, Live
    <2>2. CASE ~isCurrent(r)
      <3>1. ReturnReplaced(r) /\ NoEffect /\ UNCHANGED <<appends, suppressed>>
        BY <1>3, <2>2 DEF ExecuteSettles, NoEffect, effects
      <3> QED
        BY <2>1, <2>2, <3>1, EarlyReturns DEF NoEffect, effects, ui
    <2>3. CASE isCurrent(r) /\ commit /\ recorder = r
      <3>1. /\ verdict' = [verdict EXCEPT ![r] = v] /\ pc' = [pc EXCEPT ![r] = "recording"]
            /\ appends' = Append(appends, r)
            /\ UNCHANGED <<slot, abort, outcome, extracted, ui>>
        BY <1>3, <2>3 DEF ExecuteSettles
      <3>2. pc'[r] = "recording" /\ (verdict'[r] = "cancelled" => abort[r] # "no")
        BY <2>1, <3>1 DEF TypeOK
      <3>3. \A s \in RunId \ {r} : pc'[s] = pc[s] /\ verdict'[s] = verdict[s]
        BY <3>1 DEF TypeOK
      <3>4. UNCHANGED <<nextRunId, active, disposed, abort, outcome, extracted, shown, problems>>
        BY <3>1 DEF slot, ui
      <3>5. StepOf(r)
        BY <2>1, <2>3, <3>2, <3>3, <3>4 DEF StepOf
      <3> QED
        BY <2>1, <2>3, <3>1, <3>2, <3>5 DEF QueueStep
    <2>4. CASE isCurrent(r) /\ ~(commit /\ recorder = r)
      <3>1. AfterHistory(r, v, post, view) /\ UNCHANGED appends
            /\ verdict' = [verdict EXCEPT ![r] = v]
        BY <1>3, <2>4 DEF ExecuteSettles
      <3>2. StepOf(r) /\ pc'[r] \in {"extracting", "done"}
        BY <2>1, <3>1, LateSteps
      <3> QED
        BY <2>1, <2>4, <3>1, <3>2 DEF QueueStep
    <2> QED
      BY <2>2, <2>3, <2>4
  <1>4. ASSUME NEW r \in RunId, NEW view \in View, ExtractionSettles(r, view)
        PROVE  pc[r] = "extracting" /\ StepOf(r) /\ QueueStep(r)
    <2>1. pc[r] = "extracting" /\ Present(r, verdict[r], view) /\ UNCHANGED <<verdict, effects>>
      BY <1>4 DEF ExtractionSettles
    <2>2. verdict[r] \in Verdict \ {"none"} /\ (verdict[r] = "cancelled" => abort[r] # "no") /\ Live(r)
      BY <2>1 DEF HasVerdict, TypeOK, OpenRuns, Live
    <2>3. StepOf(r) /\ pc'[r] \in {"extracting", "done"}
      BY <2>1, <2>2, LateSteps DEF effects
    <2> QED
      BY <2>1, <2>3 DEF QueueStep, effects
  <1>5. ASSUME NEW ok \in BOOLEAN, NEW post \in BOOLEAN, NEW view \in View,
               AppendSettles(ok, post, view)
        PROVE  /\ Head(appends) \in RunId /\ pc[Head(appends)] = "recording"
               /\ StepOf(Head(appends)) /\ QueueStep(Head(appends))
    <2> DEFINE h == Head(appends)
    <2>1. /\ appends # <<>> /\ h \in RunId /\ appends' = Tail(appends)
          /\ history' \in {history, Append(history, h)}
          /\ UNCHANGED verdict /\ verdict[h] # "none"
      BY <1>5, AppendCases, Zenon
    <2>2. pc[h] = "recording"
      <3>1. 1 \in 1..Len(appends) /\ h = appends[1]
        BY <2>1 DEF TypeOK
      <3> QED
        BY <3>1 DEF OpenRuns
    <2>3. verdict[h] \in Verdict \ {"none"} /\ (verdict[h] = "cancelled" => abort[h] # "no") /\ Live(h)
      BY <2>1, <2>2 DEF TypeOK, OpenRuns, Live
    <2>4. AfterHistory(h, verdict[h], post, view)
      BY <1>5 DEF AppendSettles
    <2> HIDE DEF h
    <2>5. StepOf(h) /\ pc'[h] \in {"extracting", "done"}
      BY <2>1, <2>3, <2>4, LateSteps
    <2>6. QueueStep(h)
      BY <2>1, <2>5 DEF QueueStep, h
    <2> QED
      BY <2>1, <2>2, <2>5, <2>6 DEF h
  <1> QED
    BY <1>1, <1>2, <1>3, <1>4, <1>5 DEF Settle, Execute, Record, Extract

(* A step of a run keeps what is known of open runs.                        *)
LEMMA StepKeepsOpenRuns ==
  ASSUME TypeOK, RecordedInOrder, OpenRuns, NEW r \in RunId, StepOf(r), QueueStep(r)
  PROVE  OpenRuns'
  <1>1. ASSUME NEW s \in RunId
        PROVE  /\ s > nextRunId' => pc'[s] = "unborn"
               /\ pc'[s] # "done" => outcome'[s] = "none"
               /\ verdict'[s] = "cancelled" => abort'[s] # "no"
    <2>1. CASE s = r
      BY <2>1 DEF StepOf, OpenRuns, Live
    <2>2. CASE s # r
      BY <2>2 DEF StepOf, OpenRuns
    <2> QED
      BY <2>1, <2>2
  <1>2. ASSUME NEW s \in RunId, pc'[s] \notin {"unborn", "done"}, active' # s
        PROVE  s < nextRunId' \/ disposed'
    <2>1. CASE s = r
      BY <1>2, <2>1 DEF StepOf, isCurrent
    <2>2. CASE s # r
      BY <1>2, <2>2 DEF StepOf, OpenRuns, Live, isCurrent
    <2> QED
      BY <2>1, <2>2
  <1>3. ASSUME NEW s \in RunId, pc'[s] \in BeforeRecording
        PROVE  s \notin extracted' \union {shown', problems'}
    <2>1. CASE s = r
      BY <1>3, <2>1 DEF StepOf, OpenRuns, Untouched, BeforeRecording
    <2>2. CASE s # r
      BY <1>3, <2>2 DEF StepOf, OpenRuns
    <2> QED
      BY <2>1, <2>2
  <1>4. ASSUME NEW i \in 1..Len(appends') PROVE pc'[appends'[i]] = "recording"
    <2>1. \A k \in 1..Len(appends) :
            appends[k] \in RunId /\ (appends[k] # r => pc'[appends[k]] = "recording")
      BY DEF TypeOK, OpenRuns, StepOf
    <2>2. CASE pc[r] # "recording" /\ UNCHANGED appends
      BY <2>1, <2>2 DEF OpenRuns
    <2>3. CASE pc'[r] = "recording" /\ appends' = Append(appends, r)
      BY <2>1, <2>3 DEF TypeOK
    <2>4. CASE appends # <<>> /\ r = Head(appends) /\ appends' = Tail(appends)
      <3>1. i + 1 \in 1..Len(appends) /\ appends'[i] = appends[i + 1] /\ 1 \in 1..Len(appends)
            /\ r = appends[1]
        BY <2>4 DEF TypeOK
      <3>2. appends[i + 1] # r
        <4>1. Len(history) \in Nat /\ Len(appends) \in Nat
          BY DEF TypeOK
        <4>2. /\ Len(Logged) = Len(history) + Len(appends)
              /\ \A k \in 1..Len(appends) : Logged[Len(history) + k] = appends[k]
          BY DEF TypeOK, Logged
        <4>3. Logged[Len(history) + 1] < Logged[Len(history) + (i + 1)]
          BY <3>1, <4>1, <4>2, EntriesAre, SMTT(60) DEF Increasing
        <4>4. appends[1] < appends[i + 1] /\ appends[1] \in Nat
          BY <2>1, <3>1, <4>2, <4>3 DEF RunId
        <4> QED
          BY <3>1, <4>4
      <3> QED
        BY <2>1, <3>1, <3>2
    <2> QED
      BY <2>2, <2>3, <2>4 DEF QueueStep
  <1> QED
    BY <1>1, <1>2, <1>3, <1>4 DEF OpenRuns, Live, isCurrent

(* And what a run is told has its cause.                                    *)
LEMMA StepExplains ==
  ASSUME TypeOK, StaleRunsAreAborted, RecordedInOrder, OpenRuns, OutcomeIsExplained,
         NEW r \in RunId, StepOf(r), QueueStep(r)
  PROVE  OutcomeIsExplained'
  <1>1. Len(history) \in Nat /\ \A i \in 1..Len(history') : history'[i] = r \/
           (i \in 1..Len(history) /\ history'[i] = history[i])
    <2>1. history' \in {history, Append(history, r)} /\ Len(history) \in Nat
      BY DEF QueueStep, TypeOK
    <2>2. CASE history' = history
      BY <2>1, <2>2
    <2>3. CASE history' = Append(history, r)
      BY <2>1, <2>3 DEF TypeOK
    <2> QED
      BY <2>1, <2>2, <2>3
  <1>2. pc[r] \in BeforeRecording => UNCHANGED history
    <2>1. appends # <<>> => 1 \in 1..Len(appends) /\ Head(appends) = appends[1]
      BY DEF TypeOK
    <2> QED
      BY <2>1 DEF QueueStep, OpenRuns, BeforeRecording
  <1>3. pc[r] \in BeforeRecording => \A i \in 1..Len(history) : history[i] # r
    <2>1. \A i \in 1..Len(history) : i \in 1..Len(Logged) /\ Logged[i] = history[i]
      BY DEF TypeOK, Logged
    <2> QED
      BY <2>1, EntriesAre
  <1>4. ASSUME NEW s \in RunId
        PROVE  /\ outcome'[s] = "replaced" => (s < nextRunId' \/ disposed') /\ abort'[s] # "no"
               /\ outcome'[s] = "cancelled" => abort'[s] # "no"
               /\ outcome'[s] \in {"precondition-failed", "replaced"} =>
                    /\ \A i \in 1..Len(history') : history'[i] # s
                    /\ s \notin extracted' \union {shown', problems'}
    <2>1. CASE s # r
      <3>1. /\ outcome'[s] = outcome[s]
            /\ UNCHANGED <<nextRunId, disposed, abort>>
            /\ s \in extracted' \union {shown', problems'} => s \in extracted \union {shown, problems}
        BY <2>1 DEF StepOf
      <3>2. \A i \in 1..Len(history') :
              history'[i] = s => i \in 1..Len(history) /\ history[i] = s
        BY <1>1, <2>1
      <3> QED
        BY <3>1, <3>2 DEF OutcomeIsExplained
    <2>2. CASE s = r /\ outcome'[r] = outcome[r]
      BY <2>2 DEF StepOf, OpenRuns, Live
    <2>3. CASE s = r /\ Explained(r)
      <3>1. CASE outcome'[r] \in {"success", "failed"}
        BY <2>3, <3>1
      <3>2. CASE outcome'[r] = "cancelled" /\ abort[r] # "no"
        BY <2>3, <3>2 DEF StepOf
      <3>3. CASE /\ pc[r] \in BeforeRecording /\ Untouched
                 /\ outcome'[r] \in {"precondition-failed", "replaced"}
                 /\ outcome'[r] = "replaced" => ~isCurrent(r)
        <4>1. \A i \in 1..Len(history') : history'[i] # r
          BY <1>2, <1>3, <3>3
        <4>2. r \notin extracted' \union {shown', problems'}
          BY <3>3 DEF OpenRuns, Untouched
        <4>3. outcome'[r] = "replaced" => (r < nextRunId' \/ disposed') /\ abort'[r] # "no"
          BY <3>3 DEF StepOf, OpenRuns, StaleRunsAreAborted
        <4> QED
          BY <2>3, <3>3, <4>1, <4>2, <4>3
      <3> QED
        BY <2>3, <3>1, <3>2, <3>3 DEF Explained
    <2> QED
      BY <2>1, <2>2, <2>3 DEF StepOf
  <1> QED
    BY <1>4 DEF OutcomeIsExplained

(* So does everything that comes from outside.                              *)
LEMMA EnvironmentExplains ==
  ASSUME TypeOK, OpenRuns, OutcomeIsExplained, Environment
  PROVE  OpenRuns' /\ OutcomeIsExplained'
  <1>1. ASSUME UNCHANGED <<nextRunId, pc, verdict, outcome, appends, history, extracted, shown, problems>>,
               disposed => disposed', active' = active \/ disposed',
               \A r \in RunId : abort[r] # "no" => abort'[r] # "no"
        PROVE  OpenRuns' /\ OutcomeIsExplained'
    <2>1. OpenRuns'
      BY <1>1 DEF OpenRuns, Live, isCurrent
    <2>2. OutcomeIsExplained'
      BY <1>1 DEF OutcomeIsExplained
    <2> QED
      BY <2>1, <2>2
  <1>2. CASE Begin
    <2>1. /\ nextRunId' = nextRunId + 1 /\ nextRunId' \in RunId /\ active' = nextRunId'
          /\ pc' = [pc EXCEPT ![nextRunId'] = "resolving"]
          /\ UNCHANGED <<disposed, verdict, outcome, appends, history, extracted, shown, problems>>
          /\ \A r \in RunId : abort[r] # "no" => abort'[r] # "no"
      BY <1>2, RunIds DEF Begin, Aborted, TypeOK
    <2>2. nextRunId \in Nat /\ \A r \in RunId : r \in Nat
      BY DEF TypeOK, RunId
    <2>3. ASSUME NEW r \in RunId
          PROVE  /\ r > nextRunId' => pc'[r] = "unborn"
                 /\ Live(r)' /\ ~isCurrent(r)' => r < nextRunId' \/ disposed'
                 /\ pc'[r] # "done" => outcome'[r] = "none"
                 /\ pc'[r] \in BeforeRecording => r \notin extracted' \union {shown', problems'}
                 /\ verdict'[r] = "cancelled" => abort'[r] # "no"
      <3>1. CASE r = nextRunId'
        <4>1. pc[r] = "unborn" /\ pc'[r] = "resolving"
          BY <2>1, <2>2, <3>1 DEF OpenRuns, TypeOK
        <4> QED
          BY <2>1, <2>2, <3>1, <4>1 DEF OpenRuns, BeforeRecording, isCurrent
      <3>2. CASE r # nextRunId'
        <4>1. pc'[r] = pc[r]
          BY <2>1, <3>2 DEF TypeOK
        <4> QED
          BY <2>1, <2>2, <3>2, <4>1 DEF OpenRuns, Live
      <3> QED
        BY <3>1, <3>2
    <2>4. \A i \in 1..Len(appends') : pc'[appends'[i]] = "recording"
      <3>1. \A i \in 1..Len(appends) : appends[i] \in RunId /\ appends[i] # nextRunId'
        BY <2>1, <2>2 DEF OpenRuns, TypeOK
      <3> QED
        BY <2>1, <3>1 DEF OpenRuns, TypeOK
    <2>5. OpenRuns'
      BY <2>3, <2>4 DEF OpenRuns
    <2>6. OutcomeIsExplained'
      BY <2>1, <2>2 DEF OutcomeIsExplained
    <2> QED
      BY <2>5, <2>6
  <1>3. ASSUME NEW r \in RunId, Cancel(r) PROVE OpenRuns' /\ OutcomeIsExplained'
    BY <1>1, <1>3 DEF Cancel, Aborted, slot, effects, ui
  <1>4. CASE dispose
    BY <1>1, <1>4 DEF dispose, Aborted, effects
  <1>5. ASSUME NEW b \in BOOLEAN, SetSuppressed(b) PROVE OpenRuns' /\ OutcomeIsExplained'
    BY <1>1, <1>5 DEF SetSuppressed, slot, run, effects
  <1>6. CASE IdleTimer
    BY <1>1, <1>6 DEF IdleTimer, slot, run, effects
  <1> QED
    BY <1>2, <1>3, <1>4, <1>5, <1>6 DEF Environment

(* The reasons hold in every state. *)
LEMMA OutcomeInvHolds == Spec => [](OutcomeInv /\ OutcomeIsExplained)
  <1>1. Init => OpenRuns /\ OutcomeIsExplained
    <2>1. \A r \in RunId : r # NoRun
      BY DEF RunId
    <2> QED
      BY <2>1 DEF Init, OpenRuns, OutcomeIsExplained, Live
  <1>2. Inv /\ StaleRunsAreAborted /\ RecordedInOrder /\ OpenRuns /\ OutcomeIsExplained /\ [Next]_vars
        => OpenRuns' /\ OutcomeIsExplained'
    <2> SUFFICES ASSUME Inv, StaleRunsAreAborted, RecordedInOrder, OpenRuns, OutcomeIsExplained,
                        [Next]_vars
                 PROVE  OpenRuns' /\ OutcomeIsExplained'
      OBVIOUS
    <2>1. CASE Settle
      <3>1. PICK r \in RunId : StepOf(r) /\ QueueStep(r)
        BY <2>1, SettleSteps
      <3> QED
        BY <3>1, StepKeepsOpenRuns, StepExplains DEF Inv
    <2>2. CASE Environment
      BY <2>2, EnvironmentExplains DEF Inv
    <2>3. CASE UNCHANGED vars
      BY <2>3 DEF vars, slot, run, effects, ui, OpenRuns, OutcomeIsExplained, Live, isCurrent
    <2> QED
      BY <2>1, <2>2, <2>3 DEF Next
  <1> QED
    BY <1>1, <1>2, SpecInv, SupersededRunsAreAborted, LogFollowsRuns, PTL DEF Spec, OutcomeInv

(* "replaced" is told only to runs that were overtaken, "cancelled" only to *)
(* runs somebody aborted, and a run that ends early has left nothing behind. *)
THEOREM OutcomesAreExplained == Spec => []OutcomeIsExplained
  BY OutcomeInvHolds, PTL

(* Whatever arrives for a run that was replaced before its response, the    *)
(* run returns "replaced" and touches nothing that a user sees.             *)
THEOREM LateAnswersAreInert == Spec => LateAnswerIsInert
  <1> DEFINE Inert(r) ==
        ~isCurrent(r) /\ pc[r] \in {"resolving", "executing"} /\ pc'[r] # pc[r] =>
          /\ outcome'[r] = "replaced"
          /\ UNCHANGED <<active, ui, appends, history, extracted>>
  <1>1. OutcomeInv /\ [Next]_vars => [\A r \in RunId : Inert(r)]_vars
    <2> SUFFICES ASSUME OutcomeInv, Next, NEW r \in RunId, ~isCurrent(r),
                        pc[r] \in {"resolving", "executing"}, pc'[r] # pc[r]
                 PROVE  /\ outcome'[r] = "replaced"
                        /\ UNCHANGED <<active, ui, appends, history, extracted>>
      OBVIOUS
    <2>1. CASE Settle
      <3>1. PICK s \in RunId :
              /\ StepOf(s)
              /\ ~isCurrent(s) /\ pc[s] \in {"resolving", "executing"} =>
                   outcome'[s] = "replaced" /\ UNCHANGED <<active, ui, appends, history, extracted>>
        BY <2>1, SettleSteps DEF OutcomeInv
      <3>2. s = r
        BY <3>1 DEF StepOf
      <3> QED
        BY <3>1, <3>2
    <2>2. CASE Begin
      <3>1. nextRunId' \in RunId /\ nextRunId' > nextRunId /\ pc' = [pc EXCEPT ![nextRunId'] = "resolving"]
        BY <2>2, RunIds DEF Begin, OutcomeInv, Inv, TypeOK
      <3>2. r = nextRunId'
        BY <3>1 DEF OutcomeInv, Inv, TypeOK
      <3>3. pc[r] = "unborn"
        BY <3>1, <3>2 DEF OutcomeInv, OpenRuns
      <3> QED
        BY <3>3
    <2>3. CASE Environment /\ ~Begin
      BY <2>3 DEF Environment, Cancel, dispose, SetSuppressed, IdleTimer, run
    <2> QED
      BY <2>1, <2>2, <2>3 DEF Next
  <1>2. OutcomeInv /\ OutcomeIsExplained => OutcomeInv
    OBVIOUS
  <1> QED
    BY <1>1, <1>2, OutcomeInvHolds, PTL DEF Spec, LateAnswerIsInert
=============================================================================
