-------------------------- MODULE RunVariableContext --------------------------
(***************************************************************************)
(* What collection runs, scenarios and single requests share in one editor *)
(* window: the session manager that admits one collection run at a time    *)
(* (src/collection-runner/collection-run-manager.ts), the process-wide     *)
(* holder of the active run's variable store (run-variable-context.ts),    *)
(* the collection variables of that run (extension.ts) and the one slot of *)
(* the orchestrator. The hosts that drive them are                         *)
(* vscode/register-collection-runner.ts and                                *)
(* src/scenarios/vscode/register-scenarios.ts.                             *)
(*                                                                         *)
(* A run is followed through the awaits of its host; the requests it sends *)
(* are those of CollectionRunner and ScenarioEngine, of which only the     *)
(* slot and the run-scoped extraction matter here. A value in a store is   *)
(* named by who extracted it.                                              *)
(***************************************************************************)
EXTENDS Integers, Sequences, FiniteSets, SequencesExt, Filtered

CONSTANTS
  CollectionRun,   \* collection runs the user may ask for, each once
  ScenarioRun,     \* scenario runs the user may ask for, each once
  Manual,          \* the single requests the user runs, one at a time
  RecentLimit,     \* length of the recent ring
  None

Run == CollectionRun \union ScenarioRun
Caller == Run \union {Manual}

ASSUME RunVariableContextAssumption ==
  /\ CollectionRun \intersect ScenarioRun = {}
  /\ {Manual, None} \intersect Run = {} /\ Manual # None
  /\ RecentLimit \in Nat \ {0}

VARIABLES
  stage,       \* where the host of each run is
  sessions,    \* activeSessions of the manager
  recent,      \* runs in the recent ring, newest first
  aborted,     \* sessions whose controller was aborted
  owner,       \* run the context is active for
  collection,  \* run whose variables activeCollectionRunVariables holds
  activeAbort, \* scenario run that holds the single-flight lock
  slot,        \* caller whose request is active in the orchestrator
  call,        \* request each caller waits for
  store        \* writers of the values in each run's store and the session's

vars == <<stage, sessions, recent, aborted, owner, collection, activeAbort, slot, call, store>>
manager == <<sessions, recent, aborted>>
context == <<owner, collection>>
requests == <<slot, call>>

Session == Manual     \* the session store belongs to single requests

Stage == {"unborn", "planning", "starting", "loading", "running", "stopping",
          "presenting", "done"}
Executing(r) == stage[r] \in {"running", "stopping"}

Init ==
  /\ stage = [r \in Run |-> "unborn"]
  /\ sessions = <<>> /\ recent = <<>> /\ aborted = {}
  /\ owner = None /\ collection = None /\ activeAbort = None
  /\ slot = None /\ call = [c \in Caller |-> "none"]
  /\ store = [c \in Caller |-> {}]

Goto(r, s) == stage' = [stage EXCEPT ![r] = s]

-----------------------------------------------------------------------------
(* CollectionRunManager *)
begin(r) == sessions' = Append(sessions, r) /\ UNCHANGED <<recent, aborted>>

Kept(ring) == SubSeq(ring, 1, IF Len(ring) < RecentLimit THEN Len(ring) ELSE RecentLimit)

(* complete and fail: the session ends up in the recent ring, once, and the *)
(* oldest of a full ring is dropped.                                        *)
finish(r) ==
  /\ sessions' = RemoveFirst(sessions, r)
  /\ recent' = Kept(<<r>> \o Without(recent, r))
  /\ aborted' = aborted \ {r}

(* CollectionRunVariableContext *)
activate(r) == owner' = r
(* Faulty: whoever ends clears the context.                                 *)
endAnyway(r) == owner' = None

end(r) == owner' = IF owner = r THEN None ELSE owner

-----------------------------------------------------------------------------
(* The host of a collection run. rejectIfRunActive is asked when the run is *)
(* requested and again after the plan was built; the manager has the last   *)
(* word in a later microtask.                                               *)
Request(r) ==
  /\ stage[r] = "unborn"
  /\ Goto(r, IF sessions = <<>> THEN "planning" ELSE "done")
  /\ UNCHANGED <<manager, context, activeAbort, requests, store>>

Planned(r) ==
  /\ stage[r] = "planning"
  /\ Goto(r, IF sessions = <<>> THEN "starting" ELSE "done")
  /\ UNCHANGED <<manager, context, activeAbort, requests, store>>

(* No plan, no requests or no order: nothing is run. *)
PlanFails(r) ==
  /\ stage[r] = "planning"
  /\ Goto(r, "done")
  /\ UNCHANGED <<manager, context, activeAbort, requests, store>>

(* Faulty: the manager does not look for an active session.                 *)
BeginSessionUnguarded(r) ==
  /\ stage[r] = "starting"
  /\ begin(r) /\ Goto(r, "loading")
  /\ UNCHANGED <<context, activeAbort, requests, store>>

BeginSession(r) ==
  /\ stage[r] = "starting"
  /\ IF sessions = <<>>
       THEN begin(r) /\ Goto(r, "loading")
       ELSE Goto(r, "done") /\ UNCHANGED manager
  /\ UNCHANGED <<context, activeAbort, requests, store>>

(* collectionVariableStore.load settled either way. *)
Loaded(r) ==
  /\ stage[r] = "loading"
  /\ collection' = r
  /\ activate(r)
  /\ Goto(r, "running")
  /\ UNCHANGED <<manager, activeAbort, requests, store>>

(* manager.cancel, from the progress notification or the Execution view.    *)
Cancel(r) ==
  /\ \E i \in DOMAIN sessions : sessions[i] = r
  /\ r \notin aborted
  /\ aborted' = aborted \union {r}
  /\ UNCHANGED <<stage, sessions, recent, context, activeAbort, requests, store>>

(* runner.execute settled: complete or fail, then a toast or an error       *)
(* message, whose dismissal the host awaits.                                *)
Complete(r) ==
  /\ r \in CollectionRun /\ Executing(r) /\ call[r] = "none"
  /\ finish(r)
  /\ Goto(r, "presenting")
  /\ UNCHANGED <<context, activeAbort, requests, store>>

(* The finally block. *)
Dismissed(r) ==
  /\ r \in CollectionRun /\ stage[r] = "presenting"
  /\ store' = [store EXCEPT ![r] = {}]
  /\ end(r)
  /\ collection' = None
  /\ Goto(r, "done")
  /\ UNCHANGED <<manager, activeAbort, requests>>

-----------------------------------------------------------------------------
(* The host of a scenario run: activeAbort is taken before any await.       *)
RequestScenario(r) ==
  /\ stage[r] = "unborn"
  /\ IF activeAbort = None
       THEN activeAbort' = r /\ Goto(r, "planning")
       ELSE Goto(r, "done") /\ UNCHANGED activeAbort
  /\ UNCHANGED <<manager, context, requests, store>>

(* The prompt was dismissed, a step is unbound or the scenario is invalid.  *)
ScenarioRefused(r) ==
  /\ stage[r] = "planning"
  /\ Goto(r, "presenting")
  /\ UNCHANGED <<manager, context, activeAbort, requests, store>>

(* The scenario is valid: onRunStoreBegin. *)
BeginScenario(r) ==
  /\ stage[r] = "planning"
  /\ activate(r)
  /\ Goto(r, "running")
  /\ UNCHANGED <<manager, collection, activeAbort, requests, store>>

(* Faulty: onRunStoreEnd is not called.                                     *)
EndScenarioSilently(r) ==
  /\ r \in ScenarioRun /\ Executing(r) /\ call[r] = "none"
  /\ Goto(r, "presenting")
  /\ UNCHANGED <<manager, context, activeAbort, requests, store>>

(* The engine settled: onRunStoreEnd. Nobody refers to the store any more.  *)
EndScenario(r) ==
  /\ r \in ScenarioRun /\ Executing(r) /\ call[r] = "none"
  /\ end(r)
  /\ store' = [store EXCEPT ![r] = {}]
  /\ Goto(r, "presenting")
  /\ UNCHANGED <<manager, collection, activeAbort, requests>>

(* Last run, editor and report are up to date: the lock is released. *)
ScenarioPresented(r) ==
  /\ r \in ScenarioRun /\ stage[r] = "presenting"
  /\ activeAbort' = IF activeAbort = r THEN None ELSE activeAbort
  /\ Goto(r, "done")
  /\ UNCHANGED <<manager, context, requests, store>>

-----------------------------------------------------------------------------
(* Requests of any caller, as far as ExecutionOrchestrator is concerned:    *)
(* the newest one takes the slot, and a response that lost it is "replaced". *)
MaySend(c) ==
  /\ call[c] = "none"
  /\ c \in Run => stage[c] = "running" /\ c \notin aborted

Send(c) ==
  /\ MaySend(c)
  /\ slot' = c
  /\ call' = [call EXCEPT ![c] = "sent"]
  /\ UNCHANGED <<stage, manager, context, activeAbort, store>>

Release(c) == slot' = IF slot = c THEN None ELSE slot

(* Answered without a run-scoped extraction, or cancelled. *)
Answered(c) ==
  /\ call[c] = "sent" /\ slot = c
  /\ call' = [call EXCEPT ![c] = "none"]
  /\ Release(c)
  /\ UNCHANGED <<stage, manager, context, activeAbort, store>>

(* A replaced request cancels the run it belongs to. *)
AnsweredLate(c) ==
  /\ call[c] = "sent" /\ slot # c
  /\ call' = [call EXCEPT ![c] = "none"]
  /\ IF c \in Run THEN Goto(c, "stopping") ELSE UNCHANGED stage
  /\ UNCHANGED <<manager, context, activeAbort, slot, store>>

StartExtraction(c) ==
  /\ call[c] = "sent" /\ slot = c
  /\ call' = [call EXCEPT ![c] = "extracting"]
  /\ UNCHANGED <<stage, manager, context, activeAbort, slot, store>>

(* CompositeVariableWriter, scope "run": resolveRunStore() ?? runStore.     *)
resolveRunStore == IF owner = None THEN Session ELSE owner

Extracted(c) ==
  /\ call[c] = "extracting"
  /\ store' = [store EXCEPT ![resolveRunStore] = @ \union {c}]
  /\ call' = [call EXCEPT ![c] = "none"]
  /\ Release(c)
  /\ UNCHANGED <<stage, manager, context, activeAbort>>
-----------------------------------------------------------------------------
HostStep ==
  \/ \E r \in CollectionRun :
       \/ Request(r) \/ Planned(r) \/ PlanFails(r) \/ BeginSession(r) \/ Loaded(r)
       \/ Cancel(r) \/ Complete(r) \/ Dismissed(r)
  \/ \E r \in ScenarioRun :
       \/ RequestScenario(r) \/ ScenarioRefused(r) \/ BeginScenario(r)
       \/ EndScenario(r) \/ ScenarioPresented(r)

RequestStep ==
  \E c \in Caller :
    Send(c) \/ Answered(c) \/ AnsweredLate(c) \/ StartExtraction(c) \/ Extracted(c)

Next == HostStep \/ RequestStep

Spec == Init /\ [][Next]_vars
-----------------------------------------------------------------------------
TypeOK ==
  /\ stage \in [Run -> Stage]
  /\ sessions \in Seq(CollectionRun)
  /\ recent \in Seq(CollectionRun)
  /\ aborted \subseteq CollectionRun
  /\ owner \in Run \union {None}
  /\ collection \in CollectionRun \union {None}
  /\ activeAbort \in ScenarioRun \union {None}
  /\ slot \in Caller \union {None}
  /\ call \in [Caller -> {"none", "sent", "extracting"}]
  /\ store \in [Caller -> SUBSET Caller]

(* The manager knows exactly the collection run that is being executed,     *)
(* never two of them, however many were asked for while none was active;    *)
(* and a run leaves it for the recent ring exactly once, which never holds  *)
(* more runs than its limit.                                                *)
OneSessionAtATime ==
  /\ Len(sessions) <= 1 /\ Len(recent) <= RecentLimit
  /\ \A r \in CollectionRun :
       stage[r] \in {"loading", "running", "stopping"} <=> r \in ToSet(sessions)
  /\ \A i, j \in DOMAIN recent : recent[i] = recent[j] => i = j
  /\ ToSet(sessions) \intersect ToSet(recent) = {}

(* "so overlapping Runs cannot both pass the guard and clobber              *)
(* collectionRunContext": one scenario run never takes the context of       *)
(* another that is still executing.                                         *)
ScenariosDoNotClobber ==
  \A r \in ScenarioRun : Executing(r) => owner \notin ScenarioRun \ {r}

(* The two single-flight guards: collection runs, and scenario runs.        *)
RunsAreKeptApart == OneSessionAtATime /\ ScenariosDoNotClobber

(* "a failed run never leaks its store or collection id into the next run": *)
(* the context belongs to a run that has not ended, or to nobody.           *)
ContextIsNotLeaked ==
  owner # None => Executing(owner) \/ (owner \in CollectionRun /\ stage[owner] = "presenting")

(* No scenario has been let in so far. *)
Undisturbed == \A s \in ScenarioRun : stage[s] \in {"unborn", "planning"}

(* "values live in the shared per-run store and are available to later      *)
(* requests in that run only": as long as no scenario interferes, what a    *)
(* collection run extracts is written to its own store and nowhere else; the  *)
(* end of an earlier run, which waits for a toast, does not interfere.      *)
UndisturbedRunsKeepValues ==
  Undisturbed => \A r \in CollectionRun, c \in Caller : r \in store[c] => c = r
=============================================================================
