-------------------------- MODULE SharedState_proofs --------------------------
(***************************************************************************)
(* Proofs about what the handlers of one editor window share while they    *)
(* overlap: the context, the session and the lock of the runs              *)
(* (RunVariableContext), the history document with its cache               *)
(* (OneWindowHistory), and the tree of the collections with the markers    *)
(* on disk it is built from (CollectionMutation).                          *)
(***************************************************************************)
EXTENDS RunVariableContext, OneWindowHistory, CollectionMutation, FiniteSetTheorems, SequenceTheorems, TLAPS

-----------------------------------------------------------------------------
(* What a list without one of its elements is. *)

LEMMA WithoutStranger ==
  ASSUME NEW S, NEW s \in Seq(S), NEW e, \A i \in DOMAIN s : s[i] # e
  PROVE  Without(s, e) = s
  <1> DEFINE n == Len(s)
             kept == {i \in DOMAIN s : s[i] # e}
             rank(i) == Cardinality({j \in kept : j <= i})
  <1>1. n \in Nat /\ kept = 1..n /\ DOMAIN s = 1..n
    OBVIOUS
  <1>2. \A i \in 1..n : rank(i) = i
    <2> SUFFICES ASSUME NEW i \in 1..n PROVE rank(i) = i
      OBVIOUS
    <2>1. {j \in kept : j <= i} = 1..i
      BY <1>1
    <2>2. Cardinality(1..i) = i
      BY <1>1, FS_Interval
    <2> QED
      BY <2>1, <2>2
  <1>3. Cardinality(kept) = n
    <2>1. Cardinality(1..n) = n
      <3> HIDE DEF n
      <3> QED
        BY <1>1, FS_Interval
    <2> QED
      BY <1>1, <2>1
  <1>4. \A k \in 1..n : (CHOOSE i \in kept : rank(i) = k) = k
    <2> HIDE DEF rank, n
    <2> QED
      BY <1>1, <1>2
  <1>5. Without(s, e) = [k \in 1..n |-> s[CHOOSE i \in kept : rank(i) = k]]
    BY <1>3 DEF Without
  <1>6. Without(s, e) = [k \in 1..n |-> s[k]]
    <2> HIDE DEF rank, n, kept
    <2> QED
      BY <1>4, <1>5
  <1> QED
    BY <1>6

keptIn(s, e) == {i \in DOMAIN s : s[i] # e}
keptUpTo(s, e, i) == {j \in keptIn(s, e) : j <= i}
newPlace(s, e, i) == Cardinality(keptUpTo(s, e, i))

(* Where the elements that are kept go: ranks count the kept places without  *)
(* a gap, or two of them would have the same.                               *)
LEMMA WithoutRanks ==
  ASSUME NEW S, NEW s \in Seq(S), NEW e
  PROVE  /\ Cardinality(keptIn(s, e)) \in Nat
         /\ Without(s, e) = [k \in 1..Cardinality(keptIn(s, e)) |->
                               s[CHOOSE i \in keptIn(s, e) : newPlace(s, e, i) = k]]
         /\ \A i \in keptIn(s, e) : newPlace(s, e, i) \in 1..Cardinality(keptIn(s, e))
         /\ \A i, j \in keptIn(s, e) : i < j => newPlace(s, e, i) < newPlace(s, e, j)
         /\ \A k \in 1..Cardinality(keptIn(s, e)) : \E i \in keptIn(s, e) : newPlace(s, e, i) = k
  <1> DEFINE n == Len(s)
             kept == keptIn(s, e)
             upto(i) == keptUpTo(s, e, i)
             rank(i) == newPlace(s, e, i)
             c == Cardinality(kept)
  <1>0. /\ \A i : rank(i) = Cardinality(upto(i)) /\ upto(i) = {j \in kept : j <= i}
        /\ n \in Nat /\ kept \subseteq 1..n
    BY DEF newPlace, keptUpTo, keptIn
  <1>1. IsFiniteSet(kept) /\ c \in Nat
    <2>1. IsFiniteSet(1..n)
      <3> HIDE DEF n
      <3> QED
        BY <1>0, FS_Interval
    <2> HIDE DEF n, kept
    <2> QED
      BY <1>0, <2>1, FS_Subset, FS_CardinalityType
  <1>2. Without(s, e) = [k \in 1..c |-> s[CHOOSE i \in kept : rank(i) = k]]
    BY DEF Without, keptIn, keptUpTo, newPlace
  <1> HIDE DEF n, kept, upto, rank
  <1>3. ASSUME NEW i \in kept
        PROVE  rank(i) \in 1..c /\ IsFiniteSet(upto(i)) /\ rank(i) \in Nat
    <2>1. upto(i) \in SUBSET kept /\ i \in upto(i)
      BY <1>0
    <2>2. IsFiniteSet(upto(i)) /\ rank(i) <= c
      BY <1>0, <1>1, <2>1, FS_Subset
    <2>3. rank(i) \in Nat /\ rank(i) # 0
      BY <1>0, <2>1, <2>2, FS_CardinalityType, FS_EmptySet
    <2> QED
      BY <1>1, <2>2, <2>3
  <1>4. ASSUME NEW i \in kept, NEW j \in kept, i < j
        PROVE  rank(i) < rank(j)
    <2>0. \A x \in kept : x \in Nat
      BY <1>0
    <2>1. upto(i) \in SUBSET upto(j) /\ j \in upto(j) /\ j \notin upto(i)
      <3>1. \A x \in kept : x <= i => x <= j
        BY <1>4, <2>0
      <3>2. j <= j /\ ~(j <= i)
        BY <1>4, <2>0
      <3>3. upto(i) = {x \in kept : x <= i} /\ upto(j) = {x \in kept : x <= j}
        BY <1>0
      <3> QED
        BY <3>1, <3>2, <3>3
    <2>2. IsFiniteSet(upto(j)) /\ rank(i) \in Nat /\ rank(j) \in Nat
      BY <1>3
    <2>3. rank(i) <= rank(j) /\ (rank(i) = rank(j) => upto(i) = upto(j))
      BY <1>0, <2>1, <2>2, FS_Subset
    <2> QED
      BY <2>1, <2>2, <2>3
  <1>5. ASSUME NEW k \in 1..c
        PROVE  \E i \in kept : rank(i) = k
    <2> SUFFICES ASSUME \A i \in kept : rank(i) # k PROVE FALSE
      OBVIOUS
    <2> DEFINE f == [i \in kept |-> rank(i)]
               T == (1..c) \ {k}
    <2>1. f \in [kept -> T]
      BY <1>3
    <2>2. IsFiniteSet(T) /\ Cardinality(T) = c - 1
      <3>1. IsFiniteSet(1..c) /\ Cardinality(1..c) = c
        <4> HIDE DEF c
        <4> QED
          BY <1>1, FS_Interval
      <3> QED
        BY <3>1, FS_RemoveElement
    <2>3. Cardinality(T) < Cardinality(kept)
      BY <1>1, <2>2
    <2>4. \E x, y \in kept : x # y /\ f[x] = f[y]
      <3> HIDE DEF f, T
      <3> QED
        BY <1>1, <2>1, <2>2, <2>3, FS_PigeonHole
    <2>5. PICK x \in kept, y \in kept : x # y /\ rank(x) = rank(y)
      BY <2>4
    <2>6. x \in Nat /\ y \in Nat /\ rank(x) \in Nat
      BY <1>0, <1>3
    <2>7. x < y \/ y < x
      BY <2>5, <2>6
    <2> QED
      BY <1>4, <2>5, <2>6, <2>7
  <1>6. \A i \in kept : rank(i) \in 1..c
    BY <1>3
  <1>7. \A i, j \in kept : i < j => rank(i) < rank(j)
    BY <1>4
  <1>8. \A k \in 1..c : \E i \in kept : rank(i) = k
    BY <1>5
  <1> QED
    BY <1>1, <1>2, <1>6, <1>7, <1>8 DEF kept, rank

(* It is a list of the same kind. *)
LEMMA WithoutType ==
  ASSUME NEW S, NEW s \in Seq(S), NEW e
  PROVE  Without(s, e) \in Seq(ToSet(s) \ {e})
  <1> DEFINE kept == keptIn(s, e)
             c == Cardinality(kept)
             rank(i) == newPlace(s, e, i)
             back(k) == CHOOSE i \in kept : rank(i) = k
  <1>1. /\ c \in Nat
        /\ Without(s, e) = [k \in 1..c |-> s[back(k)]]
        /\ \A i \in kept : rank(i) \in 1..c
        /\ \A i, j \in kept : i < j => rank(i) < rank(j)
        /\ \A k \in 1..c : \E i \in kept : rank(i) = k
    BY WithoutRanks
  <1>2. \A i \in kept : s[i] \in ToSet(s) \ {e}
    BY DEF keptIn, ToSet
  <1> HIDE DEF kept
  <1>3. \A k \in 1..c : s[back(k)] \in ToSet(s) \ {e}
    BY <1>1, <1>2
  <1> HIDE DEF c, back
  <1>4. Without(s, e) \in [1..c -> ToSet(s) \ {e}]
    BY <1>1, <1>3
  <1> QED
    BY <1>1, <1>4

LEMMA ElementsWithout ==
  ASSUME NEW S, NEW s \in Seq(S), NEW e
  PROVE  Without(s, e) \in Seq(S) /\ ToSet(Without(s, e)) \subseteq ToSet(s) \ {e}
  <1>1. ToSet(s) \ {e} \subseteq S
    BY DEF ToSet
  <1>2. Without(s, e) \in Seq(ToSet(s) \ {e})
    BY WithoutType
  <1>3. Without(s, e) \in Seq(S)
    BY <1>1, <1>2, SeqMonotonic
  <1>4. ToSet(Without(s, e)) \subseteq ToSet(s) \ {e}
    BY <1>2 DEF ToSet
  <1> QED
    BY <1>3, <1>4

-----------------------------------------------------------------------------
(* RunVariableContext. Each guard is tied to the stages of the runs behind   *)
(* it: the manager has a session for exactly the collection run being        *)
(* executed, and the lock belongs to exactly the scenario under way.         *)

(* The types, but for the order of the recent ring. *)
Types ==
  /\ stage \in [Run -> Stage]
  /\ sessions \in Seq(CollectionRun)
  /\ owner \in Run \union {None}
  /\ activeAbort \in ScenarioRun \union {None}
  /\ call \in [Caller -> {"none", "sent", "extracting"}]
  /\ store \in [Caller -> SUBSET Caller]

Admitted == {"loading", "running", "stopping"}
Locked == {"planning", "running", "stopping", "presenting"}

(* The guards. *)
SessionIsAdmitted ==
  /\ Len(sessions) <= 1
  /\ \A r \in CollectionRun : stage[r] \in Admitted <=> sessions # <<>> /\ sessions[1] = r

LockIsHeld == \A r \in ScenarioRun : stage[r] \in Locked <=> activeAbort = r

OnlyRunningCall == \A r \in Run : call[r] # "none" => stage[r] = "running"

(* An executing collection run has the context unless a scenario took it.   *)
ContextIsHeld == Undisturbed => \A r \in CollectionRun : Executing(r) => owner = r

Inv ==
  /\ Types /\ SessionIsAdmitted /\ LockIsHeld /\ OnlyRunningCall
  /\ ContextIsNotLeaked /\ ContextIsHeld /\ UndisturbedRunsKeepValues

LEMMA KindsDiffer ==
  /\ \A r \in CollectionRun : r \in Run /\ r \in Caller /\ r \notin ScenarioRun
  /\ \A r \in ScenarioRun : r \in Run /\ r \in Caller /\ r \notin CollectionRun
  /\ \A r \in Run : r # None /\ r # Manual /\ (r \in CollectionRun \/ r \in ScenarioRun)
  /\ Run \subseteq Caller /\ Manual \in Caller
  BY RunVariableContextAssumption DEF Run, Caller

(* A session that is the only one is removed, and none is left.             *)
LEMMA OnlySessionRemoved ==
  ASSUME NEW S, NEW s \in Seq(S), Len(s) <= 1, NEW r, s # <<>> => s[1] = r
  PROVE  RemoveFirst(s, r) = <<>>
  <1>1. CASE s = <<>>
    <2>1. ~ \E i \in 1..Len(s) : s[i] = r
      BY <1>1
    <2> QED
      BY <1>1, <2>1 DEF RemoveFirst
  <1>2. CASE s # <<>>
    <2>1. Len(s) = 1 /\ s[1] = r
      <3> DEFINE n == Len(s)
      <3>1. n \in Nat /\ n # 0
        BY <1>2
      <3>2. n <= 1
        OBVIOUS
      <3> HIDE DEF n
      <3>3. n = 1
        BY <3>1, <3>2
      <3>4. s[1] = r
        BY <1>2
      <3> QED
        BY <3>3, <3>4 DEF n
    <2>2. SelectInSeq(s, LAMBDA v : v = r) = 1
      <3>1. {i \in 1..Len(s) : s[i] = r} = {1}
        BY <2>1
      <3> QED
        BY <3>1 DEF SelectInSeq, Min
    <2>3. RemoveAt(s, 1) = <<>>
      BY <2>1 DEF RemoveAt
    <2>4. \E i \in 1..Len(s) : s[i] = r
      BY <2>1
    <2> QED
      BY <2>2, <2>3, <2>4 DEF RemoveFirst
  <1> QED
    BY <1>1, <1>2

-----------------------------------------------------------------------------
(* Steps by which a run goes to another stage and leaves everything but     *)
(* the guard of its kind alone.                                             *)
LEMMA StageMoves ==
  ASSUME Inv, NEW r \in Run, NEW s \in Stage, Goto(r, s), UNCHANGED <<owner, call, store>>,
         call[r] = "none", sessions' \in Seq(CollectionRun), activeAbort' \in ScenarioRun \union {None},
         SessionIsAdmitted', LockIsHeld',
         r = owner => s \in {"running", "stopping"} \/ (r \in CollectionRun /\ s = "presenting"),
         r \in CollectionRun /\ s \in {"running", "stopping"} => stage[r] \in {"running", "stopping"},
         r \in ScenarioRun /\ s \in {"unborn", "planning"} => stage[r] \in {"unborn", "planning"}
  PROVE  Inv'
  <1>1. /\ stage' \in [Run -> Stage] /\ stage'[r] = s
        /\ \A q \in Run : q # r => stage'[q] = stage[q]
    BY DEF Goto, Inv, Types
  <1>2. Types'
    BY <1>1 DEF Inv, Types
  <1>3. OnlyRunningCall'
    BY <1>1 DEF Inv, OnlyRunningCall
  <1>4. ContextIsNotLeaked'
    <2>1. owner \in Run \union {None}
      BY DEF Inv, Types
    <2>2. CASE owner = r
      BY <1>1, <2>2 DEF ContextIsNotLeaked, Executing
    <2>3. CASE owner # r /\ owner # None
      BY <1>1, <2>1, <2>3 DEF Inv, ContextIsNotLeaked, Executing
    <2>4. CASE owner = None
      BY <2>4 DEF ContextIsNotLeaked
    <2> QED
      BY <2>2, <2>3, <2>4
  <1>5. Undisturbed' => Undisturbed
    <2> SUFFICES ASSUME Undisturbed', NEW q \in ScenarioRun
                 PROVE  stage[q] \in {"unborn", "planning"}
      BY DEF Undisturbed
    <2> QED
      BY <1>1, KindsDiffer DEF Undisturbed
  <1>6. ContextIsHeld'
    <2> SUFFICES ASSUME Undisturbed', NEW q \in CollectionRun, Executing(q)'
                 PROVE  owner = q
      BY DEF ContextIsHeld
    <2>1. Executing(q)
      BY <1>1, KindsDiffer DEF Executing
    <2> QED
      BY <1>5, <2>1 DEF Inv, ContextIsHeld
  <1>7. UndisturbedRunsKeepValues'
    BY <1>5 DEF Inv, UndisturbedRunsKeepValues
  <1> QED
    BY <1>2, <1>3, <1>4, <1>6, <1>7 DEF Inv

(* The guards, when a run of one kind moves. *)
LEMMA MoveFacts ==
  ASSUME Inv, NEW r \in Run, NEW s \in Stage, Goto(r, s)
  PROVE  /\ stage'[r] = s /\ \A q \in Run : q # r => stage'[q] = stage[q]
         /\ r \in CollectionRun /\ UNCHANGED activeAbort => LockIsHeld'
         /\ r \in ScenarioRun /\ UNCHANGED sessions => SessionIsAdmitted'
  <1>1. stage'[r] = s /\ \A q \in Run : q # r => stage'[q] = stage[q]
    BY DEF Goto, Inv, Types
  <1>2. ASSUME r \in CollectionRun, UNCHANGED activeAbort
        PROVE  LockIsHeld'
    BY <1>1, <1>2, KindsDiffer DEF Inv, LockIsHeld
  <1>3. ASSUME r \in ScenarioRun, UNCHANGED sessions
        PROVE  SessionIsAdmitted'
    BY <1>1, <1>3, KindsDiffer DEF Inv, SessionIsAdmitted
  <1> QED
    BY <1>1, <1>2, <1>3

-----------------------------------------------------------------------------
(* The host of a collection run. *)

(* Asked for, planned or refused: no session begins or ends.                *)
LEMMA CollectionWaits ==
  ASSUME Inv, NEW r \in CollectionRun,
         \/ Request(r) \/ Planned(r) \/ PlanFails(r)
         \/ BeginSession(r) /\ sessions # <<>>
  PROVE  Inv'
  <1>1. PICK s \in {"planning", "starting", "done"} : Goto(r, s)
    BY DEF Request, Planned, PlanFails, BeginSession
  <1>2. /\ UNCHANGED <<owner, call, store, activeAbort, sessions>>
        /\ stage[r] \in {"unborn", "planning", "starting"} /\ r \in Run
    BY KindsDiffer DEF Request, Planned, PlanFails, BeginSession, manager, context, requests
  <1>3. call[r] = "none" /\ owner # r
    BY <1>2, KindsDiffer DEF Inv, OnlyRunningCall, ContextIsNotLeaked, Executing
  <1>4. LockIsHeld' /\ stage'[r] = s /\ \A q \in Run : q # r => stage'[q] = stage[q]
    BY <1>1, <1>2, MoveFacts DEF Stage
  <1>5. SessionIsAdmitted'
    BY <1>1, <1>2, <1>4, KindsDiffer DEF Inv, SessionIsAdmitted, Admitted
  <1> QED
    BY <1>1, <1>2, <1>3, <1>4, <1>5, KindsDiffer, StageMoves DEF Stage, Inv, Types

(* A session begins, being the only one. *)
LEMMA SessionBegins ==
  ASSUME Inv, NEW r \in CollectionRun, BeginSession(r), sessions = <<>>
  PROVE  Inv'
  <1>1. /\ Goto(r, "loading") /\ sessions' = Append(sessions, r)
        /\ UNCHANGED <<owner, call, store, activeAbort>>
        /\ stage[r] = "starting" /\ r \in Run
    BY KindsDiffer DEF BeginSession, begin, context, requests
  <1>2. call[r] = "none" /\ owner # r
    BY <1>1, KindsDiffer DEF Inv, OnlyRunningCall, ContextIsNotLeaked, Executing
  <1>3. LockIsHeld' /\ stage'[r] = "loading" /\ \A q \in Run : q # r => stage'[q] = stage[q]
    BY <1>1, MoveFacts DEF Stage
  <1>4. Len(sessions') = 1 /\ sessions'[1] = r /\ sessions' # <<>> /\ sessions' \in Seq(CollectionRun)
    BY <1>1 DEF Inv, Types
  <1>5. SessionIsAdmitted'
    BY <1>3, <1>4, KindsDiffer DEF Inv, SessionIsAdmitted, Admitted
  <1> QED
    BY <1>1, <1>2, <1>3, <1>4, <1>5, KindsDiffer, StageMoves DEF Stage, Inv, Types

(* The run takes the context over, from a run that is presenting, a         *)
(* scenario or nobody.                                                      *)
LEMMA ContextTaken ==
  ASSUME Inv, NEW r \in CollectionRun, Loaded(r)
  PROVE  Inv'
  <1>1. /\ Goto(r, "running") /\ owner' = r /\ stage[r] = "loading" /\ r \in Run
        /\ UNCHANGED <<sessions, activeAbort, call, store>>
    BY KindsDiffer DEF Loaded, activate, manager, requests
  <1>2. /\ LockIsHeld' /\ stage'[r] = "running" /\ \A q \in Run : q # r => stage'[q] = stage[q]
    BY <1>1, MoveFacts DEF Stage
  <1>3. SessionIsAdmitted'
    BY <1>1, <1>2, KindsDiffer DEF Inv, SessionIsAdmitted, Admitted
  <1>4. Types'
    BY <1>1 DEF Goto, Inv, Types, Stage
  <1>5. OnlyRunningCall'
    BY <1>1, <1>2 DEF Inv, OnlyRunningCall
  <1>6. ContextIsNotLeaked'
    BY <1>1, <1>2 DEF ContextIsNotLeaked, Executing
  <1>7. Undisturbed' => Undisturbed
    BY <1>2, KindsDiffer DEF Undisturbed
  <1>8. ContextIsHeld'
    <2> SUFFICES ASSUME NEW q \in CollectionRun, Executing(q)'
                 PROVE  q = r
      BY <1>1 DEF ContextIsHeld
    <2>1. stage'[q] \in Admitted /\ stage'[r] \in Admitted
      BY <1>2 DEF Executing, Admitted
    <2> QED
      BY <1>3, <2>1 DEF SessionIsAdmitted
  <1>9. UndisturbedRunsKeepValues'
    BY <1>1, <1>7 DEF Inv, UndisturbedRunsKeepValues
  <1> QED
    BY <1>2, <1>3, <1>4, <1>5, <1>6, <1>8, <1>9 DEF Inv

LEMMA SessionEnds ==
  ASSUME Inv, NEW r \in CollectionRun, Complete(r)
  PROVE  Inv'
  <1>1. /\ Goto(r, "presenting") /\ Executing(r) /\ call[r] = "none" /\ r \in Run
        /\ sessions' = RemoveFirst(sessions, r) /\ UNCHANGED <<owner, activeAbort, call, store>>
    BY KindsDiffer DEF Complete, finish, context, requests
  <1>2. stage'[r] = "presenting" /\ (\A q \in Run : q # r => stage'[q] = stage[q]) /\ LockIsHeld'
    BY <1>1, MoveFacts DEF Stage
  <1>3. sessions # <<>> /\ sessions[1] = r
    BY <1>1 DEF Inv, SessionIsAdmitted, Executing, Admitted
  <1>4. sessions' = <<>>
    BY <1>1, <1>3, OnlySessionRemoved DEF Inv, Types, SessionIsAdmitted
  <1>5. SessionIsAdmitted'
    BY <1>2, <1>3, <1>4, KindsDiffer DEF Inv, SessionIsAdmitted, Admitted
  <1>6. sessions' \in Seq(CollectionRun)
    BY <1>4
  <1> QED
    BY <1>1, <1>2, <1>5, <1>6, KindsDiffer, StageMoves DEF Stage, Inv, Types

(* The context and the store of a run are given up, by r itself.            *)
LEMMA ContextGivenUp ==
  ASSUME Inv, NEW r \in Run, NEW s \in Stage \ {"running", "stopping"}, Goto(r, s), end(r),
         store' = [store EXCEPT ![r] = {}], UNCHANGED <<sessions, activeAbort, call>>,
         call[r] = "none", SessionIsAdmitted', LockIsHeld',
         r \in ScenarioRun => s \notin {"unborn", "planning"}
  PROVE  Inv'
  <1>1. /\ stage'[r] = s /\ \A q \in Run : q # r => stage'[q] = stage[q]
        /\ owner' = IF owner = r THEN None ELSE owner
        /\ owner \in Run \union {None} /\ r # None
    BY MoveFacts, KindsDiffer DEF end, Inv, Types
  <1>2. Types'
    BY <1>1, KindsDiffer DEF Goto, Inv, Types
  <1>3. OnlyRunningCall'
    BY <1>1 DEF Inv, OnlyRunningCall
  <1>4. ContextIsNotLeaked'
    <2>1. CASE owner' = None
      BY <2>1 DEF ContextIsNotLeaked
    <2>2. CASE owner' # None
      <3>1. owner' = owner /\ owner # r /\ owner \in Run /\ stage'[owner] = stage[owner]
        BY <1>1, <2>2
      <3> QED
        BY <2>2, <3>1 DEF Inv, ContextIsNotLeaked, Executing
    <2> QED
      BY <2>1, <2>2
  <1>5. Undisturbed' => Undisturbed
    BY <1>1, KindsDiffer DEF Undisturbed
  <1>6. ContextIsHeld'
    <2> SUFFICES ASSUME Undisturbed', NEW q \in CollectionRun, Executing(q)'
                 PROVE  owner' = q
      BY DEF ContextIsHeld
    <2>1. q # r /\ Executing(q)
      BY <1>1, KindsDiffer DEF Executing
    <2> QED
      BY <1>1, <1>5, <2>1 DEF Inv, ContextIsHeld
  <1>7. UndisturbedRunsKeepValues'
    <2>1. \A c \in Caller : store'[c] \subseteq store[c]
      BY DEF Inv, Types
    <2> QED
      BY <1>5, <2>1 DEF Inv, UndisturbedRunsKeepValues
  <1> QED
    BY <1>2, <1>3, <1>4, <1>6, <1>7 DEF Inv

LEMMA CollectionDismissed ==
  ASSUME Inv, NEW r \in CollectionRun, Dismissed(r)
  PROVE  Inv'
  <1>1. /\ Goto(r, "done") /\ end(r) /\ store' = [store EXCEPT ![r] = {}]
        /\ UNCHANGED <<sessions, activeAbort, call>> /\ stage[r] = "presenting" /\ r \in Run
    BY KindsDiffer DEF Dismissed, manager, requests
  <1>2. call[r] = "none"
    BY <1>1, KindsDiffer DEF Inv, OnlyRunningCall, Types
  <1>3. LockIsHeld' /\ stage'[r] = "done" /\ \A q \in Run : q # r => stage'[q] = stage[q]
    BY <1>1, MoveFacts DEF Stage
  <1>4. SessionIsAdmitted'
    BY <1>1, <1>3, KindsDiffer DEF Inv, SessionIsAdmitted, Admitted
  <1> QED
    BY <1>1, <1>2, <1>3, <1>4, KindsDiffer, ContextGivenUp DEF Stage

-----------------------------------------------------------------------------
(* The host of a scenario run. *)

LEMMA ScenarioMoves ==
  ASSUME Inv, NEW r \in ScenarioRun,
         RequestScenario(r) \/ ScenarioRefused(r) \/ ScenarioPresented(r)
  PROVE  Inv'
  <1>1. /\ UNCHANGED <<owner, call, store, sessions>>
        /\ stage[r] \in {"unborn", "planning", "presenting"} /\ r \in Run
    BY KindsDiffer DEF RequestScenario, ScenarioRefused, ScenarioPresented, manager, context, requests
  <1>2. call[r] = "none" /\ owner # r
    BY <1>1, KindsDiffer DEF Inv, OnlyRunningCall, ContextIsNotLeaked, Executing
  <1>3. PICK s \in {"planning", "presenting", "done"} :
          /\ Goto(r, s)
          /\ s = "planning" => stage[r] = "unborn"
    BY DEF RequestScenario, ScenarioRefused, ScenarioPresented
  <1>4. /\ SessionIsAdmitted' /\ stage'[r] = s /\ \A q \in Run : q # r => stage'[q] = stage[q]
    BY <1>1, <1>3, MoveFacts DEF Stage
  <1>5. activeAbort' \in ScenarioRun \union {None} /\ LockIsHeld'
    <2>1. CASE RequestScenario(r)
      <3>1. CASE activeAbort = None
        <4>1. activeAbort' = r /\ stage'[r] = "planning"
          BY <2>1, <3>1, <1>4 DEF RequestScenario, Goto, Inv, Types
        <4> QED
          BY <1>4, <3>1, <4>1, KindsDiffer DEF Inv, LockIsHeld, Locked
      <3>2. CASE activeAbort # None
        <4>1. activeAbort' = activeAbort /\ stage'[r] = "done" /\ stage[r] = "unborn"
          BY <2>1, <3>2, <1>4 DEF RequestScenario, Goto, Inv, Types
        <4> QED
          BY <1>4, <4>1, KindsDiffer DEF Inv, Types, LockIsHeld, Locked
      <3> QED
        BY <3>1, <3>2
    <2>2. CASE ScenarioRefused(r)
      <3>1. activeAbort' = activeAbort /\ stage'[r] = "presenting" /\ stage[r] = "planning"
        BY <1>1, <2>2 DEF ScenarioRefused, Goto, Inv, Types
      <3> QED
        BY <1>4, <3>1, KindsDiffer DEF Inv, Types, LockIsHeld, Locked
    <2>3. CASE ScenarioPresented(r)
      <3>1. /\ activeAbort' = IF activeAbort = r THEN None ELSE activeAbort
            /\ stage'[r] = "done" /\ stage[r] = "presenting"
        BY <1>1, <2>3 DEF ScenarioPresented, Goto, Inv, Types
      <3>2. activeAbort = r
        BY <3>1 DEF Inv, LockIsHeld, Locked
      <3> QED
        BY <1>4, <3>1, <3>2, KindsDiffer DEF Inv, LockIsHeld, Locked
    <2> QED
      BY <2>1, <2>2, <2>3
  <1> QED
    BY <1>1, <1>2, <1>3, <1>4, <1>5, KindsDiffer, StageMoves DEF Stage, Inv, Types

(* The scenario takes the context over: from now on nothing is undisturbed. *)
LEMMA ScenarioBegins ==
  ASSUME Inv, NEW r \in ScenarioRun, BeginScenario(r)
  PROVE  Inv'
  <1>1. /\ Goto(r, "running") /\ owner' = r /\ stage[r] = "planning" /\ r \in Run
        /\ UNCHANGED <<sessions, activeAbort, call, store>>
    BY KindsDiffer DEF BeginScenario, activate, manager, requests
  <1>2. /\ SessionIsAdmitted' /\ stage'[r] = "running" /\ \A q \in Run : q # r => stage'[q] = stage[q]
    BY <1>1, MoveFacts DEF Stage
  <1>3. LockIsHeld'
    BY <1>1, <1>2, KindsDiffer DEF Inv, LockIsHeld, Locked
  <1>4. Types'
    BY <1>1 DEF Goto, Inv, Types, Stage
  <1>5. OnlyRunningCall'
    BY <1>1, <1>2 DEF Inv, OnlyRunningCall
  <1>6. ContextIsNotLeaked'
    BY <1>1, <1>2 DEF ContextIsNotLeaked, Executing
  <1>7. ~Undisturbed'
    BY <1>2 DEF Undisturbed
  <1> QED
    BY <1>2, <1>3, <1>4, <1>5, <1>6, <1>7 DEF Inv, ContextIsHeld, UndisturbedRunsKeepValues

LEMMA ScenarioEnds ==
  ASSUME Inv, NEW r \in ScenarioRun, EndScenario(r)
  PROVE  Inv'
  <1>1. /\ Goto(r, "presenting") /\ end(r) /\ store' = [store EXCEPT ![r] = {}]
        /\ UNCHANGED <<sessions, activeAbort, call>> /\ Executing(r) /\ call[r] = "none" /\ r \in Run
    BY KindsDiffer DEF EndScenario, manager, requests
  <1>2. SessionIsAdmitted' /\ stage'[r] = "presenting" /\ \A q \in Run : q # r => stage'[q] = stage[q]
    BY <1>1, MoveFacts DEF Stage
  <1>3. LockIsHeld'
    BY <1>1, <1>2, KindsDiffer DEF Inv, LockIsHeld, Locked, Executing
  <1> QED
    BY <1>1, <1>2, <1>3, ContextGivenUp DEF Stage

-----------------------------------------------------------------------------
(* Requests. *)

(* A run whose request was replaced stops sending. *)
LEMMA RunStops ==
  ASSUME Inv, NEW c \in Run, call[c] = "sent", Goto(c, "stopping"),
         call' = [call EXCEPT ![c] = "none"], UNCHANGED <<owner, store, sessions, activeAbort>>
  PROVE  Inv'
  <1>1. stage[c] = "running"
    BY DEF Inv, OnlyRunningCall
  <1>2. /\ stage'[c] = "stopping" /\ \A q \in Run : q # c => stage'[q] = stage[q]
    BY MoveFacts DEF Stage
  <1>3. LockIsHeld' /\ SessionIsAdmitted'
    BY <1>1, <1>2, KindsDiffer DEF Inv, LockIsHeld, Locked, SessionIsAdmitted, Admitted
  <1>4. Types'
    BY DEF Goto, Inv, Types, Stage
  <1>5. OnlyRunningCall'
    <2>1. \A q \in Run : call'[q] = IF q = c THEN "none" ELSE call[q]
      BY KindsDiffer DEF Inv, Types
    <2> QED
      BY <1>2, <2>1 DEF Inv, OnlyRunningCall
  <1>6. ContextIsNotLeaked'
    <2>1. owner \in Run \union {None}
      BY DEF Inv, Types
    <2> QED
      BY <1>1, <1>2, <2>1 DEF Inv, ContextIsNotLeaked, Executing
  <1>7. Undisturbed' => Undisturbed
    BY <1>1, <1>2, KindsDiffer DEF Undisturbed
  <1>8. ContextIsHeld'
    <2>1. \A q \in CollectionRun : Executing(q)' => Executing(q)
      BY <1>1, <1>2, KindsDiffer DEF Executing
    <2> QED
      BY <1>7, <2>1 DEF Inv, ContextIsHeld
  <1>9. UndisturbedRunsKeepValues'
    BY <1>7 DEF Inv, UndisturbedRunsKeepValues
  <1> QED
    BY <1>3, <1>4, <1>5, <1>6, <1>8, <1>9 DEF Inv

(* Steps of a request that move no run. *)
LEMMA CallMoves ==
  ASSUME Inv, NEW c \in Caller, NEW s \in {"none", "sent", "extracting"},
         call' = [call EXCEPT ![c] = s], UNCHANGED <<stage, owner, sessions, activeAbort>>,
         s # "none" /\ c \in Run => stage[c] = "running",
         store' \in [Caller -> SUBSET Caller], UndisturbedRunsKeepValues'
  PROVE  Inv'
  <1>1. Types'
    BY DEF Inv, Types
  <1>2. OnlyRunningCall'
    <2>1. \A q \in Run : call'[q] = IF q = c THEN s ELSE call[q]
      BY KindsDiffer DEF Inv, Types
    <2> QED
      BY <2>1 DEF Inv, OnlyRunningCall
  <1>3. SessionIsAdmitted' /\ LockIsHeld' /\ ContextIsNotLeaked' /\ ContextIsHeld'
    BY DEF Inv, SessionIsAdmitted, LockIsHeld, ContextIsNotLeaked, ContextIsHeld, Undisturbed,
       Executing
  <1> QED
    BY <1>1, <1>2, <1>3 DEF Inv

LEMMA RequestKeeps ==
  ASSUME Inv, NEW c \in Caller,
         Send(c) \/ Answered(c) \/ AnsweredLate(c) \/ StartExtraction(c)
  PROVE  Inv'
  <1>1. UNCHANGED <<owner, sessions, activeAbort, store>>
    BY DEF Send, Answered, AnsweredLate, StartExtraction, manager, context
  <1>2. store' \in [Caller -> SUBSET Caller]
    BY <1>1 DEF Inv, Types
  <1>3. UNCHANGED stage => UndisturbedRunsKeepValues'
    BY <1>1 DEF Inv, UndisturbedRunsKeepValues, Undisturbed
  <1>4. CASE Send(c) \/ StartExtraction(c)
    <2>1. PICK s \in {"sent", "extracting"} : call' = [call EXCEPT ![c] = s]
      BY <1>4 DEF Send, StartExtraction
    <2>2. UNCHANGED stage /\ (c \in Run => stage[c] = "running")
      BY <1>4 DEF Send, StartExtraction, MaySend, Inv, OnlyRunningCall
    <2> QED
      BY <1>1, <1>2, <1>3, <2>1, <2>2, CallMoves
  <1>5. CASE Answered(c) \/ (AnsweredLate(c) /\ c \notin Run)
    <2>1. call' = [call EXCEPT ![c] = "none"] /\ UNCHANGED stage
      BY <1>5 DEF Answered, AnsweredLate
    <2> QED
      BY <1>1, <1>2, <1>3, <2>1, CallMoves
  <1>6. CASE AnsweredLate(c) /\ c \in Run
    BY <1>1, <1>6, RunStops DEF AnsweredLate
  <1> QED
    BY <1>4, <1>5, <1>6

(* The value goes to the store of the run that has the context: of the      *)
(* caller itself, if that is a collection run and nothing interfered.       *)
LEMMA ExtractionKeeps ==
  ASSUME Inv, NEW c \in Caller, Extracted(c)
  PROVE  Inv'
  <1>1. /\ call[c] = "extracting" /\ call' = [call EXCEPT ![c] = "none"]
        /\ store' = [store EXCEPT ![resolveRunStore] = @ \union {c}]
        /\ UNCHANGED <<stage, owner, sessions, activeAbort>>
    BY DEF Extracted, manager, context
  <1>2. resolveRunStore \in Caller
    BY KindsDiffer DEF resolveRunStore, Session, Inv, Types
  <1>3. /\ store' \in [Caller -> SUBSET Caller]
        /\ \A d \in Caller : store'[d] = IF d = resolveRunStore THEN store[d] \union {c} ELSE store[d]
    BY <1>1, <1>2 DEF Inv, Types
  <1>4. UndisturbedRunsKeepValues'
    <2> SUFFICES ASSUME Undisturbed', NEW r \in CollectionRun, NEW d \in Caller, r \in store'[d]
                 PROVE  d = r
      BY DEF UndisturbedRunsKeepValues
    <2>1. Undisturbed
      BY <1>1 DEF Undisturbed
    <2>2. CASE r \in store[d]
      BY <2>1, <2>2 DEF Inv, UndisturbedRunsKeepValues
    <2>3. CASE r \notin store[d]
      <3>1. d = resolveRunStore /\ c = r
        BY <1>3, <2>3
      <3>2. stage[r] = "running"
        BY <1>1, <3>1, KindsDiffer DEF Inv, OnlyRunningCall
      <3>3. owner = r
        BY <2>1, <3>2 DEF Inv, ContextIsHeld, Executing
      <3> QED
        BY <3>1, <3>3, KindsDiffer DEF resolveRunStore
    <2> QED
      BY <2>2, <2>3
  <1> QED
    BY <1>1, <1>3, <1>4, CallMoves

-----------------------------------------------------------------------------
LEMMA InitHolds == Init => Inv
  <1> SUFFICES ASSUME Init PROVE Inv
    OBVIOUS
  <1>1. Types
    BY DEF Init, Types, Stage
  <1>2. SessionIsAdmitted
    BY KindsDiffer DEF Init, SessionIsAdmitted, Admitted
  <1>3. LockIsHeld
    BY KindsDiffer DEF Init, LockIsHeld, Locked
  <1>4. OnlyRunningCall /\ ContextIsNotLeaked
    BY KindsDiffer DEF Init, OnlyRunningCall, ContextIsNotLeaked
  <1>5. ContextIsHeld /\ UndisturbedRunsKeepValues
    BY KindsDiffer DEF Init, ContextIsHeld, UndisturbedRunsKeepValues, Executing
  <1> QED
    BY <1>1, <1>2, <1>3, <1>4, <1>5 DEF Inv

LEMMA NextHolds == Inv /\ [Next]_vars => Inv'
  <1> SUFFICES ASSUME Inv, [Next]_vars PROVE Inv'
    OBVIOUS
  <1>1. ASSUME NEW r \in CollectionRun,
               \/ Request(r) \/ Planned(r) \/ PlanFails(r) \/ BeginSession(r) \/ Loaded(r)
               \/ Complete(r) \/ Dismissed(r)
        PROVE  Inv'
    BY <1>1, CollectionWaits, SessionBegins, ContextTaken, SessionEnds, CollectionDismissed
  <1>2. ASSUME NEW r \in ScenarioRun,
               \/ RequestScenario(r) \/ ScenarioRefused(r) \/ BeginScenario(r)
               \/ EndScenario(r) \/ ScenarioPresented(r)
        PROVE  Inv'
    BY <1>2, ScenarioMoves, ScenarioBegins, ScenarioEnds
  <1>3. ASSUME NEW c \in Caller,
               Send(c) \/ Answered(c) \/ AnsweredLate(c) \/ StartExtraction(c) \/ Extracted(c)
        PROVE  Inv'
    BY <1>3, RequestKeeps, ExtractionKeeps
  <1>4. CASE UNCHANGED <<stage, sessions, owner, activeAbort, call, store>>
    BY <1>4 DEF Inv, Types, SessionIsAdmitted, LockIsHeld, OnlyRunningCall, ContextIsNotLeaked,
       ContextIsHeld, UndisturbedRunsKeepValues, Undisturbed, Executing
  <1>5. \A r \in CollectionRun :
          Cancel(r) => UNCHANGED <<stage, sessions, owner, activeAbort, call, store>>
    BY DEF Cancel, context, requests
  <1>6. UNCHANGED vars => UNCHANGED <<stage, sessions, owner, activeAbort, call, store>>
    BY DEF vars
  <1> QED
    BY <1>1, <1>2, <1>3, <1>4, <1>5, <1>6 DEF Next, HostStep, RequestStep

LEMMA ContextInv == Spec => []Inv
  BY InitHolds, NextHolds, PTL DEF Spec

-----------------------------------------------------------------------------
(* The recent ring. *)
Ended == {"presenting", "done"}

(* Whoever is in the ring has ended, and is there once. *)
Ring ==
  /\ recent \in Seq(CollectionRun) /\ Len(recent) <= RecentLimit
  /\ \A i \in DOMAIN recent : stage[recent[i]] \in Ended
  /\ \A i, j \in DOMAIN recent : recent[i] = recent[j] => i = j

(* No run that has ended is started again. *)
LEMMA EndedStays ==
  ASSUME Inv, [Next]_vars, NEW q \in CollectionRun, stage[q] \in Ended
  PROVE  stage'[q] \in Ended
  <1>1. ASSUME NEW r \in Run, NEW s, Goto(r, s), stage[r] \in Ended => s \in Ended
        PROVE  stage'[q] \in Ended
    BY <1>1, KindsDiffer DEF Goto, Inv, Types
  <1>2. ASSUME NEW r \in CollectionRun,
               \/ Request(r) \/ Planned(r) \/ PlanFails(r) \/ BeginSession(r) \/ Loaded(r)
               \/ Complete(r) \/ Dismissed(r)
        PROVE  stage'[q] \in Ended
    <2>1. \E s : Goto(r, s) /\ (stage[r] \in Ended => s \in Ended)
      BY <1>2 DEF Request, Planned, PlanFails, BeginSession, Loaded, Complete, Dismissed, Ended
    <2> QED
      BY <1>1, <2>1, KindsDiffer
  <1>3. ASSUME NEW r \in ScenarioRun,
               \/ RequestScenario(r) \/ ScenarioRefused(r) \/ BeginScenario(r)
               \/ EndScenario(r) \/ ScenarioPresented(r)
        PROVE  stage'[q] \in Ended
    <2>1. \E s : Goto(r, s)
      BY <1>3 DEF RequestScenario, ScenarioRefused, BeginScenario, EndScenario, ScenarioPresented
    <2> QED
      BY <2>1, KindsDiffer DEF Goto, Inv, Types
  <1>4. ASSUME NEW c \in Caller,
               Send(c) \/ Answered(c) \/ AnsweredLate(c) \/ StartExtraction(c) \/ Extracted(c)
        PROVE  stage'[q] \in Ended
    <2>1. CASE UNCHANGED stage
      BY <2>1
    <2>2. CASE c \in Run /\ Goto(c, "stopping") /\ call[c] = "sent"
      <3>1. stage[c] \notin Ended
        BY <2>2 DEF Inv, OnlyRunningCall, Ended
      <3> QED
        BY <1>1, <2>2, <3>1
    <2> QED
      BY <1>4, <2>1, <2>2 DEF Send, Answered, AnsweredLate, StartExtraction, Extracted
  <1>5. CASE UNCHANGED stage
    BY <1>5
  <1>6. \A r \in CollectionRun : Cancel(r) => UNCHANGED stage
    BY DEF Cancel
  <1> QED
    BY <1>2, <1>3, <1>4, <1>5, <1>6 DEF Next, HostStep, RequestStep, vars

(* Only a run that executes is put into the ring. *)
LEMMA RingFilled ==
  ASSUME Inv, [Next]_vars
  PROVE  \/ UNCHANGED recent
         \/ \E r \in CollectionRun : Complete(r)
  BY DEF Next, HostStep, RequestStep, vars, manager, begin, Request, Planned, PlanFails, BeginSession,
     Loaded, Cancel, Dismissed, RequestScenario, ScenarioRefused, BeginScenario, EndScenario,
     ScenarioPresented, Send, Answered, AnsweredLate, StartExtraction, Extracted

LEMMA RingHolds ==
  ASSUME Inv, Ring, [Next]_vars
  PROVE  Ring'
  <1>1. \A q \in CollectionRun : stage[q] \in Ended => stage'[q] \in Ended
    BY EndedStays
  <1>2. CASE UNCHANGED recent
    BY <1>1, <1>2 DEF Ring
  <1>3. ASSUME NEW r \in CollectionRun, Complete(r)
        PROVE  Ring'
    <2>1. stage[r] \notin Ended /\ stage'[r] \in Ended
      BY <1>3, KindsDiffer DEF Complete, Executing, Goto, Ended, Inv, Types
    <2>2. \A i \in DOMAIN recent : recent[i] # r
      BY <2>1 DEF Ring
    <2>3. recent' = Kept(<<r>> \o recent)
      BY <1>3, <2>2, WithoutStranger DEF Complete, finish, Ring
    <2>4. recent \in Seq(CollectionRun) /\ Len(recent) \in Nat
      BY DEF Ring
    <2> DEFINE full == <<r>> \o recent
               m == IF Len(full) < RecentLimit THEN Len(full) ELSE RecentLimit
    <2>8. full \in Seq(CollectionRun) /\ Len(full) = Len(recent) + 1
      BY <2>4
    <2>9. RecentLimit \in Nat /\ RecentLimit # 0
      BY RunVariableContextAssumption
    <2>10. m \in 1..Len(full) /\ m <= RecentLimit
      <3> HIDE DEF full
      <3> QED
        BY <2>4, <2>8, <2>9
    <2>11. /\ full[1] = r
          /\ \A i \in 1..Len(full) : i # 1 => i - 1 \in DOMAIN recent /\ full[i] = recent[i - 1]
      BY <2>4
    <2>12. recent' = SubSeq(full, 1, m)
      BY <2>3 DEF Kept
    <2>13. /\ recent' \in Seq(CollectionRun) /\ Len(recent') = m
          /\ \A i \in 1..m : recent'[i] = full[i]
      <3> HIDE DEF full, m
      <3> QED
        BY <2>8, <2>10, <2>12, SubSeqProperties
    <2> HIDE DEF full, m
    <2>5. /\ DOMAIN recent' = 1..m /\ recent'[1] = r
          /\ \A i \in DOMAIN recent' : i # 1 => i - 1 \in DOMAIN recent /\ recent'[i] = recent[i - 1]
      BY <2>8, <2>10, <2>11, <2>13
    <2>6. \A i \in DOMAIN recent' : stage'[recent'[i]] \in Ended
      <3> TAKE i \in DOMAIN recent'
      <3>1. CASE i = 1
        BY <2>1, <2>5, <3>1
      <3>2. CASE i # 1
        <4>1. i - 1 \in DOMAIN recent /\ recent'[i] = recent[i - 1]
          BY <2>5, <3>2
        <4>2. recent[i - 1] \in CollectionRun
          BY <2>4, <4>1
        <4> QED
          BY <1>1, <4>1, <4>2 DEF Ring
      <3> QED
        BY <3>1, <3>2
    <2>7. \A i, j \in DOMAIN recent' : recent'[i] = recent'[j] => i = j
      <3> SUFFICES ASSUME NEW i \in DOMAIN recent', NEW j \in DOMAIN recent', recent'[i] = recent'[j]
                   PROVE  i = j
        OBVIOUS
      <3>1. CASE i = 1 \/ j = 1
        BY <2>2, <2>5, <3>1
      <3>2. CASE i # 1 /\ j # 1
        <4>1. i - 1 = j - 1
          BY <2>5, <3>2 DEF Ring
        <4> QED
          BY <2>5, <2>10, <4>1
      <3> QED
        BY <3>1, <3>2
    <2> QED
      BY <2>10, <2>13, <2>6, <2>7 DEF Ring
  <1> QED
    BY <1>2, <1>3, RingFilled

LEMMA RingInv == Spec => []Ring
  <1>1. Init => Ring
    BY RunVariableContextAssumption DEF Init, Ring
  <1>2. Inv /\ Ring /\ [Next]_vars => Ring'
    BY RingHolds
  <1> QED
    BY <1>1, <1>2, ContextInv, PTL DEF Spec

-----------------------------------------------------------------------------
(* Whatever runs are asked for, refused, replaced or cancelled: the context *)
(* belongs to a run that has not ended, or to nobody.                       *)
THEOREM ContextNeverLeaks == Spec => []ContextIsNotLeaked
  BY ContextInv, PTL DEF Inv

(* What a collection run extracts is in its own store and nowhere else, as  *)
(* long as no scenario is let in, however earlier runs end.                 *)
THEOREM UndisturbedValuesStay == Spec => []UndisturbedRunsKeepValues
  BY ContextInv, PTL DEF Inv

(* One scenario run never takes the context of another that still executes. *)
THEOREM ScenariosStayApart == Spec => []ScenariosDoNotClobber
  <1>1. ASSUME Inv, NEW r \in ScenarioRun, Executing(r), owner \in ScenarioRun \ {r}
        PROVE  FALSE
    <2>1. Executing(owner)
      BY <1>1, KindsDiffer DEF Inv, ContextIsNotLeaked
    <2>2. activeAbort = r /\ activeAbort = owner
      BY <1>1, <2>1 DEF Inv, LockIsHeld, Locked, Executing
    <2> QED
      BY <1>1, <2>2
  <1>2. Inv => ScenariosDoNotClobber
    BY <1>1 DEF ScenariosDoNotClobber
  <1> QED
    BY <1>2, ContextInv, PTL

(* The manager has a session for the collection run being executed and for  *)
(* no other, what has left it is in the recent ring at most once, the ring   *)
(* holds no more runs than its limit, and no scenario run takes the context  *)
(* of another.                                                              *)
THEOREM RunsStayApart == Spec => []RunsAreKeptApart
  <1>1. ASSUME Inv, Ring
        PROVE  OneSessionAtATime
    <2>1. Len(sessions) <= 1 /\ sessions \in Seq(CollectionRun)
      BY <1>1 DEF Inv, Types, SessionIsAdmitted
    <2>2. \A r \in CollectionRun : r \in ToSet(sessions) <=> sessions # <<>> /\ sessions[1] = r
      <3>1. CASE sessions = <<>>
        BY <3>1 DEF ToSet
      <3>2. CASE sessions # <<>>
        <4> DEFINE n == Len(sessions)
        <4>1. n \in Nat /\ n # 0 /\ n <= 1 /\ DOMAIN sessions = 1..n
          BY <2>1, <3>2
        <4>2. DOMAIN sessions = {1}
          <5> HIDE DEF n
          <5>1. n = 1
            BY <4>1
          <5> QED
            BY <4>1, <5>1
        <4> QED
          BY <3>2, <4>2 DEF ToSet
      <3> QED
        BY <3>1, <3>2
    <2>3. \A r \in CollectionRun :
            stage[r] \in {"loading", "running", "stopping"} <=> r \in ToSet(sessions)
      BY <1>1, <2>2 DEF Inv, SessionIsAdmitted, Admitted
    <2>4. ToSet(sessions) \intersect ToSet(recent) = {}
      <3> SUFFICES ASSUME NEW r \in ToSet(sessions), r \in ToSet(recent)
                   PROVE  FALSE
        OBVIOUS
      <3>1. r \in CollectionRun /\ stage[r] \in Ended
        BY <1>1 DEF Ring, ToSet
      <3> QED
        BY <2>3, <3>1 DEF Ended
    <2> QED
      BY <1>1, <2>1, <2>3, <2>4 DEF OneSessionAtATime, Ring
  <1>2. Inv /\ Ring => OneSessionAtATime
    BY <1>1
  <1> QED
    BY <1>2, ContextInv, RingInv, ScenariosStayApart, PTL DEF RunsAreKeptApart

-----------------------------------------------------------------------------
(* CollectionMutation. A command that changed something has not asked for a  *)
(* refresh yet, or failed, or its request is the scan that has not begun, is *)
(* queued, or saw the change. Nothing of what is on disk matters for this.   *)

(* A command between its start and its request, or one that failed.         *)
Unasked == \E j \in Jobs : job[j].pc \notin {"unborn", "done", "waiting"}

(* A command and the scan have the fields that are read here.               *)
JobShape ==
  /\ job = [j \in Jobs |-> job[j]]
  /\ \A j \in Jobs : "pc" \in DOMAIN job[j]

ScanShape ==
  /\ "phase" \in DOMAIN scan /\ "queued" \in DOMAIN scan /\ "view" \in DOMAIN scan
  /\ scan.phase \in {"idle", "asked", "scanned"} /\ scan.queued \in BOOLEAN

SomebodyWaits == scan.phase # "idle" => \E j \in Jobs : job[j].pc = "waiting"

IdleIsCurrent == scan.phase = "idle" => Unasked \/ shown = View(disk, marker)

ScanIsCurrent ==
  scan.phase = "scanned" => Unasked \/ scan.queued \/ scan.view = View(disk, marker)

TreeInv == JobShape /\ ScanShape /\ SomebodyWaits /\ IdleIsCurrent /\ ScanIsCurrent

(* A command moves on, and does what it does to the disk and the markers.   *)
LEMMA CommandMoves ==
  ASSUME TreeInv, NEW j \in Jobs, job[j].pc # "waiting",
         NEW r, "pc" \in DOMAIN r, r.pc \notin {"unborn", "done", "waiting"},
         job' = [job EXCEPT ![j] = r], UNCHANGED <<shown, scan>>
  PROVE  TreeInv'
  <1>1. job' = [i \in Jobs |-> IF i = j THEN r ELSE job[i]]
    BY DEF TreeInv, JobShape
  <1>2. Unasked'
    BY <1>1 DEF Unasked
  <1>3. JobShape'
    BY <1>1 DEF TreeInv, JobShape
  <1>4. SomebodyWaits'
    BY <1>1 DEF TreeInv, SomebodyWaits
  <1> QED
    BY <1>2, <1>3, <1>4 DEF TreeInv, ScanShape, IdleIsCurrent, ScanIsCurrent

(* Fields of a command that are assigned. *)
LEMMA Assigned ==
  ASSUME NEW r, "pc" \in DOMAIN r, NEW pc, NEW op, NEW doc, NEW carry,
         NEW q \in {[r EXCEPT !.pc = pc], [r EXCEPT !.op = op, !.pc = pc],
                    [r EXCEPT !.doc = doc, !.pc = pc],
                    [r EXCEPT !.doc = doc, !.pc = pc, !.carry = carry]}
  PROVE  "pc" \in DOMAIN q /\ q.pc = pc
  OBVIOUS

LEMMA CommandKeeps ==
  ASSUME TreeInv, NEW j \in Jobs,
         \/ Begin(j) \/ Apply(j) \/ Write(j) \/ WriteTarget(j) \/ Fails(j)
         \/ \E got : Read(j, got) \/ ReadTarget(j, got)
  PROVE  TreeInv'
  <1> DEFINE before == job[j]
             Under == {"read", "apply", "write", "readTarget", "writeTarget", "refresh", "failed"}
  <1>1. UNCHANGED <<shown, scan>> /\ before.pc # "waiting" /\ "pc" \in DOMAIN before
    BY DEF TreeInv, JobShape, Begin, Apply, Write, WriteTarget, Fails,
       Read, ReadTarget, At
  <1>2. ASSUME NEW op, NEW pc \in Under, NEW doc, NEW carry,
               NEW r \in {[before EXCEPT !.pc = pc], [before EXCEPT !.op = op, !.pc = pc],
                          [before EXCEPT !.doc = doc, !.pc = pc],
                          [before EXCEPT !.doc = doc, !.pc = pc, !.carry = carry]},
               job' = [job EXCEPT ![j] = r]
        PROVE  TreeInv'
    <2>1. "pc" \in DOMAIN r /\ r.pc = pc
      <3> HIDE DEF before
      <3> QED
        BY <1>1, Assigned
    <2>2. r.pc \notin {"unborn", "done", "waiting"}
      BY <2>1
    <2> HIDE DEF before
    <2>3. job[j].pc # "waiting"
      BY <1>1 DEF before
    <2> QED
      BY <1>1, <1>2, <2>1, <2>2, <2>3, CommandMoves
  <1>3. \A pc \in Under : job' = [job EXCEPT ![j].pc = pc] => TreeInv'
    <2> TAKE pc \in Under
    <2> HAVE job' = [job EXCEPT ![j].pc = pc]
    <2>1. job' = [job EXCEPT ![j] = [before EXCEPT !.pc = pc]]
      OBVIOUS
    <2> HIDE DEF before
    <2> QED
      BY <1>2, <2>1
  <1>4. CASE Begin(j)
    <2>1. PICK op : job' = [job EXCEPT ![j].op = op,
                                       ![j].pc = IF op.kind = "reorder" THEN "read" ELSE "apply"]
      BY <1>4 DEF Begin
    <2> DEFINE pc == IF op.kind = "reorder" THEN "read" ELSE "apply"
    <2>2. pc \in Under
      OBVIOUS
    <2>3. job' = [job EXCEPT ![j] = [before EXCEPT !.op = op, !.pc = pc]]
      BY <2>1 DEF TreeInv, JobShape
    <2> HIDE DEF before, pc
    <2> QED
      BY <1>2, <2>2, <2>3
  <1>5. CASE Apply(j)
    <2> DEFINE op == job[j].op
               pc == CASE op.kind = "delete" /\ isCollection(op.from) -> "refresh"
                       [] op.kind = "create" /\ isCollection(op.to) -> "write"
                       [] OTHER -> "read"
    <2>1. job' = [job EXCEPT ![j].pc = pc]
      BY <1>5 DEF Apply
    <2>2. pc \in Under
      OBVIOUS
    <2> HIDE DEF pc
    <2> QED
      BY <1>3, <2>1, <2>2
  <1>6. CASE Write(j) \/ WriteTarget(j) \/ Fails(j)
    <2>1. \E pc \in Under : job' = [job EXCEPT ![j].pc = pc]
      BY <1>6 DEF Write, WriteTarget, Fails, Enter
    <2> QED
      BY <1>3, <2>1
  <1>7. ASSUME NEW got, Read(j, got)
        PROVE  TreeInv'
    <2>1. \E doc, carry : job' = [job EXCEPT ![j].doc = doc, ![j].pc = "write", ![j].carry = carry]
      BY <1>7 DEF Read
    <2>2. PICK doc, carry :
            job' = [job EXCEPT ![j].doc = doc, ![j].pc = "write", ![j].carry = carry]
      BY <2>1
    <2>3. job' = [job EXCEPT ![j] = [before EXCEPT !.doc = doc, !.pc = "write", !.carry = carry]]
      BY <2>2 DEF TreeInv, JobShape
    <2> HIDE DEF before
    <2> QED
      BY <1>2, <2>3
  <1>8. ASSUME NEW got, ReadTarget(j, got)
        PROVE  TreeInv'
    <2>1. PICK doc : job' = [job EXCEPT ![j].doc = doc, ![j].pc = "writeTarget"]
      BY <1>8 DEF ReadTarget
    <2>2. job' = [job EXCEPT ![j] = [before EXCEPT !.doc = doc, !.pc = "writeTarget"]]
      BY <2>1 DEF TreeInv, JobShape
    <2> HIDE DEF before
    <2> QED
      BY <1>2, <2>2
  <1> QED
    BY <1>4, <1>5, <1>6, <1>7, <1>8

(* The command waits: for a scan that begins after its change, or for the    *)
(* one that is queued.                                                      *)
LEMMA AskKeeps ==
  ASSUME TreeInv, NEW j \in Jobs, Ask(j)
  PROVE  TreeInv'
  <1>1. /\ \A i \in Jobs : "pc" \in DOMAIN job[i]
        /\ "phase" \in DOMAIN scan /\ "queued" \in DOMAIN scan /\ "view" \in DOMAIN scan
        /\ scan.phase \in {"idle", "asked", "scanned"} /\ scan.queued \in BOOLEAN
    BY DEF TreeInv, JobShape, ScanShape
  <1>2. JobShape' /\ job'[j].pc = "waiting"
    <2>1. job' = [job EXCEPT ![j] = [job[j] EXCEPT !.pc = "waiting"]]
      BY DEF Ask, Enter
    <2> QED
      BY <1>1, <2>1 DEF TreeInv, JobShape
  <1>3. ScanShape' /\ (scan'.phase = "scanned" => scan'.queued) /\ scan'.phase # "idle"
    <2>1. CASE scan.phase = "idle"
      BY <1>1, <2>1 DEF Ask, ScanShape
    <2>2. CASE scan.phase # "idle"
      BY <1>1, <2>2 DEF Ask, ScanShape
    <2> QED
      BY <2>1, <2>2
  <1> QED
    BY <1>2, <1>3 DEF TreeInv, SomebodyWaits, IdleIsCurrent, ScanIsCurrent

(* The scan sees what is there. *)
LEMMA ScanKeeps ==
  ASSUME TreeInv, Scan
  PROVE  TreeInv'
  <1>1. UNCHANGED <<disk, marker, shown, job>> /\ scan.phase = "asked"
    BY DEF Scan
  <1>2. View(disk, marker)' = View(disk, marker)
    BY <1>1 DEF View
  <1>3. ScanShape' /\ scan'.view = View(disk, marker) /\ scan'.phase = "scanned"
    BY DEF TreeInv, ScanShape, Scan
  <1>4. SomebodyWaits' /\ JobShape'
    BY <1>1 DEF TreeInv, SomebodyWaits, JobShape
  <1> QED
    BY <1>2, <1>3, <1>4 DEF TreeInv, IdleIsCurrent, ScanIsCurrent

(* What it saw is published, and another one begins if it is queued.        *)
LEMMA PublishKeeps ==
  ASSUME TreeInv, Publish
  PROVE  TreeInv'
  <1>1. /\ scan.phase = "scanned" /\ shown' = scan.view /\ UNCHANGED <<disk, marker>>
        /\ scan.queued \in BOOLEAN
    BY DEF TreeInv, ScanShape, Publish
  <1>2. View(disk, marker)' = View(disk, marker)
    BY <1>1 DEF View
  <1>3. ScanShape' /\ scan'.phase = IF scan.queued THEN "asked" ELSE "idle"
    BY <1>1 DEF TreeInv, ScanShape, Publish
  <1>4. job' = [j \in Jobs |-> IF job[j].pc = "waiting" /\ ~scan.queued
                                    THEN [job[j] EXCEPT !.pc = "done"] ELSE job[j]]
    BY DEF Publish, At
  <1>5. ASSUME NEW j \in Jobs
        PROVE  /\ "pc" \in DOMAIN job'[j]
               /\ job'[j].pc = IF job[j].pc = "waiting" /\ ~scan.queued THEN "done" ELSE job[j].pc
    <2>1. "pc" \in DOMAIN job[j]
      BY DEF TreeInv, JobShape
    <2>2. job'[j] = IF job[j].pc = "waiting" /\ ~scan.queued
                    THEN [job[j] EXCEPT !.pc = "done"] ELSE job[j]
      BY <1>4
    <2> QED
      BY <2>1, <2>2
  <1>6. JobShape'
    <2>1. job' = [j \in Jobs |-> job'[j]]
      BY <1>4
    <2> QED
      BY <1>5, <2>1 DEF JobShape
  <1>7. Unasked => Unasked'
    BY <1>5 DEF Unasked
  <1>8. SomebodyWaits'
    BY <1>1, <1>3, <1>5 DEF TreeInv, SomebodyWaits
  <1>9. IdleIsCurrent'
    <2>1. ~scan.queued => Unasked \/ scan.view = View(disk, marker)
      BY <1>1 DEF TreeInv, ScanIsCurrent
    <2> QED
      BY <1>1, <1>2, <1>3, <1>7, <2>1 DEF IdleIsCurrent
  <1>10. ScanIsCurrent'
    BY <1>1, <1>3 DEF ScanIsCurrent
  <1> QED
    BY <1>3, <1>6, <1>8, <1>9, <1>10 DEF TreeInv

LEMMA TreeStarts == TreeInit => TreeInv
  <1> SUFFICES ASSUME TreeInit PROVE TreeInv
    OBVIOUS
  <1>1. JobShape
    BY DEF TreeInit, JobShape
  <1>2. ScanShape /\ scan.phase = "idle"
    BY DEF TreeInit, ScanShape
  <1> QED
    BY <1>1, <1>2 DEF TreeInit, TreeInv, SomebodyWaits, IdleIsCurrent, ScanIsCurrent

LEMMA TreeInvariant == TreeSpec => []TreeInv
  <1>1. TreeInv /\ [TreeNext]_treeVars => TreeInv'
    <2> SUFFICES ASSUME TreeInv, [TreeNext]_treeVars PROVE TreeInv'
      OBVIOUS
    <2>1. CASE UNCHANGED treeVars
      BY <2>1 DEF treeVars, TreeInv, JobShape, ScanShape, SomebodyWaits, IdleIsCurrent,
         ScanIsCurrent, Unasked, View
    <2> QED
      BY <2>1, CommandKeeps, AskKeeps, ScanKeeps, PublishKeeps DEF TreeNext
  <1> QED
    BY <1>1, TreeStarts, PTL DEF TreeSpec

(* However commands and scans overlap, for any number of commands on any     *)
(* collections: once none is under way and none failed, the tree shows what  *)
(* is on disk.                                                              *)
THEOREM TreeShowsTheDisk == TreeSpec => []TreeIsCurrent
  <1>1. TreeInv => TreeIsCurrent
    BY DEF TreeInv, SomebodyWaits, IdleIsCurrent, Unasked, TreeIsCurrent
  <1> QED
    BY <1>1, TreeInvariant, PTL

-----------------------------------------------------------------------------
(* The markers. A command puts the disk and the markers it does not rewrite  *)
(* in order at once, and holds in its hands what is in order when written.   *)

(* A command the tree may have offered. *)
Kinds == {"create", "rename", "duplicate", "delete", "move", "reorder"}
isOp(op) ==
  /\ op.kind \in Kinds
  /\ op.kind # "create" => isPlace(op.from)
  /\ IF op.kind = "delete" THEN op.to = <<>> ELSE isPlace(op.to)
  /\ op.kind \in {"rename", "duplicate"} =>
       Front(op.to) = Front(op.from) /\ isRequest(op.to) = isRequest(op.from)
  /\ op.kind = "move" =>
       Last(op.to) = Last(op.from) /\ ~isCollection(op.from) /\ ~isCollection(op.to)
  /\ op.kind \in {"rename", "move"} => ~IsPrefix(op.from, op.to)
  /\ op.kind = "reorder" => ~isCollection(op.to)

(* What a command holds in its hands fits the disk already, also what it has *)
(* not written yet.                                                         *)
Places == DOMAIN disk
Rewriting == {"read", "write"}
Fit(op, pc, doc, carry, markers, places) ==
  /\ pc \in {"unborn", "apply"} => doc = Blank
  /\ pc \in {"apply", "read", "write", "readTarget", "writeTarget"} => isOp(op)
  /\ pc = "apply" => op.kind # "reorder"
  /\ pc = "read" => \A d \in Updated(op, markers[home(op)]) : matches(d, home(op), places)
  /\ pc = "read" /\ Twice(op) => matches(extracted(markers[home(op)], op.from, op.to), Head(op.to), places)
  /\ pc = "write" => matches(doc, home(op), places)
  /\ (pc = "write" /\ Twice(op)) \/ pc = "readTarget" => matches(carry, Head(op.to), places)
  /\ (pc \in Rewriting /\ Twice(op)) \/ pc = "readTarget" => op.to \in places
  /\ pc \in {"readTarget", "writeTarget"} => op.kind = "move"
  /\ pc = "writeTarget" => matches(doc, Head(op.to), places)
Fits(j) == Fit(job[j].op, job[j].pc, job[j].doc, job[j].carry, marker, Places)

JobFields ==
  /\ job = [j \in Jobs |-> job[j]]
  /\ \A j \in Jobs : job[j] = [op |-> job[j].op, pc |-> job[j].pc, doc |-> job[j].doc, carry |-> job[j].carry]

Alone ==
  /\ \A i, j \in Active : i = j
  /\ \A j \in Jobs : job[j].pc # "failed"

OthersMatch ==
  \A c \in Collections :
    \/ matches(marker[c], c, Places)
    \/ \E j \in Jobs : job[j].pc \in Rewriting /\ home(job[j].op) = c

Held ==
  /\ Alone /\ isTree(Places) /\ marker = [c \in Collections |-> marker[c]]
  /\ OthersMatch /\ \A j \in Jobs : Fits(j)

OrderInv == JobFields /\ (intact => Held)
-----------------------------------------------------------------------------
(* Sequences: what stands behind a prefix. *)
LEMMA Behind ==
  ASSUME NEW S, NEW a \in Seq(S), NEW u \in Seq(S)
  PROVE  /\ SubSeq(a \o u, Len(a) + 1, Len(a \o u)) = u
         /\ SubSeq(a \o u, 1, Len(a)) = a
         /\ IsPrefix(a, a \o u)
  <1> DEFINE n == Len(a)
             w == a \o u
             b == SubSeq(w, n + 1, Len(w))
             c == SubSeq(w, 1, n)
  <1>1. /\ n \in Nat /\ Len(u) \in Nat /\ Len(w) = n + Len(u) /\ w \in Seq(S)
        /\ \A i \in 1..Len(w) : w[i] = IF i <= n THEN a[i] ELSE u[i - n]
    BY ConcatProperties
  <1>2. b = u
    <2>1. \A i \in (n + 1)..Len(w) : w[i] \in S
      BY <1>1
    <2>2. b \in Seq(S) /\ Len(b) = Len(u) /\ \A i \in 1..Len(u) : b[i] = w[n + i]
      <3> HIDE DEF n, w
      <3> QED
        BY <1>1, <2>1, SubSeqProperties
    <2>3. \A i \in 1..Len(u) : b[i] = u[i]
      <3> HIDE DEF n, w, b
      <3> QED
        BY <1>1, <2>2
    <2> HIDE DEF b
    <2> QED
      BY <2>2, <2>3, SeqEqual
  <1>3. c = a
    <2>1. \A i \in 1..n : w[i] \in S
      BY <1>1
    <2>2. c \in Seq(S) /\ Len(c) = n /\ \A i \in 1..n : c[i] = w[i]
      <3> HIDE DEF n, w
      <3> QED
        BY <1>1, <2>1, SubSeqProperties
    <2>3. \A i \in 1..Len(c) : c[i] = a[i]
      <3> HIDE DEF w, c
      <3> QED
        BY <1>1, <2>2
    <2> HIDE DEF c
    <2> QED
      BY <2>2, <2>3, SeqEqual
  <1>4. SubSeq(a, 1, Len(a)) = a
    BY SubSeqFull
  <1> HIDE DEF w
  <1> QED
    BY <1>1, <1>2, <1>3, <1>4 DEF IsPrefix, w

LEMMA PrefixSplits ==
  ASSUME NEW S, NEW a \in Seq(S), NEW k \in Seq(S)
  PROVE  IsPrefix(a, k) <=> \E u \in Seq(S) : k = a \o u
  <1>1. ASSUME IsPrefix(a, k)
        PROVE  \E u \in Seq(S) : k = a \o u
    <2> DEFINE u == SubSeq(k, Len(a) + 1, Len(k))
    <2>1. Len(a) \in Nat /\ Len(k) \in Nat /\ Len(a) <= Len(k)
      BY <1>1 DEF IsPrefix
    <2>2. SubSeq(k, 1, Len(a)) = a
      BY <1>1, SubSeqFull DEF IsPrefix
    <2>3. SubSeq(k, 1, Len(k)) = k
      BY SubSeqFull
    <2>4. u \in Seq(S)
      <3>1. \A i \in (Len(a) + 1)..Len(k) : k[i] \in S
        BY <2>1
      <3> QED
        BY <2>1, <3>1, SubSeqProperties
    <2>5. SubSeq(k, 1, Len(a)) \o u = SubSeq(k, 1, Len(k))
      <3>1. Len(a) \in 1 - 1..Len(k) /\ Len(k) \in Len(a)..Len(k) /\ 1 \in 1..(Len(k) + 1)
        BY <2>1
      <3> QED
        BY <3>1, ConcatAdjacentSubSeq
    <2> HIDE DEF u
    <2> QED
      BY <2>2, <2>3, <2>4, <2>5
  <1>2. ASSUME NEW u \in Seq(S), k = a \o u
        PROVE  IsPrefix(a, k)
    BY <1>2, Behind
  <1> QED
    BY <1>1, <1>2

LEMMA ThereIs ==
  ASSUME NEW S, NEW a \in Seq(S), NEW b \in Seq(S), NEW u \in Seq(S)
  PROVE  there(a \o u, a, b) = b \o u
  BY Behind DEF there

(* Append under a name of its own: the provers rewrite it otherwise.         *)
In(k, n) == Append(k, n)

(* A path is its last name behind its front, its first before its tail.     *)
LEMMA Ends ==
  ASSUME NEW S, NEW l \in Seq(S), l # <<>>
  PROVE  /\ Front(l) \in Seq(S) /\ Last(l) \in S /\ l = In(Front(l), Last(l))
         /\ Head(l) \in S /\ Tail(l) \in Seq(S) /\ l = <<Head(l)>> \o Tail(l)
         /\ Len(l) \in Nat \ {0}
  <1>1. PICK f \in Seq(S), e \in S : l = Append(f, e)
    BY SequenceEmptyOrAppend
  <1>2. Len(l) = Len(f) + 1 /\ Last(l) = e /\ Len(f) \in Nat
    BY <1>1, AppendProperties DEF Last
  <1>3. Front(l) = f
    <2>1. l = f \o <<e>>
      BY <1>1, AppendIsConcat
    <2> QED
      BY <1>2, <2>1, Behind DEF Front
  <1>4. Head(l) \in S /\ Tail(l) \in Seq(S)
    BY HeadTailProperties
  <1>5. l = <<Head(l)>> \o Tail(l)
    <2> DEFINE w == <<Head(l)>> \o Tail(l)
    <2>1. <<Head(l)>> \in Seq(S) /\ Len(<<Head(l)>>) = 1 /\ <<Head(l)>>[1] = Head(l)
      BY <1>4
    <2>2. /\ w \in Seq(S) /\ Len(w) = 1 + Len(Tail(l))
          /\ \A i \in 1..(1 + Len(Tail(l))) : w[i] = IF i <= 1 THEN <<Head(l)>>[i] ELSE Tail(l)[i - 1]
      BY <1>4, <2>1, ConcatProperties
    <2>3. Len(Tail(l)) = Len(l) - 1 /\ \A i \in 1..Len(Tail(l)) : Tail(l)[i] = l[i + 1]
      BY HeadTailProperties
    <2>4. Head(l) = l[1] /\ Len(l) \in Nat
      OBVIOUS
    <2> HIDE DEF w
    <2>5. Len(w) = Len(l) /\ \A i \in 1..Len(l) : w[i] = l[i]
      <3>1. Len(w) = Len(l)
        BY <2>2, <2>3, <2>4
      <3>2. ASSUME NEW i \in 1..Len(l) PROVE w[i] = l[i]
        <4>1. CASE i = 1
          BY <2>1, <2>2, <2>3, <2>4, <4>1
        <4>2. CASE i # 1
          <5>1. i - 1 \in 1..Len(Tail(l)) /\ i \in 1..(1 + Len(Tail(l))) /\ ~(i <= 1)
            BY <2>3, <2>4, <4>2
          <5>2. w[i] = Tail(l)[i - 1] /\ Tail(l)[i - 1] = l[(i - 1) + 1]
            BY <2>2, <2>3, <5>1
          <5>3. (i - 1) + 1 = i
            BY <2>4
          <5> QED
            BY <5>2, <5>3
        <4> QED
          BY <4>1, <4>2
      <3> QED
        BY <3>1, <3>2
    <2> QED
      BY <2>2, <2>5, SeqEqual DEF w
  <1> QED
    BY <1>1, <1>2, <1>3, <1>4, <1>5 DEF In

LEMMA AppendIsBehind ==
  ASSUME NEW S, NEW a \in Seq(S), NEW u \in Seq(S), NEW n \in S
  PROVE  In(a \o u, n) = a \o In(u, n)
  <1>1. <<n>> \in Seq(S) /\ a \o u \in Seq(S)
    BY ConcatProperties
  <1>2. (a \o u) \o <<n>> = a \o (u \o <<n>>)
    BY <1>1, ConcatAssociative
  <1>3. Append(a \o u, n) = a \o Append(u, n)
    BY <1>1, <1>2, AppendIsConcat
  <1> QED
    BY <1>3 DEF In

LEMMA InIs ==
  ASSUME NEW S, NEW u \in Seq(S), NEW n \in S
  PROVE  In(u, n) \in Seq(S) \ {<<>>} /\ Front(In(u, n)) = u /\ Last(In(u, n)) = n
  <1>1. Append(u, n) \in Seq(S) /\ Append(u, n) # <<>>
    BY AppendProperties
  <1>4. Append(Front(Append(u, n)), Last(Append(u, n))) = Append(u, n)
        /\ Front(Append(u, n)) \in Seq(S) /\ Last(Append(u, n)) \in S
    BY <1>1, Ends DEF In
  <1>5. Front(Append(u, n)) = u /\ Last(Append(u, n)) = n
    BY <1>4, AppendInjective
  <1> QED
    BY <1>1, <1>5 DEF In

-----------------------------------------------------------------------------
(* Order maps, and the places they list. *)
LEMMA ListedIs ==
  ASSUME NEW kind \in SUBSET Names, NEW map, isOrder(map, kind), NEW p \in listed(map)
  PROVE  /\ p \in Seq(Names) \ {<<>>} /\ Front(p) \in DOMAIN map /\ Last(p) \in kind
         /\ p = In(Front(p), Last(p)) /\ Last(p) \in ToSet(map[Front(p)])
         /\ Front(p) \in Seq(Names)
  <1>1. PICK k \in DOMAIN map : p \in {Append(k, n) : n \in ToSet(map[k])}
    BY DEF listed
  <1>2. PICK n \in ToSet(map[k]) : p = In(k, n)
    BY <1>1 DEF In
  <1>3. k \in Seq(Names) /\ map[k] \in Seq(kind)
    BY DEF isOrder
  <1>4. n \in kind /\ n \in Names
    BY <1>3 DEF ToSet
  <1>5. p \in Seq(Names) \ {<<>>} /\ Front(p) = k /\ Last(p) = n
    BY <1>2, <1>3, <1>4, InIs
  <1> QED
    BY <1>2, <1>3, <1>4, <1>5

LEMMA IsListed ==
  ASSUME NEW map, NEW k \in DOMAIN map, NEW n \in ToSet(map[k])
  PROVE  In(k, n) \in listed(map)
  BY DEF listed, In

LEMMA WithoutListed ==
  ASSUME NEW kind \in SUBSET Names, NEW map, isOrder(map, kind), NEW from
  PROVE  /\ isOrder(without(map, from), kind)
         /\ \A p \in listed(without(map, from)) : p \in listed(map) /\ ~IsPrefix(from, Front(p))
  <1> DEFINE w == without(map, from)
  <1>1. DOMAIN w = DOMAIN map \ below(map, from) /\ \A k \in DOMAIN w : w[k] = map[k]
    BY DEF without
  <1>2. isOrder(w, kind)
    <2>1. w = [k \in DOMAIN w |-> w[k]]
      BY DEF without
    <2> QED
      BY <1>1, <2>1 DEF isOrder
  <1> HIDE DEF w
  <1>3. ASSUME NEW p \in listed(w)
        PROVE  p \in listed(map) /\ ~IsPrefix(from, Front(p))
    <2>1. Front(p) \in DOMAIN w /\ Last(p) \in ToSet(w[Front(p)]) /\ p = In(Front(p), Last(p))
      BY <1>2, ListedIs
    <2>2. Front(p) \in DOMAIN map /\ w[Front(p)] = map[Front(p)] /\ ~IsPrefix(from, Front(p))
      BY <1>1, <2>1 DEF below
    <2> QED
      BY <2>1, <2>2, IsListed
  <1> QED
    BY <1>2, <1>3 DEF w

LEMMA CarriedListed ==
  ASSUME NEW kind \in SUBSET Names, NEW map, isOrder(map, kind),
         NEW from \in Seq(Names), NEW to \in Seq(Names)
  PROVE  /\ isOrder(carried(map, from, to), kind)
         /\ \A p \in listed(carried(map, from, to)) :
              \E u \in Seq(Names) \ {<<>>} : p = to \o u /\ from \o u \in listed(map)
  <1> DEFINE w == carried(map, from, to)
  <1>1. /\ DOMAIN w = {there(k, from, to) : k \in below(map, from)}
        /\ \A k \in DOMAIN w : w[k] = map[there(k, to, from)]
    BY DEF carried
  <1>2. w = [k \in DOMAIN w |-> w[k]]
    BY DEF carried
  <1> HIDE DEF w
  <1>3. ASSUME NEW k \in DOMAIN w
        PROVE  /\ k \in Seq(Names) /\ w[k] \in Seq(kind)
               /\ \E v \in Seq(Names) : k = to \o v /\ from \o v \in DOMAIN map /\ w[k] = map[from \o v]
    <2>1. PICK h \in below(map, from) : k = there(h, from, to)
      BY <1>1
    <2>2. h \in DOMAIN map /\ h \in Seq(Names) /\ IsPrefix(from, h) /\ map[h] \in Seq(kind)
      BY DEF below, isOrder
    <2>3. PICK v \in Seq(Names) : h = from \o v
      BY <2>2, PrefixSplits
    <2>4. there(from \o v, from, to) = to \o v /\ there(to \o v, to, from) = from \o v
      BY ThereIs
    <2>5. to \o v \in Seq(Names)
      BY ConcatProperties
    <2>6. k = to \o v /\ w[k] = map[h]
      BY <1>1, <2>1, <2>3, <2>4
    <2> QED
      BY <2>2, <2>3, <2>5, <2>6
  <1>4. isOrder(w, kind)
    BY <1>2, <1>3 DEF isOrder
  <1>5. ASSUME NEW p \in listed(w)
        PROVE  \E u \in Seq(Names) \ {<<>>} : p = to \o u /\ from \o u \in listed(map)
    <2>1. /\ Front(p) \in DOMAIN w /\ Last(p) \in ToSet(w[Front(p)]) /\ p = In(Front(p), Last(p))
          /\ Last(p) \in Names
      BY <1>4, ListedIs
    <2>2. PICK v \in Seq(Names) :
            Front(p) = to \o v /\ from \o v \in DOMAIN map /\ w[Front(p)] = map[from \o v]
      BY <1>3, <2>1
    <2> DEFINE n == Last(p)
               u == In(v, n)
    <2>3. n \in Names
      BY <2>1
    <2>4. u \in Seq(Names) \ {<<>>} /\ In(to \o v, n) = to \o u /\ In(from \o v, n) = from \o u
      <3> HIDE DEF n
      <3>1. In(to \o v, n) = to \o u
        BY <2>3, AppendIsBehind
      <3>2. In(from \o v, n) = from \o u
        BY <2>3, AppendIsBehind
      <3>3. u \in Seq(Names) \ {<<>>}
        BY <2>3, InIs
      <3> QED
        BY <3>1, <3>2, <3>3
    <2>5. from \o u \in listed(map)
      BY <2>1, <2>2, <2>4, IsListed
    <2>6. p = to \o u
      BY <2>1, <2>2, <2>4
    <2> HIDE DEF u
    <2> QED
      BY <2>4, <2>5, <2>6
  <1> QED
    BY <1>4, <1>5 DEF w

LEMMA FirstListed ==
  ASSUME NEW kind \in SUBSET Names, NEW f, isOrder(f, kind), NEW g, isOrder(g, kind)
  PROVE  /\ isOrder(first(f, g), kind)
         /\ listed(first(f, g)) \subseteq listed(f) \cup listed(g)
  <1> DEFINE w == first(f, g)
  <1>1. /\ DOMAIN w = DOMAIN f \cup DOMAIN g
        /\ \A k \in DOMAIN w : w[k] = IF k \in DOMAIN f THEN f[k] ELSE g[k]
    BY DEF first
  <1>2. isOrder(w, kind)
    <2>1. w = [k \in DOMAIN w |-> w[k]]
      BY DEF first
    <2> QED
      BY <1>1, <2>1 DEF isOrder
  <1> HIDE DEF w
  <1>3. ASSUME NEW p \in listed(w)
        PROVE  p \in listed(f) \cup listed(g)
    <2>1. Front(p) \in DOMAIN w /\ Last(p) \in ToSet(w[Front(p)]) /\ p = In(Front(p), Last(p))
      BY <1>2, ListedIs
    <2>2. CASE Front(p) \in DOMAIN f
      BY <1>1, <2>1, <2>2, IsListed
    <2>3. CASE Front(p) \notin DOMAIN f
      BY <1>1, <2>1, <2>3, IsListed
    <2> QED
      BY <2>2, <2>3
  <1> QED
    BY <1>2, <1>3 DEF w

LEMMA PutListed ==
  ASSUME NEW kind \in SUBSET Names, NEW map, isOrder(map, kind),
         NEW key \in Seq(Names), NEW names \in Seq(kind)
  PROVE  /\ isOrder(put(map, key, names), kind)
         /\ \A p \in listed(put(map, key, names)) :
              \/ p \in listed(map) /\ Front(p) # key
              \/ Front(p) = key /\ Last(p) \in ToSet(names)
  <1> DEFINE w == put(map, key, names)
  <1>1. w = [i \in DOMAIN w |-> w[i]]
    <2>1. CASE names = <<>>
      BY <2>1 DEF put
    <2>2. CASE names # <<>>
      BY <2>2 DEF put
    <2> QED
      BY <2>1, <2>2
  <1>2. ASSUME NEW k \in DOMAIN w
        PROVE  \/ k = key /\ w[k] = names /\ names # <<>>
               \/ k # key /\ k \in DOMAIN map /\ w[k] = map[k]
    BY DEF put
  <1> HIDE DEF w
  <1>3. isOrder(w, kind)
    BY <1>1, <1>2 DEF isOrder
  <1>4. ASSUME NEW p \in listed(w)
        PROVE  \/ p \in listed(map) /\ Front(p) # key
               \/ Front(p) = key /\ Last(p) \in ToSet(names)
    <2>1. Front(p) \in DOMAIN w /\ Last(p) \in ToSet(w[Front(p)]) /\ p = In(Front(p), Last(p))
      BY <1>3, ListedIs
    <2> QED
      BY <1>2, <2>1, IsListed
  <1> QED
    BY <1>3, <1>4 DEF w

LEMMA ListAtIs ==
  ASSUME NEW kind \in SUBSET Names, NEW map, isOrder(map, kind), NEW key
  PROVE  /\ listAt(map, key) \in Seq(kind)
         /\ \A n \in ToSet(listAt(map, key)) : In(key, n) \in listed(map)
  <1>1. CASE key \in DOMAIN map
    BY <1>1, IsListed DEF listAt, isOrder
  <1>2. CASE key \notin DOMAIN map
    BY <1>2 DEF listAt, ToSet
  <1> QED
    BY <1>1, <1>2

(* What has replaced a name in a list.                                      *)
LEMMA ElementsReplaced ==
  ASSUME NEW S, NEW s \in Seq(S), NEW old \in S, NEW new \in S
  PROVE  /\ ReplaceAll(s, old, new) \in Seq(S)
         /\ \A n \in ToSet(ReplaceAll(s, old, new)) : n = new \/ (n \in ToSet(s) /\ n # old)
  <1>1. Len(s) \in Nat /\ DOMAIN s = 1..Len(s)
    OBVIOUS
  <1>2. ReplaceAll(s, old, new) \in [1..Len(s) -> S]
    BY DEF ReplaceAll
  <1>3. ReplaceAll(s, old, new) \in Seq(S)
    BY <1>1, <1>2
  <1>4. ASSUME NEW n \in ToSet(ReplaceAll(s, old, new))
        PROVE  n = new \/ (n \in ToSet(s) /\ n # old)
    BY <1>1 DEF ToSet, ReplaceAll
  <1> QED
    BY <1>3, <1>4
-----------------------------------------------------------------------------
(* Places: a collection, and names below it. *)
Words == Collections \cup Names

LEMMA HeadTailConcat ==
  ASSUME NEW S, NEW h \in S, NEW t \in Seq(S)
  PROVE  /\ Head(<<h>> \o t) = h /\ Tail(<<h>> \o t) = t
         /\ <<h>> \o t \in Seq(S) \ {<<>>} /\ <<h>> \in Seq(S)
  <1> DEFINE l == <<h>> \o t
  <1>1. <<h>> \in Seq(S) /\ Len(<<h>>) = 1 /\ <<h>>[1] = h
    OBVIOUS
  <1>2. l \in Seq(S) /\ Len(l) = 1 + Len(t) /\ Len(t) \in Nat /\ l[1] = h
    BY <1>1, ConcatProperties
  <1> HIDE DEF l
  <1>3. l # <<>> /\ Head(l) = h
    BY <1>2
  <1>4. l = <<h>> \o Tail(l) /\ Tail(l) \in Seq(S)
    BY <1>2, <1>3, Ends
  <1>5. Tail(l) = t
    BY <1>1, <1>4, ConcatSimplifications DEF l
  <1> QED
    BY <1>1, <1>2, <1>3, <1>5 DEF l

LEMMA PlaceIs ==
  /\ \A c \in Collections, t \in Seq(Names) :
       isPlace(<<c>> \o t) /\ Head(<<c>> \o t) = c /\ Tail(<<c>> \o t) = t
  /\ \A l : isPlace(l) => /\ l \in Seq(Words) \ {<<>>} /\ Head(l) \in Collections
                          /\ Tail(l) \in Seq(Names) /\ l = <<Head(l)>> \o Tail(l)
                          /\ <<Head(l)>> \in Seq(Words) /\ Tail(l) \in Seq(Words)
                          /\ (isCollection(l) <=> Tail(l) = <<>>)
  <1>1. Collections \subseteq Words /\ Names \subseteq Words
    BY DEF Words
  <1>2. ASSUME NEW c \in Collections, NEW t \in Seq(Names)
        PROVE  isPlace(<<c>> \o t) /\ Head(<<c>> \o t) = c /\ Tail(<<c>> \o t) = t
    <2>1. c \in Words /\ t \in Seq(Words)
      BY <1>1, SeqMonotonic
    <2>2. /\ Head(<<c>> \o t) = c /\ Tail(<<c>> \o t) = t
          /\ <<c>> \o t \in Seq(Words) \ {<<>>}
      BY <2>1, HeadTailConcat
    <2> QED
      BY <2>2 DEF isPlace, Words
  <1>3. ASSUME NEW l, isPlace(l)
        PROVE  /\ l \in Seq(Words) \ {<<>>} /\ Head(l) \in Collections
               /\ Tail(l) \in Seq(Names) /\ l = <<Head(l)>> \o Tail(l)
               /\ <<Head(l)>> \in Seq(Words) /\ Tail(l) \in Seq(Words)
               /\ (isCollection(l) <=> Tail(l) = <<>>)
    <2>1. l \in Seq(Words) \ {<<>>} /\ Head(l) \in Collections /\ Tail(l) \in Seq(Names)
      BY <1>3 DEF isPlace, Words
    <2>2. l = <<Head(l)>> \o Tail(l) /\ Head(l) \in Words /\ Tail(l) \in Seq(Words)
      BY <2>1, Ends
    <2>3. <<Head(l)>> \in Seq(Words)
      BY <2>2
    <2>4. Len(Tail(l)) = Len(l) - 1 /\ Len(l) \in Nat
      BY <2>1, HeadTailProperties
    <2>5. isCollection(l) <=> Tail(l) = <<>>
      <3> DEFINE t == Tail(l)
      <3>1. t = <<>> => Len(t) = 0
        BY EmptySeq
      <3>2. t # <<>> => Len(t) \in Nat \ {0}
        BY <2>2, EmptySeq
      <3> HIDE DEF t
      <3> QED
        BY <2>4, <3>1, <3>2 DEF isCollection, t
    <2> QED
      BY <2>1, <2>2, <2>3, <2>5
  <1> QED
    BY <1>2, <1>3

LEMMA Parts ==
  ASSUME NEW S, NEW T, NEW a \in Seq(S), NEW u \in Seq(S), a \o u \in Seq(T)
  PROVE  a \in Seq(T) /\ u \in Seq(T)
  <1> DEFINE w == a \o u
  <1>1. /\ Len(a) \in Nat /\ Len(u) \in Nat /\ Len(w) = Len(a) + Len(u)
        /\ \A i \in 1..Len(w) : w[i] = IF i <= Len(a) THEN a[i] ELSE u[i - Len(a)]
    BY ConcatProperties
  <1>2. \A i \in 1..Len(w) : w[i] \in T
    OBVIOUS
  <1> HIDE DEF w
  <1>3. ASSUME NEW i \in 1..Len(a) PROVE a[i] \in T
    BY <1>1, <1>2
  <1>4. ASSUME NEW i \in 1..Len(u) PROVE u[i] \in T
    <2>1. Len(a) + i \in 1..Len(w) /\ ~(Len(a) + i <= Len(a)) /\ (Len(a) + i) - Len(a) = i
      BY <1>1
    <2> QED
      BY <1>1, <1>2, <2>1
  <1>5. a \in [1..Len(a) -> T] /\ u \in [1..Len(u) -> T]
    <2>1. a \in [1..Len(a) -> S] /\ u \in [1..Len(u) -> S]
      BY LenProperties
    <2> QED
      BY <1>3, <1>4, <2>1
  <1> QED
    BY <1>1, <1>5

(* What stands in the same sequence: one of two fronts is part of the other. *)
nest(S, a, u, b, v) ==
  a \o u = b \o v => \/ \E w \in Seq(S) : b = a \o w
                    \/ \E w \in Seq(S) : a = b \o w /\ v = w \o u

LEMMA FrontsNest ==
  ASSUME NEW S, NEW a \in Seq(S), NEW u \in Seq(S), NEW b \in Seq(S), NEW v \in Seq(S)
  PROVE  nest(S, a, u, b, v)
  <1>0. \A w \in Seq(S) : (b \o w) \o u = b \o (w \o u)
    OBVIOUS
  <1> SUFFICES ASSUME a \o u = b \o v
               PROVE  \/ \E w \in Seq(S) : b = a \o w
                      \/ \E w \in Seq(S) : a = b \o w /\ v = w \o u
    BY DEF nest
  <1>1. Len(a) \in Nat /\ Len(b) \in Nat
    OBVIOUS
  <1> DEFINE s == a \o u
  <1>2. s \in Seq(S) /\ SubSeq(s, 1, Len(a)) = a /\ SubSeq(s, 1, Len(b)) = b
    <2>1. SubSeq(a \o u, 1, Len(a)) = a /\ SubSeq(b \o v, 1, Len(b)) = b
      BY Behind
    <2> QED
      BY <2>1, ConcatProperties
  <1>3. Len(a) <= Len(s) /\ Len(b) <= Len(s)
    BY ConcatProperties
  <1>4. ASSUME NEW x \in Seq(S), NEW y \in Seq(S), Len(x) <= Len(y), Len(y) <= Len(s),
               SubSeq(s, 1, Len(x)) = x, SubSeq(s, 1, Len(y)) = y
        PROVE  \E w \in Seq(S) : y = x \o w
    <2> DEFINE w == SubSeq(s, Len(x) + 1, Len(y))
    <2>1. Len(x) \in Nat /\ Len(y) \in Nat /\ Len(s) \in Nat
      BY <1>2
    <2> HIDE DEF s
    <2>2. Len(x) \in 1 - 1..Len(s) /\ Len(y) \in Len(x)..Len(s) /\ 1 \in 1..(Len(s) + 1)
      BY <1>4, <2>1
    <2>3. SubSeq(s, 1, Len(x)) \o w = SubSeq(s, 1, Len(y))
      BY <1>2, <2>2, ConcatAdjacentSubSeq
    <2>4. w \in Seq(S)
      <3>1. \A i \in (Len(x) + 1)..Len(y) : s[i] \in S
        <4>1. \A i \in (Len(x) + 1)..Len(y) : i \in 1..Len(s)
          BY <1>4, <2>1
        <4> QED
          BY <1>2, <4>1
      <3> QED
        BY <2>1, <3>1, SubSeqProperties
    <2> HIDE DEF w
    <2> QED
      BY <1>4, <2>3, <2>4
  <1> HIDE DEF s
  <1>5. CASE Len(a) <= Len(b)
    BY <1>2, <1>3, <1>4, <1>5
  <1>6. CASE ~(Len(a) <= Len(b))
    <2>1. Len(b) <= Len(a)
      BY <1>1, <1>6
    <2>2. PICK w \in Seq(S) : a = b \o w
      BY <1>2, <1>3, <1>4, <2>1
    <2>3. w \o u \in Seq(S)
      BY ConcatProperties
    <2>4. b \o (w \o u) = b \o v
      BY <1>0, <2>2
    <2>5. w \o u = v
      BY <2>3, <2>4, ConcatSimplifications
    <2> QED
      BY <2>2, <2>5
  <1> QED
    BY <1>5, <1>6

(* A tree has the beginnings of what it has. *)
prefixes(l) == {SubSeq(l, 1, n) : n \in 1..Len(l)}

LEMMA Beginnings ==
  ASSUME NEW S, NEW l \in Seq(S)
  PROVE  \A a : a \in prefixes(l)
                <=> a \in Seq(S) \ {<<>>} /\ \E u \in Seq(S) : l = a \o u
  <1>0. Len(l) \in Nat
    OBVIOUS
  <1>1. ASSUME NEW n \in 1..Len(l)
        PROVE  /\ SubSeq(l, 1, n) \in Seq(S) \ {<<>>}
               /\ \E u \in Seq(S) : l = SubSeq(l, 1, n) \o u
    <2> DEFINE a == SubSeq(l, 1, n)
               u == SubSeq(l, n + 1, Len(l))
    <2>1. n \in Int /\ n <= Len(l) /\ 1 <= n /\ (\A i \in 1..Len(l) : l[i] \in S)
      BY <1>0
    <2>2. a \in Seq(S) /\ Len(a) = n
      <3>1. \A i \in 1..n : l[i] \in S
        BY <1>0, <2>1
      <3>2. n - 1 + 1 = n
        BY <2>1
      <3> QED
        BY <2>1, <3>1, <3>2, SubSeqProperties
    <2>3. u \in Seq(S)
      <3>1. \A i \in (n + 1)..Len(l) : l[i] \in S
        BY <1>0, <2>1
      <3> QED
        BY <1>0, <2>1, <3>1, SubSeqProperties
    <2>4. a \o u = SubSeq(l, 1, Len(l))
      <3>1. n \in 1 - 1..Len(l) /\ Len(l) \in n..Len(l) /\ 1 \in 1..(Len(l) + 1)
        BY <1>0, <2>1
      <3> QED
        BY <3>1, ConcatAdjacentSubSeq
    <2>5. SubSeq(l, 1, Len(l)) = l
      BY SubSeqFull
    <2>6. a # <<>>
      BY <2>1, <2>2, EmptySeq
    <2> HIDE DEF a, u
    <2>7. l = a \o u
      BY <2>4, <2>5
    <2> QED
      BY <2>2, <2>3, <2>6, <2>7 DEF a
  <1>2. ASSUME NEW a \in Seq(S) \ {<<>>}, NEW u \in Seq(S), l = a \o u
        PROVE  a \in prefixes(l)
    <2>1. SubSeq(l, 1, Len(a)) = a
      BY <1>2, Behind
    <2>2. Len(a) \in 1..Len(l)
      <3>1. Len(a) \in Nat \ {0} /\ Len(u) \in Nat
        BY EmptySeq
      <3>2. Len(l) = Len(a) + Len(u)
        BY <1>2, ConcatProperties
      <3> QED
        BY <3>1, <3>2
    <2> QED
      BY <2>1, <2>2 DEF prefixes
  <1>3. ASSUME NEW a \in prefixes(l)
        PROVE  a \in Seq(S) \ {<<>>} /\ \E u \in Seq(S) : l = a \o u
    BY <1>1 DEF prefixes
  <1> QED
    BY <1>2, <1>3
-----------------------------------------------------------------------------
(* Markers: what the functions of marker.ts leave in them. *)
isMarker(m) ==
  /\ m = [folders |-> m.folders, requests |-> m.requests]
  /\ isOrder(m.folders, Folders) /\ isOrder(m.requests, Requests)
placesOf(m) == listed(m.folders) \cup listed(m.requests)
KindOf(l) == IF isRequest(l) THEN Requests ELSE Folders

LEMMA NamesDiffer ==
  /\ Folders \in SUBSET Names /\ Requests \in SUBSET Names
  /\ Folders \cap Requests = {} /\ Collections \cap Requests = {}
  BY NamesAreApart DEF Names

(* A place below a collection: its key and its name. *)
LEMMA Below ==
  ASSUME NEW l, isPlace(l), ~isCollection(l)
  PROVE  /\ Tail(l) \in Seq(Names) \ {<<>>} /\ siblingKey(l) \in Seq(Names)
         /\ Front(Tail(l)) = siblingKey(l) /\ Last(Tail(l)) = Last(l)
         /\ Tail(l) = In(siblingKey(l), Last(l)) /\ Last(l) \in KindOf(l)
         /\ l = In(Front(l), Last(l))
  <1> DEFINE h == Head(l)
             t == Tail(l)
             k == Front(t)
             n == Last(t)
  <1>1. /\ t \in Seq(Names) \ {<<>>} /\ h \in Collections /\ l = <<h>> \o t
        /\ l \in Seq(Words) \ {<<>>}
    BY PlaceIs
  <1>2. k \in Seq(Names) /\ n \in Names /\ t = In(k, n)
    BY <1>1, Ends
  <1>3. h \in Words /\ k \in Seq(Words) /\ n \in Words /\ <<h>> \in Seq(Words)
    <2>1. Names \subseteq Words /\ h \in Words
      BY <1>1 DEF Words
    <2> HIDE DEF k, n, h
    <2>2. k \in Seq(Words)
      BY <1>2, <2>1, SeqMonotonic
    <2> QED
      BY <1>2, <2>1, <2>2
  <1>4. l = In(<<h>> \o k, n)
    <2> HIDE DEF k, n, h, t
    <2>1. In(<<h>> \o k, n) = <<h>> \o In(k, n)
      BY <1>3 DEF In
    <2> QED
      BY <1>1, <1>2, <2>1
  <1>5. Front(l) = <<h>> \o k /\ Last(l) = n
    <2>1. <<h>> \o k \in Seq(Words)
      BY <1>3, ConcatProperties
    <2> HIDE DEF k, n, h, t
    <2> QED
      BY <1>3, <1>4, <2>1, InIs
  <1>6. siblingKey(l) = k
    <2> HIDE DEF k, n, h, t
    <2> QED
      BY <1>3, <1>5, HeadTailConcat DEF siblingKey
  <1>7. n \in KindOf(l)
    BY <1>2, <1>5, NamesAreApart DEF KindOf, isRequest, Names
  <1>8. l = In(Front(l), Last(l))
    BY <1>1, Ends
  <1> QED
    BY <1>1, <1>2, <1>5, <1>6, <1>7, <1>8

LEMMA WithListIs ==
  ASSUME NEW m, isMarker(m), NEW l, NEW names
  PROVE  /\ isRequest(l) => withList(m, l, names) =
              [folders |-> m.folders, requests |-> put(m.requests, siblingKey(l), names)]
         /\ ~isRequest(l) => withList(m, l, names) =
              [folders |-> put(m.folders, siblingKey(l), names), requests |-> m.requests]
  <1>1. m = [folders |-> m.folders, requests |-> m.requests]
    BY DEF isMarker
  <1>2. ASSUME isRequest(l)
        PROVE  withList(m, l, names) =
                 [folders |-> m.folders, requests |-> put(m.requests, siblingKey(l), names)]
    <2>1. field(l) = "requests"
      BY <1>2 DEF field
    <2>2. withList(m, l, names) = [m EXCEPT !["requests"] = put(m["requests"], siblingKey(l), names)]
      BY <2>1 DEF withList
    <2> QED
      BY <1>1, <2>2
  <1>3. ASSUME ~isRequest(l)
        PROVE  withList(m, l, names) =
                 [folders |-> put(m.folders, siblingKey(l), names), requests |-> m.requests]
    <2>1. field(l) = "folders"
      BY <1>3 DEF field
    <2>2. withList(m, l, names) = [m EXCEPT !["folders"] = put(m["folders"], siblingKey(l), names)]
      BY <2>1 DEF withList
    <2> QED
      BY <1>1, <2>2
  <1> QED
    BY <1>2, <1>3

(* A list of siblings is replaced. *)
LEMMA WithListPlaces ==
  ASSUME NEW m, isMarker(m), NEW l, isPlace(l), ~isCollection(l), NEW names \in Seq(KindOf(l))
  PROVE  /\ isMarker(withList(m, l, names))
         /\ \A p \in placesOf(withList(m, l, names)) :
              \/ p \in placesOf(m) /\ p # Tail(l)
              \/ Front(p) = siblingKey(l) /\ Last(p) \in ToSet(names) /\ p = In(Front(p), Last(p))
  <1> DEFINE w == withList(m, l, names)
             key == siblingKey(l)
  <1>1. key \in Seq(Names) /\ Front(Tail(l)) = key /\ Last(Tail(l)) = Last(l) /\ Last(l) \in KindOf(l)
    BY Below
  <1>2. isOrder(m.folders, Folders) /\ isOrder(m.requests, Requests)
    BY DEF isMarker
  <1>3. CASE isRequest(l)
    <2> DEFINE f == put(m.requests, key, names)
    <2>1. w = [folders |-> m.folders, requests |-> f]
      BY <1>3, WithListIs
    <2>2. names \in Seq(Requests)
      BY <1>3 DEF KindOf
    <2> HIDE DEF key
    <2>3. /\ isOrder(f, Requests)
          /\ \A p \in listed(f) : \/ p \in listed(m.requests) /\ Front(p) # key
                                  \/ Front(p) = key /\ Last(p) \in ToSet(names)
      BY <1>1, <1>2, <2>2, NamesDiffer, PutListed
    <2> HIDE DEF f, w
    <2>4. isMarker(w)
      BY <1>2, <2>1, <2>3 DEF isMarker
    <2>5. \A p \in listed(m.folders) : Last(p) \in Folders
      BY <1>2, NamesDiffer, ListedIs
    <2>6. \A p \in listed(f) : p = In(Front(p), Last(p))
      BY <2>3, NamesDiffer, ListedIs
    <2>7. \A p \in listed(m.folders) : p # Tail(l)
      BY <1>1, <1>3, <2>5, NamesDiffer DEF KindOf
    <2>8. ASSUME NEW p \in placesOf(w)
          PROVE  \/ p \in placesOf(m) /\ p # Tail(l)
                 \/ Front(p) = key /\ Last(p) \in ToSet(names) /\ p = In(Front(p), Last(p))
      BY <1>1, <2>1, <2>3, <2>6, <2>7 DEF placesOf
    <2> QED
      BY <2>4, <2>8 DEF w, key
  <1>4. CASE ~isRequest(l)
    <2> DEFINE f == put(m.folders, key, names)
    <2>1. w = [folders |-> f, requests |-> m.requests]
      BY <1>4, WithListIs
    <2>2. names \in Seq(Folders)
      BY <1>4 DEF KindOf
    <2> HIDE DEF key
    <2>3. /\ isOrder(f, Folders)
          /\ \A p \in listed(f) : \/ p \in listed(m.folders) /\ Front(p) # key
                                  \/ Front(p) = key /\ Last(p) \in ToSet(names)
      BY <1>1, <1>2, <2>2, NamesDiffer, PutListed
    <2> HIDE DEF f, w
    <2>4. isMarker(w)
      BY <1>2, <2>1, <2>3 DEF isMarker
    <2>5. \A p \in listed(m.requests) : Last(p) \in Requests
      BY <1>2, NamesDiffer, ListedIs
    <2>6. \A p \in listed(f) : p = In(Front(p), Last(p))
      BY <2>3, NamesDiffer, ListedIs
    <2>7. \A p \in listed(m.requests) : p # Tail(l)
      BY <1>1, <1>4, <2>5, NamesDiffer DEF KindOf
    <2>8. ASSUME NEW p \in placesOf(w)
          PROVE  \/ p \in placesOf(m) /\ p # Tail(l)
                 \/ Front(p) = key /\ Last(p) \in ToSet(names) /\ p = In(Front(p), Last(p))
      BY <1>1, <2>1, <2>3, <2>6, <2>7 DEF placesOf
    <2> QED
      BY <2>4, <2>8 DEF w, key
  <1> QED
    BY <1>3, <1>4

LEMMA ListIs ==
  ASSUME NEW m, isMarker(m), NEW l
  PROVE  /\ list(m, l) \in Seq(KindOf(l))
         /\ \A n \in ToSet(list(m, l)) : In(siblingKey(l), n) \in placesOf(m)
  <1>1. isOrder(m.folders, Folders) /\ isOrder(m.requests, Requests)
    BY DEF isMarker
  <1>2. CASE isRequest(l)
    <2>1. list(m, l) = listAt(m.requests, siblingKey(l))
      BY <1>2 DEF list, field
    <2> QED
      BY <1>1, <1>2, <2>1, NamesDiffer, ListAtIs DEF KindOf, placesOf
  <1>3. CASE ~isRequest(l)
    <2>1. list(m, l) = listAt(m.folders, siblingKey(l))
      BY <1>3 DEF list, field
    <2> QED
      BY <1>1, <1>3, <2>1, NamesDiffer, ListAtIs DEF KindOf, placesOf
  <1> QED
    BY <1>2, <1>3
LEMMA RemovedPlaces ==
  ASSUME NEW m, isMarker(m), NEW l, isPlace(l), ~isCollection(l)
  PROVE  /\ isMarker(removed(m, l))
         /\ \A p \in placesOf(removed(m, l)) : p \in placesOf(m) /\ p # Tail(l)
  <1> DEFINE names == Without(list(m, l), Last(l))
  <1>1. names \in Seq(KindOf(l)) /\ ToSet(names) \subseteq ToSet(list(m, l)) \ {Last(l)}
    BY ListIs, ElementsWithout
  <1>2. removed(m, l) = withList(m, l, names)
    BY DEF removed
  <1>3. Last(Tail(l)) = Last(l)
    BY Below
  <1> HIDE DEF names
  <1>4. isMarker(removed(m, l))
    BY <1>1, <1>2, WithListPlaces
  <1>5. ASSUME NEW p \in placesOf(removed(m, l))
        PROVE  p \in placesOf(m) /\ p # Tail(l)
    <2>1. \/ p \in placesOf(m) /\ p # Tail(l)
          \/ Front(p) = siblingKey(l) /\ Last(p) \in ToSet(names) /\ p = In(Front(p), Last(p))
      BY <1>1, <1>2, WithListPlaces
    <2>2. ASSUME Front(p) = siblingKey(l), Last(p) \in ToSet(names), p = In(Front(p), Last(p))
          PROVE  p \in placesOf(m) /\ p # Tail(l)
      BY <1>1, <1>3, <2>2, ListIs
    <2> QED
      BY <2>1, <2>2
  <1> QED
    BY <1>4, <1>5

LEMMA UpsertedPlaces ==
  ASSUME NEW m, isMarker(m), NEW l, isPlace(l), ~isCollection(l)
  PROVE  /\ isMarker(upserted(m, l))
         /\ \A p \in placesOf(upserted(m, l)) : p \in placesOf(m) \/ p = Tail(l)
  <1> DEFINE rest == Without(list(m, l), Last(l))
             names == Append(rest, Last(l))
  <1>1. rest \in Seq(KindOf(l)) /\ ToSet(rest) \subseteq ToSet(list(m, l))
    BY ListIs, ElementsWithout
  <1>2. upserted(m, l) = withList(m, l, names)
    BY DEF upserted
  <1>3. Last(l) \in KindOf(l) /\ Tail(l) = In(siblingKey(l), Last(l))
    BY Below
  <1>4. names \in Seq(KindOf(l)) /\ ToSet(names) \subseteq ToSet(rest) \cup {Last(l)}
    <2> HIDE DEF rest
    <2>1. /\ names \in Seq(KindOf(l)) /\ Len(names) = Len(rest) + 1 /\ Len(rest) \in Nat
          /\ \A i \in 1..Len(rest) : names[i] = rest[i]
          /\ names[Len(rest) + 1] = Last(l)
      BY <1>1, <1>3, AppendProperties
    <2>2. DOMAIN names = 1..(Len(rest) + 1) /\ DOMAIN rest = 1..Len(rest)
      BY <1>1, <2>1
    <2> HIDE DEF names
    <2>3. ASSUME NEW i \in DOMAIN names
          PROVE  names[i] \in ToSet(rest) \cup {Last(l)}
      <3>1. i \in 1..Len(rest) \/ i = Len(rest) + 1
        BY <2>1, <2>2
      <3> QED
        BY <2>1, <2>2, <3>1 DEF ToSet
    <2> QED
      BY <2>1, <2>3 DEF ToSet
  <1> HIDE DEF names, rest
  <1>5. isMarker(upserted(m, l))
    BY <1>2, <1>4, WithListPlaces
  <1>6. ASSUME NEW p \in placesOf(upserted(m, l))
        PROVE  p \in placesOf(m) \/ p = Tail(l)
    <2>1. \/ p \in placesOf(m) /\ p # Tail(l)
          \/ Front(p) = siblingKey(l) /\ Last(p) \in ToSet(names) /\ p = In(Front(p), Last(p))
      BY <1>2, <1>4, WithListPlaces
    <2>2. ASSUME Front(p) = siblingKey(l), Last(p) \in ToSet(names), p = In(Front(p), Last(p))
          PROVE  p \in placesOf(m) \/ p = Tail(l)
      <3>1. Last(p) \in ToSet(list(m, l)) \/ Last(p) = Last(l)
        BY <1>1, <1>4, <2>2
      <3> QED
        BY <1>3, <2>2, <3>1, ListIs
    <2> QED
      BY <2>1, <2>2
  <1> QED
    BY <1>5, <1>6

LEMMA RenamedPlaces ==
  ASSUME NEW m, isMarker(m), NEW l, isPlace(l), ~isCollection(l),
         NEW to, isPlace(to), ~isCollection(to),
         Front(to) = Front(l), isRequest(to) = isRequest(l)
  PROVE  /\ isMarker(renamed(m, l, to))
         /\ \A p \in placesOf(renamed(m, l, to)) : (p \in placesOf(m) /\ p # Tail(l)) \/ p = Tail(to)
  <1> DEFINE names == ReplaceAll(list(m, l), Last(l), Last(to))
  <1>1. /\ Last(l) \in KindOf(l) /\ Last(to) \in KindOf(l) /\ Tail(to) = In(siblingKey(l), Last(to))
        /\ Last(Tail(l)) = Last(l)
    <2>1. Last(to) \in KindOf(to) /\ Tail(to) = In(siblingKey(to), Last(to))
      BY Below
    <2>2. KindOf(to) = KindOf(l) /\ siblingKey(to) = siblingKey(l)
      BY DEF KindOf, siblingKey
    <2>3. Last(l) \in KindOf(l) /\ Last(Tail(l)) = Last(l)
      BY Below
    <2> QED
      BY <2>1, <2>2, <2>3
  <1>2. list(m, l) \in Seq(KindOf(l))
    BY ListIs
  <1>3. /\ names \in Seq(KindOf(l))
        /\ \A n \in ToSet(names) : n = Last(to) \/ (n \in ToSet(list(m, l)) /\ n # Last(l))
    BY <1>1, <1>2, ElementsReplaced
  <1>4. renamed(m, l, to) = withList(m, l, names)
    BY DEF renamed
  <1> HIDE DEF names
  <1>5. isMarker(renamed(m, l, to))
    BY <1>3, <1>4, WithListPlaces
  <1>6. ASSUME NEW p \in placesOf(renamed(m, l, to))
        PROVE  (p \in placesOf(m) /\ p # Tail(l)) \/ p = Tail(to)
    <2>1. \/ p \in placesOf(m) /\ p # Tail(l)
          \/ Front(p) = siblingKey(l) /\ Last(p) \in ToSet(names) /\ p = In(Front(p), Last(p))
      BY <1>3, <1>4, WithListPlaces
    <2>2. ASSUME Front(p) = siblingKey(l), Last(p) \in ToSet(names), p = In(Front(p), Last(p))
          PROVE  (p \in placesOf(m) /\ p # Tail(l)) \/ p = Tail(to)
      <3>1. Last(p) = Last(to) \/ (Last(p) \in ToSet(list(m, l)) /\ Last(p) # Last(l))
        BY <1>3, <2>2
      <3> QED
        BY <1>1, <2>2, <3>1, ListIs
    <2> QED
      BY <2>1, <2>2
  <1> QED
    BY <1>5, <1>6

(* What is laid over another map, in either order. *)
LEMMA OverPlaces ==
  ASSUME NEW f, isOrder(f.folders, Folders), isOrder(f.requests, Requests),
         NEW g, isOrder(g.folders, Folders), isOrder(g.requests, Requests),
         NEW w, w = [folders |-> first(f.folders, g.folders), requests |-> first(f.requests, g.requests)]
  PROVE  isMarker(w) /\ placesOf(w) \subseteq placesOf(f) \cup placesOf(g)
  <1> DEFINE a == first(f.folders, g.folders)
             b == first(f.requests, g.requests)
  <1>1. isOrder(a, Folders) /\ listed(a) \subseteq listed(f.folders) \cup listed(g.folders)
    BY NamesDiffer, FirstListed
  <1>2. isOrder(b, Requests) /\ listed(b) \subseteq listed(f.requests) \cup listed(g.requests)
    BY NamesDiffer, FirstListed
  <1>3. w.folders = a /\ w.requests = b /\ w = [folders |-> w.folders, requests |-> w.requests]
    OBVIOUS
  <1> HIDE DEF a, b
  <1> QED
    BY <1>1, <1>2, <1>3 DEF isMarker, placesOf

LEMMA OverlaidPlaces ==
  ASSUME NEW m, isMarker(m), NEW extra, isMarker(extra)
  PROVE  isMarker(overlaid(m, extra)) /\ placesOf(overlaid(m, extra)) \subseteq placesOf(m) \cup placesOf(extra)
  BY OverPlaces DEF overlaid, isMarker

(* What is below a place leaves, or is carried to another.                  *)
shifted(m, from, to) ==
  [folders |-> carried(m.folders, from, to), requests |-> carried(m.requests, from, to)]

LEMMA ShiftedPlaces ==
  ASSUME NEW m, isMarker(m), NEW from \in Seq(Names), NEW to \in Seq(Names)
  PROVE  /\ isMarker(shifted(m, from, to))
         /\ \A p \in placesOf(shifted(m, from, to)) :
              \E u \in Seq(Names) \ {<<>>} : p = to \o u /\ from \o u \in placesOf(m)
  <1> DEFINE w == shifted(m, from, to)
             a == carried(m.folders, from, to)
             b == carried(m.requests, from, to)
  <1>1. /\ isOrder(a, Folders)
        /\ \A p \in listed(a) : \E u \in Seq(Names) \ {<<>>} : p = to \o u /\ from \o u \in listed(m.folders)
    BY NamesDiffer, CarriedListed DEF isMarker
  <1>2. /\ isOrder(b, Requests)
        /\ \A p \in listed(b) : \E u \in Seq(Names) \ {<<>>} : p = to \o u /\ from \o u \in listed(m.requests)
    BY NamesDiffer, CarriedListed DEF isMarker
  <1>3. w.folders = a /\ w.requests = b /\ w = [folders |-> w.folders, requests |-> w.requests]
    BY DEF shifted
  <1> HIDE DEF a, b, w
  <1> QED
    BY <1>1, <1>2, <1>3 DEF isMarker, placesOf, w

LEMMA LeftPlaces ==
  ASSUME NEW m, isMarker(m), NEW from,
         NEW w, w = [folders |-> without(m.folders, from), requests |-> without(m.requests, from)]
  PROVE  /\ isMarker(w)
         /\ \A p \in placesOf(w) : p \in placesOf(m) /\ ~IsPrefix(from, Front(p))
  <1> DEFINE a == without(m.folders, from)
             b == without(m.requests, from)
  <1>1. isOrder(a, Folders) /\ \A p \in listed(a) : p \in listed(m.folders) /\ ~IsPrefix(from, Front(p))
    BY NamesDiffer, WithoutListed DEF isMarker
  <1>2. isOrder(b, Requests) /\ \A p \in listed(b) : p \in listed(m.requests) /\ ~IsPrefix(from, Front(p))
    BY NamesDiffer, WithoutListed DEF isMarker
  <1>3. w.folders = a /\ w.requests = b /\ w = [folders |-> w.folders, requests |-> w.requests]
    OBVIOUS
  <1> HIDE DEF a, b
  <1> QED
    BY <1>1, <1>2, <1>3 DEF isMarker, placesOf

isRekeyed(r, m, from, to) == r \in rekeyed(m, from, to)

LEMMA RekeyedPlaces ==
  ASSUME NEW m, isMarker(m), NEW from \in Seq(Names), NEW to \in Seq(Names), NEW r, isRekeyed(r, m, from, to)
  PROVE  /\ isMarker(r)
         /\ \A p \in placesOf(r) :
              \/ p \in placesOf(m) /\ ~IsPrefix(from, Front(p))
              \/ \E u \in Seq(Names) \ {<<>>} : p = to \o u /\ from \o u \in placesOf(m)
  <1> DEFINE old == [folders |-> without(m.folders, from), requests |-> without(m.requests, from)]
             new == shifted(m, from, to)
  <1>1. \/ r = [folders |-> first(new.folders, old.folders), requests |-> first(new.requests, old.requests)]
        \/ r = [folders |-> first(old.folders, new.folders), requests |-> first(old.requests, new.requests)]
    BY DEF isRekeyed, rekeyed, shifted
  <1>2. isMarker(old) /\ \A p \in placesOf(old) : p \in placesOf(m) /\ ~IsPrefix(from, Front(p))
    BY LeftPlaces
  <1>3. /\ isMarker(new)
        /\ \A p \in placesOf(new) : \E u \in Seq(Names) \ {<<>>} : p = to \o u /\ from \o u \in placesOf(m)
    BY ShiftedPlaces
  <1> HIDE DEF old, new
  <1>4. isMarker(r) /\ placesOf(r) \subseteq placesOf(old) \cup placesOf(new)
    <2>1. /\ isOrder(old.folders, Folders) /\ isOrder(old.requests, Requests)
          /\ isOrder(new.folders, Folders) /\ isOrder(new.requests, Requests)
      BY <1>2, <1>3 DEF isMarker
    <2> QED
      BY <1>1, <2>1, OverPlaces
  <1> QED
    BY <1>2, <1>3, <1>4

LEMMA ExtractedPlaces ==
  ASSUME NEW m, isMarker(m), NEW from, isPlace(from), NEW to, isPlace(to)
  PROVE  /\ isMarker(extracted(m, from, to))
         /\ \A p \in placesOf(extracted(m, from, to)) :
              \E u \in Seq(Names) \ {<<>>} : p = Tail(to) \o u /\ Tail(from) \o u \in placesOf(m)
  <1>1. Tail(from) \in Seq(Names) /\ Tail(to) \in Seq(Names)
    BY PlaceIs
  <1>2. extracted(m, from, to) = shifted(m, Tail(from), Tail(to))
    BY DEF extracted, shifted
  <1> DEFINE a == Tail(from)
             b == Tail(to)
  <1> HIDE DEF a, b
  <1>3. /\ isMarker(shifted(m, a, b))
        /\ \A p \in placesOf(shifted(m, a, b)) :
             \E u \in Seq(Names) \ {<<>>} : p = b \o u /\ a \o u \in placesOf(m)
    <2>1. a \in Seq(Names) /\ b \in Seq(Names)
      BY <1>1 DEF a, b
    <2> QED
      BY <2>1, ShiftedPlaces
  <1> QED
    BY <1>2, <1>3 DEF a, b

LEMMA DroppedPlaces ==
  ASSUME NEW m, isMarker(m), NEW l, isPlace(l), ~isCollection(l)
  PROVE  /\ isMarker(dropped(m, l))
         /\ \A p \in placesOf(dropped(m, l)) :
              p \in placesOf(m) /\ p # Tail(l) /\ ~IsPrefix(Tail(l), Front(p))
  <1> DEFINE rest == removed(m, l)
             w == [folders |-> without(rest.folders, Tail(l)), requests |-> without(rest.requests, Tail(l))]
  <1>1. isMarker(rest) /\ \A p \in placesOf(rest) : p \in placesOf(m) /\ p # Tail(l)
    BY RemovedPlaces
  <1>2. dropped(m, l) = w
    BY DEF dropped
  <1> HIDE DEF rest
  <1>3. isMarker(w) /\ \A p \in placesOf(w) : p \in placesOf(rest) /\ ~IsPrefix(Tail(l), Front(p))
    BY <1>1, LeftPlaces
  <1> HIDE DEF w
  <1> QED
    BY <1>1, <1>2, <1>3
-----------------------------------------------------------------------------
(* The disk. *)
left(places, from) == {k \in places : ~IsPrefix(from, k)}
moved(places, from, to) == {there(k, from, to) : k \in {p \in places : IsPrefix(from, p)}}

LEMMA PrefixesAre ==
  ASSUME NEW l, isPlace(l)
  PROVE  /\ \A a : a \in prefixes(l)
                   <=> a \in Seq(Words) \ {<<>>} /\ \E u \in Seq(Words) : l = a \o u
         /\ l \in prefixes(l)
  <1>1. l \in Seq(Words) \ {<<>>}
    BY PlaceIs
  <1>2. \A a : a \in prefixes(l)
                 <=> a \in Seq(Words) \ {<<>>} /\ \E u \in Seq(Words) : l = a \o u
    BY <1>1, Beginnings
  <1>3. l = l \o <<>> /\ <<>> \in Seq(Words)
    BY <1>1
  <1> QED
    BY <1>1, <1>2, <1>3

LEMMA TreeHas ==
  ASSUME NEW places, isTree(places)
  PROVE  /\ \A l \in places : isPlace(l)
         /\ \A l \in places : prefixes(l) \subseteq places
  BY DEF isTree, prefixes

LEMMA TreeIf ==
  ASSUME NEW places, \A l \in places : isPlace(l), \A l \in places : prefixes(l) \subseteq places
  PROVE  isTree(places)
  BY DEF isTree, prefixes

LEMMA TreeUnion ==
  ASSUME NEW A, isTree(A), NEW B, isTree(B)
  PROVE  isTree(A \cup B)
  BY TreeHas, TreeIf

(* The front of a place is a place of the same collection.                  *)
LEMMA FrontIsPlace ==
  ASSUME NEW a \in Seq(Words) \ {<<>>}, NEW u \in Seq(Words), isPlace(a \o u)
  PROVE  isPlace(a) /\ Head(a) = Head(a \o u) /\ u \in Seq(Names) /\ Tail(a \o u) = Tail(a) \o u
  <1> DEFINE l == a \o u
             h == Head(a)
             t == Tail(a)
  <1>1. a = <<h>> \o t /\ h \in Words /\ t \in Seq(Words)
    BY Ends
  <1>2. t \o u \in Seq(Words) /\ <<h>> \in Seq(Words)
    BY <1>1, ConcatProperties
  <1>3. a \o u = <<h>> \o (t \o u)
    <2> HIDE DEF h, t
    <2>1. (<<h>> \o t) \o u = <<h>> \o (t \o u)
      BY <1>1, <1>2
    <2> QED
      BY <1>1, <2>1
  <1>4. Head(l) = h /\ Tail(l) = t \o u
    <2> HIDE DEF h, t
    <2>1. Head(<<h>> \o (t \o u)) = h /\ Tail(<<h>> \o (t \o u)) = t \o u
      BY <1>1, <1>2, HeadTailConcat
    <2> QED
      BY <1>3, <2>1
  <1>5. h \in Collections /\ t \o u \in Seq(Names)
    BY <1>4, PlaceIs
  <1>6. t \in Seq(Names) /\ u \in Seq(Names)
    BY <1>1, <1>5, Parts
  <1>7. isPlace(a)
    <2> HIDE DEF h, t
    <2> QED
      BY <1>1, <1>5, <1>6, PlaceIs
  <1> QED
    BY <1>4, <1>6, <1>7

LEMMA TreeOfPrefixes ==
  ASSUME NEW l, isPlace(l)
  PROVE  isTree(prefixes(l))
  <1>1. l \in Seq(Words) \ {<<>>}
    BY PlaceIs
  <1>2. ASSUME NEW a \in prefixes(l)
        PROVE  isPlace(a) /\ prefixes(a) \subseteq prefixes(l)
    <2>1. PICK u \in Seq(Words) : l = a \o u
      BY PrefixesAre
    <2>2. a \in Seq(Words) \ {<<>>}
      BY PrefixesAre
    <2>3. isPlace(a)
      BY <2>1, <2>2, FrontIsPlace
    <2>4. ASSUME NEW b \in prefixes(a)
          PROVE  b \in prefixes(l)
      <3>1. PICK v \in Seq(Words) : a = b \o v
        BY <2>3, PrefixesAre
      <3>2. b \in Seq(Words) \ {<<>>}
        BY <2>3, PrefixesAre
      <3>3. v \o u \in Seq(Words) /\ (b \o v) \o u = b \o (v \o u)
        BY <3>2
      <3>4. l = b \o (v \o u)
        BY <2>1, <3>1, <3>3
      <3> QED
        BY <3>2, <3>3, <3>4, PrefixesAre
    <2> QED
      BY <2>3, <2>4
  <1> QED
    BY <1>2, TreeIf

LEMMA TreeLeft ==
  ASSUME NEW places, isTree(places), NEW from, isPlace(from)
  PROVE  isTree(left(places, from))
  <1>0. from \in Seq(Words)
    BY PlaceIs
  <1>1. ASSUME NEW l \in left(places, from), NEW a \in prefixes(l)
        PROVE  a \in left(places, from)
    <2>1. l \in places /\ ~IsPrefix(from, l) /\ isPlace(l) /\ l \in Seq(Words) /\ a \in places
      BY TreeHas, PlaceIs DEF left
    <2>2. PICK u \in Seq(Words) : l = a \o u
      BY <2>1, PrefixesAre
    <2>3. a \in Seq(Words)
      BY <2>1, PrefixesAre
    <2>4. ASSUME IsPrefix(from, a)
          PROVE  FALSE
      <3>1. PICK v \in Seq(Words) : a = from \o v
        BY <1>0, <2>3, <2>4, PrefixSplits
      <3>2. (from \o v) \o u = from \o (v \o u) /\ v \o u \in Seq(Words)
        BY <1>0
      <3>3. l = from \o (v \o u)
        BY <2>2, <3>1, <3>2
      <3>4. IsPrefix(from, l)
        BY <1>0, <2>1, <3>2, <3>3, PrefixSplits
      <3> QED
        BY <2>1, <3>4
    <2> QED
      BY <2>1, <2>4 DEF left
  <1>2. \A l \in left(places, from) : isPlace(l)
    BY TreeHas DEF left
  <1> QED
    BY <1>1, <1>2, TreeIf

LEMMA MovedIs ==
  ASSUME NEW places, isTree(places), NEW from, isPlace(from), NEW to, isPlace(to)
  PROVE  /\ \A k \in moved(places, from, to) :
              \E v \in Seq(Names) : k = to \o v /\ from \o v \in places
         /\ \A v \in Seq(Words) : from \o v \in places => to \o v \in moved(places, from, to)
  <1>0. from \in Seq(Words) \ {<<>>} /\ to \in Seq(Words)
    BY PlaceIs
  <1>1. ASSUME NEW k \in moved(places, from, to)
        PROVE  \E v \in Seq(Names) : k = to \o v /\ from \o v \in places
    <2>1. PICK p \in places : IsPrefix(from, p) /\ k = there(p, from, to)
      BY DEF moved
    <2>2. isPlace(p) /\ p \in Seq(Words)
      BY TreeHas, PlaceIs
    <2>3. PICK v \in Seq(Words) : p = from \o v
      BY <1>0, <2>1, <2>2, PrefixSplits
    <2>4. v \in Seq(Names)
      BY <1>0, <2>2, <2>3, FrontIsPlace
    <2>5. there(from \o v, from, to) = to \o v
      BY <1>0, ThereIs
    <2> QED
      BY <2>1, <2>3, <2>4, <2>5
  <1>2. ASSUME NEW v \in Seq(Words), from \o v \in places
        PROVE  to \o v \in moved(places, from, to)
    <2>1. there(from \o v, from, to) = to \o v
      BY <1>0, ThereIs
    <2>2. IsPrefix(from, from \o v)
      BY <1>0, Behind
    <2> QED
      BY <1>2, <2>1, <2>2 DEF moved
  <1> QED
    BY <1>1, <1>2

LEMMA TreeMoved ==
  ASSUME NEW places, isTree(places), NEW from, isPlace(from), NEW to, isPlace(to)
  PROVE  isTree(moved(places, from, to) \cup prefixes(to))
  <1> DEFINE new == moved(places, from, to) \cup prefixes(to)
  <1>0. from \in Seq(Words) \ {<<>>} /\ to \in Seq(Words) \ {<<>>} /\ Names \subseteq Words
    BY PlaceIs DEF Words
  <1>1. isTree(prefixes(to))
    BY TreeOfPrefixes
  <1>2. ASSUME NEW l \in moved(places, from, to)
        PROVE  isPlace(l) /\ prefixes(l) \subseteq new
    <2>1. PICK v \in Seq(Names) : l = to \o v /\ from \o v \in places
      BY MovedIs
    <2>2. v \in Seq(Words)
      BY <1>0, SeqMonotonic
    <2>3. isPlace(l)
      <3>1. to = <<Head(to)>> \o Tail(to) /\ Head(to) \in Collections /\ Tail(to) \in Seq(Names)
            /\ <<Head(to)>> \in Seq(Words) /\ Tail(to) \in Seq(Words)
        BY PlaceIs
      <3> DEFINE h == <<Head(to)>>
                 t == Tail(to)
      <3>2. (h \o t) \o v = h \o (t \o v)
        <4> HIDE DEF h, t
        <4>1. h \in Seq(Words) /\ t \in Seq(Words)
          BY <3>1 DEF h, t
        <4> QED
          BY <2>2, <4>1
      <3>3. t \o v \in Seq(Names)
        BY <3>1
      <3>4. isPlace(h \o (t \o v))
        BY <3>1, <3>3, PlaceIs
      <3> HIDE DEF h, t
      <3>5. to = h \o t
        BY <3>1 DEF h, t
      <3> QED
        BY <2>1, <3>2, <3>4, <3>5
    <2>4. ASSUME NEW a \in prefixes(l)
          PROVE  a \in new
      <3>1. PICK u \in Seq(Words) : l = a \o u
        BY <2>3, PrefixesAre
      <3>2. a \in Seq(Words) \ {<<>>}
        BY <2>3, PrefixesAre
      <3>3. CASE \E w \in Seq(Words) : to = a \o w
        BY <3>2, <3>3, PrefixesAre
      <3>4. CASE \E w \in Seq(Words) : a = to \o w /\ v = w \o u
        <4>1. PICK w \in Seq(Words) : a = to \o w /\ v = w \o u
          BY <3>4
        <4>2. from \o (w \o u) = (from \o w) \o u /\ from \o w \in Seq(Words) \ {<<>>}
          BY <1>0, ConcatSimplifications
        <4>3. (from \o w) \o u \in places
          BY <2>1, <4>1, <4>2
        <4>4. isPlace((from \o w) \o u) /\ prefixes((from \o w) \o u) \subseteq places
          BY <4>3, TreeHas
        <4>5. from \o w \in places
          BY <4>2, <4>4, PrefixesAre
        <4> QED
          BY <4>1, <4>5, MovedIs
      <3>5. a \o u = to \o v => \/ \E w \in Seq(Words) : to = a \o w
                                \/ \E w \in Seq(Words) : a = to \o w /\ v = w \o u
        <4>1. a \in Seq(Words) /\ to \in Seq(Words) /\ u \in Seq(Words)
          BY <1>0, <3>1, <3>2
        <4>2. nest(Words, a, u, to, v)
          BY <2>2, <4>1, FrontsNest
        <4> QED
          BY <4>2 DEF nest
      <3>6. a \o u = to \o v
        BY <2>1, <3>1
      <3> QED
        BY <3>3, <3>4, <3>5, <3>6
    <2> QED
      BY <2>3, <2>4
  <1>3. ASSUME NEW l \in new
        PROVE  isPlace(l) /\ prefixes(l) \subseteq new
    BY <1>1, <1>2, TreeHas
  <1> HIDE DEF new
  <1>4. isTree(new)
    BY <1>3, TreeIf
  <1> QED
    BY <1>4 DEF new
(* What a command keeps of the disk, and what it brings there.              *)
Covers(op, old, new) ==
  /\ op.kind \in {"create", "duplicate"} => old \subseteq new
  /\ op.kind # "create" => left(old, op.from) \subseteq new
  /\ op.kind # "delete" => op.to \in new
  /\ op.kind \in {"rename", "duplicate", "move"} =>
       \A u \in Seq(Words) : op.from \o u \in old => op.to \o u \in new

LEMMA FirstDomain ==
  ASSUME NEW f, NEW g
  PROVE  DOMAIN first(f, g) = DOMAIN f \cup DOMAIN g
  BY DEF first

LEMMA Domains ==
  /\ \A f, from : DOMAIN without(f, from) = left(DOMAIN f, from)
  /\ \A f, from, to : DOMAIN carried(f, from, to) = moved(DOMAIN f, from, to)
  BY DEF without, carried, below, left, moved

LEMMA MadeIs ==
  ASSUME NEW l, isPlace(l), NEW id
  PROVE  DOMAIN made(l, id) \cup {l} = prefixes(l)
  <1>1. l \in Seq(Words) \ {<<>>} /\ l \in Seq(Words)
    BY PlaceIs
  <1>2. Len(l) \in Nat \ {0}
    BY <1>1, EmptySeq
  <1>3. SubSeq(l, 1, Len(l)) = l
    BY <1>1, SubSeqFull
  <1>4. DOMAIN made(l, id) = {SubSeq(l, 1, n) : n \in 1..(Len(l) - 1)}
    BY DEF made
  <1> DEFINE k == Len(l)
             b(n) == SubSeq(l, 1, n)
  <1>5. {b(n) : n \in 1..(k - 1)} \cup {b(k)} = {b(n) : n \in 1..k}
    <2>1. k \in Nat \ {0}
      BY <1>2
    <2> HIDE DEF k, b
    <2>2. 1..k = (1..(k - 1)) \cup {k}
      BY <2>1
    <2> QED
      BY <2>2
  <1> QED
    BY <1>3, <1>4, <1>5 DEF prefixes

LEMMA ChangedPlaces ==
  ASSUME isTree(Places), NEW op, isOp(op), op.kind # "reorder",
         op.kind = "create" \/ op.from \in Places, NEW j
  PROVE  isTree(DOMAIN Changed(j, op)) /\ Covers(op, Places, DOMAIN Changed(j, op))
  <1> DEFINE to == op.to
             from == op.from
             D == Places
             new == DOMAIN Changed(j, op)
             add == made(to, <<j>>)
             tip == [l \in {to} |-> <<j>>]
             up == DOMAIN add
             all == moved(D, from, to)
  <1>1. DOMAIN tip = {to}
    OBVIOUS
  <1>2. ASSUME op.kind # "create" PROVE isPlace(from) /\ isTree(left(D, from)) /\ from \in D
    BY <1>2, TreeLeft DEF isOp
  <1>3. ASSUME op.kind # "delete"
        PROVE  isPlace(to) /\ up \cup {to} = prefixes(to) /\ isTree(prefixes(to)) /\ to \in prefixes(to)
    BY <1>3, MadeIs, TreeOfPrefixes, PrefixesAre DEF isOp
  <1>4. ASSUME op.kind \notin {"create", "delete"}
        PROVE  /\ isTree(all \cup prefixes(to)) /\ to \in all
               /\ \A u \in Seq(Words) : from \o u \in D => to \o u \in all
    <2>1. isPlace(from) /\ isPlace(to) /\ from \in D
      BY <1>2, <1>3, <1>4
    <2> HIDE DEF from, to, D
    <2>2. isTree(D)
      BY DEF D
    <2>3. isTree(all \cup prefixes(to))
      BY <2>1, <2>2, TreeMoved
    <2>4. \A u \in Seq(Words) : from \o u \in D => to \o u \in all
      BY <2>1, <2>2, MovedIs
    <2>5. from \in Seq(Words) /\ to \in Seq(Words)
      BY <2>1, PlaceIs
    <2>6. <<>> \in Seq(Words) /\ from \o <<>> = from /\ to \o <<>> = to
      BY <2>5
    <2>7. to \in all
      BY <2>1, <2>4, <2>6
    <2> QED
      BY <2>3, <2>4, <2>7
  <1>5. CASE op.kind = "create"
    <2>1. new = DOMAIN tip \cup (D \cup up) \/ new = D \cup (up \cup DOMAIN tip)
      <3>1. \/ Changed(j, op) = first(tip, first(disk, add))
            \/ Changed(j, op) = first(disk, first(add, tip))
        BY <1>5 DEF Changed
      <3> HIDE DEF add, tip
      <3>2. /\ DOMAIN first(disk, add) = DOMAIN disk \cup DOMAIN add
            /\ DOMAIN first(add, tip) = DOMAIN add \cup DOMAIN tip
        BY FirstDomain
      <3>3. /\ DOMAIN first(tip, first(disk, add)) = DOMAIN tip \cup DOMAIN first(disk, add)
            /\ DOMAIN first(disk, first(add, tip)) = DOMAIN disk \cup DOMAIN first(add, tip)
        BY FirstDomain
      <3> QED
        BY <3>1, <3>2, <3>3 DEF Places
    <2>2. new = D \cup prefixes(to)
      BY <1>1, <1>3, <1>5, <2>1
    <2> HIDE DEF new, D, up, tip, all
    <2>3. isTree(D)
      BY DEF D
    <2> QED
      BY <1>3, <1>5, <2>2, <2>3, TreeUnion DEF Covers, new, D
  <1>6. CASE op.kind = "delete"
    <2>1. new = left(D, from)
      BY <1>6, Domains DEF Changed, Places
    <2> QED
      BY <1>2, <1>6, <2>1 DEF Covers
  <1>7. CASE op.kind = "duplicate"
    <2>1. new = DOMAIN carried(disk, from, to) \cup (D \cup up)
      <3> DEFINE copy == [l \in DOMAIN carried(disk, from, to) |-> <<j>>]
      <3>1. Changed(j, op) = first(copy, first(disk, add))
        BY <1>7 DEF Changed
      <3>2. DOMAIN copy = DOMAIN carried(disk, from, to)
        OBVIOUS
      <3> HIDE DEF add, copy
      <3>3. DOMAIN first(disk, add) = DOMAIN disk \cup DOMAIN add
        BY FirstDomain
      <3>4. DOMAIN first(copy, first(disk, add)) = DOMAIN copy \cup DOMAIN first(disk, add)
        BY FirstDomain
      <3> QED
        BY <3>1, <3>2, <3>3, <3>4 DEF Places
    <2>2. new = all \cup (D \cup up)
      BY <2>1, Domains DEF Places
    <2>3. new = D \cup (all \cup prefixes(to))
      BY <1>3, <1>4, <1>7, <2>2
    <2>4. left(D, from) \subseteq D
      BY DEF left
    <2> HIDE DEF new, D, up, tip, all
    <2>5. isTree(D)
      BY DEF D
    <2>6. isTree(new)
      BY <1>4, <1>7, <2>3, <2>5, TreeUnion
    <2> QED
      BY <1>4, <1>7, <2>3, <2>4, <2>6 DEF Covers, new, D
  <1>8. CASE op.kind \in {"rename", "move"}
    <2>1. new = DOMAIN carried(disk, from, to) \cup (DOMAIN without(disk, from) \cup up)
      <3>1. Changed(j, op) = first(carried(disk, from, to), first(without(disk, from), add))
        BY <1>8 DEF Changed
      <3> DEFINE gone == without(disk, from)
                 came == carried(disk, from, to)
      <3>2. Changed(j, op) = first(came, first(gone, add))
        BY <3>1
      <3> HIDE DEF add, gone, came
      <3>3. DOMAIN first(gone, add) = DOMAIN gone \cup DOMAIN add
        BY FirstDomain
      <3>4. DOMAIN first(came, first(gone, add)) = DOMAIN came \cup DOMAIN first(gone, add)
        BY FirstDomain
      <3> QED
        BY <3>2, <3>3, <3>4 DEF Places, gone, came
    <2>2. new = all \cup (left(D, from) \cup up)
      BY <2>1, Domains DEF Places
    <2>3. new = left(D, from) \cup (all \cup prefixes(to))
      BY <1>3, <1>4, <1>8, <2>2
    <2> HIDE DEF new, D, up, tip, all
    <2>4. isTree(new)
      BY <1>2, <1>4, <1>8, <2>3, TreeUnion
    <2> QED
      BY <1>4, <1>8, <2>3, <2>4 DEF Covers, new, D
  <1> QED
    BY <1>5, <1>6, <1>7, <1>8 DEF isOp, Kinds
-----------------------------------------------------------------------------
(* Markers and the disk. *)
LEMMA Above ==
  ASSUME NEW S, NEW f \in Seq(S), NEW p \in Seq(S)
  PROVE  p # f /\ IsPrefix(f, p) => IsPrefix(f, Front(p))
  <1>0. ASSUME NEW k \in Seq(S), NEW n \in S
        PROVE  f \o k \in Seq(S) /\ In(f \o k, n) = f \o In(k, n)
    BY AppendIsBehind
  <1> SUFFICES ASSUME p # f, IsPrefix(f, p) PROVE IsPrefix(f, Front(p))
    OBVIOUS
  <1>1. PICK u \in Seq(S) : p = f \o u
    BY PrefixSplits
  <1>2. u # <<>>
    <2>1. f \o <<>> = f
      OBVIOUS
    <2> QED
      BY <1>1, <2>1
  <1> DEFINE k == Front(u)
             n == Last(u)
  <1>3. k \in Seq(S) /\ n \in S /\ u = In(k, n)
    BY <1>2, Ends
  <1> HIDE DEF k, n
  <1>4. In(f \o k, n) = f \o In(k, n)
    BY <1>0, <1>3
  <1>5. p = In(f \o k, n)
    BY <1>1, <1>3, <1>4
  <1>6. f \o k \in Seq(S)
    BY <1>3
  <1>7. Front(p) = f \o k
    BY <1>3, <1>5, <1>6, InIs
  <1>8. IsPrefix(f, f \o k)
    BY <1>3, Behind
  <1> QED
    BY <1>7, <1>8

LEMMA Whole ==
  ASSUME NEW l, isPlace(l), NEW u \in Seq(Names)
  PROVE  <<Head(l)>> \o (Tail(l) \o u) = l \o u /\ Tail(l) \o u \in Seq(Names)
  <1> DEFINE h == <<Head(l)>>
             t == Tail(l)
  <1>1. l = h \o t /\ h \in Seq(Words) /\ t \in Seq(Words) /\ t \in Seq(Names)
    BY PlaceIs
  <1>2. u \in Seq(Words)
    BY SeqMonotonic DEF Words
  <1> HIDE DEF h, t
  <1>3. (h \o t) \o u = h \o (t \o u)
    BY <1>1, <1>2
  <1>4. t \o u \in Seq(Names)
    BY <1>1
  <1>5. h \o (t \o u) = l \o u
    BY <1>1, <1>3
  <1> QED
    BY <1>4, <1>5 DEF h, t

LEMMA InsideOf ==
  ASSUME NEW from, isPlace(from), NEW c \in Collections, NEW p \in Seq(Names),
         IsPrefix(from, <<c>> \o p)
  PROVE  c = Head(from) /\ IsPrefix(Tail(from), p)
  <1> DEFINE l == <<c>> \o p
             t == Tail(from)
  <1>1. isPlace(l) /\ Head(l) = c /\ Tail(l) = p
    BY PlaceIs
  <1>2. from \in Seq(Words) \ {<<>>} /\ l \in Seq(Words) /\ t \in Seq(Names)
    BY <1>1, PlaceIs
  <1>3. IsPrefix(from, l)
    OBVIOUS
  <1> HIDE DEF l
  <1>4. PICK u \in Seq(Words) : l = from \o u
    BY <1>2, <1>3, PrefixSplits
  <1>5. /\ Head(from) = Head(from \o u) /\ u \in Seq(Names)
        /\ Tail(from \o u) = t \o u
    BY <1>1, <1>2, <1>4, FrontIsPlace
  <1> HIDE DEF t
  <1>6. c = Head(from) /\ p = t \o u
    BY <1>1, <1>4, <1>5
  <1>7. IsPrefix(t, t \o u)
    BY <1>2, <1>5, Behind
  <1> QED
    BY <1>6, <1>7 DEF t

(* What a marker lists outside of a place stays where the place is left.    *)
LEMMA StaysOutside ==
  ASSUME NEW from, isPlace(from), NEW old, NEW c \in Collections, NEW p \in Seq(Names) \ {<<>>},
         <<c>> \o p \in old,
         c # Head(from) \/ (p # Tail(from) /\ ~IsPrefix(Tail(from), Front(p)))
  PROVE  <<c>> \o p \in left(old, from)
  <1> SUFFICES ASSUME IsPrefix(from, <<c>> \o p) PROVE FALSE
    BY DEF left
  <1> DEFINE t == Tail(from)
  <1>1. c = Head(from) /\ IsPrefix(t, p)
    BY InsideOf
  <1>2. t \in Seq(Names)
    BY PlaceIs
  <1>3. p # t => IsPrefix(t, Front(p))
    <2> HIDE DEF t
    <2> QED
      BY <1>1, <1>2, Above
  <1> QED
    BY <1>1, <1>3

LEMMA MarkerPlaces ==
  ASSUME NEW m, isMarker(m), NEW p \in placesOf(m)
  PROVE  p \in Seq(Names) \ {<<>>}
  BY NamesDiffer, ListedIs DEF isMarker, placesOf

LEMMA MatchesIs ==
  ASSUME NEW m, NEW c, NEW places
  PROVE  matches(m, c, places) <=> isMarker(m) /\ \A p \in placesOf(m) : <<c>> \o p \in places
  BY DEF matches, isMarker, placesOf

LEMMA MatchesMore ==
  ASSUME NEW m, NEW c, NEW places, matches(m, c, places), NEW more, places \subseteq more
  PROVE  matches(m, c, more)
  BY MatchesIs

LEMMA BlankMatches ==
  ASSUME NEW c, NEW places
  PROVE  matches(Blank, c, places)
  <1>1. Blank.folders = <<>> /\ Blank.requests = <<>> /\ Blank = [folders |-> Blank.folders, requests |-> Blank.requests]
    BY DEF Blank
  <1>2. DOMAIN <<>> = {} /\ <<>> = [k \in {} |-> <<>>[k]]
    OBVIOUS
  <1>3. \A kind : isOrder(<<>>, kind)
    BY <1>2 DEF isOrder
  <1>4. listed(<<>>) = {}
    BY <1>2 DEF listed
  <1> QED
    BY <1>1, <1>3, <1>4 DEF matches

LEMMA OthersStay ==
  ASSUME NEW from, isPlace(from), NEW old, NEW c \in Collections, c # Head(from),
         NEW m, matches(m, c, old)
  PROVE  matches(m, c, left(old, from))
  BY MatchesIs, MarkerPlaces, StaysOutside
(* What stands below the place that is carried is found below the new one.   *)
LEMMA CarriedAlong ==
  ASSUME NEW op, op.kind \in {"rename", "duplicate", "move"}, isPlace(op.from), isPlace(op.to),
         NEW old, NEW new, Covers(op, old, new)
  PROVE  \A u \in Seq(Names) : <<Head(op.from)>> \o (Tail(op.from) \o u) \in old
                                  => <<Head(op.to)>> \o (Tail(op.to) \o u) \in new
  <1> TAKE u \in Seq(Names)
  <1>1. u \in Seq(Words)
    BY SeqMonotonic DEF Words
  <1>2. <<Head(op.from)>> \o (Tail(op.from) \o u) = op.from \o u
    BY Whole
  <1>3. <<Head(op.to)>> \o (Tail(op.to) \o u) = op.to \o u
    BY Whole
  <1>4. op.from \o u \in old => op.to \o u \in new
    BY <1>1 DEF Covers
  <1> QED
    BY <1>2, <1>3, <1>4

LEMMA CopiedMatches ==
  ASSUME NEW op, op.kind \in {"rename", "duplicate"}, isPlace(op.from), isPlace(op.to),
         isCollection(op.from), isCollection(op.to),
         NEW old, NEW new, Covers(op, old, new),
         NEW m, matches(m, Head(op.from), old)
  PROVE  matches(m, Head(op.to), new)
  <1>1. Tail(op.from) = <<>> /\ Tail(op.to) = <<>>
    BY PlaceIs
  <1>2. ASSUME NEW p \in placesOf(m)
        PROVE  <<Head(op.to)>> \o p \in new
    <2>1. p \in Seq(Names) /\ <<Head(op.from)>> \o p \in old
      BY MatchesIs, MarkerPlaces
    <2>2. <<>> \o p = p
      BY <2>1
    <2>3. <<Head(op.from)>> \o (Tail(op.from) \o p) \in old
      BY <1>1, <2>1, <2>2
    <2>4. <<Head(op.to)>> \o (Tail(op.to) \o p) \in new
      BY <2>1, <2>3, CarriedAlong
    <2> QED
      BY <1>1, <2>2, <2>4
  <1> QED
    BY <1>2, MatchesIs

LEMMA UpsertedMatches ==
  ASSUME NEW to, isPlace(to), ~isCollection(to),
         NEW m, isMarker(m), NEW new, to \in new,
         \A p \in placesOf(m) : <<Head(to)>> \o p \in new
  PROVE  matches(upserted(m, to), Head(to), new)
  <1>1. <<Head(to)>> \o Tail(to) \in new
    BY PlaceIs
  <1>2. /\ isMarker(upserted(m, to))
        /\ \A p \in placesOf(upserted(m, to)) : p \in placesOf(m) \/ p = Tail(to)
    BY UpsertedPlaces
  <1> QED
    BY <1>1, <1>2, MatchesIs

LEMMA DroppedMatches ==
  ASSUME NEW from, isPlace(from), ~isCollection(from), NEW old, NEW new, left(old, from) \subseteq new,
         NEW m, matches(m, Head(from), old)
  PROVE  matches(dropped(m, from), Head(from), new)
  <1>1. isMarker(m) /\ \A p \in placesOf(m) : <<Head(from)>> \o p \in old
    BY MatchesIs
  <1>2. /\ isMarker(dropped(m, from))
        /\ \A p \in placesOf(dropped(m, from)) :
              p \in placesOf(m) /\ p # Tail(from) /\ ~IsPrefix(Tail(from), Front(p))
    BY <1>1, DroppedPlaces
  <1>3. ASSUME NEW p \in placesOf(dropped(m, from))
        PROVE  <<Head(from)>> \o p \in new
    <2>1. p \in Seq(Names) \ {<<>>} /\ Head(from) \in Collections /\ <<Head(from)>> \o p \in old
      BY <1>1, <1>2, MarkerPlaces, PlaceIs
    <2>2. <<Head(from)>> \o p \in left(old, from)
      BY <1>2, <2>1, StaysOutside
    <2> QED
      BY <2>2
  <1> QED
    BY <1>2, <1>3, MatchesIs

(* A folder under another name: its own entry is left to what follows.      *)
MatchesBut(p, m, c, places) ==
  isMarker(m) /\ \A l \in placesOf(m) : l # p => <<c>> \o l \in places

Rekeys(op, old, new, m, r) ==
  /\ op.kind \in {"rename", "move"} /\ isPlace(op.from) /\ isPlace(op.to)
  /\ Head(op.from) = Head(op.to)
  /\ Covers(op, old, new) /\ matches(m, Head(op.to), old)
  /\ isRekeyed(r, m, Tail(op.from), Tail(op.to))

LEMMA RekeyedMatches ==
  ASSUME NEW op, NEW old, NEW new, NEW m, NEW r, Rekeys(op, old, new, m, r)
  PROVE  MatchesBut(Tail(op.from), r, Head(op.to), new)
  <1> DEFINE a == Tail(op.from)
             b == Tail(op.to)
             c == Head(op.to)
  <1>0. /\ op.kind \in {"rename", "move"} /\ isPlace(op.from) /\ isPlace(op.to)
        /\ Head(op.from) = Head(op.to)
        /\ Covers(op, old, new) /\ matches(m, Head(op.to), old)
        /\ isRekeyed(r, m, Tail(op.from), Tail(op.to))
    BY DEF Rekeys
  <1>1. isMarker(m) /\ \A p \in placesOf(m) : <<c>> \o p \in old
    BY <1>0, MatchesIs
  <1>2. a \in Seq(Names) /\ b \in Seq(Names) /\ c \in Collections
    BY <1>0, PlaceIs
  <1>3. \A u \in Seq(Names) : <<c>> \o (a \o u) \in old => <<c>> \o (b \o u) \in new
    BY <1>0, CarriedAlong
  <1>4. left(old, op.from) \subseteq new
    BY <1>0 DEF Covers
  <1>5. \A p \in Seq(Names) \ {<<>>} :
           <<c>> \o p \in old /\ p # a /\ ~IsPrefix(a, Front(p)) => <<c>> \o p \in new
    BY <1>0, <1>2, <1>4, StaysOutside
  <1>6. /\ isMarker(r)
        /\ \A p \in placesOf(r) :
             \/ p \in placesOf(m) /\ ~IsPrefix(a, Front(p))
             \/ \E u \in Seq(Names) \ {<<>>} : p = b \o u /\ a \o u \in placesOf(m)
    <2>1. isRekeyed(r, m, a, b)
      BY <1>0
    <2> HIDE DEF a, b
    <2>2. isMarker(m) /\ a \in Seq(Names) /\ b \in Seq(Names)
      BY <1>1, <1>2
    <2> QED
      BY <2>1, <2>2, RekeyedPlaces, SMTT(30)
  <1>7. ASSUME NEW p \in placesOf(r), p # a
        PROVE  <<c>> \o p \in new
    <2> HIDE DEF a, b, c
    <2>1. CASE p \in placesOf(m) /\ ~IsPrefix(a, Front(p))
      BY <1>1, <1>5, <1>7, <2>1, MarkerPlaces
    <2>2. CASE \E u \in Seq(Names) \ {<<>>} : p = b \o u /\ a \o u \in placesOf(m)
      <3>1. PICK u \in Seq(Names) : p = b \o u /\ a \o u \in placesOf(m)
        BY <2>2
      <3>2. <<c>> \o (b \o u) \in new
        BY <1>1, <1>3, <3>1
      <3> QED
        BY <3>1, <3>2
    <2> QED
      BY <1>6, <2>1, <2>2
  <1> QED
    BY <1>6, <1>7 DEF MatchesBut

LEMMA RenamedMatches ==
  ASSUME NEW op, op.kind = "rename", isPlace(op.from), isPlace(op.to),
         ~isCollection(op.from), ~isCollection(op.to), Head(op.from) = Head(op.to),
         Front(op.to) = Front(op.from), isRequest(op.to) = isRequest(op.from),
         NEW old, NEW new, Covers(op, old, new), NEW m, matches(m, Head(op.to), old),
         NEW r, isRekeyed(r, m, Tail(op.from), Tail(op.to))
  PROVE  matches(renamed(r, op.from, op.to), Head(op.to), new)
  <1>1. isMarker(r) /\ \A p \in placesOf(r) : p # Tail(op.from) => <<Head(op.to)>> \o p \in new
    <2>1. Rekeys(op, old, new, m, r)
      BY DEF Rekeys
    <2>2. MatchesBut(Tail(op.from), r, Head(op.to), new)
      BY <2>1, RekeyedMatches
    <2> QED
      BY <2>2 DEF MatchesBut
  <1>2. <<Head(op.to)>> \o Tail(op.to) \in new
    BY PlaceIs DEF Covers
  <1> DEFINE w == renamed(r, op.from, op.to)
  <1>3. /\ isMarker(w)
        /\ \A p \in placesOf(w) : (p \in placesOf(r) /\ p # Tail(op.from)) \/ p = Tail(op.to)
    BY <1>1, RenamedPlaces
  <1> HIDE DEF w
  <1>4. matches(w, Head(op.to), new)
    BY <1>1, <1>2, <1>3, MatchesIs
  <1> QED
    BY <1>4 DEF w

LEMMA MovedMatches ==
  ASSUME NEW op, op.kind = "move", isPlace(op.from), isPlace(op.to),
         ~isCollection(op.from), ~isCollection(op.to), Head(op.from) = Head(op.to),
         NEW old, NEW new, Covers(op, old, new), NEW m, matches(m, Head(op.to), old),
         NEW r, isRekeyed(r, m, Tail(op.from), Tail(op.to))
  PROVE  matches(upserted(removed(r, op.from), op.to), Head(op.to), new)
  <1>1. isMarker(r) /\ \A p \in placesOf(r) : p # Tail(op.from) => <<Head(op.to)>> \o p \in new
    <2>1. Rekeys(op, old, new, m, r)
      BY DEF Rekeys
    <2>2. MatchesBut(Tail(op.from), r, Head(op.to), new)
      BY <2>1, RekeyedMatches
    <2> QED
      BY <2>2 DEF MatchesBut
  <1> DEFINE w == removed(r, op.from)
  <1>2. /\ isMarker(w)
        /\ \A p \in placesOf(w) : p \in placesOf(r) /\ p # Tail(op.from)
    BY <1>1, RemovedPlaces
  <1>3. op.to \in new
    BY DEF Covers
  <1> HIDE DEF w
  <1>4. matches(upserted(w, op.to), Head(op.to), new)
    BY <1>1, <1>2, <1>3, UpsertedMatches
  <1> QED
    BY <1>4 DEF w

(* The order below a folder, with the folder in its new place.              *)
LEMMA ExtractedMatches ==
  ASSUME NEW op, op.kind \in {"rename", "duplicate", "move"}, isPlace(op.from), isPlace(op.to),
         NEW old, NEW new, Covers(op, old, new), NEW m, matches(m, Head(op.from), old)
  PROVE  matches(extracted(m, op.from, op.to), Head(op.to), new)
  <1> DEFINE a == Tail(op.from)
             b == Tail(op.to)
             c == Head(op.from)
             d == Head(op.to)
             w == extracted(m, op.from, op.to)
  <1>1. isMarker(m) /\ \A p \in placesOf(m) : <<c>> \o p \in old
    BY MatchesIs
  <1>2. /\ isMarker(w)
        /\ \A p \in placesOf(w) : \E u \in Seq(Names) \ {<<>>} : p = b \o u /\ a \o u \in placesOf(m)
    BY <1>1, ExtractedPlaces
  <1>3. \A u \in Seq(Names) : <<c>> \o (a \o u) \in old => <<d>> \o (b \o u) \in new
    BY CarriedAlong
  <1>4. ASSUME NEW p \in placesOf(w)
        PROVE  <<d>> \o p \in new
    <2> HIDE DEF a, b, c, d, w
    <2>1. PICK u \in Seq(Names) : p = b \o u /\ a \o u \in placesOf(m)
      BY <1>2
    <2>2. <<d>> \o (b \o u) \in new
      BY <1>1, <1>3, <2>1
    <2> QED
      BY <2>1, <2>2
  <1> QED
    BY <1>2, <1>4, MatchesIs

LEMMA OverlaidMatches ==
  ASSUME NEW to, isPlace(to), ~isCollection(to), NEW new, to \in new,
         NEW m, matches(m, Head(to), new), NEW extra, matches(extra, Head(to), new)
  PROVE  matches(upserted(overlaid(m, extra), to), Head(to), new)
  <1> DEFINE w == overlaid(m, extra)
  <1>1. /\ isMarker(m) /\ \A p \in placesOf(m) : <<Head(to)>> \o p \in new
        /\ isMarker(extra) /\ \A p \in placesOf(extra) : <<Head(to)>> \o p \in new
    BY MatchesIs
  <1>2. isMarker(w) /\ placesOf(w) \subseteq placesOf(m) \cup placesOf(extra)
    BY <1>1, OverlaidPlaces
  <1> HIDE DEF w
  <1>3. matches(upserted(w, to), Head(to), new)
    BY <1>1, <1>2, UpsertedMatches
  <1> QED
    BY <1>3 DEF w
-----------------------------------------------------------------------------
(* Places and the directories they are in. *)
LEMMA Child ==
  ASSUME NEW p, isPlace(p), NEW n \in Names
  PROVE  /\ isPlace(In(p, n)) /\ Front(In(p, n)) = p /\ Last(In(p, n)) = n
         /\ ~isCollection(In(p, n)) /\ Head(In(p, n)) = Head(p)
  <1> DEFINE h == <<Head(p)>>
             t == Tail(p)
  <1>1. /\ p = h \o t /\ h \in Seq(Words) /\ t \in Seq(Words) /\ t \in Seq(Names)
        /\ Head(p) \in Collections /\ p \in Seq(Words)
    BY PlaceIs
  <1>2. n \in Words
    BY DEF Words
  <1>3. In(t, n) \in Seq(Names) \ {<<>>}
    <2> HIDE DEF t
    <2> QED
      BY <1>1, InIs
  <1>4. In(p, n) = h \o In(t, n)
    <2> HIDE DEF h, t
    <2>1. In(h \o t, n) = h \o In(t, n)
      <3>1. h \in Seq(Words) /\ t \in Seq(Words)
        BY <1>1
      <3> QED
        BY <1>2, <3>1, AppendIsBehind
    <2> QED
      BY <1>1, <2>1
  <1>5. Front(In(p, n)) = p /\ Last(In(p, n)) = n
    BY <1>1, <1>2, InIs
  <1>6. isPlace(In(p, n)) /\ Head(In(p, n)) = Head(p) /\ Tail(In(p, n)) = In(t, n)
    <2> HIDE DEF t
    <2>1. /\ isPlace(<<Head(p)>> \o In(t, n)) /\ Head(<<Head(p)>> \o In(t, n)) = Head(p)
          /\ Tail(<<Head(p)>> \o In(t, n)) = In(t, n)
      BY <1>1, <1>3, PlaceIs
    <2> QED
      BY <1>4, <2>1
  <1>7. ~isCollection(In(p, n))
    BY <1>3, <1>6, PlaceIs
  <1> QED
    BY <1>5, <1>6, <1>7

LEMMA Parent ==
  ASSUME NEW l, isPlace(l)
  PROVE  /\ isCollection(l) <=> Front(l) = <<>>
         /\ ~isCollection(l) => isPlace(Front(l)) /\ Head(Front(l)) = Head(l)
  <1> DEFINE f == Front(l)
             n == Last(l)
  <1>1. f \in Seq(Words) /\ n \in Words /\ l = In(f, n) /\ l \in Seq(Words)
    BY PlaceIs, Ends
  <1> HIDE DEF f, n
  <1>2. l = f \o <<n>> /\ <<n>> \in Seq(Words)
    BY <1>1 DEF In
  <1>3. Len(l) = Len(f) + 1 /\ Len(f) \in Nat
    BY <1>1, <1>2
  <1>4. isCollection(l) <=> f = <<>>
    <2>1. f = <<>> <=> Len(f) = 0
      BY <1>1, EmptySeq
    <2> QED
      BY <1>3, <2>1 DEF isCollection
  <1>5. ASSUME ~isCollection(l) PROVE isPlace(f) /\ Head(f) = Head(l)
    <2>1. f \in Seq(Words) \ {<<>>} /\ isPlace(f \o <<n>>)
      BY <1>1, <1>2, <1>4, <1>5
    <2>2. isPlace(f) /\ Head(f) = Head(f \o <<n>>)
      BY <1>2, <2>1, FrontIsPlace
    <2> QED
      BY <1>2, <2>2
  <1> QED
    BY <1>4, <1>5 DEF f

LEMMA SameHome ==
  ASSUME NEW l, isPlace(l), NEW k, isPlace(k), Front(k) = Front(l)
  PROVE  (isCollection(k) <=> isCollection(l)) /\ (~isCollection(l) => Head(k) = Head(l))
  BY Parent

(* Where a command finds the marker it rewrites first.                       *)
source(op) == IF op.kind = "create" THEN Head(op.to) ELSE Head(op.from)

LEMMA OpIs ==
  ASSUME NEW op, isOp(op)
  PROVE  /\ op.kind \in {"rename", "duplicate"} =>
              /\ isCollection(op.to) <=> isCollection(op.from)
              /\ ~isCollection(op.to) => Head(op.to) = Head(op.from)
         /\ op.kind = "delete" => ~isCollection(op.to)
  <1>1. ~isCollection(<<>>)
    BY DEF isCollection
  <1> QED
    BY <1>1, SameHome DEF isOp

LEMMA UpdatedMatches ==
  ASSUME NEW op, isOp(op), NEW old, NEW new, Covers(op, old, new), op.kind # "reorder",
         op.kind = "create" => ~isCollection(op.to),
         op.kind = "delete" => ~isCollection(op.from),
         NEW m, matches(m, source(op), old), NEW doc \in Updated(op, m)
  PROVE  matches(doc, home(op), new)
  <1>1. CASE op.kind = "create"
    <2>1. isPlace(op.to) /\ old \subseteq new /\ op.to \in new /\ home(op) = Head(op.to)
      BY <1>1 DEF isOp, Covers, home
    <2>2. matches(m, Head(op.to), new)
      BY <1>1, <2>1, MatchesMore DEF source
    <2>3. matches(upserted(m, op.to), Head(op.to), new)
      BY <1>1, <2>1, <2>2, MatchesIs, UpsertedMatches
    <2> QED
      BY <1>1, <2>1, <2>3 DEF Updated, Twice
  <1>2. CASE op.kind = "delete" \/ Twice(op)
    <2>1. /\ isPlace(op.from) /\ ~isCollection(op.from) /\ ~isCollection(op.to)
          /\ left(old, op.from) \subseteq new
          /\ home(op) = Head(op.from) /\ source(op) = Head(op.from) /\ op.kind # "create"
      BY <1>2, OpIs DEF isOp, Covers, home, source, Twice
    <2>2. matches(dropped(m, op.from), Head(op.from), new)
      BY <2>1, DroppedMatches
    <2>3. doc = dropped(m, op.from)
      BY <1>2, <2>1 DEF Updated, Twice
    <2> QED
      BY <2>1, <2>2, <2>3
  <1>3. CASE op.kind \in {"rename", "duplicate"} /\ isCollection(op.to)
    <2>1. /\ isPlace(op.from) /\ isPlace(op.to) /\ isCollection(op.from)
          /\ home(op) = Head(op.to) /\ source(op) = Head(op.from)
      BY <1>3, OpIs DEF isOp, home, source
    <2>2. matches(m, Head(op.to), new)
      BY <1>3, <2>1, CopiedMatches
    <2> QED
      BY <1>3, <2>1, <2>2 DEF Updated, Twice
  <1>4. CASE op.kind = "rename" /\ ~isCollection(op.to)
    <2>1. /\ isPlace(op.from) /\ isPlace(op.to) /\ ~isCollection(op.from)
          /\ home(op) = Head(op.to) /\ source(op) = Head(op.from) /\ Head(op.from) = Head(op.to)
          /\ Front(op.to) = Front(op.from) /\ isRequest(op.to) = isRequest(op.from)
      BY <1>4, OpIs DEF isOp, home, source
    <2>2. PICK r \in rekeyed(m, Tail(op.from), Tail(op.to)) : doc = renamed(r, op.from, op.to)
      BY <1>4 DEF Updated, Twice
    <2>3. isRekeyed(r, m, Tail(op.from), Tail(op.to)) /\ matches(m, Head(op.to), old)
      BY <2>1, <2>2 DEF isRekeyed
    <2>4. matches(renamed(r, op.from, op.to), Head(op.to), new)
      BY <1>4, <2>1, <2>3, RenamedMatches
    <2> QED
      BY <2>1, <2>2, <2>4
  <1>5. CASE op.kind = "move" /\ ~Twice(op)
    <2>1. /\ isPlace(op.from) /\ isPlace(op.to) /\ ~isCollection(op.from) /\ ~isCollection(op.to)
          /\ home(op) = Head(op.to) /\ source(op) = Head(op.from) /\ Head(op.from) = Head(op.to)
      BY <1>5 DEF isOp, home, source, Twice
    <2>2. PICK r \in rekeyed(m, Tail(op.from), Tail(op.to)) :
            doc = upserted(removed(r, op.from), op.to)
      BY <1>5, <2>1 DEF Updated, Twice
    <2>3. isRekeyed(r, m, Tail(op.from), Tail(op.to)) /\ matches(m, Head(op.to), old)
      BY <2>1, <2>2 DEF isRekeyed
    <2>4. matches(upserted(removed(r, op.from), op.to), Head(op.to), new)
      BY <1>5, <2>1, <2>3, MovedMatches
    <2> QED
      BY <2>1, <2>2, <2>4
  <1>6. CASE op.kind = "duplicate" /\ ~isCollection(op.to)
    <2>1. /\ isPlace(op.from) /\ isPlace(op.to) /\ ~isCollection(op.from)
          /\ home(op) = Head(op.to) /\ source(op) = Head(op.from) /\ Head(op.from) = Head(op.to)
          /\ old \subseteq new /\ op.to \in new
      BY <1>6, OpIs DEF isOp, home, source, Covers
    <2>2. matches(m, Head(op.from), old) /\ matches(m, Head(op.to), new)
      BY <2>1, MatchesMore
    <2> DEFINE extra == extracted(m, op.from, op.to)
    <2>3. matches(extra, Head(op.to), new)
      <3>1. op.kind \in {"rename", "duplicate", "move"}
        BY <1>6
      <3>2. matches(extracted(m, op.from, op.to), Head(op.to), new)
        <4>1. isPlace(op.from) /\ isPlace(op.to) /\ matches(m, Head(op.from), old)
          BY <2>1, <2>2
        <4> QED
          BY <3>1, <4>1, ExtractedMatches
      <3> QED
        BY <3>2
    <2>4. doc = upserted(overlaid(m, extra), op.to)
      BY <1>6 DEF Updated, Twice
    <2> HIDE DEF extra
    <2>5. matches(upserted(overlaid(m, extra), op.to), Head(op.to), new)
      BY <1>6, <2>1, <2>2, <2>3, OverlaidMatches
    <2> QED
      BY <2>1, <2>4, <2>5
  <1> QED
    BY <1>1, <1>2, <1>3, <1>4, <1>5, <1>6 DEF isOp, Kinds
-----------------------------------------------------------------------------
(* What the tree offers, once it shows what is there.                        *)
LEMMA NodesAreThere ==
  ASSUME isTree(Places), \A c \in Collections : matches(marker[c], c, Places)
  PROVE  nodesIn(View(disk, marker)) \subseteq Places
  <1> DEFINE v == View(disk, marker)
             listing == UNION {listedFolders(v, c) : c \in collectionsIn(v)}
  <1>1. v.disk = disk /\ v.marker = marker
    BY DEF View
  <1> HIDE DEF v
  <1>2. requestsIn(v) \subseteq Places /\ collectionsIn(v) \subseteq Collections
    BY <1>1 DEF requestsIn, collectionsIn, Places
  <1>3. listing \subseteq Places
    <2> SUFFICES ASSUME NEW c \in Collections, NEW l \in listedFolders(v, c) PROVE l \in Places
      BY <1>2
    <2>1. PICK p \in listed(marker[c].folders) : l = <<c>> \o p
      BY <1>1 DEF listedFolders
    <2> QED
      BY <2>1 DEF matches
  <1> HIDE DEF listing
  <1>4. foldersIn(v) \subseteq Places
    <2> SUFFICES ASSUME NEW l \in foldersIn(v) PROVE l \in Places
      OBVIOUS
    <2>1. PICK k \in requestsIn(v) \cup listing : l \in prefixes(k)
      BY DEF foldersIn, listing, prefixes
    <2> QED
      BY <1>2, <1>3, <2>1, TreeHas
  <1>5. {<<c>> : c \in collectionsIn(v)} \subseteq Places
    BY <1>1 DEF collectionsIn, Places
  <1> QED
    BY <1>2, <1>4, <1>5 DEF nodesIn, v

LEMMA Root ==
  ASSUME NEW c \in Collections
  PROVE  isPlace(<<c>>) /\ isCollection(<<c>>) /\ ~isRequest(<<c>>) /\ Front(<<c>>) = <<>>
  <1>1. <<>> \in Seq(Names) /\ <<c>> \o <<>> = <<c>>
    OBVIOUS
  <1>2. isPlace(<<c>>)
    <2>1. isPlace(<<c>> \o <<>>)
      BY <1>1, PlaceIs
    <2> QED
      BY <1>1, <2>1
  <1>3. isCollection(<<c>>)
    BY DEF isCollection
  <1>4. Last(<<c>>) = c
    BY DEF Last
  <1> QED
    BY <1>2, <1>3, <1>4, Parent, NamesDiffer DEF isRequest

LEMMA CollectionIs ==
  ASSUME NEW l, isPlace(l), isCollection(l)
  PROVE  ~isRequest(l) /\ Front(l) = <<>> /\ l = <<Head(l)>>
  <1>1. Head(l) \in Collections /\ l = <<Head(l)>> \o <<>>
    BY PlaceIs
  <1>2. l = <<Head(l)>>
    <2> DEFINE h == Head(l)
    <2>1. <<h>> \o <<>> = <<h>>
      OBVIOUS
    <2> HIDE DEF h
    <2> QED
      BY <1>1, <2>1 DEF h
  <1> QED
    BY <1>1, <1>2, Root

LEMMA ChildrenAre ==
  ASSUME NEW p, isPlace(p), NEW l \in children(p)
  PROVE  isPlace(l) /\ ~isCollection(l)
  <1>1. PICK n \in Names : l = In(p, n)
    BY DEF children, Names, In
  <1> QED
    BY <1>1, Child

LEMMA OfferIs ==
  ASSUME isTree(Places), nodesIn(shown) \subseteq Places, NEW op \in Offers, Permitted(op)
  PROVE  isOp(op) /\ op.kind # "reorder"
  <1>1. \A l \in nodesIn(shown) : isPlace(l)
    BY TreeHas
  <1>2. \A p \in parents(shown) : isPlace(p)
    BY <1>1 DEF parents
  <1>3. CASE \E l \in roots \cup UNION {children(p) : p \in parents(shown)} : op = Op("create", <<>>, l)
    <2>1. PICK l \in roots \cup UNION {children(p) : p \in parents(shown)} : op = Op("create", <<>>, l)
      BY <1>3
    <2>2. isPlace(l)
      BY <1>2, <2>1, Root, ChildrenAre DEF roots
    <2> QED
      BY <2>1, <2>2 DEF Op, isOp, Kinds
  <1>4. CASE \E l \in nodesIn(shown) : \E k \in alike(l) : \E kind \in {"rename", "duplicate"} : op = Op(kind, l, k)
    <2>0. PICK l \in nodesIn(shown) : \E k \in alike(l) : \E kind \in {"rename", "duplicate"} : op = Op(kind, l, k)
      BY <1>4
    <2>1. PICK k \in alike(l), kind \in {"rename", "duplicate"} : op = Op(kind, l, k)
      BY <2>0
    <2>2. isPlace(l)
      BY <1>1
    <2>3. isPlace(k) /\ Front(k) = Front(l) /\ isRequest(k) = isRequest(l)
      <3>1. CASE isCollection(l)
        <4>1. PICK c \in Collections : k = <<c>>
          BY <3>1 DEF alike, roots
        <4>2. isPlace(k) /\ Front(k) = <<>> /\ ~isRequest(k)
          BY <4>1, Root
        <4>3. Front(l) = <<>> /\ ~isRequest(l)
          BY <2>2, <3>1, CollectionIs
        <4>4. isRequest(k) = isRequest(l)
          BY <4>2, <4>3 DEF isRequest
        <4> QED
          BY <4>2, <4>3, <4>4
      <3>2. CASE ~isCollection(l)
        <4>1. k \in children(Front(l)) /\ siblings(k, l)
          BY <3>2 DEF alike
        <4>2. isPlace(Front(l))
          BY <2>2, <3>2, Parent
        <4>3. isPlace(k)
          BY <4>1, <4>2, ChildrenAre
        <4> QED
          BY <4>1, <4>3 DEF siblings
      <3> QED
        BY <3>1, <3>2
    <2>4. op.kind = kind /\ op.from = l /\ op.to = k
      BY <2>1 DEF Op
    <2>5. kind = "rename" => ~IsPrefix(op.from, op.to)
      BY <2>4 DEF Permitted
    <2> QED
      BY <2>2, <2>3, <2>4, <2>5 DEF isOp, Kinds
  <1>5. CASE \E l \in nodesIn(shown) : op = Op("delete", l, <<>>)
    BY <1>1, <1>5 DEF Op, isOp, Kinds
  <1>6. CASE \E l \in nodesIn(shown), p \in parents(shown) : ~isCollection(l) /\ op = Op("move", l, Append(p, Last(l)))
    <2>1. PICK l \in nodesIn(shown), p \in parents(shown) :
            ~isCollection(l) /\ op = Op("move", l, In(p, Last(l)))
      BY <1>6 DEF In
    <2>2. isPlace(l) /\ isPlace(p)
      BY <1>1, <1>2
    <2>3. Last(l) \in Names
      BY <2>1, <2>2, Below, NamesDiffer DEF KindOf
    <2> DEFINE k == In(p, Last(l))
    <2>4. isPlace(k) /\ Last(k) = Last(l) /\ ~isCollection(k)
      BY <2>2, <2>3, Child
    <2> HIDE DEF k
    <2>5. op.kind = "move" /\ op.from = l /\ op.to = k
      BY <2>1 DEF Op, k
    <2>6. ~IsPrefix(op.from, op.to)
      BY <2>5 DEF Permitted
    <2> QED
      BY <2>1, <2>2, <2>4, <2>5, <2>6 DEF isOp, Kinds
  <1> DEFINE A == {Op("create", <<>>, l) : l \in roots \cup UNION {children(p) : p \in parents(shown)}}
             B == UNION {{Op(kind, l, k) : kind \in {"rename", "duplicate"}, k \in alike(l)} :
                           l \in nodesIn(shown)}
             C == {Op("delete", l, <<>>) : l \in nodesIn(shown)}
             D == {Op("move", l, Append(p, Last(l))) :
                     l \in {n \in nodesIn(shown) : ~isCollection(n)}, p \in parents(shown)}
  <1>7. op \in A \/ op \in B \/ op \in C \/ op \in D
    BY DEF Offers
  <1>8. op \in A => \E l \in roots \cup UNION {children(p) : p \in parents(shown)} : op = Op("create", <<>>, l)
    OBVIOUS
  <1>9. op \in B => \E l \in nodesIn(shown) : \E k \in alike(l) : \E kind \in {"rename", "duplicate"} : op = Op(kind, l, k)
    OBVIOUS
  <1>10. op \in D => \E l \in nodesIn(shown), p \in parents(shown) :
                        ~isCollection(l) /\ op = Op("move", l, Append(p, Last(l)))
    OBVIOUS
  <1>11. op \in C => \E l \in nodesIn(shown) : op = Op("delete", l, <<>>)
    OBVIOUS
  <1> QED
    BY <1>3, <1>4, <1>5, <1>6, <1>7, <1>8, <1>9, <1>10, <1>11

LEMMA ReorderIs ==
  ASSUME isTree(Places), nodesIn(shown) \subseteq Places, NEW op \in Reorders
  PROVE  /\ isOp(op) /\ op.kind = "reorder"
         /\ op.names \in Seq(KindOf(op.to))
         /\ \A n \in ToSet(op.names) :
              \E k \in Places : ~isCollection(k) /\ siblings(k, op.to) /\ n = Last(k)
  <1> DEFINE near(l) == {n \in nodesIn(shown) : ~isCollection(n) /\ siblings(n, l)}
             names(l) == {Last(k) : k \in near(l)}
  <1>0. PICK l \in nodesIn(shown) : ~isCollection(l) /\
          \E given \in SetToSeqs(names(l)) : op = [Op("reorder", l, l) EXCEPT !.names = given]
    BY DEF Reorders
  <1>1. PICK given \in SetToSeqs(names(l)) :
          ~isCollection(l) /\ op = [Op("reorder", l, l) EXCEPT !.names = given]
    BY <1>0
  <1>2. op.kind = "reorder" /\ op.from = l /\ op.to = l /\ op.names = given
    BY <1>1 DEF Op
  <1>3. isPlace(l) /\ l \in Places
    BY TreeHas
  <1>4. \A k \in near(l) : k \in Places /\ Last(k) \in KindOf(l)
    <2> TAKE k \in near(l)
    <2>1. k \in Places /\ ~isCollection(k) /\ siblings(k, l)
      OBVIOUS
    <2>2. Last(k) \in KindOf(k)
      BY <2>1, TreeHas, Below
    <2> QED
      BY <2>1, <2>2 DEF KindOf, siblings
  <1>5. names(l) \subseteq KindOf(l)
    BY <1>4
  <1>6. IsFiniteSet(names(l)) /\ Cardinality(names(l)) \in Nat
    <2>1. names(l) \subseteq Names /\ IsFiniteSet(Names)
      BY <1>5, NamesDiffer, NamesAreApart DEF KindOf
    <2> HIDE DEF names
    <2> QED
      BY <2>1, FS_Subset, FS_CardinalityType
  <1>7. given \in Seq(names(l)) /\ ToSet(given) \subseteq names(l)
    <2> HIDE DEF names
    <2>1. given \in [1..Cardinality(names(l)) -> names(l)]
      BY DEF SetToSeqs
    <2> QED
      BY <1>6, <2>1 DEF ToSet
  <1>8. given \in Seq(KindOf(l))
    <2> HIDE DEF names
    <2> QED
      BY <1>5, <1>7, SeqMonotonic
  <1>9. \A n \in ToSet(given) : \E k \in Places : ~isCollection(k) /\ siblings(k, l) /\ n = Last(k)
    BY <1>4, <1>7
  <1>10. isOp(op)
    BY <1>1, <1>2, <1>3 DEF isOp, Kinds
  <1> QED
    BY <1>2, <1>8, <1>9, <1>10

LEMMA ReorderedMatches ==
  ASSUME NEW to, isPlace(to), ~isCollection(to), NEW places, isTree(places),
         NEW names \in Seq(KindOf(to)),
         \A n \in ToSet(names) : \E k \in places : ~isCollection(k) /\ siblings(k, to) /\ n = Last(k),
         NEW m, matches(m, Head(to), places)
  PROVE  matches(withList(m, to, names), Head(to), places)
  <1> DEFINE w == withList(m, to, names)
  <1>1. isMarker(m) /\ \A p \in placesOf(m) : <<Head(to)>> \o p \in places
    BY MatchesIs
  <1>2. /\ isMarker(w)
        /\ \A p \in placesOf(w) :
              \/ p \in placesOf(m)
              \/ Front(p) = siblingKey(to) /\ Last(p) \in ToSet(names) /\ p = In(Front(p), Last(p))
    BY <1>1, WithListPlaces
  <1> HIDE DEF w
  <1>3. ASSUME NEW n \in ToSet(names)
        PROVE  <<Head(to)>> \o In(siblingKey(to), n) \in places
    <2>1. PICK k \in places : ~isCollection(k) /\ siblings(k, to) /\ n = Last(k)
      OBVIOUS
    <2>2. isPlace(k) /\ Front(k) = Front(to)
      BY <2>1, TreeHas DEF siblings
    <2>3. siblingKey(k) = siblingKey(to)
      BY <2>2 DEF siblingKey
    <2>4. Tail(k) = In(siblingKey(to), n)
      BY <2>1, <2>2, <2>3, Below
    <2>5. Head(k) = Head(to)
      BY <2>2, SameHome
    <2>6. k = <<Head(k)>> \o Tail(k)
      BY <2>2, PlaceIs
    <2> QED
      BY <2>4, <2>5, <2>6
  <1>4. \A p \in placesOf(w) : <<Head(to)>> \o p \in places
    BY <1>1, <1>2, <1>3
  <1>5. matches(w, Head(to), places)
    BY <1>2, <1>4, MatchesIs
  <1> QED
    BY <1>5 DEF w
-----------------------------------------------------------------------------
(* The commands, one step at a time.                                        *)
AllMatch == \A c \in Collections : matches(marker[c], c, Places)

LEMMA Only ==
  ASSUME Held, NEW j \in Jobs, j \in Active
  PROVE  Active \subseteq {j}
  BY DEF Held, Alone

LEMMA NobodyRewrites ==
  ASSUME Held, NEW j \in Jobs, Active \subseteq {j}, job[j].pc \notin Rewriting
  PROVE  AllMatch
  BY DEF Held, OthersMatch, AllMatch, Active, Rewriting

LEMMA OthersRest ==
  ASSUME Held, NEW j \in Jobs, Active \subseteq {j},
         \A i \in Jobs : i # j => job'[i] = job[i], job'[j].pc # "failed"
  PROVE  Alone' /\ \A i \in Jobs : i # j => Fits(i)'
  <1>1. \A i \in Jobs : i # j => job[i].pc \in {"unborn", "done"}
    BY DEF Held, Alone, Active
  <1>2. Alone'
    BY <1>1 DEF Held, Alone, Active
  <1>3. ASSUME NEW i \in Jobs, i # j
        PROVE  Fits(i)'
    <2>1. job'[i].pc \in {"unborn", "done"} /\ (job'[i].pc = "unborn" => job'[i].doc = Blank)
      <3>1. Fits(i) /\ job'[i] = job[i] /\ job[i].pc \in {"unborn", "done"}
        BY <1>1, <1>3 DEF Held
      <3> QED
        BY <3>1 DEF Fits, Fit
    <2> QED
      BY <2>1 DEF Fits, Fit, Rewriting
  <1> QED
    BY <1>2, <1>3

(* What the assignments of the actions do to the fields of a command.        *)
isJobs(f) ==
  /\ f = [i \in Jobs |-> f[i]]
  /\ \A i \in Jobs : f[i] = [op |-> f[i].op, pc |-> f[i].pc, doc |-> f[i].doc, carry |-> f[i].carry]
sets(f, g, j, w) == isJobs(g) /\ g[j] = w /\ \A i \in Jobs : i # j => g[i] = f[i]

LEMMA FieldSet ==
  ASSUME NEW f, isJobs(f), NEW j \in Jobs, NEW x
  PROVE  /\ sets(f, [f EXCEPT ![j].op = x], j, [op |-> x, pc |-> f[j].pc, doc |-> f[j].doc, carry |-> f[j].carry])
         /\ sets(f, [f EXCEPT ![j].pc = x], j, [op |-> f[j].op, pc |-> x, doc |-> f[j].doc, carry |-> f[j].carry])
         /\ sets(f, [f EXCEPT ![j].doc = x], j, [op |-> f[j].op, pc |-> f[j].pc, doc |-> x, carry |-> f[j].carry])
         /\ sets(f, [f EXCEPT ![j].carry = x], j, [op |-> f[j].op, pc |-> f[j].pc, doc |-> f[j].doc, carry |-> x])
  <1>1. ASSUME NEW w, w = [op |-> w.op, pc |-> w.pc, doc |-> w.doc, carry |-> w.carry]
        PROVE  sets(f, [f EXCEPT ![j] = w], j, w)
    BY <1>1 DEF isJobs, sets
  <1> DEFINE r == f[j]
             u(w) == [f EXCEPT ![j] = w]
  <1>2. r = [op |-> r.op, pc |-> r.pc, doc |-> r.doc, carry |-> r.carry]
    BY DEF isJobs
  <1>3. /\ [f EXCEPT ![j].op = x] = u([r EXCEPT !.op = x])
        /\ [f EXCEPT ![j].pc = x] = u([r EXCEPT !.pc = x])
        /\ [f EXCEPT ![j].doc = x] = u([r EXCEPT !.doc = x])
        /\ [f EXCEPT ![j].carry = x] = u([r EXCEPT !.carry = x])
    OBVIOUS
  <1>4. /\ [r EXCEPT !.op = x] = [op |-> x, pc |-> r.pc, doc |-> r.doc, carry |-> r.carry]
        /\ [r EXCEPT !.pc = x] = [op |-> r.op, pc |-> x, doc |-> r.doc, carry |-> r.carry]
        /\ [r EXCEPT !.doc = x] = [op |-> r.op, pc |-> r.pc, doc |-> x, carry |-> r.carry]
        /\ [r EXCEPT !.carry = x] = [op |-> r.op, pc |-> r.pc, doc |-> r.doc, carry |-> x]
    <2> HIDE DEF r
    <2> QED
      BY <1>2
  <1>5. ASSUME NEW a, NEW b, NEW c, NEW d
        PROVE  sets(f, u([op |-> a, pc |-> b, doc |-> c, carry |-> d]), j, [op |-> a, pc |-> b, doc |-> c, carry |-> d])
    BY <1>1
  <1> HIDE DEF u
  <1> QED
    BY <1>3, <1>4, <1>5

LEMMA JobsAre == (JobFields => isJobs(job)) /\ \A g : job' = g /\ isJobs(g) => JobFields'
  BY DEF JobFields, isJobs

LEMMA PcSet ==
  ASSUME JobFields, NEW j \in Jobs, NEW p, job' = [job EXCEPT ![j].pc = p]
  PROVE  /\ JobFields' /\ \A i \in Jobs : i # j => job'[i] = job[i]
         /\ job'[j].op = job[j].op /\ job'[j].pc = p /\ job'[j].doc = job[j].doc
         /\ job'[j].carry = job[j].carry
  <1> DEFINE C == [job EXCEPT ![j].pc = p]
             r == job[j]
  <1>1. sets(job, C, j, [op |-> r.op, pc |-> p, doc |-> r.doc, carry |-> r.carry])
    BY JobsAre, FieldSet
  <1>2. job' = C
    OBVIOUS
  <1> HIDE DEF C
  <1>8. JobFields'
    <2>1. isJobs(C)
      BY <1>1 DEF sets
    <2> QED
      BY <1>2, <2>1, JobsAre
  <1>9. job'[j] = C[j] /\ \A i \in Jobs : job'[i] = C[i]
    BY <1>2
  <1> QED
    BY <1>1, <1>8, <1>9 DEF sets

LEMMA OpPcSet ==
  ASSUME JobFields, NEW j \in Jobs, NEW o, NEW p, job' = [job EXCEPT ![j].op = o, ![j].pc = p]
  PROVE  /\ JobFields' /\ \A i \in Jobs : i # j => job'[i] = job[i]
         /\ job'[j].op = o /\ job'[j].pc = p /\ job'[j].doc = job[j].doc
  <1> DEFINE A == [job EXCEPT ![j].op = o]
             B == [A EXCEPT ![j].pc = p]
             r == job[j]
  <1>1. sets(job, A, j, [op |-> o, pc |-> r.pc, doc |-> r.doc, carry |-> r.carry])
    BY JobsAre, FieldSet
  <1>2. job' = B
    OBVIOUS
  <1> HIDE DEF A
  <1>3. sets(A, B, j, [op |-> A[j].op, pc |-> p, doc |-> A[j].doc, carry |-> A[j].carry])
    <2>1. isJobs(A)
      BY <1>1 DEF sets
    <2> QED
      BY <2>1, FieldSet
  <1> HIDE DEF B
  <1>8. JobFields'
    <2>1. isJobs(B)
      BY <1>3 DEF sets
    <2> QED
      BY <1>2, <2>1, JobsAre
  <1>9. job'[j] = B[j] /\ \A i \in Jobs : job'[i] = B[i]
    BY <1>2
  <1>10. B[j].op = o /\ B[j].pc = p /\ B[j].doc = r.doc /\ \A i \in Jobs : i # j => B[i] = job[i]
    <2>1. A[j].op = o /\ A[j].doc = r.doc /\ \A i \in Jobs : i # j => A[i] = job[i]
      BY <1>1 DEF sets
    <2>2. B[j].op = A[j].op /\ B[j].pc = p /\ B[j].doc = A[j].doc /\ \A i \in Jobs : i # j => B[i] = A[i]
      BY <1>3 DEF sets
    <2> QED
      BY <2>1, <2>2
  <1> QED
    BY <1>8, <1>9, <1>10

LEMMA DocPcSet ==
  ASSUME JobFields, NEW j \in Jobs, NEW d, NEW p, job' = [job EXCEPT ![j].doc = d, ![j].pc = p]
  PROVE  /\ JobFields' /\ \A i \in Jobs : i # j => job'[i] = job[i]
         /\ job'[j].op = job[j].op /\ job'[j].pc = p /\ job'[j].doc = d
  <1> DEFINE A == [job EXCEPT ![j].doc = d]
             B == [A EXCEPT ![j].pc = p]
             r == job[j]
  <1>1. sets(job, A, j, [op |-> r.op, pc |-> r.pc, doc |-> d, carry |-> r.carry])
    BY JobsAre, FieldSet
  <1>2. job' = B
    OBVIOUS
  <1> HIDE DEF A
  <1>3. sets(A, B, j, [op |-> A[j].op, pc |-> p, doc |-> A[j].doc, carry |-> A[j].carry])
    <2>1. isJobs(A)
      BY <1>1 DEF sets
    <2> QED
      BY <2>1, FieldSet
  <1> HIDE DEF B
  <1>8. JobFields'
    <2>1. isJobs(B)
      BY <1>3 DEF sets
    <2> QED
      BY <1>2, <2>1, JobsAre
  <1>9. job'[j] = B[j] /\ \A i \in Jobs : job'[i] = B[i]
    BY <1>2
  <1>10. B[j].op = r.op /\ B[j].pc = p /\ B[j].doc = d /\ \A i \in Jobs : i # j => B[i] = job[i]
    <2>1. A[j].op = r.op /\ A[j].doc = d /\ \A i \in Jobs : i # j => A[i] = job[i]
      BY <1>1 DEF sets
    <2>2. B[j].op = A[j].op /\ B[j].pc = p /\ B[j].doc = A[j].doc /\ \A i \in Jobs : i # j => B[i] = A[i]
      BY <1>3 DEF sets
    <2> QED
      BY <2>1, <2>2
  <1> QED
    BY <1>8, <1>9, <1>10

Set(f, g, j, d, p, y) == g = [f EXCEPT ![j].doc = d, ![j].pc = p, ![j].carry = y]

LEMMA DocPcCarrySet ==
  ASSUME JobFields, NEW j \in Jobs, NEW d, NEW p, NEW y, Set(job, job', j, d, p, y)
  PROVE  /\ JobFields' /\ \A i \in Jobs : i # j => job'[i] = job[i]
         /\ job'[j].op = job[j].op /\ job'[j].pc = p /\ job'[j].doc = d
         /\ job'[j].carry = y
  <1> DEFINE A == [job EXCEPT ![j].doc = d]
             B == [A EXCEPT ![j].pc = p]
             C == [B EXCEPT ![j].carry = y]
             r == job[j]
  <1>1. sets(job, A, j, [op |-> r.op, pc |-> r.pc, doc |-> d, carry |-> r.carry])
    BY JobsAre, FieldSet
  <1>2. job' = C
    BY DEF Set
  <1> HIDE DEF A
  <1>3. sets(A, B, j, [op |-> A[j].op, pc |-> p, doc |-> A[j].doc, carry |-> A[j].carry])
    <2>1. isJobs(A)
      BY <1>1 DEF sets
    <2> QED
      BY <2>1, FieldSet
  <1> HIDE DEF B
  <1>4. sets(B, C, j, [op |-> B[j].op, pc |-> B[j].pc, doc |-> B[j].doc, carry |-> y])
    <2>1. isJobs(B)
      BY <1>3 DEF sets
    <2> QED
      BY <2>1, FieldSet
  <1> HIDE DEF C
  <1>8. JobFields'
    <2>1. isJobs(C)
      BY <1>4 DEF sets
    <2> QED
      BY <1>2, <2>1, JobsAre
  <1>9. job'[j] = C[j] /\ \A i \in Jobs : job'[i] = C[i]
    BY <1>2
  <1>10. B[j].op = r.op /\ B[j].pc = p /\ B[j].doc = d /\ \A i \in Jobs : i # j => B[i] = job[i]
    <2>1. A[j].op = r.op /\ A[j].doc = d /\ \A i \in Jobs : i # j => A[i] = job[i]
      BY <1>1 DEF sets
    <2>2. B[j].op = A[j].op /\ B[j].pc = p /\ B[j].doc = A[j].doc /\ \A i \in Jobs : i # j => B[i] = A[i]
      BY <1>3 DEF sets
    <2> QED
      BY <2>1, <2>2
  <1>11. C[j].op = B[j].op /\ C[j].pc = B[j].pc /\ C[j].doc = B[j].doc /\ C[j].carry = y
         /\ \A i \in Jobs : i # j => C[i] = B[i]
    BY <1>4 DEF sets
  <1> QED
    BY <1>8, <1>9, <1>10, <1>11

LEMMA BeginKeepsOrder ==
  ASSUME OrderInv, TreeIsCurrent, NEW j \in Jobs, Begin(j)
  PROVE  OrderInv'
  <1>1. PICK op \in Offers \cup Reorders :
          /\ Permitted(op)
          /\ job' = [job EXCEPT ![j].op = op, ![j].pc = IF op.kind = "reorder" THEN "read" ELSE "apply"]
    BY DEF Begin
  <1>2. At(j, "unborn") /\ UNCHANGED <<disk, marker, shown, scan>> /\ (intact' => intact /\ Active = {})
    BY DEF Begin
  <1> DEFINE p == IF op.kind = "reorder" THEN "read" ELSE "apply"
  <1>3. /\ JobFields' /\ \A i \in Jobs : i # j => job'[i] = job[i]
        /\ job'[j].op = op /\ job'[j].pc = p /\ job'[j].doc = job[j].doc
    <2>1. JobFields /\ job' = [job EXCEPT ![j].op = op, ![j].pc = p]
      BY <1>1 DEF OrderInv
    <2> HIDE DEF p
    <2> QED
      BY <2>1, OpPcSet
  <1> SUFFICES ASSUME intact' PROVE Held'
    BY <1>3 DEF OrderInv
  <1>4. Held /\ Active = {}
    BY <1>2 DEF OrderInv
  <1>5. AllMatch
    BY <1>4, <1>2, NobodyRewrites DEF At, Rewriting
  <1>6. shown = View(disk, marker)
    BY <1>4 DEF TreeIsCurrent, Held, Alone, Active
  <1>7. isTree(Places) /\ nodesIn(shown) \subseteq Places
    BY <1>4, <1>5, <1>6, NodesAreThere DEF Held, AllMatch
  <1>8. Alone' /\ \A i \in Jobs : i # j => Fits(i)'
    <2>1. Active \subseteq {j} /\ job'[j].pc # "failed"
      BY <1>3, <1>4
    <2> QED
      BY <1>3, <1>4, <2>1, OthersRest
  <1>9. Places' = Places /\ marker' = marker
    BY <1>2 DEF Places
  <1>10. job[j].doc = Blank
    BY <1>2, <1>4 DEF Held, Fits, Fit, At
  <1>11. isTree(Places)' /\ marker' = [c \in Collections |-> marker'[c]] /\ OthersMatch'
    BY <1>4, <1>5, <1>9 DEF Held, OthersMatch, AllMatch
  <1>12. Fit(op, p, job[j].doc, job'[j].carry, marker, Places)
    <2>1. CASE op \in Offers
      <3>1. isOp(op) /\ op.kind # "reorder"
        BY <1>1, <1>7, <2>1, OfferIs
      <3> QED
        BY <1>10, <3>1 DEF Fit, Rewriting
    <2>2. CASE op \in Reorders
      <3>1. /\ isOp(op) /\ op.kind = "reorder"
            /\ op.names \in Seq(KindOf(op.to))
            /\ \A n \in ToSet(op.names) :
                 \E k \in Places : ~isCollection(k) /\ siblings(k, op.to) /\ n = Last(k)
        BY <1>7, <2>2, ReorderIs
      <3>2. isPlace(op.to) /\ ~isCollection(op.to) /\ home(op) = Head(op.to) /\ Head(op.to) \in Collections /\ ~Twice(op)
        BY <3>1, PlaceIs DEF isOp, home, Twice
      <3>3. matches(marker[home(op)], Head(op.to), Places)
        BY <1>5, <3>2 DEF AllMatch
      <3>4. matches(withList(marker[home(op)], op.to, op.names), Head(op.to), Places)
        BY <1>7, <3>1, <3>2, <3>3, ReorderedMatches
      <3>5. Updated(op, marker[home(op)]) = {withList(marker[home(op)], op.to, op.names)}
        BY <3>1, <3>2 DEF Updated
      <3> QED
        BY <3>1, <3>2, <3>4, <3>5 DEF Fit, Rewriting
    <2> QED
      BY <2>1, <2>2
  <1>13. Fits(j)'
    BY <1>3, <1>9, <1>12 DEF Fits
  <1> QED
    BY <1>8, <1>11, <1>13 DEF Held

(* The change of the disk, and the markers that are left as they are.        *)
LEMMA MarkersAreLeft ==
  ASSUME isTree(Places), AllMatch, marker = [c \in Collections |-> marker[c]],
         NEW op, isOp(op), op.kind # "reorder", NEW new, Covers(op, Places, new)
  PROVE  /\ \A c \in Collections :
              c # home(op) \/ (op.kind = "delete" /\ isCollection(op.from)) => matches(MarkersAfter(op)[c], c, new)
         /\ ~(op.kind = "create" /\ isCollection(op.to)) /\ ~(op.kind = "delete" /\ isCollection(op.from))
              => matches(MarkersAfter(op)[home(op)], source(op), Places)
  <1> DEFINE after == MarkersAfter(op)
  <1>0. \A c : isCollection(<<c>>) /\ Head(<<c>>) = c
    BY DEF isCollection
  <1>1. /\ op.kind # "create" => isPlace(op.from) /\ Head(op.from) \in Collections
        /\ op.kind # "delete" => isPlace(op.to) /\ Head(op.to) \in Collections
        /\ op.kind \in {"rename", "duplicate"} =>
              /\ isCollection(op.to) <=> isCollection(op.from)
              /\ ~isCollection(op.to) => Head(op.to) = Head(op.from)
        /\ op.kind \in Kinds
        /\ op.kind = "move" => ~isCollection(op.from) /\ ~isCollection(op.to)
    BY OpIs, PlaceIs DEF isOp
  <1>2. \A c \in Collections :
           after[c] = IF op.kind \in {"rename", "duplicate"} /\ op.to = <<c>> THEN marker[Head(op.from)]
                      ELSE IF op.kind \in {"rename", "delete"} /\ op.from = <<c>> THEN Blank
                      ELSE marker[c]
    BY DEF MarkersAfter
  <1> HIDE DEF after
  <1>3. /\ op.kind # "create" /\ isCollection(op.from) => op.from = <<Head(op.from)>>
        /\ op.kind # "delete" /\ isCollection(op.to) => op.to = <<Head(op.to)>>
    BY <1>1, CollectionIs
  <1>4. home(op) = IF op.kind \in {"move", "delete"} THEN Head(op.from) ELSE Head(op.to)
    BY DEF home
  <1>5. ASSUME NEW c \in Collections, c # home(op) \/ (op.kind = "delete" /\ isCollection(op.from))
        PROVE  matches(after[c], c, new)
    <2>1. CASE op.kind \in {"rename", "delete"} /\ op.from = <<c>>
      <3>1. after[c] = Blank
        BY <1>0, <1>2, <1>4, <1>5, <2>1
      <3> QED
        BY <3>1, BlankMatches
    <2>2. CASE ~(op.kind \in {"rename", "delete"} /\ op.from = <<c>>)
      <3>1. after[c] = marker[c]
        BY <1>0, <1>2, <1>4, <1>5, <2>2
      <3>2. matches(marker[c], c, Places)
        BY DEF AllMatch
      <3>3. CASE op.kind \in {"create", "duplicate"}
        BY <3>1, <3>2, <3>3, MatchesMore DEF Covers
      <3>4. CASE op.kind \notin {"create", "duplicate"}
        <4>1. c # Head(op.from)
          BY <1>1, <1>3, <1>4, <1>5, <2>2, <3>4 DEF Kinds
        <4>2. isPlace(op.from) /\ left(Places, op.from) \subseteq new
          BY <1>1, <3>4 DEF Covers
        <4>3. matches(marker[c], c, left(Places, op.from))
          BY <3>2, <4>1, <4>2, OthersStay
        <4>4. matches(marker[c], c, new)
          BY <4>2, <4>3, MatchesMore
        <4> QED
          BY <3>1, <4>4
      <3> QED
        BY <3>3, <3>4
    <2> QED
      BY <2>1, <2>2
  <1>6. ASSUME ~(op.kind = "create" /\ isCollection(op.to)), ~(op.kind = "delete" /\ isCollection(op.from))
        PROVE  matches(after[home(op)], source(op), Places)
    <2>1. source(op) \in Collections /\ home(op) \in Collections
      BY <1>1, <1>4 DEF source
    <2>2. after[home(op)] = marker[source(op)]
      BY <1>0, <1>1, <1>2, <1>3, <1>4, <1>6, <2>1 DEF source, Kinds
    <2> QED
      BY <2>1, <2>2 DEF AllMatch
  <1> QED
    BY <1>5, <1>6 DEF after
LEMMA ApplyKeepsOrder ==
  ASSUME OrderInv, NEW j \in Jobs, Apply(j)
  PROVE  OrderInv'
  <1>1. PICK op : op = job[j].op
    OBVIOUS
  <1>2. PICK p : p = CASE op.kind = "delete" /\ isCollection(op.from) -> "refresh"
                       [] op.kind = "create" /\ isCollection(op.to) -> "write"
                       [] OTHER -> "read"
    OBVIOUS
  <1>3. /\ At(j, "apply") /\ (op.kind = "create" \/ op.from \in DOMAIN disk)
        /\ disk' = Changed(j, op) /\ marker' = MarkersAfter(op)
        /\ job' = [job EXCEPT ![j].pc = p] /\ intact' = intact
    BY <1>1, <1>2 DEF Apply
  <1>4. /\ JobFields' /\ \A i \in Jobs : i # j => job'[i] = job[i]
        /\ job'[j].op = op /\ job'[j].pc = p /\ job'[j].doc = job[j].doc
    <2>1. JobFields /\ job' = [job EXCEPT ![j].pc = p]
      BY <1>3 DEF OrderInv
    <2> QED
      BY <1>1, <2>1, PcSet
  <1> SUFFICES ASSUME intact' PROVE Held'
    BY <1>4 DEF OrderInv
  <1>5. Held /\ j \in Active /\ job[j].pc = "apply"
    BY <1>3 DEF OrderInv, Active, At
  <1>6. AllMatch /\ Active \subseteq {j}
    <2>1. Active \subseteq {j} /\ job[j].pc \notin Rewriting
      BY <1>5, Only DEF Rewriting
    <2> QED
      BY <1>5, <2>1, NobodyRewrites
  <1>7. /\ isTree(Places) /\ marker = [c \in Collections |-> marker[c]]
        /\ isOp(op) /\ op.kind # "reorder" /\ job[j].doc = Blank
    BY <1>1, <1>5 DEF Held, Fits, Fit
  <1> DEFINE new == DOMAIN Changed(j, op)
  <1>8. Places' = new
    BY <1>3 DEF Places
  <1>9. isTree(new) /\ Covers(op, Places, new)
    BY <1>3, <1>7, ChangedPlaces DEF Places
  <1>10. /\ \A c \in Collections :
              c # home(op) \/ (op.kind = "delete" /\ isCollection(op.from)) => matches(marker'[c], c, new)
         /\ p = "read" => matches(marker'[home(op)], source(op), Places)
    <2> HIDE DEF new
    <2>1. p = "read" => ~(op.kind = "create" /\ isCollection(op.to)) /\ ~(op.kind = "delete" /\ isCollection(op.from))
      BY <1>2
    <2>2. /\ \A c \in Collections :
              c # home(op) \/ (op.kind = "delete" /\ isCollection(op.from)) => matches(MarkersAfter(op)[c], c, new)
          /\ ~(op.kind = "create" /\ isCollection(op.to)) /\ ~(op.kind = "delete" /\ isCollection(op.from))
                => matches(MarkersAfter(op)[home(op)], source(op), Places)
      BY <1>6, <1>7, <1>9, MarkersAreLeft
    <2> QED
      BY <1>3, <2>1, <2>2
  <1>11. /\ p \in {"read", "write", "refresh"}
         /\ p = "refresh" => op.kind = "delete" /\ isCollection(op.from)
         /\ p = "write" => op.kind = "create" /\ isCollection(op.to)
         /\ p = "read" => ~(op.kind = "create" /\ isCollection(op.to)) /\ ~(op.kind = "delete" /\ isCollection(op.from))
    BY <1>2
  <1>12. marker' = [c \in Collections |-> marker'[c]]
    BY <1>3 DEF MarkersAfter
  <1>13. OthersMatch'
    <2> SUFFICES ASSUME NEW c \in Collections
                 PROVE  \/ matches(marker'[c], c, new)
                        \/ \E i \in Jobs : job'[i].pc \in Rewriting /\ home(job'[i].op) = c
      BY <1>8 DEF OthersMatch
    <2>1. CASE c = home(op) /\ p # "refresh"
      BY <1>4, <1>11, <2>1 DEF Rewriting
    <2>2. CASE ~(c = home(op) /\ p # "refresh")
      BY <1>10, <1>11, <2>2
    <2> QED
      BY <2>1, <2>2
  <1>14. Alone' /\ \A i \in Jobs : i # j => Fits(i)'
    <2>1. job'[j].pc # "failed"
      BY <1>4, <1>11
    <2> QED
      BY <1>4, <1>5, <1>6, <2>1, OthersRest
  <1>15. Fit(op, p, Blank, job'[j].carry, marker', new)
    <2> HIDE DEF new
    <2>1. CASE p = "refresh"
      BY <2>1 DEF Fit, Rewriting
    <2>2. CASE p = "write"
      <3>1. matches(Blank, home(op), new)
        BY BlankMatches
      <3>2. ~Twice(op)
        BY <1>11, <2>2 DEF Twice
      <3> QED
        BY <1>7, <2>2, <3>1, <3>2 DEF Fit, Rewriting
    <2>3. CASE p = "read"
      <3> DEFINE m == marker'[home(op)]
      <3>1. matches(m, source(op), Places)
        BY <1>10, <2>3
      <3> HIDE DEF m
      <3>2. \A d \in Updated(op, m) : matches(d, home(op), new)
        BY <1>7, <1>9, <1>11, <2>3, <3>1, UpdatedMatches
      <3>3. ASSUME Twice(op)
            PROVE  matches(extracted(m, op.from, op.to), Head(op.to), new) /\ op.to \in new
        <4>1. op.kind = "move" /\ isPlace(op.from) /\ isPlace(op.to) /\ op.to \in new
          BY <1>7, <1>9, <3>3 DEF Twice, isOp, Covers
        <4>2. matches(m, Head(op.from), Places) /\ op.kind \in {"rename", "duplicate", "move"}
          BY <3>1, <4>1 DEF source
        <4>3. matches(extracted(m, op.from, op.to), Head(op.to), new)
          BY <1>9, <4>1, <4>2, ExtractedMatches
        <4> QED
          BY <4>1, <4>3
      <3> QED
        BY <1>7, <2>3, <3>2, <3>3 DEF Fit, Rewriting, m
    <2> QED
      BY <1>11, <2>1, <2>2, <2>3
  <1>16. Fits(j)'
    BY <1>4, <1>7, <1>8, <1>15 DEF Fits
  <1>17. isTree(Places)'
    BY <1>8, <1>9
  <1> QED
    BY <1>12, <1>13, <1>14, <1>16, <1>17 DEF Held
LEMMA ReadKeepsOrder ==
  ASSUME OrderInv, NEW j \in Jobs, NEW got, Read(j, got)
  PROVE  OrderInv'
  <1>1. PICK op : op = job[j].op
    OBVIOUS
  <1>2. PICK carry : carry = IF Twice(op) THEN extracted(got, op.from, op.to) ELSE Blank
    OBVIOUS
  <1>3. /\ At(j, "read") /\ UNCHANGED <<disk, marker>> /\ intact' = (intact /\ got = marker[home(op)])
        /\ \E doc \in Updated(op, got) : job' = [job EXCEPT ![j].doc = doc, ![j].pc = "write", ![j].carry = carry]
    BY <1>1, <1>2 DEF Read
  <1>4. PICK doc \in Updated(op, got) :
          job' = [job EXCEPT ![j].doc = doc, ![j].pc = "write", ![j].carry = carry]
    BY <1>3
  <1>5. /\ JobFields' /\ \A i \in Jobs : i # j => job'[i] = job[i]
        /\ job'[j].op = op /\ job'[j].pc = "write" /\ job'[j].doc = doc /\ job'[j].carry = carry
    <2>1. JobFields
      BY DEF OrderInv
    <2>2. Set(job, job', j, doc, "write", carry)
      BY <1>4 DEF Set
    <2>3. /\ JobFields' /\ \A i \in Jobs : i # j => job'[i] = job[i]
          /\ job'[j].op = job[j].op /\ job'[j].pc = "write" /\ job'[j].doc = doc /\ job'[j].carry = carry
      BY <2>1, <2>2, DocPcCarrySet
    <2> QED
      BY <1>1, <2>3
  <1> SUFFICES ASSUME intact' PROVE Held'
    BY <1>5 DEF OrderInv
  <1>6. Held /\ j \in Active /\ job[j].pc = "read" /\ got = marker[home(op)]
    BY <1>3 DEF OrderInv, Active, At
  <1>7. Places' = Places /\ marker' = marker /\ Active \subseteq {j}
    BY <1>3, <1>6, Only DEF Places
  <1>8. Alone' /\ \A i \in Jobs : i # j => Fits(i)'
    <2>1. job'[j].pc # "failed"
      BY <1>5
    <2> QED
      BY <1>5, <1>6, <1>7, <2>1, OthersRest
  <1>9. isTree(Places)' /\ marker' = [c \in Collections |-> marker'[c]]
    BY <1>6, <1>7 DEF Held
  <1>10. OthersMatch'
    <2> SUFFICES ASSUME NEW c \in Collections
                 PROVE  \/ matches(marker[c], c, Places)
                        \/ \E i \in Jobs : job'[i].pc \in Rewriting /\ home(job'[i].op) = c
      BY <1>7 DEF OthersMatch
    <2>1. CASE matches(marker[c], c, Places)
      BY <2>1
    <2>2. CASE \E i \in Jobs : job[i].pc \in Rewriting /\ home(job[i].op) = c
      <3>1. home(op) = c
        BY <1>1, <1>7, <2>2 DEF Active, Rewriting
      <3> QED
        BY <1>5, <3>1 DEF Rewriting
    <2> QED
      BY <1>6, <2>1, <2>2 DEF Held, OthersMatch
  <1>11. Fit(op, "read", job[j].doc, job[j].carry, marker, Places)
    BY <1>1, <1>6 DEF Held, Fits
  <1>12. Fit(op, "write", doc, carry, marker, Places)
    BY <1>2, <1>4, <1>6, <1>11 DEF Fit, Rewriting
  <1>13. Fits(j)'
    BY <1>5, <1>7, <1>12 DEF Fits
  <1> QED
    BY <1>8, <1>9, <1>10, <1>13 DEF Held

(* Writing a marker: its directory is there afterwards.                     *)
LEMMA WriteToIs ==
  ASSUME NEW c \in Collections, NEW j, NEW doc, WriteTo(c, j, doc), isTree(Places),
         marker = [i \in Collections |-> marker[i]]
  PROVE  /\ Places' = Places \cup {<<c>>} /\ isTree(Places')
         /\ marker' = [i \in Collections |-> marker'[i]]
         /\ marker'[c] = doc /\ \A i \in Collections : i # c => marker'[i] = marker[i]
  <1>1. Places' = Places \cup {<<c>>}
    <2> DEFINE g == [l \in {<<c>>} |-> <<j>>]
    <2>1. disk' = first(disk, g) /\ DOMAIN g = {<<c>>}
      BY DEF WriteTo
    <2> HIDE DEF g
    <2>2. DOMAIN first(disk, g) = DOMAIN disk \cup DOMAIN g
      BY FirstDomain
    <2> QED
      BY <2>1, <2>2 DEF Places
  <1>2. prefixes(<<c>>) \subseteq {<<c>>}
    <2>1. Len(<<c>>) = 1 /\ <<c>> \in Seq({c})
      OBVIOUS
    <2>2. SubSeq(<<c>>, 1, 1) = <<c>>
      BY <2>1, SubSeqFull
    <2> QED
      BY <2>1, <2>2 DEF prefixes
  <1>3. isTree(Places')
    <2>1. isTree({<<c>>})
      BY <1>2, Root, TreeIf
    <2> QED
      BY <1>1, <2>1, TreeUnion
  <1>4. marker' = [marker EXCEPT ![c] = doc]
    BY DEF WriteTo
  <1> QED
    BY <1>1, <1>3, <1>4

LEMMA WriteKeepsOrder ==
  ASSUME OrderInv, NEW j \in Jobs, Write(j)
  PROVE  OrderInv'
  <1>1. PICK op : op = job[j].op
    OBVIOUS
  <1>2. PICK p : p = IF Twice(op) THEN "readTarget" ELSE "refresh"
    OBVIOUS
  <1>3. PICK doc : doc = job[j].doc
    OBVIOUS
  <1>4. /\ At(j, "write") /\ WriteTo(home(op), j, doc) /\ intact' = intact
        /\ job' = [job EXCEPT ![j].pc = p]
    BY <1>1, <1>2, <1>3 DEF Write, Enter
  <1>5. /\ JobFields' /\ \A i \in Jobs : i # j => job'[i] = job[i]
        /\ job'[j].op = op /\ job'[j].pc = p /\ job'[j].doc = doc /\ job'[j].carry = job[j].carry
    <2>1. JobFields
      BY DEF OrderInv
    <2> QED
      BY <1>1, <1>3, <1>4, <2>1, PcSet
  <1> SUFFICES ASSUME intact' PROVE Held'
    BY <1>5 DEF OrderInv
  <1>6. Held /\ j \in Active /\ job[j].pc = "write"
    BY <1>4 DEF OrderInv, Active, At
  <1>7. Active \subseteq {j}
    BY <1>6, Only
  <1>8. Fit(op, "write", doc, job[j].carry, marker, Places)
    BY <1>1, <1>3, <1>6 DEF Held, Fits
  <1>9. isOp(op) /\ home(op) \in Collections
    <2>1. isOp(op)
      BY <1>8 DEF Fit
    <2> QED
      BY <2>1, PlaceIs DEF isOp, home
  <1>10. /\ Places' = Places \cup {<<home(op)>>} /\ isTree(Places')
         /\ marker' = [i \in Collections |-> marker'[i]]
         /\ marker'[home(op)] = doc /\ \A i \in Collections : i # home(op) => marker'[i] = marker[i]
    BY <1>4, <1>6, <1>9, WriteToIs DEF Held
  <1>11. Alone' /\ \A i \in Jobs : i # j => Fits(i)'
    <2>1. job'[j].pc # "failed"
      BY <1>2, <1>5
    <2> QED
      BY <1>5, <1>6, <1>7, <2>1, OthersRest
  <1>12. OthersMatch'
    <2> SUFFICES ASSUME NEW c \in Collections PROVE matches(marker'[c], c, Places')
      BY DEF OthersMatch
    <2>1. CASE c = home(op)
      <3>1. matches(doc, home(op), Places)
        BY <1>8 DEF Fit
      <3> QED
        BY <1>10, <2>1, <3>1, MatchesMore
    <2>2. CASE c # home(op)
      <3>1. matches(marker[c], c, Places)
        BY <1>1, <1>6, <1>7, <2>2 DEF Held, OthersMatch, Active, Rewriting
      <3> QED
        BY <1>10, <2>2, <3>1, MatchesMore
    <2> QED
      BY <2>1, <2>2
  <1>13. Fit(op, p, doc, job[j].carry, marker', Places')
    <2>1. CASE Twice(op)
      <3>1. matches(job[j].carry, Head(op.to), Places) /\ op.to \in Places
        BY <1>8, <2>1 DEF Fit, Rewriting
      <3>2. matches(job[j].carry, Head(op.to), Places') /\ op.to \in Places'
        BY <1>10, <3>1, MatchesMore
      <3> QED
        BY <1>2, <1>9, <2>1, <3>2 DEF Fit, Rewriting, Twice
    <2>2. CASE ~Twice(op)
      BY <1>2, <2>2 DEF Fit, Rewriting
    <2> QED
      BY <2>1, <2>2
  <1>14. Fits(j)'
    BY <1>5, <1>13 DEF Fits
  <1> QED
    BY <1>10, <1>11, <1>12, <1>14 DEF Held

LEMMA ReadTargetKeepsOrder ==
  ASSUME OrderInv, NEW j \in Jobs, NEW got, ReadTarget(j, got)
  PROVE  OrderInv'
  <1>1. PICK op : op = job[j].op
    OBVIOUS
  <1>2. PICK carry : carry = job[j].carry
    OBVIOUS
  <1>3. PICK doc : doc = upserted(overlaid(got, carry), op.to)
    OBVIOUS
  <1>4. /\ At(j, "readTarget") /\ UNCHANGED <<disk, marker>> /\ intact' = (intact /\ got = marker[Head(op.to)])
        /\ job' = [job EXCEPT ![j].doc = doc, ![j].pc = "writeTarget"]
    BY <1>1, <1>2, <1>3 DEF ReadTarget
  <1>5. /\ JobFields' /\ \A i \in Jobs : i # j => job'[i] = job[i]
        /\ job'[j].op = op /\ job'[j].pc = "writeTarget" /\ job'[j].doc = doc
    <2>1. JobFields
      BY DEF OrderInv
    <2>2. job' = [job EXCEPT ![j].doc = doc, ![j].pc = "writeTarget"]
      BY <1>4
    <2>3. /\ JobFields' /\ \A i \in Jobs : i # j => job'[i] = job[i]
          /\ job'[j].op = job[j].op /\ job'[j].pc = "writeTarget" /\ job'[j].doc = doc
      BY <2>1, <2>2, DocPcSet
    <2> QED
      BY <1>1, <2>3
  <1> SUFFICES ASSUME intact' PROVE Held'
    BY <1>5 DEF OrderInv
  <1>6. Held /\ j \in Active /\ job[j].pc = "readTarget" /\ got = marker[Head(op.to)]
    BY <1>4 DEF OrderInv, Active, At
  <1>7. Places' = Places /\ marker' = marker /\ Active \subseteq {j}
    BY <1>4, <1>6, Only DEF Places
  <1>8. AllMatch
    BY <1>6, <1>7, NobodyRewrites DEF Rewriting
  <1>9. Alone' /\ \A i \in Jobs : i # j => Fits(i)'
    <2>1. job'[j].pc # "failed"
      BY <1>5
    <2> QED
      BY <1>5, <1>6, <1>7, <2>1, OthersRest
  <1>10. isTree(Places)' /\ marker' = [c \in Collections |-> marker'[c]] /\ OthersMatch'
    BY <1>6, <1>7, <1>8 DEF Held, AllMatch, OthersMatch
  <1>11. Fit(op, "readTarget", job[j].doc, carry, marker, Places)
    BY <1>1, <1>2, <1>6 DEF Held, Fits
  <1>12. /\ isOp(op) /\ op.kind = "move" /\ matches(carry, Head(op.to), Places) /\ op.to \in Places
         /\ isPlace(op.to) /\ ~isCollection(op.to)
    BY <1>11 DEF Fit, isOp
  <1>13. matches(doc, Head(op.to), Places)
    <2>1. matches(got, Head(op.to), Places)
      BY <1>6, <1>8, <1>12, PlaceIs DEF AllMatch
    <2>2. matches(upserted(overlaid(got, carry), op.to), Head(op.to), Places)
      BY <1>12, <2>1, OverlaidMatches
    <2> QED
      BY <1>3, <2>2
  <1>14. Fit(op, "writeTarget", doc, job'[j].carry, marker, Places)
    BY <1>12, <1>13 DEF Fit, Rewriting
  <1>15. Fits(j)'
    BY <1>5, <1>7, <1>14 DEF Fits
  <1> QED
    BY <1>9, <1>10, <1>15 DEF Held

LEMMA WriteTargetKeepsOrder ==
  ASSUME OrderInv, NEW j \in Jobs, WriteTarget(j)
  PROVE  OrderInv'
  <1>1. PICK op : op = job[j].op
    OBVIOUS
  <1>2. PICK doc : doc = job[j].doc
    OBVIOUS
  <1>3. /\ At(j, "writeTarget") /\ WriteTo(Head(op.to), j, doc) /\ intact' = intact
        /\ job' = [job EXCEPT ![j].pc = "refresh"]
    BY <1>1, <1>2 DEF WriteTarget, Enter
  <1>4. /\ JobFields' /\ \A i \in Jobs : i # j => job'[i] = job[i]
        /\ job'[j].op = op /\ job'[j].pc = "refresh" /\ job'[j].doc = doc
    <2>1. JobFields
      BY DEF OrderInv
    <2> QED
      BY <1>1, <1>2, <1>3, <2>1, PcSet
  <1> SUFFICES ASSUME intact' PROVE Held'
    BY <1>4 DEF OrderInv
  <1>5. Held /\ j \in Active /\ job[j].pc = "writeTarget"
    BY <1>3 DEF OrderInv, Active, At
  <1>6. Active \subseteq {j}
    BY <1>5, Only
  <1>7. AllMatch
    BY <1>5, <1>6, NobodyRewrites DEF Rewriting
  <1>8. Fit(op, "writeTarget", doc, job[j].carry, marker, Places)
    BY <1>1, <1>2, <1>5 DEF Held, Fits
  <1>9. isOp(op) /\ op.kind = "move" /\ Head(op.to) \in Collections /\ matches(doc, Head(op.to), Places)
    <2>1. isOp(op) /\ op.kind = "move" /\ matches(doc, Head(op.to), Places)
      BY <1>8 DEF Fit
    <2> QED
      BY <2>1, PlaceIs DEF isOp
  <1> DEFINE h == Head(op.to)
  <1>10. /\ Places' = Places \cup {<<h>>} /\ isTree(Places')
         /\ marker' = [i \in Collections |-> marker'[i]]
         /\ marker'[h] = doc /\ \A i \in Collections : i # h => marker'[i] = marker[i]
    <2>1. WriteTo(h, j, doc) /\ h \in Collections /\ isTree(Places) /\ marker = [i \in Collections |-> marker[i]]
      BY <1>3, <1>5, <1>9 DEF Held
    <2> HIDE DEF h
    <2> QED
      BY <2>1, WriteToIs
  <1> HIDE DEF h
  <1>11. Alone' /\ \A i \in Jobs : i # j => Fits(i)'
    <2>1. job'[j].pc # "failed"
      BY <1>4
    <2> QED
      BY <1>4, <1>5, <1>6, <2>1, OthersRest
  <1>12. OthersMatch'
    <2> SUFFICES ASSUME NEW c \in Collections PROVE matches(marker'[c], c, Places')
      BY DEF OthersMatch
    <2>1. CASE c = h
      BY <1>9, <1>10, <2>1, MatchesMore DEF h
    <2>2. CASE c # h
      BY <1>7, <1>10, <2>2, MatchesMore DEF AllMatch
    <2> QED
      BY <2>1, <2>2
  <1>13. Fits(j)'
    BY <1>4 DEF Fits, Fit, Rewriting
  <1> QED
    BY <1>10, <1>11, <1>12, <1>13 DEF Held

LEMMA FailsKeepsOrder ==
  ASSUME OrderInv, NEW j \in Jobs, Fails(j)
  PROVE  OrderInv'
  <1>1. job' = [job EXCEPT ![j].pc = "failed"] /\ intact' = FALSE
    BY DEF Fails, Enter
  <1>2. JobFields'
    <2>1. JobFields
      BY DEF OrderInv
    <2> QED
      BY <1>1, <2>1, PcSet
  <1> QED
    BY <1>1, <1>2 DEF OrderInv

(* Steps that only end a command, or let it wait.                           *)
LEMMA WaitingKeepsOrder ==
  ASSUME OrderInv, UNCHANGED <<disk, marker, intact>>, JobFields',
         \A j \in Jobs :
            \/ job'[j] = job[j]
            \/ job[j].pc \in {"refresh", "waiting"} /\ job'[j].pc \in {"waiting", "done"}
  PROVE  OrderInv'
  <1> SUFFICES ASSUME intact' PROVE Held'
    BY DEF OrderInv
  <1>1. Held
    BY DEF OrderInv
  <1>2. Alone'
    BY <1>1 DEF Held, Alone, Active
  <1>3. Places' = Places /\ marker' = marker
    BY DEF Places
  <1>4. OthersMatch'
    <2>1. \A j \in Jobs : job[j].pc \in Rewriting => job'[j] = job[j]
      BY DEF Rewriting
    <2> QED
      BY <1>1, <1>3, <2>1 DEF Held, OthersMatch
  <1>5. ASSUME NEW j \in Jobs PROVE Fits(j)'
    <2>1. CASE job'[j] = job[j]
      BY <1>1, <1>3, <2>1 DEF Held, Fits
    <2>2. CASE job'[j].pc \in {"waiting", "done"}
      BY <2>2 DEF Fits, Fit, Rewriting
    <2> QED
      BY <2>1, <2>2
  <1> QED
    BY <1>1, <1>2, <1>3, <1>4, <1>5 DEF Held

LEMMA RefreshKeepsOrder ==
  ASSUME OrderInv, (\E j \in Jobs : Ask(j)) \/ Scan \/ Publish
  PROVE  OrderInv'
  <1>1. JobFields
    BY DEF OrderInv
  <1>2. ASSUME NEW j \in Jobs, Ask(j) PROVE OrderInv'
    <2>1. job' = [job EXCEPT ![j].pc = "waiting"] /\ UNCHANGED <<disk, marker, intact>> /\ job[j].pc = "refresh"
      BY <1>2 DEF Ask, Enter, At
    <2>2. JobFields' /\ (\A i \in Jobs : i # j => job'[i] = job[i]) /\ job'[j].pc = "waiting"
      BY <1>1, <2>1, PcSet
    <2> QED
      BY <2>1, <2>2, WaitingKeepsOrder
  <1>3. CASE Scan
    <2>1. UNCHANGED <<disk, marker, intact, job>>
      BY <1>3 DEF Scan
    <2>2. JobFields'
      BY <1>1, <2>1 DEF JobFields
    <2> QED
      BY <2>1, <2>2, WaitingKeepsOrder
  <1>4. CASE Publish
    <2>1. /\ UNCHANGED <<disk, marker, intact>>
          /\ job' = [j \in Jobs |-> IF At(j, "waiting") /\ ~scan.queued
                                    THEN [job[j] EXCEPT !.pc = "done"] ELSE job[j]]
      BY <1>4 DEF Publish
    <2>2. \A j \in Jobs : \/ job'[j] = job[j]
                          \/ job[j].pc = "waiting" /\ job'[j] = [job[j] EXCEPT !.pc = "done"]
      BY <2>1 DEF At
    <2>3. \A j \in Jobs : LET w == [job[j] EXCEPT !.pc = "done"] IN
             w = [op |-> w.op, pc |-> w.pc, doc |-> w.doc, carry |-> w.carry] /\ w.pc = "done"
      BY <1>1 DEF JobFields
    <2>4. JobFields'
      <3>1. job' = [j \in Jobs |-> job'[j]]
        BY <2>1
      <3>2. \A j \in Jobs : job'[j] = [op |-> job'[j].op, pc |-> job'[j].pc, doc |-> job'[j].doc, carry |-> job'[j].carry]
        BY <1>1, <2>2, <2>3 DEF JobFields
      <3> QED
        BY <3>1, <3>2 DEF JobFields
    <2> QED
      BY <2>1, <2>2, <2>3, <2>4, WaitingKeepsOrder
  <1> QED
    BY <1>2, <1>3, <1>4
-----------------------------------------------------------------------------
(* The markers at first, and after any number of steps.                     *)
LEMMA OrderStarts == TreeInit => OrderInv
  <1> SUFFICES ASSUME TreeInit PROVE OrderInv
    OBVIOUS
  <1>1. PICK layout \in Layouts :
          /\ disk = [l \in layout.disk |-> l]
          /\ marker = [c \in Collections |->
                         IF c \in DOMAIN layout.marker THEN layout.marker[c] ELSE Blank]
    BY DEF TreeInit
  <1>2. isTree(layout.disk) /\ \A c \in DOMAIN layout.marker : matches(layout.marker[c], c, layout.disk)
    BY LayoutsAreSound
  <1>3. job = [j \in Jobs |-> [op |-> Idle, pc |-> "unborn", doc |-> Blank, carry |-> Blank]]
    BY DEF TreeInit
  <1>4. JobFields /\ \A j \in Jobs : job[j].pc = "unborn" /\ job[j].doc = Blank
    BY <1>3 DEF JobFields
  <1>5. Alone /\ Active = {}
    BY <1>4 DEF Alone, Active
  <1>6. Places = layout.disk
    BY <1>1 DEF Places
  <1>7. marker = [c \in Collections |-> marker[c]]
    BY <1>1
  <1>8. OthersMatch
    BY <1>1, <1>2, <1>6, BlankMatches DEF OthersMatch
  <1>9. \A j \in Jobs : Fits(j)
    BY <1>4 DEF Fits, Fit, Rewriting
  <1> QED
    BY <1>2, <1>4, <1>5, <1>6, <1>7, <1>8, <1>9 DEF OrderInv, Held

LEMMA OrderKept == TreeIsCurrent /\ OrderInv /\ [TreeNext]_treeVars => OrderInv'
  <1> SUFFICES ASSUME TreeIsCurrent, OrderInv, [TreeNext]_treeVars PROVE OrderInv'
    OBVIOUS
  <1>1. CASE UNCHANGED treeVars
    <2>1. UNCHANGED <<disk, marker, intact, job>>
      BY <1>1 DEF treeVars
    <2>2. JobFields'
      BY <2>1 DEF OrderInv, JobFields
    <2> QED
      BY <2>1, <2>2, WaitingKeepsOrder
  <1>2. CASE TreeNext
    BY <1>2, BeginKeepsOrder, ApplyKeepsOrder, ReadKeepsOrder, WriteKeepsOrder, ReadTargetKeepsOrder,
       WriteTargetKeepsOrder, FailsKeepsOrder, RefreshKeepsOrder DEF TreeNext
  <1> QED
    BY <1>1, <1>2

(* Whatever commands of one or more collections are given, one after the     *)
(* other and none failing: between them the markers speak of what is there,  *)
(* however deep the folders nest and however many names there are.          *)
THEOREM MarkersFollowTheDisk == TreeSpec => []MarkersMatchDisk
  <1>1. OrderInv => MarkersMatchDisk
    <2> SUFFICES ASSUME OrderInv, intact, Active = {}, NEW c \in Collections
                 PROVE  \A p \in listed(marker[c].folders) \cup listed(marker[c].requests) :
                          <<c>> \o p \in DOMAIN disk
      BY DEF MarkersMatchDisk
    <2>1. \A j \in Jobs : job[j].pc \notin Rewriting
      BY DEF Active, Rewriting
    <2>2. matches(marker[c], c, Places)
      BY <2>1 DEF OrderInv, Held, OthersMatch
    <2> QED
      BY <2>2 DEF matches, Places
  <1> QED
    BY <1>1, OrderStarts, OrderKept, TreeShowsTheDisk, PTL DEF TreeSpec

-----------------------------------------------------------------------------
(* The order of names in a list.                                            *)

(* What is kept stays in its order: before an element comes only what came   *)
(* before it.                                                               *)
LEMMA WithoutOrder ==
  ASSUME NEW S, NEW s \in Seq(S), NEW e, NEW i \in DOMAIN s, s[i] # e
  PROVE  \E k \in DOMAIN Without(s, e) :
            /\ Without(s, e)[k] = s[i]
            /\ \A h \in 1..k : \E g \in 1..i : Without(s, e)[h] = s[g]
  <1> DEFINE kept == keptIn(s, e)
             c == Cardinality(kept)
             rank(x) == newPlace(s, e, x)
             w == Without(s, e)
             back(k) == CHOOSE x \in kept : rank(x) = k
  <1>1. /\ c \in Nat
        /\ w = [k \in 1..c |-> s[back(k)]]
        /\ \A x \in kept : rank(x) \in 1..c
        /\ \A x, y \in kept : x < y => rank(x) < rank(y)
        /\ \A k \in 1..c : \E x \in kept : rank(x) = k
    BY WithoutRanks
  <1>2. i \in kept /\ kept \subseteq DOMAIN s /\ DOMAIN s = 1..Len(s) /\ Len(s) \in Nat
    BY DEF keptIn
  <1> HIDE DEF kept, rank, c, w
  <1>3. \A k \in 1..c : back(k) \in kept /\ rank(back(k)) = k
    BY <1>1
  <1> HIDE DEF back
  <1>4. ASSUME NEW x \in kept, NEW y \in kept, rank(x) <= rank(y)
        PROVE  x <= y
    <2>1. x \in Nat /\ y \in Nat /\ rank(x) \in Nat /\ rank(y) \in Nat
      BY <1>1, <1>2
    <2>2. y < x => rank(y) < rank(x)
      BY <1>1
    <2> QED
      BY <1>4, <2>1, <2>2
  <1>5. ASSUME NEW h \in 1..rank(i)
        PROVE  h \in 1..c /\ back(h) \in 1..i /\ w[h] = s[back(h)]
    <2>1. rank(i) \in 1..c /\ h \in 1..c
      BY <1>1, <1>2
    <2>2. back(h) \in kept /\ rank(back(h)) = h
      BY <1>3, <2>1
    <2>3. rank(back(h)) <= rank(i)
      BY <2>1, <2>2
    <2>4. back(h) <= i
      BY <1>2, <1>4, <2>2, <2>3
    <2> QED
      BY <1>1, <1>2, <2>1, <2>2, <2>4
  <1>6. rank(i) \in DOMAIN w /\ back(rank(i)) = i
    <2>1. rank(i) \in 1..c
      BY <1>1, <1>2
    <2>2. back(rank(i)) \in kept /\ rank(back(rank(i))) = rank(i)
      BY <1>3, <2>1
    <2>3. rank(i) <= rank(i)
      BY <2>1
    <2>4. back(rank(i)) <= i /\ i <= back(rank(i))
      BY <1>2, <1>4, <2>2, <2>3
    <2> QED
      BY <1>1, <1>2, <2>1, <2>2, <2>4
  <1>7. w[rank(i)] = s[i]
    BY <1>1, <1>6
  <1>8. \A h \in 1..rank(i) : \E g \in 1..i : w[h] = s[g]
    BY <1>5
  <1> QED
    BY <1>6, <1>7, <1>8 DEF w

(* An element comes before the first of another. *)
Ahead(s, e, f) == \E i \in DOMAIN s : s[i] = e /\ \A h \in 1..i : s[h] # f
(* t has the two in the order of s, where they are in s. *)
KeepsPair(s, t, e, f) ==
  /\ Ahead(s, e, f) => Ahead(t, e, f)
  /\ e \in ToSet(t) <=> e \in ToSet(s)
  /\ f \in ToSet(t) <=> f \in ToSet(s)

LEMMA WithoutKeepsPair ==
  ASSUME NEW S, NEW s \in Seq(S), NEW x, NEW e, NEW f, e # x, f # x
  PROVE  KeepsPair(s, Without(s, x), e, f)
  <1> DEFINE w == Without(s, x)
  <1>1. ToSet(w) \subseteq ToSet(s)
    BY ElementsWithout
  <1>2. \A i \in DOMAIN s : s[i] # x =>
           \E k \in DOMAIN w : w[k] = s[i] /\ \A h \in 1..k : \E g \in 1..i : w[h] = s[g]
    BY WithoutOrder
  <1> HIDE DEF w
  <1>3. \A y : y \in ToSet(s) /\ y # x => y \in ToSet(w)
    BY <1>2 DEF ToSet
  <1>4. ASSUME Ahead(s, e, f)
        PROVE  Ahead(w, e, f)
    <2>1. PICK i \in DOMAIN s : s[i] = e /\ \A h \in 1..i : s[h] # f
      BY <1>4 DEF Ahead
    <2>2. PICK k \in DOMAIN w : w[k] = s[i] /\ \A h \in 1..k : \E g \in 1..i : w[h] = s[g]
      BY <1>2, <2>1
    <2>3. \A h \in 1..k : w[h] # f
      BY <2>1, <2>2
    <2> QED
      BY <2>1, <2>2, <2>3 DEF Ahead
  <1> QED
    BY <1>1, <1>3, <1>4 DEF KeepsPair, w

LEMMA AppendKeepsPair ==
  ASSUME NEW S, NEW s \in Seq(S), NEW x \in S, NEW e, NEW f, e # x, f # x
  PROVE  KeepsPair(s, Append(s, x), e, f)
  <1> DEFINE w == Append(s, x)
  <1>1. /\ Len(s) \in Nat /\ DOMAIN s = 1..Len(s) /\ DOMAIN w = 1..(Len(s) + 1)
        /\ \A i \in 1..Len(s) : w[i] = s[i]
        /\ w[Len(s) + 1] = x
    BY AppendProperties
  <1> HIDE DEF w
  <1>2. \A i \in DOMAIN w : i \in DOMAIN s \/ w[i] = x
    BY <1>1
  <1>3. \A y : y # x => (y \in ToSet(w) <=> y \in ToSet(s))
    BY <1>1, <1>2 DEF ToSet
  <1>4. ASSUME Ahead(s, e, f)
        PROVE  Ahead(w, e, f)
    <2>1. PICK i \in DOMAIN s : s[i] = e /\ \A h \in 1..i : s[h] # f
      BY <1>4 DEF Ahead
    <2>2. \A h \in 1..i : w[h] = s[h] /\ i \in DOMAIN w /\ w[i] = s[i]
      BY <1>1
    <2>3. i \in DOMAIN w /\ w[i] = s[i]
      BY <1>1
    <2> QED
      BY <2>1, <2>2, <2>3 DEF Ahead
  <1> QED
    BY <1>3, <1>4 DEF KeepsPair, w

LEMMA KeepsPairTwice ==
  ASSUME NEW s, NEW t, NEW u, NEW e, NEW f, KeepsPair(s, t, e, f), KeepsPair(t, u, e, f)
  PROVE  KeepsPair(s, u, e, f)
  BY DEF KeepsPair

LEMMA KeepsPairSame ==
  ASSUME NEW s, NEW e, NEW f
  PROVE  KeepsPair(s, s, e, f)
  BY DEF KeepsPair

(* The same with another name for one of them. *)
inPlaceOf(x, y, e) == IF e = x THEN y ELSE e
LEMMA ReplaceKeepsPair ==
  ASSUME NEW S, NEW s \in Seq(S), NEW x \in S, NEW y \in S, y \notin ToSet(s),
         NEW e, NEW f, e # y, f # y
  PROVE  LET t == ReplaceAll(s, x, y)
             a == inPlaceOf(x, y, e)
             b == inPlaceOf(x, y, f) IN
         /\ Ahead(s, e, f) => Ahead(t, a, b)
         /\ a \in ToSet(t) <=> e \in ToSet(s)
         /\ b \in ToSet(t) <=> f \in ToSet(s)
  <1> DEFINE t == ReplaceAll(s, x, y)
             r(z) == inPlaceOf(x, y, z)
  <1>1. /\ Len(s) \in Nat /\ DOMAIN s = 1..Len(s) /\ DOMAIN t = DOMAIN s
        /\ \A i \in DOMAIN s : t[i] = r(s[i])
    BY DEF ReplaceAll, inPlaceOf
  <1>2. \A i \in DOMAIN s : s[i] # y
    BY DEF ToSet
  <1>3. \A i \in DOMAIN s : \A z : z # y => (t[i] = r(z) <=> s[i] = z)
    BY <1>1, <1>2 DEF inPlaceOf
  <1> HIDE DEF t, r
  <1>4. \A z : z # y => (r(z) \in ToSet(t) <=> z \in ToSet(s))
    BY <1>1, <1>3 DEF ToSet
  <1>5. ASSUME Ahead(s, e, f)
        PROVE  Ahead(t, r(e), r(f))
    <2>1. PICK i \in DOMAIN s : s[i] = e /\ \A h \in 1..i : s[h] # f
      BY <1>5 DEF Ahead
    <2>2. \A h \in 1..i : h \in DOMAIN s
      BY <1>1
    <2>3. \A h \in 1..i : t[h] # r(f)
      BY <1>3, <2>1, <2>2
    <2> QED
      BY <1>1, <1>3, <2>1, <2>3 DEF Ahead
  <1> QED
    BY <1>4, <1>5 DEF t, r

-----------------------------------------------------------------------------
(* place: by the list first, then by the locale.                            *)
firstAt(s, e) == CHOOSE i \in DOMAIN s : s[i] = e /\ \A h \in 1..(i - 1) : s[h] # e
rankIn(s, e) == IF e \in ToSet(s) THEN firstAt(s, e) ELSE Len(s) + firstAt(Alphabet, e)
Sooner(e, f) == firstAt(Alphabet, e) < firstAt(Alphabet, f)

LEMMA PlaceIsRank ==
  ASSUME NEW v, NEW l
  PROVE  place(v, l) = rankIn(list(v.marker[Head(l)], l), Last(l))
  BY DEF place, rankIn, firstAt

LEMMA LeastOf ==
  ASSUME NEW T \in SUBSET Nat, T # {}
  PROVE  \E n \in T : \A m \in T : n <= m
  <1>1. \E n \in T : \A m \in T : ~(<<m, n>> \in OpToRel(<, Nat))
    BY NatLessThanWellFounded, WFMin
  <1>2. PICK n \in T : \A m \in T : ~(<<m, n>> \in OpToRel(<, Nat))
    BY <1>1
  <1>3. \A m \in T : m < n => <<m, n>> \in OpToRel(<, Nat)
    BY DEF OpToRel
  <1>4. \A m \in T : ~(m < n)
    BY <1>2, <1>3
  <1>5. \A m \in T : m \in Nat /\ n \in Nat
    OBVIOUS
  <1>6. \A m \in T : n <= m
    BY <1>4, <1>5
  <1> QED
    BY <1>6

LEMMA FirstAtIs ==
  ASSUME NEW S, NEW s \in Seq(S), NEW e, e \in ToSet(s)
  PROVE  /\ firstAt(s, e) \in 1..Len(s) /\ s[firstAt(s, e)] = e
         /\ \A h \in 1..(firstAt(s, e) - 1) : s[h] # e
  <1> DEFINE T == {i \in DOMAIN s : s[i] = e}
  <1>1. DOMAIN s = 1..Len(s) /\ Len(s) \in Nat
    OBVIOUS
  <1>2. T \in SUBSET Nat /\ T # {}
    BY <1>1 DEF ToSet
  <1>3. PICK n \in T : \A m \in T : n <= m
    BY <1>2, LeastOf
  <1>4. n \in DOMAIN s /\ s[n] = e
    BY <1>3
  <1>5. ASSUME NEW h \in 1..(n - 1)
        PROVE  s[h] # e
    <2>1. h \in DOMAIN s /\ ~(n <= h)
      BY <1>1, <1>4
    <2> QED
      BY <1>3, <2>1
  <1> HIDE DEF T
  <1>6. \E i \in DOMAIN s : s[i] = e /\ \A h \in 1..(i - 1) : s[h] # e
    BY <1>4, <1>5
  <1> QED
    BY <1>1, <1>6 DEF firstAt

(* One name is shown before another when the list has it first, or none of   *)
(* the two and the locale has it first.                                     *)
LEMMA RankedIs ==
  ASSUME NEW S \in SUBSET Names, NEW s \in Seq(S), NEW e \in Names, NEW f \in Names
  PROVE  rankIn(s, e) < rankIn(s, f)
           <=> Ahead(s, e, f) \/ (e \notin ToSet(s) /\ f \notin ToSet(s) /\ Sooner(e, f))
  <1> DEFINE a(z) == firstAt(Alphabet, z)
             n(z) == firstAt(s, z)
  <1>1. \A z \in Names : a(z) \in Nat \ {0}
    <2>1. Alphabet \in Seq(Names) /\ \A z \in Names : z \in ToSet(Alphabet)
      BY LocaleIsTotal
    <2> QED
      BY <2>1, FirstAtIs
  <1>2. \A z \in ToSet(s) : n(z) \in 1..Len(s) /\ s[n(z)] = z /\ \A h \in 1..(n(z) - 1) : s[h] # z
    BY FirstAtIs
  <1>3. Len(s) \in Nat /\ DOMAIN s = 1..Len(s)
    OBVIOUS
  <1>4. \A z : rankIn(s, z) = IF z \in ToSet(s) THEN n(z) ELSE Len(s) + a(z)
    BY DEF rankIn
  <1>5. Sooner(e, f) <=> a(e) < a(f)
    BY DEF Sooner
  <1>6. ASSUME NEW z PROVE z \in ToSet(s) <=> \E i \in DOMAIN s : s[i] = z
    BY DEF ToSet
  <1> HIDE DEF a, n
  <1>7. CASE e \in ToSet(s) /\ f \in ToSet(s)
    <2>1. ASSUME n(e) < n(f) PROVE Ahead(s, e, f)
      <3>1. n(e) \in DOMAIN s /\ s[n(e)] = e /\ \A h \in 1..n(e) : h \in 1..(n(f) - 1)
        BY <1>2, <1>3, <1>7, <2>1
      <3> QED
        BY <1>2, <1>7, <3>1 DEF Ahead
    <2>2. ASSUME Ahead(s, e, f) PROVE n(e) < n(f)
      <3>1. PICK i \in DOMAIN s : s[i] = e /\ \A h \in 1..i : s[h] # f
        BY <2>2 DEF Ahead
      <3>2. ~(n(f) <= i)
        BY <1>2, <1>3, <1>7, <3>1
      <3>3. ~(i <= n(e) - 1)
        BY <1>2, <1>3, <1>7, <3>1
      <3>4. n(e) \in Nat /\ n(f) \in Nat /\ i \in Nat
        BY <1>2, <1>3, <1>7
      <3> QED
        BY <3>2, <3>3, <3>4
    <2> QED
      BY <1>4, <1>7, <2>1, <2>2
  <1>8. CASE e \in ToSet(s) /\ f \notin ToSet(s)
    <2>1. rankIn(s, e) < rankIn(s, f)
      BY <1>1, <1>2, <1>3, <1>4, <1>8
    <2>2. Ahead(s, e, f)
      BY <1>3, <1>6, <1>8 DEF Ahead
    <2> QED
      BY <2>1, <2>2
  <1>9. CASE e \notin ToSet(s) /\ f \in ToSet(s)
    <2>1. ~(rankIn(s, e) < rankIn(s, f))
      BY <1>1, <1>2, <1>3, <1>4, <1>9
    <2>2. ~Ahead(s, e, f)
      BY <1>6, <1>9 DEF Ahead
    <2> QED
      BY <1>9, <2>1, <2>2
  <1>10. CASE e \notin ToSet(s) /\ f \notin ToSet(s)
    <2>1. rankIn(s, e) < rankIn(s, f) <=> a(e) < a(f)
      <3>1. rankIn(s, e) = Len(s) + a(e) /\ rankIn(s, f) = Len(s) + a(f)
        BY <1>4, <1>10
      <3>2. a(e) \in Nat /\ a(f) \in Nat
        BY <1>1
      <3> QED
        BY <1>3, <3>1, <3>2
    <2>2. ~Ahead(s, e, f)
      BY <1>6, <1>10 DEF Ahead
    <2> QED
      BY <1>5, <1>10, <2>1, <2>2
  <1> QED
    BY <1>7, <1>8, <1>9, <1>10

LEMMA RankType ==
  ASSUME NEW S \in SUBSET Names, NEW s \in Seq(S), NEW e \in Names
  PROVE  rankIn(s, e) \in Int
  <1>1. Alphabet \in Seq(Names) /\ e \in ToSet(Alphabet)
    BY LocaleIsTotal
  <1>2. firstAt(Alphabet, e) \in Int
    BY <1>1, FirstAtIs
  <1>3. e \in ToSet(s) => firstAt(s, e) \in Int
    BY FirstAtIs
  <1>4. Len(s) \in Int
    OBVIOUS
  <1> QED
    BY <1>2, <1>3, <1>4 DEF rankIn

LEMMA PairKeepsRank ==
  ASSUME NEW S \in SUBSET Names, NEW s \in Seq(S), NEW t \in Seq(S), NEW e \in Names, NEW f \in Names,
         KeepsPair(s, t, e, f), rankIn(s, e) < rankIn(s, f)
  PROVE  rankIn(t, e) < rankIn(t, f)
  BY RankedIs DEF KeepsPair

-----------------------------------------------------------------------------
(* What becomes of one list of a map.                                       *)
LEMMA CancelFront ==
  ASSUME NEW S, NEW a \in Seq(S), NEW u \in Seq(S), NEW v \in Seq(S), a \o u = a \o v
  PROVE  u = v
  <1> DEFINE x == a \o u
             y == a \o v
             tl(w) == SubSeq(w, Len(a) + 1, Len(w))
  <1>1. tl(x) = u
    BY Behind
  <1>2. tl(y) = v
    BY Behind
  <1>3. x = y
    OBVIOUS
  <1> HIDE DEF x, y, tl
  <1> QED
    BY <1>1, <1>2, <1>3

LEMMA AtFirst ==
  ASSUME NEW f, NEW g, NEW k
  PROVE  /\ k \in DOMAIN f => listAt(first(f, g), k) = listAt(f, k)
         /\ k \notin DOMAIN f => listAt(first(f, g), k) = listAt(g, k)
  BY DEF first, listAt

LEMMA AtPut ==
  ASSUME NEW map, NEW key, NEW names, NEW k
  PROVE  listAt(put(map, key, names), k) = IF k = key THEN names ELSE listAt(map, k)
  <1>1. CASE names = <<>>
    BY <1>1 DEF put, listAt
  <1>2. CASE names # <<>>
    BY <1>2 DEF put, listAt
  <1> QED
    BY <1>1, <1>2

LEMMA AtWithout ==
  ASSUME NEW map, NEW from, NEW k, ~IsPrefix(from, k)
  PROVE  listAt(without(map, from), k) = listAt(map, k)
  BY DEF without, below, listAt

LEMMA AtHas ==
  ASSUME NEW kind \in SUBSET Names, NEW map, isOrder(map, kind), NEW k
  PROVE  k \in DOMAIN map <=> listAt(map, k) # <<>>
  BY DEF isOrder, listAt

isCarried(w, map, from, to) ==
  /\ \A k \in DOMAIN w : IsPrefix(to, k)
  /\ \A u \in Seq(Names) : listAt(w, to \o u) = listAt(map, from \o u)

LEMMA AtCarried ==
  ASSUME NEW kind \in SUBSET Names, NEW map, isOrder(map, kind),
         NEW from \in Seq(Names), NEW to \in Seq(Names)
  PROVE  isCarried(carried(map, from, to), map, from, to)
  <1> DEFINE w == carried(map, from, to)
  <1>1. /\ DOMAIN w = {there(k, from, to) : k \in below(map, from)}
        /\ \A k \in DOMAIN w : w[k] = map[there(k, to, from)]
    BY DEF carried
  <1> HIDE DEF w
  <1>2. ASSUME NEW k \in DOMAIN w
        PROVE  \E v \in Seq(Names) : k = to \o v /\ from \o v \in DOMAIN map
    <2>1. PICK h \in below(map, from) : k = there(h, from, to)
      BY <1>1
    <2>2. h \in DOMAIN map /\ h \in Seq(Names) /\ IsPrefix(from, h)
      BY DEF below, isOrder
    <2>3. PICK v \in Seq(Names) : h = from \o v
      BY <2>2, PrefixSplits
    <2>4. there(from \o v, from, to) = to \o v
      BY ThereIs
    <2> QED
      BY <2>1, <2>2, <2>3, <2>4
  <1>3. ASSUME NEW k \in DOMAIN w
        PROVE  IsPrefix(to, k)
    <2>1. PICK v \in Seq(Names) : k = to \o v
      BY <1>2
    <2>2. IsPrefix(to, to \o v)
      BY Behind
    <2> QED
      BY <2>1, <2>2
  <1>4. ASSUME NEW u \in Seq(Names)
        PROVE  listAt(w, to \o u) = listAt(map, from \o u)
    <2>1. there(from \o u, from, to) = to \o u /\ there(to \o u, to, from) = from \o u
      BY ThereIs
    <2>2. ASSUME to \o u \in DOMAIN w PROVE from \o u \in DOMAIN map
      <3>1. PICK v \in Seq(Names) : to \o u = to \o v /\ from \o v \in DOMAIN map
        BY <1>2, <2>2
      <3> QED
        BY <3>1, CancelFront
    <2>3. ASSUME from \o u \in DOMAIN map PROVE to \o u \in DOMAIN w
      <3>1. from \o u \in below(map, from)
        BY <2>3, Behind DEF below
      <3> QED
        BY <1>1, <2>1, <3>1
    <2> QED
      BY <1>1, <2>1, <2>2, <2>3 DEF listAt
  <1> QED
    BY <1>3, <1>4 DEF w, isCarried

-----------------------------------------------------------------------------
(* What becomes of one list of a marker: those that are put elsewhere, and   *)
(* those that come with a folder.                                           *)
sameSlot(l, t) == isRequest(l) = isRequest(t) /\ siblingKey(l) = siblingKey(t)

LEMMA ListIn ==
  ASSUME NEW f, NEW g, NEW l
  PROVE  list([folders |-> f, requests |-> g], l) = listAt(IF isRequest(l) THEN g ELSE f, siblingKey(l))
  <1>1. isRequest(l) => field(l) = "requests"
    BY DEF field
  <1>2. ~isRequest(l) => field(l) = "folders"
    BY DEF field
  <1> QED
    BY <1>1, <1>2 DEF list

LEMMA ListOf ==
  ASSUME NEW m, isMarker(m), NEW l
  PROVE  list(m, l) = listAt(IF isRequest(l) THEN m.requests ELSE m.folders, siblingKey(l))
  <1>1. m = [folders |-> m.folders, requests |-> m.requests]
    BY DEF isMarker
  <1> QED
    BY <1>1, ListIn

LEMMA ListWithList ==
  ASSUME NEW m, isMarker(m), NEW t, NEW names, NEW l
  PROVE  list(withList(m, t, names), l) = IF sameSlot(l, t) THEN names ELSE list(m, l)
  <1> DEFINE k == siblingKey(l)
             key == siblingKey(t)
  <1>1. list(m, l) = listAt(IF isRequest(l) THEN m.requests ELSE m.folders, k)
    BY ListOf
  <1>2. isRequest(l) \in BOOLEAN /\ isRequest(t) \in BOOLEAN
    BY DEF isRequest
  <1>3. sameSlot(l, t) <=> isRequest(l) = isRequest(t) /\ k = key
    BY DEF sameSlot
  <1>4. CASE isRequest(t)
    <2>1. withList(m, t, names) = [folders |-> m.folders, requests |-> put(m.requests, key, names)]
      BY <1>4, WithListIs
    <2>2. list(withList(m, t, names), l) = listAt(IF isRequest(l) THEN put(m.requests, key, names) ELSE m.folders, k)
      BY <2>1, ListIn
    <2>3. listAt(put(m.requests, key, names), k) = IF k = key THEN names ELSE listAt(m.requests, k)
      BY AtPut
    <2> HIDE DEF k, key
    <2> QED
      BY <1>1, <1>2, <1>3, <1>4, <2>2, <2>3
  <1>5. CASE ~isRequest(t)
    <2>1. withList(m, t, names) = [folders |-> put(m.folders, key, names), requests |-> m.requests]
      BY <1>5, WithListIs
    <2>2. list(withList(m, t, names), l) = listAt(IF isRequest(l) THEN m.requests ELSE put(m.folders, key, names), k)
      BY <2>1, ListIn
    <2>3. listAt(put(m.folders, key, names), k) = IF k = key THEN names ELSE listAt(m.folders, k)
      BY AtPut
    <2> HIDE DEF k, key
    <2> QED
      BY <1>1, <1>2, <1>3, <1>5, <2>2, <2>3
  <1> QED
    BY <1>4, <1>5

(* Two names that are siblings keep their order when another is taken out,   *)
(* put last, or both.                                                       *)
LEMMA RemovedKeepsPair ==
  ASSUME NEW m, isMarker(m), NEW t, NEW l, NEW e, NEW f,
         sameSlot(l, t) => e # Last(t) /\ f # Last(t)
  PROVE  KeepsPair(list(m, l), list(removed(m, t), l), e, f)
  <1> DEFINE names == Without(list(m, t), Last(t))
  <1>1. list(removed(m, t), l) = IF sameSlot(l, t) THEN names ELSE list(m, l)
    BY ListWithList DEF removed
  <1>2. CASE sameSlot(l, t)
    <2>1. list(m, l) = list(m, t)
      BY <1>2, ListOf DEF sameSlot
    <2>2. list(m, t) \in Seq(KindOf(t))
      BY ListIs
    <2>3. KeepsPair(list(m, t), names, e, f)
      BY <1>2, <2>2, WithoutKeepsPair
    <2> QED
      BY <1>1, <1>2, <2>1, <2>3
  <1>3. CASE ~sameSlot(l, t)
    BY <1>1, <1>3, KeepsPairSame
  <1> QED
    BY <1>2, <1>3

LEMMA UpsertedKeepsPair ==
  ASSUME NEW m, isMarker(m), NEW t, isPlace(t), ~isCollection(t), NEW l, NEW e, NEW f,
         sameSlot(l, t) => e # Last(t) /\ f # Last(t)
  PROVE  KeepsPair(list(m, l), list(upserted(m, t), l), e, f)
  <1> DEFINE s == list(m, t)
             rest == Without(s, Last(t))
             names == Append(rest, Last(t))
  <1>1. list(upserted(m, t), l) = IF sameSlot(l, t) THEN names ELSE list(m, l)
    <2>1. upserted(m, t) = withList(m, t, names)
      BY DEF upserted
    <2> HIDE DEF names
    <2> QED
      BY <2>1, ListWithList
  <1>2. CASE sameSlot(l, t)
    <2>1. list(m, l) = s
      BY <1>2, ListOf DEF sameSlot
    <2>2. s \in Seq(KindOf(t)) /\ Last(t) \in KindOf(t)
      BY ListIs, Below
    <2>3. KeepsPair(s, rest, e, f) /\ rest \in Seq(KindOf(t))
      BY <1>2, <2>2, WithoutKeepsPair, ElementsWithout
    <2>4. KeepsPair(rest, names, e, f)
      <3> HIDE DEF rest
      <3> QED
        BY <1>2, <2>2, <2>3, AppendKeepsPair
    <2> HIDE DEF names
    <2> QED
      BY <1>1, <1>2, <2>1, <2>3, <2>4, KeepsPairTwice
  <1>3. CASE ~sameSlot(l, t)
    BY <1>1, <1>3, KeepsPairSame
  <1> QED
    BY <1>2, <1>3

(* A list that is not one of theirs stays. *)
LEMMA OtherLists ==
  ASSUME NEW m, isMarker(m), NEW t, NEW names, NEW l, ~sameSlot(l, t)
  PROVE  /\ list(removed(m, t), l) = list(m, l)
         /\ list(upserted(m, t), l) = list(m, l)
         /\ \A x : list(renamed(m, t, x), l) = list(m, l)
  BY ListWithList DEF removed, upserted, renamed

LEMMA DroppedList ==
  ASSUME NEW m, isMarker(m), NEW t, isPlace(t), ~isCollection(t), NEW l,
         ~IsPrefix(Tail(t), siblingKey(l))
  PROVE  list(dropped(m, t), l) = list(removed(m, t), l)
  <1> DEFINE rest == removed(m, t)
             k == siblingKey(l)
  <1>1. isMarker(rest)
    BY RemovedPlaces
  <1>2. dropped(m, t) = [folders |-> without(rest.folders, Tail(t)), requests |-> without(rest.requests, Tail(t))]
    BY DEF dropped
  <1> HIDE DEF rest, k
  <1>3. list(dropped(m, t), l)
          = listAt(IF isRequest(l) THEN without(rest.requests, Tail(t)) ELSE without(rest.folders, Tail(t)), k)
    BY <1>2, ListIn DEF k
  <1>4. list(rest, l) = listAt(IF isRequest(l) THEN rest.requests ELSE rest.folders, k)
    BY <1>1, ListOf DEF k
  <1>5. /\ listAt(without(rest.requests, Tail(t)), k) = listAt(rest.requests, k)
        /\ listAt(without(rest.folders, Tail(t)), k) = listAt(rest.folders, k)
    BY AtWithout DEF k
  <1> QED
    BY <1>3, <1>4, <1>5 DEF rest

(* The maps of an order with what is below f moved to t: as lists.           *)
LEMMA MapRekeyed ==
  ASSUME NEW kind \in SUBSET Names, NEW map, isOrder(map, kind),
         NEW f \in Seq(Names), NEW t \in Seq(Names), ~IsPrefix(f, t),
         NEW w, w \in {first(carried(map, f, t), without(map, f)), first(without(map, f), carried(map, f, t))}
  PROVE  /\ \A k : ~IsPrefix(f, k) /\ ~IsPrefix(t, k) => listAt(w, k) = listAt(map, k)
         /\ \A u \in Seq(Names) : listAt(map, t \o u) = <<>> => listAt(w, t \o u) = listAt(map, f \o u)
  <1> DEFINE c == carried(map, f, t)
             o == without(map, f)
  <1>1. /\ \A k \in DOMAIN c : IsPrefix(t, k)
        /\ \A u \in Seq(Names) : listAt(c, t \o u) = listAt(map, f \o u)
    <2>1. isCarried(c, map, f, t)
      BY AtCarried
    <2> QED
      BY <2>1 DEF isCarried
  <1>2. /\ \A k : ~IsPrefix(f, k) => listAt(o, k) = listAt(map, k)
        /\ DOMAIN o \subseteq DOMAIN map
    <2>1. \A k : ~IsPrefix(f, k) => listAt(o, k) = listAt(map, k)
      BY AtWithout
    <2>2. DOMAIN o \subseteq DOMAIN map
      BY DEF without
    <2> QED
      BY <2>1, <2>2
  <1>3. \A k : k \in DOMAIN map <=> listAt(map, k) # <<>>
    BY AtHas
  <1>4. w = first(c, o) \/ w = first(o, c)
    OBVIOUS
  <1>5. \A g, k : k \notin DOMAIN g => listAt(g, k) = <<>>
    BY DEF listAt
  <1> HIDE DEF c, o
  <1>6. ASSUME NEW k, ~IsPrefix(f, k), ~IsPrefix(t, k)
        PROVE  listAt(w, k) = listAt(map, k)
    <2>1. k \notin DOMAIN c /\ listAt(c, k) = <<>>
      BY <1>1, <1>5, <1>6
    <2>2. listAt(first(c, o), k) = listAt(o, k)
      BY <2>1, AtFirst
    <2>3. listAt(first(o, c), k) = listAt(o, k)
      BY <1>5, <2>1, AtFirst
    <2> QED
      BY <1>2, <1>4, <1>6, <2>2, <2>3
  <1>7. ASSUME NEW u \in Seq(Names), listAt(map, t \o u) = <<>>
        PROVE  listAt(w, t \o u) = listAt(map, f \o u)
    <2>1. t \o u \notin DOMAIN o /\ listAt(o, t \o u) = <<>>
      BY <1>2, <1>3, <1>5, <1>7
    <2>2. listAt(first(o, c), t \o u) = listAt(c, t \o u)
      BY <2>1, AtFirst
    <2>3. listAt(first(c, o), t \o u) = listAt(c, t \o u)
      BY <1>5, <2>1, AtFirst
    <2> QED
      BY <1>1, <1>4, <2>2, <2>3
  <1> QED
    BY <1>6, <1>7

(* The lists of o below t are those of x below f, where m had none.         *)
copies(o, m, x, f, t) ==
  \A l, u, k : /\ u \in Seq(Names) /\ siblingKey(l) = t \o u /\ siblingKey(k) = f \o u
               /\ isRequest(k) = isRequest(l) /\ list(m, l) = <<>>
               => list(o, l) = list(x, k)

LEMMA RekeyedList ==
  ASSUME NEW m, isMarker(m), NEW f \in Seq(Names), NEW t \in Seq(Names), ~IsPrefix(f, t),
         NEW r, isRekeyed(r, m, f, t)
  PROVE  /\ \A l : ~IsPrefix(f, siblingKey(l)) /\ ~IsPrefix(t, siblingKey(l)) => list(r, l) = list(m, l)
         /\ copies(r, m, m, f, t)
  <1>1. isOrder(m.folders, Folders) /\ isOrder(m.requests, Requests)
    BY DEF isMarker
  <1>2. /\ r.folders \in {first(carried(m.folders, f, t), without(m.folders, f)),
                          first(without(m.folders, f), carried(m.folders, f, t))}
        /\ r.requests \in {first(carried(m.requests, f, t), without(m.requests, f)),
                           first(without(m.requests, f), carried(m.requests, f, t))}
    BY DEF isRekeyed, rekeyed
  <1>3. isMarker(r)
    BY RekeyedPlaces
  <1>4. \A l : /\ list(r, l) = listAt(IF isRequest(l) THEN r.requests ELSE r.folders, siblingKey(l))
               /\ list(m, l) = listAt(IF isRequest(l) THEN m.requests ELSE m.folders, siblingKey(l))
    BY <1>3, ListOf
  <1>5. /\ \A k : ~IsPrefix(f, k) /\ ~IsPrefix(t, k) => listAt(r.folders, k) = listAt(m.folders, k)
        /\ \A u \in Seq(Names) : listAt(m.folders, t \o u) = <<>> => listAt(r.folders, t \o u) = listAt(m.folders, f \o u)
    BY <1>1, <1>2, NamesDiffer, MapRekeyed
  <1>6. /\ \A k : ~IsPrefix(f, k) /\ ~IsPrefix(t, k) => listAt(r.requests, k) = listAt(m.requests, k)
        /\ \A u \in Seq(Names) : listAt(m.requests, t \o u) = <<>> => listAt(r.requests, t \o u) = listAt(m.requests, f \o u)
    BY <1>1, <1>2, NamesDiffer, MapRekeyed
  <1>7. ASSUME NEW l, ~IsPrefix(f, siblingKey(l)), ~IsPrefix(t, siblingKey(l))
        PROVE  list(r, l) = list(m, l)
    BY <1>4, <1>5, <1>6, <1>7
  <1>8. ASSUME NEW l, NEW u \in Seq(Names), NEW x, siblingKey(l) = t \o u, siblingKey(x) = f \o u,
               isRequest(x) = isRequest(l), list(m, l) = <<>>
        PROVE  list(r, l) = list(m, x)
    BY <1>4, <1>5, <1>6, <1>8
  <1> QED
    BY <1>7, <1>8 DEF copies

LEMMA OverlaidList ==
  ASSUME NEW m, isMarker(m), NEW m2, isMarker(m2), NEW from, isPlace(from), NEW to, isPlace(to)
  PROVE  /\ \A l : ~IsPrefix(Tail(to), siblingKey(l)) => list(overlaid(m, extracted(m2, from, to)), l) = list(m, l)
         /\ copies(overlaid(m, extracted(m2, from, to)), m, m2, Tail(from), Tail(to))
  <1> DEFINE f == Tail(from)
             t == Tail(to)
             e == extracted(m2, from, to)
             o == overlaid(m, e)
  <1>1. f \in Seq(Names) /\ t \in Seq(Names)
    BY PlaceIs
  <1>2. e = [folders |-> carried(m2.folders, f, t), requests |-> carried(m2.requests, f, t)]
    BY DEF extracted
  <1>3. o = [folders |-> first(e.folders, m.folders), requests |-> first(e.requests, m.requests)]
    BY DEF overlaid
  <1>4. isOrder(m2.folders, Folders) /\ isOrder(m2.requests, Requests)
    BY DEF isMarker
  <1> HIDE DEF f, t, e, o
  <1>5. \A l : /\ list(o, l) = listAt(IF isRequest(l) THEN first(e.requests, m.requests) ELSE first(e.folders, m.folders), siblingKey(l))
               /\ list(m, l) = listAt(IF isRequest(l) THEN m.requests ELSE m.folders, siblingKey(l))
               /\ list(m2, l) = listAt(IF isRequest(l) THEN m2.requests ELSE m2.folders, siblingKey(l))
    BY <1>3, ListOf, ListIn
  <1>6. /\ \A k \in DOMAIN e.folders : IsPrefix(t, k)
        /\ \A u \in Seq(Names) : listAt(e.folders, t \o u) = listAt(m2.folders, f \o u)
    <2>1. isCarried(carried(m2.folders, f, t), m2.folders, f, t)
      BY <1>1, <1>4, NamesDiffer, AtCarried
    <2>2. e.folders = carried(m2.folders, f, t)
      BY <1>2
    <2> QED
      BY <2>1, <2>2 DEF isCarried
  <1>7. /\ \A k \in DOMAIN e.requests : IsPrefix(t, k)
        /\ \A u \in Seq(Names) : listAt(e.requests, t \o u) = listAt(m2.requests, f \o u)
    <2>1. isCarried(carried(m2.requests, f, t), m2.requests, f, t)
      BY <1>1, <1>4, NamesDiffer, AtCarried
    <2>2. e.requests = carried(m2.requests, f, t)
      BY <1>2
    <2> QED
      BY <2>1, <2>2 DEF isCarried
  <1>8. \A g, k : k \notin DOMAIN g => listAt(g, k) = <<>>
    BY DEF listAt
  <1>9. ASSUME NEW l, ~IsPrefix(t, siblingKey(l))
        PROVE  list(o, l) = list(m, l)
    <2>1. siblingKey(l) \notin DOMAIN e.folders /\ siblingKey(l) \notin DOMAIN e.requests
      BY <1>6, <1>7, <1>9
    <2>2. /\ listAt(first(e.requests, m.requests), siblingKey(l)) = listAt(m.requests, siblingKey(l))
          /\ listAt(first(e.folders, m.folders), siblingKey(l)) = listAt(m.folders, siblingKey(l))
      BY <2>1, AtFirst
    <2> QED
      BY <1>5, <2>2
  <1>10. ASSUME NEW g, NEW h, NEW k, listAt(h, k) = <<>>
         PROVE  listAt(first(g, h), k) = listAt(g, k)
    BY <1>8, <1>10, AtFirst
  <1>11. ASSUME NEW l, NEW u \in Seq(Names), NEW x, siblingKey(l) = t \o u, siblingKey(x) = f \o u,
                isRequest(x) = isRequest(l), list(m, l) = <<>>
         PROVE  list(o, l) = list(m2, x)
    <2>1. CASE isRequest(l)
      <3>1. listAt(m.requests, t \o u) = <<>>
        BY <1>5, <1>11, <2>1
      <3>2. listAt(first(e.requests, m.requests), t \o u) = listAt(m2.requests, f \o u)
        BY <1>7, <1>10, <3>1
      <3> QED
        BY <1>5, <1>11, <2>1, <3>2
    <2>2. CASE ~isRequest(l)
      <3>1. listAt(m.folders, t \o u) = <<>>
        BY <1>5, <1>11, <2>2
      <3>2. listAt(first(e.folders, m.folders), t \o u) = listAt(m2.folders, f \o u)
        BY <1>6, <1>10, <3>1
      <3> QED
        BY <1>5, <1>11, <2>2, <3>2
    <2> QED
      BY <2>1, <2>2
  <1> QED
    <2>1. copies(o, m, m2, f, t)
      BY <1>11 DEF copies
    <2> QED
      BY <1>9, <2>1 DEF f, t, e, o

-----------------------------------------------------------------------------
(* Siblings.                                                                *)
LEMMA SiblingsAre ==
  ASSUME NEW l, isPlace(l), ~isCollection(l), NEW k, isPlace(k), siblings(l, k)
  PROVE  /\ ~isCollection(k) /\ Head(k) = Head(l) /\ Front(k) = Front(l)
         /\ siblingKey(k) = siblingKey(l) /\ isRequest(k) = isRequest(l) /\ sameSlot(l, k) /\ sameSlot(k, l)
         /\ KindOf(k) = KindOf(l) /\ siblings(k, l)
         /\ Last(k) = Last(l) => k = l
  <1>1. /\ Len(l) = Len(k) /\ Front(l) = Front(k) /\ isRequest(l) = isRequest(k)
        /\ isRequest(l) \in BOOLEAN /\ isRequest(k) \in BOOLEAN
    BY DEF siblings, isRequest
  <1>2. ~isCollection(k) /\ Head(k) = Head(l)
    BY <1>1, SameHome
  <1>3. siblingKey(k) = siblingKey(l)
    BY <1>1 DEF siblingKey
  <1>4. Last(k) = Last(l) => k = l
    BY <1>1, <1>2, Below
  <1> QED
    BY <1>1, <1>2, <1>3, <1>4 DEF sameSlot, siblings, KindOf

LEMMA SlotsAreSiblings ==
  ASSUME NEW l, isPlace(l), ~isCollection(l), NEW k, isPlace(k), ~isCollection(k),
         Head(k) = Head(l), sameSlot(l, k)
  PROVE  siblings(l, k) /\ Front(l) = Front(k)
  <1>1. /\ l = <<Head(l)>> \o Tail(l) /\ Tail(l) = In(siblingKey(l), Last(l)) /\ l = In(Front(l), Last(l))
        /\ k = <<Head(k)>> \o Tail(k) /\ Tail(k) = In(siblingKey(k), Last(k)) /\ k = In(Front(k), Last(k))
        /\ Last(l) \in Names /\ Last(k) \in Names /\ siblingKey(l) \in Seq(Names) /\ Head(l) \in Collections
    BY PlaceIs, Below, NamesDiffer DEF KindOf
  <1> DEFINE s == siblingKey(l)
             h == <<Head(l)>>
             a == Last(l)
             b == Last(k)
             f == Front(l)
             g == Front(k)
  <1>2. siblingKey(k) = s
    BY DEF sameSlot
  <1>3. a \in Words /\ b \in Words /\ s \in Seq(Words) /\ h \in Seq(Words) /\ h \o s \in Seq(Words)
    <2>1. Names \subseteq Words /\ Collections \subseteq Words
      BY DEF Words
    <2>2. s \in Seq(Words) /\ h \in Seq(Words)
      BY <1>1, <2>1, SeqMonotonic
    <2> QED
      BY <1>1, <2>1, <2>2
  <1>4. l = h \o In(s, a) /\ k = h \o In(s, b)
    BY <1>1, <1>2
  <1> HIDE DEF s, h, a, b
  <1>5. h \o In(s, a) = In(h \o s, a) /\ h \o In(s, b) = In(h \o s, b)
    BY <1>3, AppendIsBehind
  <1>6. f = h \o s /\ g = h \o s /\ Len(In(h \o s, a)) = Len(In(h \o s, b))
    <2>1. Front(In(h \o s, a)) = h \o s /\ Front(In(h \o s, b)) = h \o s
      BY <1>3, InIs
    <2>2. Len(In(h \o s, a)) = Len(In(h \o s, b))
      BY <1>3 DEF In
    <2> QED
      BY <1>4, <1>5, <2>1, <2>2
  <1>7. Len(l) = Len(k)
    BY <1>4, <1>5, <1>6
  <1> QED
    BY <1>6, <1>7 DEF siblings, sameSlot

longer(S, a, u, n) == a \o u \in Seq(S) /\ In(a \o u, n) = a \o In(u, n)
LEMMA Longer ==
  ASSUME NEW S, NEW a \in Seq(S), NEW u \in Seq(S), NEW n \in S
  PROVE  longer(S, a, u, n)
  BY AppendIsBehind DEF longer

(* What is below one sibling but not that sibling is below the other.       *)
LEMMA PrefixOn ==
  ASSUME NEW S, NEW l \in Seq(S), l # <<>>, NEW f \in Seq(S), IsPrefix(f, Front(l))
  PROVE  IsPrefix(f, l)
  <1>0. ASSUME NEW k \in Seq(S), NEW x \in S
        PROVE  f \o k \in Seq(S) /\ In(f \o k, x) = f \o In(k, x)
    <2>1. longer(S, f, k, x)
      BY Longer
    <2> QED
      BY <2>1 DEF longer
  <1> DEFINE a == Front(l)
             n == Last(l)
  <1>1. a \in Seq(S) /\ n \in S /\ l = In(a, n)
    BY Ends
  <1> HIDE DEF n
  <1>2. PICK u \in Seq(S) : a = f \o u
    BY <1>1, PrefixSplits
  <1>3. l = f \o In(u, n) /\ In(u, n) \in Seq(S)
    <2>1. In(f \o u, n) = f \o In(u, n)
      BY <1>0, <1>1
    <2>2. In(u, n) \in Seq(S)
      BY <1>1, InIs
    <2> QED
      BY <1>1, <1>2, <2>1, <2>2
  <1>4. IsPrefix(f, f \o In(u, n))
    BY <1>3, Behind
  <1> QED
    BY <1>3, <1>4

LEMMA Together ==
  ASSUME NEW f, isPlace(f), NEW l, isPlace(l), ~isCollection(l), NEW k, isPlace(k), siblings(l, k),
         IsPrefix(f, l), l # f
  PROVE  IsPrefix(f, k)
  <1>1. f \in Seq(Words) /\ l \in Seq(Words) /\ k \in Seq(Words) /\ k # <<>>
    BY PlaceIs
  <1>2. IsPrefix(f, Front(l))
    BY <1>1, Above
  <1>3. Front(k) = Front(l)
    BY SiblingsAre
  <1> QED
    BY <1>1, <1>2, <1>3, PrefixOn

LEMMA Level ==
  ASSUME NEW l, isPlace(l), NEW k, isPlace(k), siblings(l, k), IsPrefix(l, k)
  PROVE  l = k
  <1>1. l \in Seq(Words) /\ k \in Seq(Words) /\ Len(l) = Len(k) /\ SubSeq(l, 1, Len(l)) = l /\ SubSeq(k, 1, Len(k)) = k
    BY PlaceIs, SubSeqFull DEF siblings
  <1> QED
    BY <1>1 DEF IsPrefix

(* What is strictly below a place, and where it goes with it.               *)
LEMMA Strictly ==
  ASSUME NEW f, isPlace(f), NEW l, isPlace(l), IsPrefix(f, l), l # f
  PROVE  \E u \in Seq(Names) \ {<<>>} : l = f \o u
  <1>1. f \in Seq(Words) \ {<<>>} /\ l \in Seq(Words)
    BY PlaceIs
  <1>2. PICK u \in Seq(Words) : l = f \o u
    BY <1>1, PrefixSplits
  <1>3. u # <<>>
    <2>1. f \o <<>> = f
      BY <1>1
    <2> QED
      BY <1>2, <2>1
  <1>4. u \in Seq(Names)
    <2>1. isPlace(f \o u)
      BY <1>2
    <2> QED
      BY <1>1, <2>1, FrontIsPlace
  <1> QED
    BY <1>2, <1>3, <1>4

LEMMA BelowIt ==
  ASSUME NEW f, isPlace(f), NEW u \in Seq(Names) \ {<<>>}
  PROVE  /\ isPlace(f \o u) /\ ~isCollection(f \o u) /\ Head(f \o u) = Head(f) /\ f \o u # f
         /\ Last(f \o u) = Last(u) /\ isRequest(f \o u) = (Last(u) \in Requests)
         /\ Front(u) \in Seq(Names) /\ siblingKey(f \o u) = Tail(f) \o Front(u)
         /\ IsPrefix(f, f \o u) /\ ~IsPrefix(f \o u, f)
  <1>0. ASSUME NEW a \in Seq(Names), NEW b \in Seq(Names), NEW x \in Names
        PROVE  a \o b \in Seq(Names) /\ In(a \o b, x) = a \o In(b, x)
    <2>1. longer(Names, a, b, x)
      BY Longer
    <2> QED
      BY <2>1 DEF longer
  <1> DEFINE h == Head(f)
             t == Tail(f)
             k == Front(u)
             n == Last(u)
             l == f \o u
  <1>1. f \in Seq(Words) \ {<<>>} /\ h \in Collections /\ t \in Seq(Names) /\ f = <<h>> \o t
    BY PlaceIs
  <1>2. k \in Seq(Names) /\ n \in Names /\ u = In(k, n)
    BY Ends
  <1>3. u \in Seq(Words) /\ l \in Seq(Words) /\ Len(l) = Len(f) + Len(u) /\ Len(f) \in Nat /\ Len(u) \in Nat \ {0}
    <2>1. u \in Seq(Words)
      BY SeqMonotonic DEF Words
    <2>2. Len(u) # 0
      BY EmptySeq
    <2> QED
      BY <1>1, <2>1, <2>2, ConcatProperties
  <1>4. <<h>> \o (t \o u) = l /\ t \o u \in Seq(Names)
    BY Whole
  <1>5. isPlace(l) /\ Head(l) = h /\ Tail(l) = t \o u
    <2> HIDE DEF h, t, l
    <2>1. isPlace(<<h>> \o (t \o u)) /\ Head(<<h>> \o (t \o u)) = h /\ Tail(<<h>> \o (t \o u)) = t \o u
      BY <1>1, <1>4, PlaceIs
    <2> QED
      BY <1>4, <2>1
  <1>6. ~isCollection(l)
    <2>1. Len(l) >= 2
      <3>1. Len(f) # 0
        BY <1>1, EmptySeq
      <3> QED
        BY <1>3, <3>1
    <2> QED
      BY <2>1 DEF isCollection
  <1> HIDE DEF h, k, n
  <1>7. t \o k \in Seq(Names) /\ t \o u = In(t \o k, n)
    <2> HIDE DEF t
    <2>1. In(t \o k, n) = t \o In(k, n)
      BY <1>0, <1>1, <1>2
    <2> QED
      BY <1>1, <1>2, <2>1
  <1>8. Front(t \o u) = t \o k /\ Last(t \o u) = n
    <2> HIDE DEF t
    <2>1. Front(In(t \o k, n)) = t \o k /\ Last(In(t \o k, n)) = n
      BY <1>2, <1>7, InIs
    <2> QED
      BY <1>7, <2>1
  <1>9. siblingKey(l) = t \o k /\ Last(l) = n
    <2>1. Front(Tail(l)) = siblingKey(l) /\ Last(Tail(l)) = Last(l)
      BY <1>5, <1>6, Below
    <2> QED
      BY <1>5, <1>8, <2>1
  <1>10. isRequest(l) = (n \in Requests)
    BY <1>9 DEF isRequest
  <1>11. l # f /\ ~IsPrefix(l, f)
    BY <1>3 DEF IsPrefix
  <1>12. IsPrefix(f, l)
    BY <1>1, <1>3, Behind
  <1> QED
    BY <1>2, <1>5, <1>6, <1>9, <1>10, <1>11, <1>12 DEF h, k, n

LEMMA GoesTo ==
  ASSUME NEW f, isPlace(f), NEW t, isPlace(t), NEW u \in Seq(Names)
  PROVE  there(f \o u, f, t) = t \o u
  <1>1. f \in Seq(Words) /\ t \in Seq(Words) /\ u \in Seq(Words)
    BY PlaceIs, SeqMonotonic DEF Words
  <1> QED
    BY <1>1, ThereIs

LEMMA GoesItself ==
  ASSUME NEW f, isPlace(f), NEW t, isPlace(t)
  PROVE  there(f, f, t) = t
  <1>1. f \in Seq(Words) /\ t \in Seq(Words)
    BY PlaceIs
  <1>2. there(f \o <<>>, f, t) = t \o <<>>
    <2>1. <<>> \in Seq(Names)
      OBVIOUS
    <2> QED
      BY <2>1, GoesTo
  <1> QED
    BY <1>1, <1>2

-----------------------------------------------------------------------------
(* What a command does to the order of siblings: things that were there      *)
(* before it are where they were, or where it took them; lists of those that *)
(* stay keep every pair; lists that were taken along are what they were.     *)
isNew(x) == \E i \in Jobs : x = <<i>>
Things(d) == {l \in DOMAIN d : ~isCollection(l)}
Distinct(d) == \A l, k \in DOMAIN d : d[l] = d[k] /\ ~isNew(d[l]) => l = k
rankOf(ms, l) == rankIn(list(ms[Head(l)], l), Last(l))

Takes(op) == op.kind \in {"rename", "move"}
stays(op, l) == op.kind \in {"rename", "move", "delete"} => ~IsPrefix(op.from, l)
goes(op, l) == Takes(op) /\ IsPrefix(op.from, l)
Came(op, old, new) ==
  \A p \in DOMAIN new : ~isNew(new[p]) =>
    \E l \in DOMAIN old : /\ old[l] = new[p]
                          /\ \/ stays(op, l) /\ p = l
                             \/ goes(op, l) /\ p = there(l, op.from, op.to)

unlistedOf(op, ms, l, k) ==
  \E m \in {l, k} : m = op.from /\ Last(m) \notin ToSet(list(ms[Head(m)], m))
exempt(op, ms, l, k) ==
  \/ op.kind = "reorder" /\ siblings(op.to, l)
  \/ op.kind = "rename" /\ unlistedOf(op, ms, l, k)

Keeps(op, d, ms, d2, ms2) ==
  \A l, k \in Things(d), l2, k2 \in Things(d2) :
    /\ siblings(l, k) /\ siblings(l2, k2)
    /\ d[l] = d2[l2] /\ d[k] = d2[k2] /\ ~isNew(d[l]) /\ ~isNew(d[k])
    /\ rankOf(ms, l) < rankOf(ms, k) /\ ~exempt(op, ms, l, k)
    => rankOf(ms2, l2) < rankOf(ms2, k2)

Marked(ms) == \A c \in Collections : isMarker(ms[c])
Sound(d, ms) ==
  isTree(DOMAIN d) /\ Distinct(d) /\ \A c \in Collections : matches(ms[c], c, DOMAIN d)

PairsStay(op, d, ms, ms2) ==
  \A l, k \in Things(d) :
    /\ stays(op, l) /\ stays(op, k) /\ siblings(l, k) /\ l # k
    /\ ~(op.kind = "reorder" /\ siblings(op.to, l))
    => KeepsPair(list(ms[Head(l)], l), list(ms2[Head(l)], l), Last(l), Last(k))
ListsGo(op, d, ms, ms2) ==
  \A l \in Things(d) :
    goes(op, l) /\ l # op.from
      => list(ms2[Head(op.to)], there(l, op.from, op.to)) = list(ms[Head(op.from)], l)
NameChanges(op, ms, ms2) ==
  op.kind = "rename" /\ ~isCollection(op.from)
    => list(ms2[Head(op.to)], op.to)
         = ReplaceAll(list(ms[Head(op.from)], op.from), Last(op.from), Last(op.to))
Slots(op, d, ms, ms2) ==
  PairsStay(op, d, ms, ms2) /\ ListsGo(op, d, ms, ms2) /\ NameChanges(op, ms, ms2)

LEMMA ListTypes ==
  ASSUME NEW ms, Marked(ms), NEW l, isPlace(l), ~isCollection(l)
  PROVE  /\ list(ms[Head(l)], l) \in Seq(KindOf(l)) /\ KindOf(l) \in SUBSET Names
         /\ Last(l) \in KindOf(l) /\ Last(l) \in Names
  <1>1. Head(l) \in Collections
    BY PlaceIs
  <1>2. KindOf(l) \in SUBSET Names
    BY NamesDiffer DEF KindOf
  <1> QED
    BY <1>1, <1>2, ListIs, Below DEF Marked

LEMMA SoundIsMarked ==
  ASSUME NEW d, NEW ms, Sound(d, ms)
  PROVE  Marked(ms) /\ \A l \in Things(d) : isPlace(l) /\ ~isCollection(l)
  <1>1. \A l \in DOMAIN d : isPlace(l)
    BY TreeHas DEF Sound
  <1> QED
    BY <1>1, MatchesIs DEF Sound, Marked, Things

(* What a marker lists is there.                                            *)
LEMMA ListedIsThere ==
  ASSUME NEW d, NEW ms, Sound(d, ms), NEW l, isPlace(l), ~isCollection(l),
         Last(l) \in ToSet(list(ms[Head(l)], l))
  PROVE  l \in DOMAIN d
  <1>1. Head(l) \in Collections /\ l = <<Head(l)>> \o Tail(l) /\ Tail(l) = In(siblingKey(l), Last(l))
    BY PlaceIs, Below
  <1>2. isMarker(ms[Head(l)]) /\ \A p \in placesOf(ms[Head(l)]) : <<Head(l)>> \o p \in DOMAIN d
    BY <1>1, MatchesIs DEF Sound
  <1>3. In(siblingKey(l), Last(l)) \in placesOf(ms[Head(l)])
    BY <1>2, ListIs
  <1>4. <<Head(l)>> \o In(siblingKey(l), Last(l)) \in DOMAIN d
    BY <1>2, <1>3
  <1> QED
    BY <1>1, <1>4

(* Two that both stay. *)
LEMMA BothStay ==
  ASSUME NEW d, NEW ms, Sound(d, ms), NEW ms2, Marked(ms2), NEW op, PairsStay(op, d, ms, ms2),
         NEW l \in Things(d), NEW k \in Things(d), stays(op, l), stays(op, k), siblings(l, k),
         ~exempt(op, ms, l, k), rankOf(ms, l) < rankOf(ms, k), l # k
  PROVE  rankOf(ms2, l) < rankOf(ms2, k)
  <1>1. Marked(ms) /\ isPlace(l) /\ ~isCollection(l) /\ isPlace(k) /\ ~isCollection(k)
    BY SoundIsMarked
  <1>2. /\ Head(k) = Head(l) /\ KindOf(k) = KindOf(l) /\ siblingKey(k) = siblingKey(l)
        /\ isRequest(k) = isRequest(l)
    BY <1>1, SiblingsAre
  <1>3. Head(l) \in Collections
    BY <1>1, PlaceIs
  <1>4. \A m : isMarker(m) => list(m, k) = list(m, l)
    BY <1>2, ListOf
  <1> DEFINE s == list(ms[Head(l)], l)
             t == list(ms2[Head(l)], l)
  <1>5. rankOf(ms, l) = rankIn(s, Last(l)) /\ rankOf(ms2, l) = rankIn(t, Last(l))
    BY DEF rankOf
  <1>6. rankOf(ms, k) = rankIn(s, Last(k)) /\ rankOf(ms2, k) = rankIn(t, Last(k))
    BY <1>1, <1>2, <1>3, <1>4 DEF rankOf, Marked
  <1>7. s \in Seq(KindOf(l)) /\ t \in Seq(KindOf(l)) /\ KindOf(l) \in SUBSET Names
        /\ Last(l) \in Names /\ Last(k) \in Names
    BY <1>1, ListTypes
  <1>8. KeepsPair(s, t, Last(l), Last(k))
    BY DEF PairsStay, exempt
  <1> HIDE DEF s, t
  <1> QED
    BY <1>5, <1>6, <1>7, <1>8, PairKeepsRank

(* Two that are taken along in something else. *)
LEMMA BothGo ==
  ASSUME NEW d, NEW ms, Sound(d, ms), NEW ms2, NEW op, ListsGo(op, d, ms, ms2), isPlace(op.from), isPlace(op.to),
         NEW l \in Things(d), NEW k \in Things(d), goes(op, l), goes(op, k), siblings(l, k),
         rankOf(ms, l) < rankOf(ms, k), l # k
  PROVE  rankOf(ms2, there(l, op.from, op.to)) < rankOf(ms2, there(k, op.from, op.to))
  <1>1. isPlace(l) /\ ~isCollection(l) /\ isPlace(k) /\ ~isCollection(k)
    BY SoundIsMarked
  <1>2. siblings(k, l) /\ IsPrefix(op.from, l) /\ IsPrefix(op.from, k)
    BY <1>1, SiblingsAre DEF goes
  <1>3. l # op.from /\ k # op.from
    BY <1>1, <1>2, Level
  <1>4. ASSUME NEW x \in Things(d), goes(op, x), x # op.from, isPlace(x)
        PROVE  rankOf(ms2, there(x, op.from, op.to)) = rankOf(ms, x)
    <2>1. PICK u \in Seq(Names) \ {<<>>} : x = op.from \o u
      BY <1>4, Strictly DEF goes
    <2>2. there(x, op.from, op.to) = op.to \o u
      BY <2>1, GoesTo
    <2>3. Head(op.to \o u) = Head(op.to) /\ Last(op.to \o u) = Last(u)
      BY BelowIt
    <2>4. Head(op.from \o u) = Head(op.from) /\ Last(op.from \o u) = Last(u)
      BY BelowIt
    <2>5. list(ms2[Head(op.to)], there(x, op.from, op.to)) = list(ms[Head(op.from)], x)
      BY <1>4 DEF ListsGo
    <2> DEFINE y == there(x, op.from, op.to)
    <2>6. Head(y) = Head(op.to) /\ Last(y) = Last(x) /\ Head(x) = Head(op.from)
      BY <2>1, <2>2, <2>3, <2>4
    <2> HIDE DEF y
    <2>7. list(ms2[Head(y)], y) = list(ms[Head(x)], x)
      BY <2>5, <2>6 DEF y
    <2>8. rankOf(ms2, y) = rankOf(ms, x)
      BY <2>6, <2>7 DEF rankOf
    <2> QED
      BY <2>8 DEF y
  <1>5. rankOf(ms2, there(l, op.from, op.to)) = rankOf(ms, l)
    BY <1>1, <1>3, <1>4
  <1>6. rankOf(ms2, there(k, op.from, op.to)) = rankOf(ms, k)
    BY <1>1, <1>3, <1>4
  <1> QED
    BY <1>5, <1>6

(* The one that has another name, and one that has not.                     *)
LEMMA OneRenamed ==
  ASSUME NEW d, NEW ms, Sound(d, ms), NEW ms2, Marked(ms2), NEW op, isOp(op), op.kind = "rename",
         NameChanges(op, ms, ms2), op.to \notin DOMAIN d, op.from \in Things(d),
         NEW k \in Things(d), k # op.from, siblings(op.from, k), siblings(op.to, k),
         Last(op.from) \in ToSet(list(ms[Head(op.from)], op.from))
  PROVE  /\ rankOf(ms, op.from) < rankOf(ms, k) => rankOf(ms2, op.to) < rankOf(ms2, k)
         /\ rankOf(ms, k) < rankOf(ms, op.from) => rankOf(ms2, k) < rankOf(ms2, op.to)
  <1> DEFINE from == op.from
             to == op.to
             x == Last(from)
             y == Last(to)
             z == Last(k)
             s == list(ms[Head(from)], from)
             t == list(ms2[Head(to)], to)
  <1>1. /\ isPlace(from) /\ ~isCollection(from) /\ isPlace(k) /\ ~isCollection(k) /\ isPlace(to) /\ ~isCollection(to)
        /\ Marked(ms) /\ Head(to) = Head(from)
    BY SoundIsMarked, OpIs DEF isOp
  <1>2. /\ Head(k) = Head(from) /\ siblingKey(k) = siblingKey(from) /\ isRequest(k) = isRequest(from)
        /\ KindOf(k) = KindOf(from) /\ (Last(k) = Last(from) => k = from)
    BY <1>1, SiblingsAre
  <1>3. /\ Head(k) = Head(to) /\ siblingKey(k) = siblingKey(to) /\ isRequest(k) = isRequest(to)
        /\ KindOf(k) = KindOf(to) /\ (Last(k) = Last(to) => k = to)
    BY <1>1, SiblingsAre
  <1>4. Head(from) \in Collections /\ Head(to) \in Collections
    BY <1>1, PlaceIs
  <1>5. list(ms[Head(k)], k) = s /\ list(ms2[Head(k)], k) = t
    <2>1. isMarker(ms[Head(from)]) /\ isMarker(ms2[Head(to)])
      BY <1>1, <1>4 DEF Marked
    <2> QED
      BY <1>2, <1>3, <2>1, ListOf
  <1>6. /\ rankOf(ms, from) = rankIn(s, x) /\ rankOf(ms, k) = rankIn(s, z)
        /\ rankOf(ms2, to) = rankIn(t, y) /\ rankOf(ms2, k) = rankIn(t, z)
    BY <1>5 DEF rankOf
  <1>7. t = ReplaceAll(s, x, y) /\ x \in ToSet(s)
    BY <1>1 DEF NameChanges
  <1>8. /\ s \in Seq(KindOf(k)) /\ t \in Seq(KindOf(k)) /\ KindOf(k) \in SUBSET Names
        /\ x \in KindOf(k) /\ y \in KindOf(k) /\ x \in Names /\ y \in Names /\ z \in Names
    BY <1>1, <1>2, <1>3, ListTypes
  <1>9. y \notin ToSet(s) /\ z # x /\ z # y
    <2>1. list(ms[Head(to)], to) = s
      <3>1. isMarker(ms[Head(from)])
        BY <1>1, <1>4 DEF Marked
      <3> QED
        BY <1>1, <1>2, <1>3, <3>1, ListOf
    <2>2. y \notin ToSet(s)
      BY <1>1, <2>1, ListedIsThere
    <2>3. k \in DOMAIN d
      BY DEF Things
    <2> QED
      BY <1>2, <1>3, <2>2, <2>3
  <1> HIDE DEF from, to, x, y, z, s, t
  <1>10. inPlaceOf(x, y, x) = y /\ inPlaceOf(x, y, z) = z
    BY <1>9 DEF inPlaceOf
  <1>11. x # y
    BY <1>7, <1>9
  <1>12. /\ Ahead(s, x, z) => Ahead(t, y, z)
         /\ Ahead(s, z, x) => Ahead(t, z, y)
    BY <1>7, <1>8, <1>9, <1>10, <1>11, ReplaceKeepsPair
  <1>13. rankIn(s, x) < rankIn(s, z) => rankIn(t, y) < rankIn(t, z)
    BY <1>7, <1>8, <1>12, RankedIs
  <1>14. rankIn(s, z) < rankIn(s, x) => rankIn(t, z) < rankIn(t, y)
    BY <1>7, <1>8, <1>12, RankedIs
  <1> QED
    BY <1>6, <1>13, <1>14 DEF from, to

LEMMA KeepsIf ==
  ASSUME NEW d, NEW ms, Sound(d, ms), NEW d2, isTree(DOMAIN d2), NEW ms2, Marked(ms2),
         NEW op, isOp(op), Came(op, d, d2), Slots(op, d, ms, ms2),
         Takes(op) => op.to \notin DOMAIN d
  PROVE  Keeps(op, d, ms, d2, ms2)
  <1> SUFFICES ASSUME NEW l \in Things(d), NEW k \in Things(d), NEW l2 \in Things(d2), NEW k2 \in Things(d2),
                      siblings(l, k), siblings(l2, k2),
                      d[l] = d2[l2], d[k] = d2[k2], ~isNew(d[l]), ~isNew(d[k]),
                      rankOf(ms, l) < rankOf(ms, k), ~exempt(op, ms, l, k)
               PROVE  rankOf(ms2, l2) < rankOf(ms2, k2)
    BY DEF Keeps
  <1>1. /\ isPlace(l) /\ ~isCollection(l) /\ isPlace(k) /\ ~isCollection(k) /\ Marked(ms)
        /\ isPlace(l2) /\ ~isCollection(l2) /\ isPlace(k2) /\ ~isCollection(k2)
    <2>1. \A x \in DOMAIN d2 : isPlace(x)
      BY TreeHas
    <2> QED
      BY <2>1, SoundIsMarked DEF Things
  <1>2. l # k
    <2>1. rankOf(ms, l) \in Int
      <3>1. /\ list(ms[Head(l)], l) \in Seq(KindOf(l)) /\ KindOf(l) \in SUBSET Names /\ Last(l) \in Names
        BY <1>1, ListTypes
      <3> QED
        BY <3>1, RankType DEF rankOf
    <2> QED
      BY <2>1
  <1>3. ASSUME NEW x \in Things(d), NEW y \in Things(d2), d[x] = d2[y], ~isNew(d[x])
        PROVE  \/ stays(op, x) /\ y = x
               \/ goes(op, x) /\ y = there(x, op.from, op.to)
    <2>1. PICK z \in DOMAIN d : /\ d[z] = d2[y]
                                /\ \/ stays(op, z) /\ y = z
                                   \/ goes(op, z) /\ y = there(z, op.from, op.to)
      BY <1>3 DEF Came, Things
    <2>2. z = x
      BY <1>3, <2>1 DEF Sound, Distinct, Things
    <2> QED
      BY <2>1, <2>2
  <1>4. PairsStay(op, d, ms, ms2) /\ ListsGo(op, d, ms, ms2) /\ NameChanges(op, ms, ms2)
    BY DEF Slots
  <1>5. CASE stays(op, l) /\ l2 = l /\ stays(op, k) /\ k2 = k
    BY <1>2, <1>4, <1>5, BothStay
  <1>6. Takes(op) => isPlace(op.from) /\ isPlace(op.to) /\ op.kind \in {"rename", "move"} /\ op.to \notin DOMAIN d
    BY DEF Takes, isOp
  <1>7. CASE goes(op, l) /\ l2 = there(l, op.from, op.to) /\ goes(op, k) /\ k2 = there(k, op.from, op.to)
    BY <1>2, <1>4, <1>6, <1>7, BothGo DEF goes
  <1>8. siblings(k, l) /\ siblings(k2, l2)
    BY <1>1, SiblingsAre
  <1>9. ASSUME NEW x \in Things(d), isPlace(x), ~isCollection(x), NEW y \in Things(d), isPlace(y), siblings(x, y),
               goes(op, x), stays(op, y), siblings(there(x, op.from, op.to), y)
        PROVE  /\ x = op.from /\ there(x, op.from, op.to) = op.to /\ op.kind = "rename"
               /\ siblings(op.to, y) /\ siblings(op.from, y)
    <2>1. isPlace(op.from) /\ isPlace(op.to) /\ IsPrefix(op.from, x) /\ ~IsPrefix(op.from, y) /\ Takes(op)
      BY <1>6, <1>9 DEF goes, stays, Takes
    <2>2. x = op.from
      BY <1>9, <2>1, Together
    <2>3. there(x, op.from, op.to) = op.to
      BY <2>1, <2>2, GoesItself
    <2>4. ASSUME op.kind = "move" PROVE FALSE
      <3>1. /\ Last(op.to) = Last(op.from) /\ ~isCollection(op.from) /\ ~isCollection(op.to)
            /\ ~IsPrefix(op.from, op.to)
        BY <2>4 DEF isOp
      <3>2. Front(op.to) = Front(y) /\ Front(x) = Front(y)
        BY <1>9, <2>3 DEF siblings
      <3>3. op.to = In(Front(op.to), Last(op.to)) /\ op.from = In(Front(op.from), Last(op.from))
        BY <2>1, <3>1, Below
      <3>4. op.to = op.from
        BY <2>2, <3>1, <3>2, <3>3
      <3>5. IsPrefix(op.from, op.from)
        <4>1. op.from \in Seq(Words)
          BY <2>1, PlaceIs
        <4> QED
          BY <4>1 DEF IsPrefix
      <3> QED
        BY <3>1, <3>4, <3>5
    <2> QED
      BY <1>6, <1>9, <2>1, <2>2, <2>3, <2>4
  <1>10. CASE goes(op, l) /\ l2 = there(l, op.from, op.to) /\ stays(op, k) /\ k2 = k
    <2>1. l = op.from /\ l2 = op.to /\ op.kind = "rename" /\ siblings(op.to, k) /\ siblings(op.from, k)
      BY <1>1, <1>9, <1>10
    <2>2. Last(op.from) \in ToSet(list(ms[Head(op.from)], op.from))
      BY <2>1 DEF exempt, unlistedOf
    <2>3. op.to \notin DOMAIN d
      BY <2>1 DEF Takes
    <2> QED
      BY <1>2, <1>4, <1>10, <2>1, <2>2, <2>3, OneRenamed
  <1>11. CASE stays(op, l) /\ l2 = l /\ goes(op, k) /\ k2 = there(k, op.from, op.to)
    <2>1. k = op.from /\ k2 = op.to /\ op.kind = "rename" /\ siblings(op.to, l) /\ siblings(op.from, l)
      BY <1>1, <1>8, <1>9, <1>11
    <2>2. Last(op.from) \in ToSet(list(ms[Head(op.from)], op.from))
      BY <2>1 DEF exempt, unlistedOf
    <2>3. op.to \notin DOMAIN d
      BY <2>1 DEF Takes
    <2> QED
      BY <1>2, <1>4, <1>11, <2>1, <2>2, <2>3, OneRenamed
  <1> QED
    BY <1>3, <1>5, <1>7, <1>10, <1>11

-----------------------------------------------------------------------------
(* What each command makes of the lists: with what stays, and what goes.    *)

LEMMA Splits ==
  ASSUME NEW S, NEW a \in Seq(S), NEW k \in Seq(S), IsPrefix(a, k)
  PROVE  \E u \in Seq(S) : k = a \o u
  BY PrefixSplits

(* The key of what is not below a folder is not below its own key.          *)
LEMMA KeyOutside ==
  ASSUME NEW f, isPlace(f), NEW l, isPlace(l), ~isCollection(l), Head(l) = Head(f), ~IsPrefix(f, l)
  PROVE  ~IsPrefix(Tail(f), siblingKey(l))
  <1> SUFFICES ASSUME IsPrefix(Tail(f), siblingKey(l)) PROVE FALSE
    OBVIOUS
  <1> DEFINE n == Last(l)
             k == siblingKey(l)
             t == Tail(f)
  <1>1. /\ k \in Seq(Names) /\ Tail(l) = In(k, n) /\ n \in Names /\ t \in Seq(Names)
        /\ l = <<Head(l)>> \o Tail(l) /\ f \in Seq(Words) \ {<<>>}
    BY PlaceIs, Below, NamesDiffer DEF KindOf
  <1>0. IsPrefix(t, k)
    OBVIOUS
  <1> HIDE DEF n, k, t
  <1>2. PICK u \in Seq(Names) : k = t \o u
    <2>1. t \in Seq(Names) /\ k \in Seq(Names)
      BY <1>1
    <2> QED
      BY <1>0, <2>1, Splits
  <1>3. longer(Names, t, u, n)
    BY <1>1, Longer
  <1>4. Tail(l) = t \o In(u, n) /\ In(u, n) \in Seq(Names)
    BY <1>1, <1>2, <1>3, InIs DEF longer
  <1>5. l = f \o In(u, n)
    BY <1>1, <1>4, Whole DEF t
  <1>6. In(u, n) \in Seq(Words)
    BY <1>4, SeqMonotonic DEF Words
  <1> QED
    BY <1>1, <1>5, <1>6, Behind

(* Nothing is below what is not there. *)
LEMMA AbsentBelow ==
  ASSUME NEW places, isTree(places), NEW f, isPlace(f), f \notin places, NEW l \in places
  PROVE  ~IsPrefix(f, l)
  <1> SUFFICES ASSUME IsPrefix(f, l) PROVE FALSE
    OBVIOUS
  <1>1. isPlace(l) /\ prefixes(l) \subseteq places
    BY TreeHas
  <1>2. f \in Seq(Words) \ {<<>>} /\ l \in Seq(Words)
    BY <1>1, PlaceIs
  <1>3. \E u \in Seq(Words) : l = f \o u
    BY <1>2, PrefixSplits
  <1>4. f \in prefixes(l)
    BY <1>1, <1>2, <1>3, PrefixesAre
  <1> QED
    BY <1>1, <1>4

LEMMA ItselfBelow ==
  ASSUME NEW l, isPlace(l)
  PROVE  IsPrefix(l, l)
  <1>1. l \in Seq(Words)
    BY PlaceIs
  <1> QED
    BY <1>1 DEF IsPrefix

(* What shares a list with another thing has another name. *)
LEMMA Apart ==
  ASSUME NEW t, isPlace(t), ~isCollection(t), NEW l, isPlace(l), ~isCollection(l), l # t,
         Head(l) = Head(t), sameSlot(l, t)
  PROVE  Last(l) # Last(t)
  <1>1. siblings(t, l)
    <2>1. sameSlot(t, l)
      BY DEF sameSlot
    <2> QED
      BY <2>1, SlotsAreSiblings
  <1> QED
    BY <1>1, SiblingsAre

(* A marker that speaks of what is there has no list below what is not.     *)
LEMMA NothingListed ==
  ASSUME NEW places, isTree(places), NEW to, isPlace(to), to \notin places,
         NEW m, matches(m, Head(to), places),
         NEW y, NEW v \in Seq(Names), siblingKey(y) = Tail(to) \o v
  PROVE  list(m, y) = <<>>
  <1> SUFFICES ASSUME list(m, y) # <<>> PROVE FALSE
    OBVIOUS
  <1>1. isMarker(m) /\ \A p \in placesOf(m) : <<Head(to)>> \o p \in places
    BY MatchesIs
  <1>2. list(m, y) \in Seq(KindOf(y)) /\ KindOf(y) \in SUBSET Names
    BY <1>1, ListIs, NamesDiffer DEF KindOf
  <1> DEFINE n == Last(list(m, y))
  <1>3. n \in ToSet(list(m, y)) /\ n \in Names
    <2> DEFINE s == list(m, y)
    <2>1. s \in Seq(Names) /\ s # <<>>
      BY <1>2, SeqMonotonic
    <2> HIDE DEF s
    <2>2. Len(s) \in 1..Len(s) /\ s[Len(s)] \in Names
      BY <2>1, EmptySeq
    <2>3. Last(s) \in ToSet(s) /\ Last(s) \in Names
      BY <2>2 DEF Last, ToSet
    <2> QED
      BY <2>3 DEF s
  <1> HIDE DEF n
  <1>4. In(siblingKey(y), n) \in placesOf(m)
    BY <1>1, <1>3, ListIs
  <1>5. Tail(to) \in Seq(Names) /\ to \in Seq(Words)
    BY PlaceIs
  <1>6. longer(Names, Tail(to), v, n)
    BY <1>3, <1>5, Longer
  <1>7. In(siblingKey(y), n) = Tail(to) \o In(v, n) /\ In(v, n) \in Seq(Names)
    BY <1>3, <1>6, InIs DEF longer
  <1>8. <<Head(to)>> \o (Tail(to) \o In(v, n)) = to \o In(v, n)
    BY <1>7, Whole
  <1>9. to \o In(v, n) \in places
    BY <1>1, <1>4, <1>7, <1>8
  <1>10. IsPrefix(to, to \o In(v, n))
    <2>1. In(v, n) \in Seq(Words)
      BY <1>7, SeqMonotonic DEF Words
    <2> QED
      BY <1>5, <2>1, Behind
  <1> QED
    BY <1>9, <1>10, AbsentBelow

(* The places of a list below a place do not hold that place itself.        *)
LEMMA LongerKeys ==
  ASSUME NEW t, isPlace(t), ~isCollection(t), NEW l, NEW v \in Seq(Names), siblingKey(l) = Tail(t) \o v
  PROVE  ~sameSlot(l, t)
  <1>1. /\ Tail(t) = In(siblingKey(t), Last(t)) /\ siblingKey(t) \in Seq(Names) /\ Tail(t) \in Seq(Names)
        /\ Last(t) \in Names
    BY PlaceIs, Below, NamesDiffer DEF KindOf
  <1>2. Len(Tail(t)) = Len(siblingKey(t)) + 1 /\ Len(siblingKey(t)) \in Nat
    BY <1>1 DEF In
  <1>3. Len(Tail(t) \o v) = Len(Tail(t)) + Len(v) /\ Len(v) \in Nat
    BY <1>1
  <1> QED
    BY <1>2, <1>3 DEF sameSlot

LEMMA OwnKey ==
  ASSUME NEW t, isPlace(t), ~isCollection(t)
  PROVE  ~IsPrefix(Tail(t), siblingKey(t))
  <1> SUFFICES ASSUME IsPrefix(Tail(t), siblingKey(t)) PROVE FALSE
    OBVIOUS
  <1>1. Tail(t) \in Seq(Names) /\ siblingKey(t) \in Seq(Names)
    BY PlaceIs, Below
  <1>2. PICK v \in Seq(Names) : siblingKey(t) = Tail(t) \o v
    BY <1>1, PrefixSplits
  <1>3. ~sameSlot(t, t)
    BY <1>2, LongerKeys
  <1> QED
    BY <1>3 DEF sameSlot

(* One marker becomes m, the others stay. *)
becomes(ms, ms2, c, m) == ms2[c] = m /\ \A h \in Collections : h # c => ms2[h] = ms[h]

LEMMA PairsIf ==
  ASSUME NEW d, NEW ms, Sound(d, ms), NEW op, NEW ms2, NEW c, NEW m, becomes(ms, ms2, c, m),
         \A l, k \in Things(d) :
           /\ stays(op, l) /\ stays(op, k) /\ siblings(l, k) /\ l # k
           /\ ~(op.kind = "reorder" /\ siblings(op.to, l)) /\ Head(l) = c
           => KeepsPair(list(ms[c], l), list(m, l), Last(l), Last(k))
  PROVE  PairsStay(op, d, ms, ms2)
  <1> SUFFICES ASSUME NEW l \in Things(d), NEW k \in Things(d),
                      stays(op, l), stays(op, k), siblings(l, k), l # k,
                      ~(op.kind = "reorder" /\ siblings(op.to, l))
               PROVE  KeepsPair(list(ms[Head(l)], l), list(ms2[Head(l)], l), Last(l), Last(k))
    BY DEF PairsStay
  <1>1. Head(l) \in Collections
    BY SoundIsMarked, PlaceIs
  <1>2. CASE Head(l) = c
    BY <1>2 DEF becomes
  <1>3. CASE Head(l) # c
    <2>1. ms2[Head(l)] = ms[Head(l)]
      BY <1>1, <1>3 DEF becomes
    <2> QED
      BY <2>1, KeepsPairSame
  <1> QED
    BY <1>2, <1>3

LEMMA SlotsCreate ==
  ASSUME NEW d, NEW ms, Sound(d, ms), NEW op, isOp(op), op.kind = "create",
         ~isCollection(op.to), op.to \notin DOMAIN d,
         NEW ms2, becomes(ms, ms2, Head(op.to), upserted(ms[Head(op.to)], op.to))
  PROVE  Slots(op, d, ms, ms2)
  <1> DEFINE to == op.to
             m == ms[Head(to)]
  <1>1. isPlace(to) /\ ~isCollection(to) /\ Head(to) \in Collections
    BY PlaceIs DEF isOp
  <1>2. isMarker(m)
    BY <1>1, SoundIsMarked DEF Marked
  <1>3. ASSUME NEW l \in Things(d), NEW k \in Things(d), siblings(l, k), l # k, Head(l) = Head(to)
        PROVE  KeepsPair(list(m, l), list(upserted(m, to), l), Last(l), Last(k))
    <2>1. isPlace(l) /\ ~isCollection(l) /\ isPlace(k) /\ ~isCollection(k) /\ l # to /\ k # to
      BY SoundIsMarked DEF Things
    <2>2. Head(k) = Head(l) /\ siblingKey(k) = siblingKey(l) /\ isRequest(k) = isRequest(l)
      BY <1>3, <2>1, SiblingsAre
    <2>3. sameSlot(l, to) => sameSlot(k, to)
      BY <2>2 DEF sameSlot
    <2>4. sameSlot(l, to) => Last(l) # Last(to) /\ Last(k) # Last(to)
      BY <1>1, <1>3, <2>1, <2>2, <2>3, Apart
    <2> HIDE DEF to, m
    <2> QED
      BY <1>1, <1>2, <2>4, UpsertedKeepsPair
  <1>4. PairsStay(op, d, ms, ms2)
    BY <1>3, PairsIf
  <1> QED
    BY <1>4 DEF Slots, ListsGo, NameChanges, goes, Takes

(* Only what is not taken away has its list looked at. *)
LEMMA DroppedKeepsPair ==
  ASSUME NEW m, isMarker(m), NEW from, isPlace(from), ~isCollection(from),
         NEW l, isPlace(l), ~isCollection(l), NEW k, isPlace(k), ~isCollection(k), siblings(l, k),
         Head(l) = Head(from), ~IsPrefix(from, l), ~IsPrefix(from, k)
  PROVE  KeepsPair(list(m, l), list(dropped(m, from), l), Last(l), Last(k))
  <1>1. l # from /\ k # from
    BY ItselfBelow
  <1>2. Head(k) = Head(l) /\ siblingKey(k) = siblingKey(l) /\ isRequest(k) = isRequest(l)
    BY SiblingsAre
  <1>3. sameSlot(l, from) => sameSlot(k, from)
    BY <1>2 DEF sameSlot
  <1>4. sameSlot(l, from) => Last(l) # Last(from) /\ Last(k) # Last(from)
    BY <1>1, <1>2, <1>3, Apart
  <1>5. ~IsPrefix(Tail(from), siblingKey(l))
    BY KeyOutside
  <1>6. list(dropped(m, from), l) = list(removed(m, from), l)
    BY <1>5, DroppedList
  <1>7. KeepsPair(list(m, l), list(removed(m, from), l), Last(l), Last(k))
    BY <1>4, RemovedKeepsPair
  <1> QED
    BY <1>6, <1>7

LEMMA SlotsDelete ==
  ASSUME NEW d, NEW ms, Sound(d, ms), NEW op, isOp(op), op.kind = "delete", ~isCollection(op.from),
         NEW ms2, becomes(ms, ms2, Head(op.from), dropped(ms[Head(op.from)], op.from))
  PROVE  Slots(op, d, ms, ms2)
  <1> DEFINE from == op.from
             m == ms[Head(from)]
  <1>1. isPlace(from) /\ ~isCollection(from) /\ Head(from) \in Collections
    BY PlaceIs DEF isOp
  <1>2. isMarker(m)
    BY <1>1, SoundIsMarked DEF Marked
  <1>3. ASSUME NEW l \in Things(d), NEW k \in Things(d), stays(op, l), stays(op, k), siblings(l, k),
               Head(l) = Head(from)
        PROVE  KeepsPair(list(m, l), list(dropped(m, from), l), Last(l), Last(k))
    <2>1. isPlace(l) /\ ~isCollection(l) /\ isPlace(k) /\ ~isCollection(k)
      BY SoundIsMarked
    <2>2. ~IsPrefix(from, l) /\ ~IsPrefix(from, k)
      BY <1>3 DEF stays
    <2> HIDE DEF from, m
    <2> QED
      BY <1>1, <1>2, <1>3, <2>1, <2>2, DroppedKeepsPair
  <1>4. PairsStay(op, d, ms, ms2)
    BY <1>3, PairsIf
  <1> QED
    BY <1>4 DEF Slots, ListsGo, NameChanges, goes, Takes

LEMMA SlotsReorder ==
  ASSUME NEW d, NEW ms, Sound(d, ms), NEW op, isOp(op), op.kind = "reorder",
         NEW ms2, NEW names, becomes(ms, ms2, Head(op.to), withList(ms[Head(op.to)], op.to, names))
  PROVE  Slots(op, d, ms, ms2)
  <1> DEFINE to == op.to
             m == ms[Head(to)]
  <1>1. isPlace(to) /\ ~isCollection(to) /\ Head(to) \in Collections
    BY PlaceIs DEF isOp
  <1>2. isMarker(m)
    BY <1>1, SoundIsMarked DEF Marked
  <1>3. ASSUME NEW l \in Things(d), NEW k, ~siblings(to, l), Head(l) = Head(to)
        PROVE  KeepsPair(list(m, l), list(withList(m, to, names), l), Last(l), Last(k))
    <2>1. isPlace(l) /\ ~isCollection(l)
      BY SoundIsMarked
    <2>2. ~sameSlot(to, l)
      BY <1>1, <1>3, <2>1, SlotsAreSiblings
    <2>3. ~sameSlot(l, to)
      BY <2>2 DEF sameSlot
    <2> HIDE DEF to, m
    <2> QED
      BY <1>2, <2>3, ListWithList, KeepsPairSame
  <1>4. PairsStay(op, d, ms, ms2)
    BY <1>3, PairsIf
  <1> QED
    BY <1>4 DEF Slots, ListsGo, NameChanges, goes, Takes

(* What is laid over a marker leaves the lists of others, and brings its own. *)
LaidOver(g, x, from, to) == upserted(overlaid(g, extracted(x, from, to)), to)

LEMMA LaidIsMarker ==
  ASSUME NEW g, isMarker(g), NEW x, isMarker(x), NEW from, isPlace(from), NEW to, isPlace(to), ~isCollection(to)
  PROVE  isMarker(overlaid(g, extracted(x, from, to))) /\ isMarker(LaidOver(g, x, from, to))
  <1> DEFINE e == extracted(x, from, to)
             o == overlaid(g, e)
  <1>1. isMarker(e)
    BY ExtractedPlaces
  <1> HIDE DEF e
  <1>2. isMarker(o)
    BY <1>1, OverlaidPlaces
  <1> HIDE DEF o
  <1>3. isMarker(upserted(o, to))
    BY <1>2, UpsertedPlaces
  <1> QED
    BY <1>2, <1>3 DEF LaidOver, o, e

LEMMA LaidKeepsPair ==
  ASSUME NEW places, isTree(places), NEW to, isPlace(to), ~isCollection(to), to \notin places,
         NEW g, isMarker(g), NEW x, isMarker(x), NEW from, isPlace(from),
         NEW l \in places, isPlace(l), ~isCollection(l), NEW k \in places, isPlace(k), ~isCollection(k),
         siblings(l, k), Head(l) = Head(to)
  PROVE  KeepsPair(list(g, l), list(LaidOver(g, x, from, to), l), Last(l), Last(k))
  <1> DEFINE o == overlaid(g, extracted(x, from, to))
  <1>1. l # to /\ k # to /\ ~IsPrefix(to, l)
    BY AbsentBelow
  <1>2. Head(k) = Head(l) /\ siblingKey(k) = siblingKey(l) /\ isRequest(k) = isRequest(l)
    BY SiblingsAre
  <1>3. sameSlot(l, to) => sameSlot(k, to)
    BY <1>2 DEF sameSlot
  <1>4. sameSlot(l, to) => Last(l) # Last(to) /\ Last(k) # Last(to)
    BY <1>1, <1>2, <1>3, Apart
  <1>5. ~IsPrefix(Tail(to), siblingKey(l))
    BY <1>1, KeyOutside
  <1>6. list(o, l) = list(g, l)
    BY <1>5, OverlaidList
  <1>7. isMarker(o)
    BY LaidIsMarker
  <1> HIDE DEF o
  <1>8. KeepsPair(list(o, l), list(upserted(o, to), l), Last(l), Last(k))
    BY <1>4, <1>7, UpsertedKeepsPair
  <1> QED
    BY <1>6, <1>8 DEF LaidOver, o

LEMMA LaidList ==
  ASSUME NEW places, isTree(places), NEW to, isPlace(to), ~isCollection(to), to \notin places,
         NEW g, matches(g, Head(to), places), NEW x, isMarker(x), NEW from, isPlace(from),
         NEW u \in Seq(Names) \ {<<>>}
  PROVE  list(LaidOver(g, x, from, to), to \o u) = list(x, from \o u)
  <1> DEFINE o == overlaid(g, extracted(x, from, to))
             y == to \o u
             z == from \o u
             v == Front(u)
  <1>1. /\ siblingKey(y) = Tail(to) \o v /\ isRequest(y) = (Last(u) \in Requests) /\ v \in Seq(Names)
        /\ siblingKey(z) = Tail(from) \o v /\ isRequest(z) = (Last(u) \in Requests)
    BY BelowIt
  <1>2. isMarker(g)
    BY MatchesIs
  <1>3. isMarker(o)
    BY <1>2, LaidIsMarker
  <1> HIDE DEF y, z, v
  <1>4. list(g, y) = <<>>
    BY <1>1, NothingListed
  <1>5. list(o, y) = list(x, z)
    <2>1. copies(o, g, x, Tail(from), Tail(to))
      BY <1>2, OverlaidList
    <2>2. isRequest(z) = isRequest(y)
      BY <1>1
    <2> HIDE DEF o
    <2> QED
      BY <1>1, <1>4, <2>1, <2>2 DEF copies
  <1>6. ~sameSlot(y, to)
    BY <1>1, LongerKeys
  <1> HIDE DEF o
  <1>7. list(upserted(o, to), y) = list(o, y)
    BY <1>3, <1>6, OtherLists
  <1> QED
    BY <1>5, <1>7 DEF LaidOver, o, y, z

LEMMA SlotsDuplicate ==
  ASSUME NEW d, NEW ms, Sound(d, ms), NEW op, isOp(op), op.kind = "duplicate",
         ~isCollection(op.to), op.to \notin DOMAIN d,
         NEW ms2, becomes(ms, ms2, Head(op.to), LaidOver(ms[Head(op.to)], ms[Head(op.to)], op.from, op.to))
  PROVE  Slots(op, d, ms, ms2)
  <1> DEFINE to == op.to
             from == op.from
             m == ms[Head(to)]
  <1>1. isPlace(to) /\ ~isCollection(to) /\ Head(to) \in Collections /\ isPlace(from)
    BY PlaceIs DEF isOp
  <1>2. isMarker(m) /\ isTree(DOMAIN d)
    BY <1>1, SoundIsMarked DEF Marked, Sound
  <1>3. ASSUME NEW l \in Things(d), NEW k \in Things(d), siblings(l, k), Head(l) = Head(to)
        PROVE  KeepsPair(list(m, l), list(LaidOver(m, m, from, to), l), Last(l), Last(k))
    <2>1. isPlace(l) /\ ~isCollection(l) /\ isPlace(k) /\ ~isCollection(k) /\ l \in DOMAIN d /\ k \in DOMAIN d
      BY SoundIsMarked DEF Things
    <2>2. to \notin DOMAIN d
      OBVIOUS
    <2> HIDE DEF to, from, m
    <2> QED
      BY <1>1, <1>2, <1>3, <2>1, <2>2, LaidKeepsPair
  <1>4. PairsStay(op, d, ms, ms2)
    BY <1>3, PairsIf
  <1> QED
    BY <1>4 DEF Slots, ListsGo, NameChanges, goes, Takes

(* A move between collections, or of a request: out of one marker and into   *)
(* another, or into what is left of the same.                               *)
LEMMA SlotsTwice ==
  ASSUME NEW d, NEW ms, Sound(d, ms), NEW op, isOp(op), op.kind = "move", op.to \notin DOMAIN d,
         NEW mid, becomes(ms, mid, Head(op.from), dropped(ms[Head(op.from)], op.from)),
         NEW ms2, becomes(mid, ms2, Head(op.to), LaidOver(mid[Head(op.to)], ms[Head(op.from)], op.from, op.to))
  PROVE  Slots(op, d, ms, ms2)
  <1> DEFINE to == op.to
             from == op.from
             a == Head(from)
             b == Head(to)
             x == ms[a]
             y == dropped(x, from)
             g == mid[b]
             w == LaidOver(g, x, from, to)
  <1>1. /\ isPlace(to) /\ ~isCollection(to) /\ b \in Collections
        /\ isPlace(from) /\ ~isCollection(from) /\ a \in Collections
    BY PlaceIs DEF isOp
  <1>2. /\ isTree(DOMAIN d) /\ to \notin DOMAIN d
        /\ \A c \in Collections : matches(ms[c], c, DOMAIN d) /\ isMarker(ms[c])
    BY MatchesIs DEF Sound
  <1>3. isMarker(x) /\ matches(y, a, DOMAIN d)
    <2>1. isMarker(x) /\ \A p \in placesOf(x) : <<a>> \o p \in DOMAIN d
      BY <1>1, <1>2, MatchesIs
    <2> HIDE DEF from, a, x
    <2>2. isMarker(y) /\ \A p \in placesOf(y) : p \in placesOf(x)
      BY <1>1, <2>1, DroppedPlaces
    <2> HIDE DEF y
    <2>3. isMarker(y) /\ \A p \in placesOf(y) : <<a>> \o p \in DOMAIN d
      BY <2>1, <2>2
    <2> QED
      BY <2>1, <2>3, MatchesIs
  <1>4. mid[a] = y /\ \A c \in Collections : c # a => mid[c] = ms[c]
    BY DEF becomes
  <1>5. matches(g, b, DOMAIN d) /\ isMarker(g)
    <2> HIDE DEF to, from, a, b, x, y
    <2>1. CASE a = b
      BY <1>3, <1>4, <2>1, MatchesIs
    <2>2. CASE a # b
      BY <1>1, <1>2, <1>4, <2>2
    <2> QED
      BY <2>1, <2>2
  <1>6. ms2[b] = w /\ \A c \in Collections : c # b => ms2[c] = mid[c]
    BY DEF becomes
  <1> HIDE DEF y, g, w
  <1>7. ASSUME NEW l \in Things(d), NEW k \in Things(d), stays(op, l), stays(op, k), siblings(l, k)
        PROVE  KeepsPair(list(ms[Head(l)], l), list(ms2[Head(l)], l), Last(l), Last(k))
    <2>1. /\ isPlace(l) /\ ~isCollection(l) /\ isPlace(k) /\ ~isCollection(k) /\ l \in DOMAIN d /\ k \in DOMAIN d
          /\ Head(l) \in Collections
      BY SoundIsMarked, PlaceIs DEF Things
    <2>2. ~IsPrefix(from, l) /\ ~IsPrefix(from, k)
      BY <1>7 DEF stays
    <2> HIDE DEF to, from, a, b, x
    <2>3. KeepsPair(list(ms[Head(l)], l), list(mid[Head(l)], l), Last(l), Last(k))
      <3>1. CASE Head(l) = a
        <4>1. KeepsPair(list(x, l), list(y, l), Last(l), Last(k))
          BY <1>1, <1>3, <1>7, <2>1, <2>2, <3>1, DroppedKeepsPair DEF a, y
        <4> QED
          BY <1>4, <3>1, <4>1 DEF x
      <3>2. CASE Head(l) # a
        BY <1>4, <2>1, <3>2, KeepsPairSame
      <3> QED
        BY <3>1, <3>2
    <2>4. KeepsPair(list(mid[Head(l)], l), list(ms2[Head(l)], l), Last(l), Last(k))
      <3>1. CASE Head(l) = b
        <4>1. KeepsPair(list(g, l), list(w, l), Last(l), Last(k))
          BY <1>1, <1>2, <1>3, <1>5, <1>7, <2>1, <3>1, LaidKeepsPair DEF b, w
        <4> QED
          BY <1>6, <3>1, <4>1 DEF g
      <3>2. CASE Head(l) # b
        BY <1>6, <2>1, <3>2, KeepsPairSame
      <3> QED
        BY <3>1, <3>2
    <2> QED
      BY <2>3, <2>4, KeepsPairTwice
  <1>8. ASSUME NEW l \in Things(d), goes(op, l), l # from
        PROVE  list(ms2[b], there(l, from, to)) = list(x, l)
    <2>1. isPlace(l) /\ IsPrefix(from, l)
      BY <1>8, SoundIsMarked DEF goes
    <2> HIDE DEF to, from, a, b, x
    <2>2. PICK u \in Seq(Names) \ {<<>>} : l = from \o u
      BY <1>1, <1>8, <2>1, Strictly
    <2>3. there(l, from, to) = to \o u
      BY <1>1, <2>2, GoesTo
    <2>4. list(w, to \o u) = list(x, from \o u)
      BY <1>1, <1>2, <1>3, <1>5, LaidList DEF b, w
    <2> QED
      BY <1>6, <2>2, <2>3, <2>4
  <1>9. PairsStay(op, d, ms, ms2)
    BY <1>7 DEF PairsStay
  <1>10. ListsGo(op, d, ms, ms2)
    BY <1>8 DEF ListsGo
  <1> QED
    BY <1>9, <1>10 DEF Slots, NameChanges

(* Lists of a marker whose keys below a place were moved to another.         *)
movesLists(places, m, r, from, to) ==
  /\ \A l \in places : ~isCollection(l) /\ Head(l) = Head(to) /\ ~IsPrefix(from, l) => list(r, l) = list(m, l)
  /\ \A u \in Seq(Names) \ {<<>>} : list(r, to \o u) = list(m, from \o u)
  /\ \A u \in Seq(Names) \ {<<>>} : ~sameSlot(to \o u, from) /\ ~sameSlot(to \o u, to)
  /\ siblingKey(to) = siblingKey(from) => list(r, from) = list(m, from)

LEMMA RekeyedLists ==
  ASSUME NEW places, isTree(places), NEW from, isPlace(from), ~isCollection(from), from \in places,
         NEW to, isPlace(to), ~isCollection(to), to \notin places, Head(to) = Head(from), ~IsPrefix(from, to),
         NEW m, matches(m, Head(to), places), NEW r, isRekeyed(r, m, Tail(from), Tail(to))
  PROVE  isMarker(r) /\ movesLists(places, m, r, from, to)
  <1> DEFINE f == Tail(from)
             t == Tail(to)
  <1>1. f \in Seq(Names) /\ t \in Seq(Names) /\ isMarker(m)
    BY PlaceIs, MatchesIs
  <1>2. ~IsPrefix(f, t)
    <2> SUFFICES ASSUME IsPrefix(f, t) PROVE FALSE
      OBVIOUS
    <2>1. PICK u \in Seq(Names) : t = f \o u
      <3> HIDE DEF f, t
      <3> QED
        BY <1>1, Splits
    <2>2. to = <<Head(to)>> \o t
      BY PlaceIs
    <2>3. <<Head(from)>> \o (f \o u) = from \o u
      BY Whole
    <2>4. to = from \o u
      BY <2>1, <2>2, <2>3
    <2>5. from \in Seq(Words) /\ u \in Seq(Words)
      BY PlaceIs, SeqMonotonic DEF Words
    <2> QED
      BY <2>4, <2>5, Behind
  <1> HIDE DEF f, t
  <1>3. /\ \A l : ~IsPrefix(f, siblingKey(l)) /\ ~IsPrefix(t, siblingKey(l)) => list(r, l) = list(m, l)
        /\ copies(r, m, m, f, t) /\ isMarker(r)
    <2>1. isRekeyed(r, m, f, t)
      BY DEF f, t
    <2> QED
      BY <1>1, <1>2, <2>1, RekeyedList, RekeyedPlaces
  <1>4. ASSUME NEW l \in places, ~isCollection(l), Head(l) = Head(to), ~IsPrefix(from, l)
        PROVE  list(r, l) = list(m, l)
    <2>1. isPlace(l)
      BY TreeHas
    <2>2. ~IsPrefix(to, l)
      BY AbsentBelow
    <2>3. ~IsPrefix(f, siblingKey(l)) /\ ~IsPrefix(t, siblingKey(l))
      BY <1>4, <2>1, <2>2, KeyOutside DEF f, t
    <2> QED
      BY <1>3, <2>3
  <1>5. ASSUME NEW u \in Seq(Names) \ {<<>>}
        PROVE  list(r, to \o u) = list(m, from \o u) /\ ~sameSlot(to \o u, from) /\ ~sameSlot(to \o u, to)
    <2> DEFINE y == to \o u
               z == from \o u
               v == Front(u)
    <2>1. /\ siblingKey(y) = t \o v /\ isRequest(y) = (Last(u) \in Requests) /\ v \in Seq(Names)
          /\ siblingKey(z) = f \o v /\ isRequest(z) = (Last(u) \in Requests)
      BY BelowIt DEF f, t
    <2> HIDE DEF y, z, v
    <2>2. list(m, y) = <<>>
      BY <2>1, NothingListed DEF t
    <2>3. isRequest(z) = isRequest(y)
      BY <2>1
    <2>4. list(r, y) = list(m, z)
      BY <1>3, <2>1, <2>2, <2>3 DEF copies
    <2>5. ~sameSlot(y, to)
      BY <2>1, LongerKeys DEF t
    <2>6. ~sameSlot(y, from)
      <3> SUFFICES ASSUME sameSlot(y, from) PROVE FALSE
        OBVIOUS
      <3>1. siblingKey(from) = t \o v
        BY <2>1 DEF sameSlot
      <3>2. IsPrefix(t, siblingKey(from))
        BY <1>1, <2>1, <3>1, Behind
      <3>3. ~IsPrefix(to, from)
        BY AbsentBelow
      <3> QED
        BY <3>2, <3>3, KeyOutside DEF t
    <2> QED
      BY <2>4, <2>5, <2>6 DEF y, z
  <1>6. siblingKey(to) = siblingKey(from) => list(r, from) = list(m, from)
    BY <1>3, OwnKey DEF f, t
  <1> QED
    BY <1>3, <1>4, <1>5, <1>6 DEF movesLists

LEMMA SlotsMove ==
  ASSUME NEW d, NEW ms, Sound(d, ms), NEW op, isOp(op), op.kind = "move", Head(op.to) = Head(op.from),
         op.to \notin DOMAIN d, op.from \in DOMAIN d,
         NEW r, isRekeyed(r, ms[Head(op.to)], Tail(op.from), Tail(op.to)),
         NEW ms2, becomes(ms, ms2, Head(op.to), upserted(removed(r, op.from), op.to))
  PROVE  Slots(op, d, ms, ms2)
  <1> DEFINE to == op.to
             from == op.from
             m == ms[Head(to)]
             e == removed(r, from)
             w == upserted(e, to)
  <1>1. /\ isPlace(to) /\ ~isCollection(to) /\ Head(to) \in Collections
        /\ isPlace(from) /\ ~isCollection(from) /\ ~IsPrefix(from, to)
        /\ Head(to) = Head(from) /\ to \notin DOMAIN d /\ from \in DOMAIN d
    BY PlaceIs DEF isOp
  <1>2. isTree(DOMAIN d) /\ matches(m, Head(to), DOMAIN d)
    BY <1>1 DEF Sound
  <1>3. isRekeyed(r, m, Tail(from), Tail(to))
    OBVIOUS
  <1>4. ms2[Head(to)] = w
    BY DEF becomes
  <1>5. Things(d) \subseteq DOMAIN d /\ \A l \in Things(d) : isPlace(l) /\ ~isCollection(l)
    BY SoundIsMarked DEF Things
  <1> HIDE DEF to, from, m
  <1>6. /\ \A l \in DOMAIN d : ~isCollection(l) /\ Head(l) = Head(to) /\ ~IsPrefix(from, l) => list(r, l) = list(m, l)
        /\ \A u \in Seq(Names) \ {<<>>} : list(r, to \o u) = list(m, from \o u)
        /\ \A u \in Seq(Names) \ {<<>>} : ~sameSlot(to \o u, from) /\ ~sameSlot(to \o u, to)
        /\ isMarker(r)
    <2>1. isMarker(r) /\ movesLists(DOMAIN d, m, r, from, to)
      BY <1>1, <1>2, <1>3, RekeyedLists
    <2> QED
      BY <2>1 DEF movesLists
  <1>7. isMarker(e)
    BY <1>1, <1>6, RemovedPlaces
  <1>8. ASSUME NEW l \in Things(d), NEW k \in Things(d), ~IsPrefix(from, l), ~IsPrefix(from, k), siblings(l, k),
               Head(l) = Head(to)
        PROVE  KeepsPair(list(m, l), list(w, l), Last(l), Last(k))
    <2>1. /\ isPlace(l) /\ ~isCollection(l) /\ isPlace(k) /\ ~isCollection(k)
          /\ l # from /\ k # from /\ l # to /\ k # to
      BY <1>1, <1>5, <1>8, ItselfBelow
    <2>2. Head(k) = Head(l) /\ siblingKey(k) = siblingKey(l) /\ isRequest(k) = isRequest(l)
      BY <1>8, <2>1, SiblingsAre
    <2>3. (sameSlot(l, to) => sameSlot(k, to)) /\ (sameSlot(l, from) => sameSlot(k, from))
      BY <2>2 DEF sameSlot
    <2>4. /\ sameSlot(l, to) => Last(l) # Last(to) /\ Last(k) # Last(to)
          /\ sameSlot(l, from) => Last(l) # Last(from) /\ Last(k) # Last(from)
      BY <1>1, <1>8, <2>1, <2>2, <2>3, Apart
    <2>5. list(r, l) = list(m, l)
      BY <1>5, <1>6, <1>8, <2>1
    <2>6. KeepsPair(list(r, l), list(e, l), Last(l), Last(k))
      BY <1>6, <2>4, RemovedKeepsPair
    <2> HIDE DEF e
    <2>7. KeepsPair(list(e, l), list(w, l), Last(l), Last(k))
      BY <1>1, <1>7, <2>4, UpsertedKeepsPair
    <2> QED
      BY <2>5, <2>6, <2>7, KeepsPairTwice
  <1>9. ASSUME NEW l \in Things(d), IsPrefix(from, l), l # from
        PROVE  list(w, there(l, from, to)) = list(m, l)
    <2>1. PICK u \in Seq(Names) \ {<<>>} : l = from \o u
      BY <1>1, <1>5, <1>9, Strictly
    <2>2. there(l, from, to) = to \o u
      BY <1>1, <2>1, GoesTo
    <2>3. list(e, to \o u) = list(r, to \o u)
      BY <1>6, OtherLists
    <2> HIDE DEF e
    <2>4. list(w, to \o u) = list(e, to \o u)
      BY <1>6, <1>7, OtherLists
    <2> QED
      BY <1>6, <2>1, <2>2, <2>3, <2>4
  <1> HIDE DEF w
  <1>10. PairsStay(op, d, ms, ms2)
    <2>1. becomes(ms, ms2, Head(to), w)
      BY DEF w, e, to, from
    <2>2. \A l, k \in Things(d) :
            stays(op, l) /\ stays(op, k) /\ siblings(l, k) /\ Head(l) = Head(to)
              => KeepsPair(list(ms[Head(to)], l), list(w, l), Last(l), Last(k))
      BY <1>8 DEF stays, from, m
    <2> QED
      BY <2>1, <2>2, PairsIf
  <1>11. ListsGo(op, d, ms, ms2)
    <2> SUFFICES ASSUME NEW l \in Things(d), goes(op, l), l # from
                 PROVE  list(ms2[Head(to)], there(l, from, to)) = list(ms[Head(from)], l)
      BY DEF ListsGo, to, from
    <2>1. IsPrefix(from, l)
      BY DEF goes, from
    <2> QED
      BY <1>1, <1>4, <1>9, <2>1 DEF m
  <1> QED
    BY <1>10, <1>11 DEF Slots, NameChanges

LEMMA SlotsRename ==
  ASSUME NEW d, NEW ms, Sound(d, ms), NEW op, isOp(op), op.kind = "rename", ~isCollection(op.to),
         op.to \notin DOMAIN d, op.from \in DOMAIN d,
         NEW r, isRekeyed(r, ms[Head(op.to)], Tail(op.from), Tail(op.to)),
         NEW ms2, becomes(ms, ms2, Head(op.to), renamed(r, op.from, op.to))
  PROVE  Slots(op, d, ms, ms2)
  <1> DEFINE to == op.to
             from == op.from
             m == ms[Head(to)]
             w == renamed(r, from, to)
             s == list(m, from)
             x == Last(from)
             y == Last(to)
  <1>1. /\ isPlace(to) /\ ~isCollection(to) /\ Head(to) \in Collections
        /\ isPlace(from) /\ ~isCollection(from) /\ ~IsPrefix(from, to)
        /\ Head(to) = Head(from) /\ to \notin DOMAIN d /\ from \in DOMAIN d
        /\ Front(to) = Front(from) /\ isRequest(to) = isRequest(from)
    BY PlaceIs, OpIs DEF isOp
  <1>2. isTree(DOMAIN d) /\ matches(m, Head(to), DOMAIN d) /\ isMarker(m)
    BY <1>1, MatchesIs DEF Sound
  <1>3. isRekeyed(r, m, Tail(from), Tail(to))
    OBVIOUS
  <1>4. ms2[Head(to)] = w
    BY DEF becomes
  <1>5. Things(d) \subseteq DOMAIN d /\ \A l \in Things(d) : isPlace(l) /\ ~isCollection(l)
    BY SoundIsMarked DEF Things
  <1>6. siblingKey(to) = siblingKey(from) /\ sameSlot(to, from)
    BY <1>1 DEF siblingKey, sameSlot
  <1>7. y \notin ToSet(list(m, to))
    BY <1>1, ListedIsThere
  <1> HIDE DEF to, from, m
  <1>8. /\ \A l \in DOMAIN d : ~isCollection(l) /\ Head(l) = Head(to) /\ ~IsPrefix(from, l) => list(r, l) = list(m, l)
        /\ \A u \in Seq(Names) \ {<<>>} : list(r, to \o u) = list(m, from \o u)
        /\ \A u \in Seq(Names) \ {<<>>} : ~sameSlot(to \o u, from) /\ ~sameSlot(to \o u, to)
        /\ isMarker(r) /\ (siblingKey(to) = siblingKey(from) => list(r, from) = list(m, from))
    <2>1. isMarker(r) /\ movesLists(DOMAIN d, m, r, from, to)
      BY <1>1, <1>2, <1>3, RekeyedLists
    <2> QED
      BY <2>1 DEF movesLists
  <1>9. list(m, to) = s /\ list(r, from) = s
    <2>1. list(m, to) = s
      BY <1>2, <1>6, ListOf DEF sameSlot
    <2> QED
      BY <1>6, <1>8, <2>1
  <1>10. \A l : list(w, l) = IF sameSlot(l, from) THEN ReplaceAll(s, x, y) ELSE list(r, l)
    BY <1>8, <1>9, ListWithList DEF renamed
  <1>11. s \in Seq(KindOf(from)) /\ x \in KindOf(from) /\ y \in KindOf(from) /\ y \notin ToSet(s)
    <2>1. s \in Seq(KindOf(from))
      BY <1>2, ListIs
    <2>2. x \in KindOf(from) /\ y \in KindOf(from)
      BY <1>1, Below DEF KindOf
    <2> QED
      BY <1>7, <1>9, <2>1, <2>2
  <1> HIDE DEF w, s, x, y
  <1>12. ASSUME NEW l \in Things(d), NEW k \in Things(d), ~IsPrefix(from, l), ~IsPrefix(from, k), siblings(l, k),
               Head(l) = Head(to)
        PROVE  KeepsPair(list(m, l), list(w, l), Last(l), Last(k))
    <2>1. /\ isPlace(l) /\ ~isCollection(l) /\ isPlace(k) /\ ~isCollection(k)
          /\ l # from /\ k # from /\ l # to /\ k # to
      BY <1>1, <1>5, <1>12, ItselfBelow
    <2>2. Head(k) = Head(l) /\ siblingKey(k) = siblingKey(l) /\ isRequest(k) = isRequest(l)
      BY <1>12, <2>1, SiblingsAre
    <2>3. list(r, l) = list(m, l)
      BY <1>5, <1>8, <1>12, <2>1
    <2>4. CASE ~sameSlot(l, from)
      BY <1>10, <2>3, <2>4, KeepsPairSame
    <2>5. CASE sameSlot(l, from)
      <3>1. sameSlot(k, from) /\ sameSlot(l, to) /\ sameSlot(k, to)
        BY <1>6, <2>2, <2>5 DEF sameSlot
      <3>2. /\ Last(l) # x /\ Last(k) # x /\ Last(l) # y /\ Last(k) # y
        BY <1>1, <1>12, <2>1, <2>2, <2>5, <3>1, Apart DEF x, y
      <3>3. list(m, l) = s
        BY <1>2, <2>5, ListOf DEF sameSlot, s
      <3>4. inPlaceOf(x, y, Last(l)) = Last(l) /\ inPlaceOf(x, y, Last(k)) = Last(k)
        BY <3>2 DEF inPlaceOf
      <3>5. KeepsPair(s, ReplaceAll(s, x, y), Last(l), Last(k))
        <4>1. LET t == ReplaceAll(s, x, y)
                  a == inPlaceOf(x, y, Last(l))
                  b == inPlaceOf(x, y, Last(k)) IN
              /\ Ahead(s, Last(l), Last(k)) => Ahead(t, a, b)
              /\ a \in ToSet(t) <=> Last(l) \in ToSet(s)
              /\ b \in ToSet(t) <=> Last(k) \in ToSet(s)
          BY <1>11, <3>2, ReplaceKeepsPair
        <4> QED
          BY <3>4, <4>1 DEF KeepsPair
      <3> QED
        BY <1>10, <2>5, <3>3, <3>5
    <2> QED
      BY <2>4, <2>5
  <1>13. ASSUME NEW l \in Things(d), IsPrefix(from, l), l # from
        PROVE  list(w, there(l, from, to)) = list(m, l)
    <2>1. PICK u \in Seq(Names) \ {<<>>} : l = from \o u
      BY <1>1, <1>5, <1>13, Strictly
    <2>2. there(l, from, to) = to \o u
      BY <1>1, <2>1, GoesTo
    <2>3. list(w, to \o u) = list(r, to \o u)
      BY <1>8, <1>10
    <2> QED
      BY <1>8, <2>1, <2>2, <2>3
  <1>14. PairsStay(op, d, ms, ms2)
    <2>1. becomes(ms, ms2, Head(to), w)
      BY DEF w, to, from
    <2>2. \A l, k \in Things(d) :
            stays(op, l) /\ stays(op, k) /\ siblings(l, k) /\ Head(l) = Head(to)
              => KeepsPair(list(ms[Head(to)], l), list(w, l), Last(l), Last(k))
      BY <1>12 DEF stays, from, m
    <2> QED
      BY <2>1, <2>2, PairsIf
  <1>15. ListsGo(op, d, ms, ms2)
    <2> SUFFICES ASSUME NEW l \in Things(d), goes(op, l), l # from
                 PROVE  list(ms2[Head(to)], there(l, from, to)) = list(ms[Head(from)], l)
      BY DEF ListsGo, to, from
    <2>1. IsPrefix(from, l)
      BY DEF goes, from
    <2> QED
      BY <1>1, <1>4, <1>13, <2>1 DEF m
  <1>16. NameChanges(op, ms, ms2)
    <2>1. list(ms2[Head(to)], to) = ReplaceAll(list(ms[Head(from)], from), Last(from), Last(to))
      BY <1>1, <1>4, <1>6, <1>10 DEF m, s, x, y
    <2> QED
      BY <2>1 DEF NameChanges, to, from
  <1> QED
    BY <1>14, <1>15, <1>16 DEF Slots

(* Commands on collections: no list of a thing that stays is touched, and a  *)
(* marker is taken along as it is.                                          *)
LEMMA SlotsOfCollections ==
  ASSUME NEW d, NEW ms, Sound(d, ms), NEW op, isOp(op),
         \/ op.kind \in {"create", "duplicate", "rename"} /\ isCollection(op.to) /\ op.to \notin DOMAIN d
         \/ op.kind = "delete" /\ isCollection(op.from),
         NEW ms2,
         \A c \in Collections :
           \/ op.kind # "delete" /\ op.to = <<c>>
           \/ op.kind \in {"rename", "delete"} /\ op.from = <<c>>
           \/ ms2[c] = ms[c],
         op.kind = "rename" => ms2[Head(op.to)] = ms[Head(op.from)]
  PROVE  Slots(op, d, ms, ms2)
  <1>1. ASSUME NEW l \in Things(d), stays(op, l)
        PROVE  ms2[Head(l)] = ms[Head(l)]
    <2>1. l \in DOMAIN d /\ isPlace(l) /\ ~isCollection(l) /\ isTree(DOMAIN d)
      BY SoundIsMarked DEF Things, Sound
    <2>2. Head(l) \in Collections /\ l \in Seq(Words) /\ <<Head(l)>> \o Tail(l) = l /\ Tail(l) \in Seq(Words)
          /\ <<Head(l)>> \in Seq(Words)
      BY <2>1, PlaceIs
    <2>3. IsPrefix(<<Head(l)>>, l)
      <3> DEFINE h == <<Head(l)>>
                 t == Tail(l)
      <3>1. h \in Seq(Words) /\ t \in Seq(Words) /\ h \o t = l
        BY <2>2
      <3> HIDE DEF h, t
      <3>2. IsPrefix(h, h \o t)
        BY <3>1, Behind
      <3> QED
        BY <3>1, <3>2 DEF h
    <2>4. op.kind # "delete" /\ op.to = <<Head(l)>> => FALSE
      <3> SUFFICES ASSUME op.kind # "delete", op.to = <<Head(l)>> PROVE FALSE
        OBVIOUS
      <3>1. isPlace(op.to) /\ op.to \notin DOMAIN d
        BY DEF isOp
      <3> QED
        BY <2>1, <2>3, <3>1, AbsentBelow
    <2>5. ~(op.kind \in {"rename", "delete"} /\ op.from = <<Head(l)>>)
      BY <1>1, <2>3 DEF stays
    <2> QED
      BY <2>2, <2>4, <2>5
  <1>2. PairsStay(op, d, ms, ms2)
    BY <1>1, KeepsPairSame DEF PairsStay
  <1>3. ASSUME NEW l \in Things(d), goes(op, l), l # op.from
        PROVE  list(ms2[Head(op.to)], there(l, op.from, op.to)) = list(ms[Head(op.from)], l)
    <2>1. op.kind = "rename" /\ isPlace(op.from) /\ isPlace(op.to) /\ isCollection(op.to) /\ IsPrefix(op.from, l)
      BY <1>3 DEF goes, Takes, isOp
    <2>2. isCollection(op.from) /\ isPlace(l) /\ isMarker(ms[Head(op.from)])
      BY <2>1, OpIs, SoundIsMarked, PlaceIs DEF Marked
    <2>3. Tail(op.from) = <<>> /\ Tail(op.to) = <<>>
      BY <2>1, <2>2, PlaceIs
    <2>4. PICK u \in Seq(Names) \ {<<>>} : l = op.from \o u
      BY <1>3, <2>1, <2>2, Strictly
    <2>5. there(l, op.from, op.to) = op.to \o u
      BY <2>1, <2>4, GoesTo
    <2> DEFINE y == op.to \o u
               z == op.from \o u
    <2>6. siblingKey(y) = siblingKey(z) /\ isRequest(y) = isRequest(z)
      <3>1. siblingKey(y) = Tail(op.to) \o Front(u) /\ siblingKey(z) = Tail(op.from) \o Front(u)
        BY <2>1, BelowIt
      <3>2. isRequest(y) = (Last(u) \in Requests) /\ isRequest(z) = (Last(u) \in Requests)
        BY <2>1, BelowIt
      <3> QED
        BY <2>3, <3>1, <3>2
    <2> HIDE DEF y, z
    <2>7. list(ms[Head(op.from)], y) = list(ms[Head(op.from)], z)
      BY <2>2, <2>6, ListOf
    <2> QED
      BY <2>1, <2>4, <2>5, <2>7 DEF y, z
  <1>4. ListsGo(op, d, ms, ms2)
    BY <1>3 DEF ListsGo
  <1>5. NameChanges(op, ms, ms2)
    BY OpIs DEF NameChanges
  <1> QED
    BY <1>2, <1>4, <1>5 DEF Slots

-----------------------------------------------------------------------------
(* Where what is on the disk after a command was before.                    *)
LEMMA FirstHas ==
  ASSUME NEW f, NEW g, NEW p \in DOMAIN first(f, g)
  PROVE  \/ p \in DOMAIN f /\ first(f, g)[p] = f[p]
         \/ p \in DOMAIN g /\ first(f, g)[p] = g[p]
  BY DEF first

LEMMA MadeHas ==
  ASSUME NEW l, NEW id, NEW p \in DOMAIN made(l, id)
  PROVE  made(l, id)[p] = id
  BY DEF made

LEMMA WithoutHas ==
  ASSUME NEW f, NEW from, NEW p \in DOMAIN without(f, from)
  PROVE  p \in DOMAIN f /\ without(f, from)[p] = f[p] /\ ~IsPrefix(from, p)
  BY DEF without, below

LEMMA CarriedHas ==
  ASSUME NEW f, \A l \in DOMAIN f : isPlace(l), NEW from, isPlace(from), NEW to, isPlace(to),
         NEW p \in DOMAIN carried(f, from, to)
  PROVE  \E l \in DOMAIN f : IsPrefix(from, l) /\ p = there(l, from, to) /\ carried(f, from, to)[p] = f[l]
  <1>1. PICK l \in below(f, from) : p = there(l, from, to)
    BY DEF carried
  <1>2. carried(f, from, to)[p] = f[there(p, to, from)]
    BY DEF carried
  <1>3. l \in DOMAIN f /\ IsPrefix(from, l)
    BY <1>1 DEF below
  <1>4. from \in Seq(Words) /\ to \in Seq(Words) /\ l \in Seq(Words)
    BY <1>3, PlaceIs
  <1>5. PICK u \in Seq(Words) : l = from \o u
    BY <1>3, <1>4, Splits
  <1>6. p = to \o u /\ there(p, to, from) = from \o u
    <2>1. there(from \o u, from, to) = to \o u /\ there(to \o u, to, from) = from \o u
      BY <1>4, ThereIs
    <2>2. p = there(from \o u, from, to)
      BY <1>1, <1>5
    <2> QED
      BY <2>1, <2>2
  <1> QED
    BY <1>1, <1>2, <1>3, <1>5, <1>6

LEMMA ChangedCame ==
  ASSUME isTree(Places), NEW op, isOp(op), op.kind # "reorder", NEW j \in Jobs
  PROVE  Came(op, disk, Changed(j, op))
  <1> DEFINE new == Changed(j, op)
             to == op.to
             from == op.from
             id == <<j>>
             one == [l \in {to} |-> id]
             was(p) == \E l \in DOMAIN disk : /\ disk[l] = new[p]
                                              /\ \/ stays(op, l) /\ p = l
                                                 \/ goes(op, l) /\ p = there(l, from, to)
  <1> SUFFICES ASSUME NEW p \in DOMAIN new, ~isNew(new[p]) PROVE was(p)
    BY DEF Came
  <1>1. new[p] # id
    BY DEF isNew
  <1>2. \A l \in DOMAIN disk : isPlace(l)
    BY TreeHas DEF Places
  <1>3. \A q \in DOMAIN one : one[q] = id
    OBVIOUS
  <1>4. \A q \in DOMAIN made(to, id) : made(to, id)[q] = id
    BY MadeHas
  <1> HIDE DEF new, id, one
  <1>5. CASE op.kind = "create"
    <2>1. \/ new = first(one, first(disk, made(to, id)))
          \/ new = first(disk, first(made(to, id), one))
      BY <1>5 DEF Changed, new, one, id
    <2>2. p \in DOMAIN disk /\ new[p] = disk[p]
      BY <1>1, <1>3, <1>4, <2>1, FirstHas
    <2>3. stays(op, p)
      BY <1>5 DEF stays
    <2> QED
      BY <2>2, <2>3
  <1>6. CASE op.kind = "delete"
    <2>1. new = without(disk, from)
      BY <1>6 DEF Changed, new
    <2>2. p \in DOMAIN disk /\ new[p] = disk[p] /\ ~IsPrefix(from, p)
      BY <2>1, WithoutHas
    <2>3. stays(op, p)
      BY <2>2 DEF stays
    <2> QED
      BY <2>2, <2>3
  <1>7. CASE op.kind = "duplicate"
    <2> DEFINE c == [l \in DOMAIN carried(disk, from, to) |-> id]
    <2>1. new = first(c, first(disk, made(to, id)))
      BY <1>7 DEF Changed, new, id
    <2>2. \A q \in DOMAIN c : c[q] = id
      OBVIOUS
    <2> HIDE DEF c
    <2>3. p \in DOMAIN disk /\ new[p] = disk[p]
      BY <1>1, <1>4, <2>1, <2>2, FirstHas
    <2>4. stays(op, p)
      BY <1>7 DEF stays
    <2> QED
      BY <2>3, <2>4
  <1>8. CASE op.kind \in {"rename", "move"}
    <2>1. new = first(carried(disk, from, to), first(without(disk, from), made(to, id)))
      BY <1>8 DEF Changed, new, id
    <2>2. isPlace(from) /\ isPlace(to)
      BY <1>8 DEF isOp
    <2>3. \/ p \in DOMAIN carried(disk, from, to) /\ new[p] = carried(disk, from, to)[p]
          \/ p \in DOMAIN without(disk, from) /\ new[p] = without(disk, from)[p]
      BY <1>1, <1>4, <2>1, FirstHas
    <2>4. CASE p \in DOMAIN carried(disk, from, to) /\ new[p] = carried(disk, from, to)[p]
      <3>1. PICK l \in DOMAIN disk : IsPrefix(from, l) /\ p = there(l, from, to) /\ new[p] = disk[l]
        BY <1>2, <2>2, <2>4, CarriedHas
      <3>2. goes(op, l)
        BY <1>8, <3>1 DEF goes, Takes
      <3> QED
        BY <3>1, <3>2
    <2>5. CASE p \in DOMAIN without(disk, from) /\ new[p] = without(disk, from)[p]
      <3>1. p \in DOMAIN disk /\ new[p] = disk[p] /\ ~IsPrefix(from, p)
        BY <2>5, WithoutHas
      <3>2. stays(op, p)
        BY <3>1 DEF stays
      <3> QED
        BY <3>1, <3>2
    <2> QED
      BY <2>3, <2>4, <2>5
  <1> QED
    BY <1>5, <1>6, <1>7, <1>8 DEF isOp, Kinds

LEMMA DistinctIf ==
  ASSUME NEW op, NEW d, Distinct(d), NEW d2, Came(op, d, d2)
  PROVE  Distinct(d2)
  <1> SUFFICES ASSUME NEW p \in DOMAIN d2, NEW q \in DOMAIN d2, d2[p] = d2[q], ~isNew(d2[p])
               PROVE  p = q
    BY DEF Distinct
  <1>1. PICK l \in DOMAIN d : /\ d[l] = d2[p]
                              /\ \/ stays(op, l) /\ p = l
                                 \/ goes(op, l) /\ p = there(l, op.from, op.to)
    BY DEF Came
  <1>2. PICK k \in DOMAIN d : /\ d[k] = d2[q]
                              /\ \/ stays(op, k) /\ q = k
                                 \/ goes(op, k) /\ q = there(k, op.from, op.to)
    BY DEF Came
  <1>3. l = k
    BY <1>1, <1>2 DEF Distinct
  <1>4. ~(stays(op, l) /\ goes(op, l))
    BY DEF stays, goes, Takes
  <1> QED
    BY <1>1, <1>2, <1>3, <1>4

(* A directory of a collection that is made again. *)
withRoot(d, c, j) == first(d, [l \in {<<c>>} |-> <<j>>])

LEMMA RootKeeps ==
  ASSUME NEW c, NEW j \in Jobs, NEW d2
  PROVE  /\ Distinct(d2) => Distinct(withRoot(d2, c, j))
         /\ \A op, d, ms, ms2 : Keeps(op, d, ms, d2, ms2) => Keeps(op, d, ms, withRoot(d2, c, j), ms2)
  <1> DEFINE r == [l \in {<<c>>} |-> <<j>>]
             w == withRoot(d2, c, j)
  <1>1. /\ DOMAIN w = DOMAIN d2 \cup {<<c>>}
        /\ \A p \in DOMAIN d2 : w[p] = d2[p]
        /\ \A p \in DOMAIN w : p \notin DOMAIN d2 => isNew(w[p])
    BY DEF withRoot, first, isNew
  <1>2. isCollection(<<c>>)
    BY DEF isCollection
  <1> HIDE DEF w
  <1>3. Things(w) = Things(d2)
    BY <1>1, <1>2 DEF Things
  <1>4. \A l \in Things(d2) : w[l] = d2[l]
    BY <1>1 DEF Things
  <1>5. Distinct(d2) => Distinct(w)
    BY <1>1 DEF Distinct
  <1>6. \A op, d, ms, ms2 : Keeps(op, d, ms, d2, ms2) => Keeps(op, d, ms, w, ms2)
    BY <1>3, <1>4 DEF Keeps
  <1> QED
    BY <1>5, <1>6 DEF w

-----------------------------------------------------------------------------
(* The markers as they will be once the command is through, from what it     *)
(* has in its hands.                                                        *)
Written(op, ms, doc) == [ms EXCEPT ![home(op)] = doc]
Over(op, extra, ms) == [ms EXCEPT ![Head(op.to)] = upserted(overlaid(@, extra), op.to)]
Laid(op, extra, ms) == IF Twice(op) THEN Over(op, extra, ms) ELSE ms
ReadOutcome(w, op, ms) ==
  \E doc \in Updated(op, ms[home(op)]) :
    w = Laid(op, extracted(ms[home(op)], op.from, op.to), Written(op, ms, doc))
isOutcome(w, op, pc, doc, carry, ms) ==
  /\ pc = "read" => ReadOutcome(w, op, ms)
  /\ pc = "write" => w = Laid(op, carry, Written(op, ms, doc))
  /\ pc = "readTarget" => w = Over(op, carry, ms)
  /\ pc = "writeTarget" => w = [ms EXCEPT ![Head(op.to)] = doc]
  /\ pc \notin {"read", "write", "readTarget", "writeTarget"} => w = ms

isMarkers(ms) == ms = [c \in Collections |-> ms[c]]
Untaken(op, places) == op.kind \in {"create", "rename", "duplicate", "move"} => op.to \notin places

LEMMA WrittenIs ==
  ASSUME NEW ms, isMarkers(ms), NEW op, home(op) \in Collections, NEW doc
  PROVE  becomes(ms, Written(op, ms, doc), home(op), doc) /\ isMarkers(Written(op, ms, doc))
  BY DEF isMarkers, becomes, Written

LEMMA LaidIs ==
  ASSUME NEW ms, isMarkers(ms), NEW op, Twice(op), Head(op.to) \in Collections, NEW extra
  PROVE  becomes(ms, Laid(op, extra, ms), Head(op.to), upserted(overlaid(ms[Head(op.to)], extra), op.to))
  BY DEF isMarkers, becomes, Laid, Over

LEMMA HomeIs ==
  ASSUME NEW op, isOp(op)
  PROVE  home(op) \in Collections /\ (Twice(op) => op.kind = "move" /\ Head(op.to) \in Collections)
  <1>1. \A l : isPlace(l) => Head(l) \in Collections
    BY PlaceIs
  <1> QED
    BY <1>1 DEF isOp, home, Twice, Kinds

LEMMA BecomesMarked ==
  ASSUME NEW ms, Marked(ms), NEW c, NEW m, isMarker(m), NEW ms2, becomes(ms, ms2, c, m)
  PROVE  Marked(ms2)
  BY DEF Marked, becomes

(* A command on a folder or a request leaves the markers to its rounds.     *)
LEMMA MarkersWait ==
  ASSUME isMarkers(marker), NEW op, isOp(op), op.kind # "reorder",
         op.kind = "delete" => ~isCollection(op.from),
         op.kind # "delete" => ~isCollection(op.to)
  PROVE  MarkersAfter(op) = marker
  <1>1. \A c : isCollection(<<c>>)
    BY DEF isCollection
  <1>2. \A c \in Collections : MarkersAfter(op)[c] = marker[c]
    BY <1>1, OpIs DEF MarkersAfter
  <1>3. isMarkers(MarkersAfter(op))
    BY DEF MarkersAfter, isMarkers
  <1> QED
    BY <1>2, <1>3 DEF isMarkers

(* One round. *)
LEMMA OnceSlots ==
  ASSUME NEW d, NEW ms, Sound(d, ms), isMarkers(ms), NEW op, isOp(op), ~Twice(op), Untaken(op, DOMAIN d),
         op.kind \in {"rename", "move", "duplicate"} => op.from \in DOMAIN d,
         op.kind = "delete" => ~isCollection(op.from),
         op.kind # "delete" => ~isCollection(op.to),
         NEW doc \in Updated(op, ms[home(op)]),
         NEW w, becomes(ms, w, home(op), doc)
  PROVE  Slots(op, d, ms, w)
  <1>0. ~isCollection(op.to)
    BY OpIs DEF isOp
  <1>1. CASE op.kind = "create"
    <2>1. home(op) = Head(op.to) /\ op.to \notin DOMAIN d
      BY <1>1 DEF home, Untaken
    <2>2. doc = upserted(ms[Head(op.to)], op.to)
      BY <1>0, <1>1, <2>1 DEF Updated
    <2> QED
      BY <1>0, <1>1, <2>1, <2>2, SlotsCreate
  <1>2. CASE op.kind = "delete"
    <2>1. home(op) = Head(op.from)
      BY <1>2 DEF home
    <2>2. doc = dropped(ms[Head(op.from)], op.from)
      BY <1>0, <1>2, <2>1 DEF Updated
    <2> QED
      BY <1>2, <2>1, <2>2, SlotsDelete
  <1>3. CASE op.kind = "rename"
    <2>1. home(op) = Head(op.to) /\ op.to \notin DOMAIN d /\ op.from \in DOMAIN d
      BY <1>3 DEF home, Untaken
    <2>2. PICK r \in rekeyed(ms[Head(op.to)], Tail(op.from), Tail(op.to)) : doc = renamed(r, op.from, op.to)
      BY <1>0, <1>3, <2>1 DEF Updated
    <2>3. isRekeyed(r, ms[Head(op.to)], Tail(op.from), Tail(op.to))
      BY DEF isRekeyed
    <2> QED
      BY <1>0, <1>3, <2>1, <2>2, <2>3, SlotsRename
  <1>4. CASE op.kind = "move"
    <2>1. home(op) = Head(op.to) /\ op.to \notin DOMAIN d /\ op.from \in DOMAIN d /\ Head(op.to) = Head(op.from)
      BY <1>4 DEF home, Untaken, Twice
    <2>2. PICK r \in rekeyed(ms[Head(op.to)], Tail(op.from), Tail(op.to)) :
            doc = upserted(removed(r, op.from), op.to)
      BY <1>0, <1>4, <2>1 DEF Updated
    <2>3. isRekeyed(r, ms[Head(op.to)], Tail(op.from), Tail(op.to))
      BY DEF isRekeyed
    <2> QED
      BY <1>0, <1>4, <2>1, <2>2, <2>3, SlotsMove
  <1>5. CASE op.kind = "duplicate"
    <2>1. home(op) = Head(op.to) /\ op.to \notin DOMAIN d
      BY <1>5 DEF home, Untaken
    <2>2. doc = LaidOver(ms[Head(op.to)], ms[Head(op.to)], op.from, op.to)
      BY <1>0, <1>5, <2>1 DEF Updated, LaidOver
    <2> QED
      BY <1>0, <1>5, <2>1, <2>2, SlotsDuplicate
  <1>6. CASE op.kind = "reorder"
    <2>1. home(op) = Head(op.to)
      BY <1>6 DEF home
    <2>2. doc = withList(ms[Head(op.to)], op.to, op.names)
      BY <1>0, <1>6, <2>1 DEF Updated
    <2> QED
      BY <1>6, <2>1, <2>2, SlotsReorder
  <1> QED
    BY <1>1, <1>2, <1>3, <1>4, <1>5, <1>6 DEF isOp, Kinds

(* Both rounds, or the one. *)
LEMMA RoundsSlots ==
  ASSUME NEW d, NEW ms, Sound(d, ms), isMarkers(ms), NEW op, isOp(op), Untaken(op, DOMAIN d),
         op.kind \in {"rename", "move", "duplicate"} => op.from \in DOMAIN d,
         op.kind = "delete" => ~isCollection(op.from),
         op.kind # "delete" => ~isCollection(op.to),
         NEW w, ReadOutcome(w, op, ms),
         \A doc \in Updated(op, ms[home(op)]) : isMarker(doc)
  PROVE  Slots(op, d, ms, w) /\ Marked(w)
  <1> DEFINE m == ms[home(op)]
             e == extracted(m, op.from, op.to)
  <1>1. PICK doc \in Updated(op, m) : w = Laid(op, e, Written(op, ms, doc))
    BY DEF ReadOutcome
  <1> DEFINE mid == Written(op, ms, doc)
  <1>2. /\ home(op) \in Collections /\ Marked(ms)
        /\ Twice(op) => op.kind = "move" /\ Head(op.to) \in Collections
    BY HomeIs, SoundIsMarked
  <1>3. becomes(ms, mid, home(op), doc) /\ isMarkers(mid)
    BY <1>2, WrittenIs
  <1>4. isMarker(doc)
    OBVIOUS
  <1> HIDE DEF mid
  <1>5. Marked(mid)
    BY <1>2, <1>3, <1>4, BecomesMarked
  <1>6. CASE ~Twice(op)
    <2>1. w = mid
      BY <1>1, <1>6 DEF Laid, mid
    <2> QED
      BY <1>3, <1>5, <1>6, <2>1, OnceSlots
  <1>7. CASE Twice(op)
    <2>1. op.kind = "move" /\ isPlace(op.from) /\ isPlace(op.to) /\ ~isCollection(op.to) /\ op.to \notin DOMAIN d
      BY <1>2, <1>7 DEF isOp, Untaken
    <2>2. home(op) = Head(op.from) /\ doc = dropped(m, op.from)
      BY <1>7, <2>1 DEF home, Updated
    <2>3. becomes(mid, w, Head(op.to), upserted(overlaid(mid[Head(op.to)], e), op.to))
      <3>1. becomes(mid, Laid(op, e, mid), Head(op.to), upserted(overlaid(mid[Head(op.to)], e), op.to))
        BY <1>2, <1>3, <1>7, LaidIs
      <3> QED
        BY <1>1, <3>1 DEF mid
    <2>4. becomes(mid, w, Head(op.to), LaidOver(mid[Head(op.to)], ms[Head(op.from)], op.from, op.to))
      BY <2>2, <2>3 DEF LaidOver
    <2>5. Slots(op, d, ms, w)
      BY <1>3, <2>1, <2>2, <2>4, SlotsTwice
    <2>6. isMarker(mid[Head(op.to)]) /\ isMarker(ms[Head(op.from)])
      BY <1>2, <1>5, <1>7, <2>2 DEF Marked
    <2>7. Marked(w)
      BY <1>5, <2>1, <2>4, <2>6, LaidIsMarker, BecomesMarked
    <2> QED
      BY <2>5, <2>7
  <1> QED
    BY <1>6, <1>7

(* The change of the disk, and what follows from it for the markers.        *)
nextOf(op) ==
  CASE op.kind = "delete" /\ isCollection(op.from) -> "refresh"
    [] op.kind = "create" /\ isCollection(op.to) -> "write"
    [] OTHER -> "read"

LEMMA CollectionsSlots ==
  ASSUME Sound(disk, marker), isMarkers(marker), NEW op, isOp(op), op.kind # "reorder", Untaken(op, DOMAIN disk),
         IF op.kind = "delete" THEN isCollection(op.from) ELSE isCollection(op.to),
         NEW w, NEW carry, isOutcome(w, op, nextOf(op), Blank, carry, MarkersAfter(op))
  PROVE  Slots(op, disk, marker, w) /\ Marked(w)
  <1> DEFINE ms == MarkersAfter(op)
  <1>1. op.kind \in {"create", "duplicate", "rename", "delete"} /\ ~Twice(op)
    BY DEF isOp, Kinds, Twice
  <1>2. isMarkers(ms)
    BY DEF isMarkers, MarkersAfter
  <1>3. /\ op.kind # "delete" => isPlace(op.to) /\ op.to = <<Head(op.to)>> /\ Head(op.to) \in Collections
        /\ op.kind # "create" => isPlace(op.from)
        /\ op.kind \in {"rename", "duplicate"} => Head(op.from) \in Collections
    BY CollectionIs, PlaceIs DEF isOp
  <1>4. \A c \in Collections :
           /\ \/ op.kind # "delete" /\ op.to = <<c>>
              \/ op.kind \in {"rename", "delete"} /\ op.from = <<c>>
              \/ ms[c] = marker[c]
           /\ \/ ms[c] = marker[c] \/ ms[c] = Blank
              \/ op.kind \in {"rename", "duplicate"} /\ ms[c] = marker[Head(op.from)]
    BY DEF MarkersAfter
  <1>5. op.kind = "rename" => ms[Head(op.to)] = marker[Head(op.from)]
    BY <1>3 DEF MarkersAfter
  <1>6. home(op) \in Collections
    BY HomeIs
  <1> HIDE DEF ms
  <1>7. /\ op.kind = "create" => w = Written(op, ms, Blank)
        /\ op.kind # "create" => w = ms
    <2>1. CASE op.kind = "create"
      <3>1. nextOf(op) = "write"
        BY <2>1 DEF nextOf
      <3> QED
        BY <1>1, <2>1, <3>1 DEF isOutcome, Laid, ms
    <2>2. CASE op.kind = "delete"
      <3>1. nextOf(op) = "refresh"
        BY <2>2 DEF nextOf
      <3> QED
        BY <2>2, <3>1 DEF isOutcome, ms
    <2>3. CASE op.kind \in {"rename", "duplicate"}
      <3>1. nextOf(op) = "read"
        BY <2>3 DEF nextOf
      <3>2. Updated(op, ms[home(op)]) = {ms[home(op)]}
        BY <2>3 DEF Updated
      <3>3. ReadOutcome(w, op, ms)
        BY <3>1 DEF isOutcome, ms
      <3>4. w = Written(op, ms, ms[home(op)])
        BY <1>1, <3>2, <3>3 DEF ReadOutcome, Laid
      <3>5. Written(op, ms, ms[home(op)]) = ms
        BY <1>2, <1>6 DEF Written, isMarkers
      <3> QED
        BY <2>3, <3>4, <3>5
    <2> QED
      BY <1>1, <2>1, <2>2, <2>3
  <1>8. \A c \in Collections : w[c] = ms[c] \/ (op.kind = "create" /\ op.to = <<c>> /\ w[c] = Blank)
    <2>1. op.kind = "create" => home(op) = Head(op.to)
      BY DEF home
    <2>2. becomes(ms, Written(op, ms, Blank), home(op), Blank)
      BY <1>2, <1>6, WrittenIs
    <2> QED
      BY <1>3, <1>7, <2>1, <2>2 DEF becomes
  <1>9. Marked(w)
    <2>1. isMarker(Blank) /\ Marked(marker)
      BY BlankMatches, MatchesIs, SoundIsMarked
    <2> QED
      BY <1>3, <1>4, <1>8, <2>1 DEF Marked
  <1>10. Slots(op, disk, marker, w)
    <2>1. \A c \in Collections :
           \/ op.kind # "delete" /\ op.to = <<c>>
           \/ op.kind \in {"rename", "delete"} /\ op.from = <<c>>
           \/ w[c] = marker[c]
      BY <1>4, <1>8
    <2>2. op.kind = "rename" => w[Head(op.to)] = marker[Head(op.from)]
      BY <1>5, <1>7
    <2>3. \/ op.kind \in {"create", "duplicate", "rename"} /\ isCollection(op.to) /\ op.to \notin DOMAIN disk
          \/ op.kind = "delete" /\ isCollection(op.from)
      BY <1>1 DEF Untaken
    <2> QED
      BY <2>1, <2>2, <2>3, SlotsOfCollections
  <1> QED
    BY <1>9, <1>10

LEMMA ThingsSlots ==
  ASSUME Sound(disk, marker), isMarkers(marker), NEW op, isOp(op), op.kind # "reorder", Untaken(op, DOMAIN disk),
         op.kind = "create" \/ op.from \in DOMAIN disk,
         ~(IF op.kind = "delete" THEN isCollection(op.from) ELSE isCollection(op.to)),
         \A doc \in Updated(op, MarkersAfter(op)[home(op)]) : isMarker(doc),
         NEW w, NEW carry, isOutcome(w, op, nextOf(op), Blank, carry, MarkersAfter(op))
  PROVE  Slots(op, disk, marker, w) /\ Marked(w)
  <1>1. MarkersAfter(op) = marker
    BY MarkersWait
  <1>2. nextOf(op) = "read"
    BY DEF nextOf
  <1>3. ReadOutcome(w, op, marker)
    BY <1>1, <1>2 DEF isOutcome
  <1> QED
    BY <1>1, <1>3, RoundsSlots

LEMMA AppliedKeeps ==
  ASSUME Sound(disk, marker), isMarkers(marker), NEW op, isOp(op), op.kind # "reorder", Untaken(op, DOMAIN disk),
         op.kind = "create" \/ op.from \in DOMAIN disk, NEW j \in Jobs,
         nextOf(op) = "read" => \A doc \in Updated(op, MarkersAfter(op)[home(op)]) : isMarker(doc),
         NEW w, NEW carry, isOutcome(w, op, nextOf(op), Blank, carry, MarkersAfter(op))
  PROVE  Keeps(op, disk, marker, Changed(j, op), w)
  <1>1. Slots(op, disk, marker, w) /\ Marked(w)
    <2>1. CASE IF op.kind = "delete" THEN isCollection(op.from) ELSE isCollection(op.to)
      BY <2>1, CollectionsSlots
    <2>2. CASE ~(IF op.kind = "delete" THEN isCollection(op.from) ELSE isCollection(op.to))
      <3>1. nextOf(op) = "read"
        BY <2>2 DEF nextOf
      <3> QED
        BY <2>2, <3>1, ThingsSlots
    <2> QED
      BY <2>1, <2>2
  <1>2. isTree(Places) /\ Places = DOMAIN disk
    BY DEF Sound, Places
  <1>3. Came(op, disk, Changed(j, op))
    BY <1>2, ChangedCame
  <1>4. isTree(DOMAIN Changed(j, op))
    BY <1>2, ChangedPlaces
  <1>5. Takes(op) => op.to \notin DOMAIN disk
    BY DEF Takes, Untaken
  <1> QED
    BY <1>1, <1>3, <1>4, <1>5, KeepsIf

LEMMA ReorderKeeps ==
  ASSUME Sound(disk, marker), isMarkers(marker), NEW op, isOp(op), op.kind = "reorder",
         \A doc \in Updated(op, marker[home(op)]) : isMarker(doc),
         NEW w, ReadOutcome(w, op, marker)
  PROVE  Keeps(op, disk, marker, disk, w)
  <1>1. Untaken(op, DOMAIN disk) /\ ~isCollection(op.to)
    BY DEF Untaken, isOp
  <1>2. Slots(op, disk, marker, w) /\ Marked(w)
    BY <1>1, RoundsSlots
  <1>3. Came(op, disk, disk)
    BY DEF Came, stays
  <1>4. isTree(DOMAIN disk) /\ ~Takes(op)
    BY DEF Sound, Takes
  <1> QED
    BY <1>2, <1>3, <1>4, KeepsIf

-----------------------------------------------------------------------------
(* What the command that is under way has still to say of the order: it was   *)
(* given on what the tree shows, and once it is through, with the lists it    *)
(* has in its hands written, the order of what was shown is kept.            *)
Promised(j) ==
  \A w : isOutcome(w, job[j].op, job[j].pc, job[j].doc, job[j].carry, marker)
           => Keeps(job[j].op, shown.disk, shown.marker, disk, w)
Told(j) ==
  IF At(j, "apply") THEN shown = View(disk, marker) /\ Untaken(job[j].op, Places) ELSE Promised(j)
OrderTold ==
  intact => /\ scan.queued = FALSE /\ Distinct(disk)
            /\ \A j \in Active : Told(j)

LEMMA OnlyStill ==
  ASSUME NEW j \in Jobs, Active \subseteq {j}, \A i \in Jobs : i # j => job'[i] = job[i]
  PROVE  Active' \subseteq {j}
  BY DEF Active

LEMMA SoundNow ==
  ASSUME Held, AllMatch, Distinct(disk)
  PROVE  Sound(disk, marker) /\ isMarkers(marker)
  BY DEF Held, AllMatch, Sound, Places, isMarkers

LEMMA BeginTells ==
  ASSUME OrderInv, OrderInv', TreeIsCurrent, OrderTold, NEW j \in Jobs, Begin(j)
  PROVE  OrderTold'
  <1>1. PICK op \in Offers \cup Reorders :
          /\ Permitted(op)
          /\ job' = [job EXCEPT ![j].op = op, ![j].pc = IF op.kind = "reorder" THEN "read" ELSE "apply"]
    BY DEF Begin
  <1>2. At(j, "unborn") /\ UNCHANGED <<disk, marker, shown, scan>> /\ (intact' => intact /\ Active = {})
    BY DEF Begin
  <1> DEFINE p == IF op.kind = "reorder" THEN "read" ELSE "apply"
  <1>3. /\ JobFields' /\ \A i \in Jobs : i # j => job'[i] = job[i]
        /\ job'[j].op = op /\ job'[j].pc = p /\ job'[j].doc = job[j].doc
    <2>1. JobFields /\ job' = [job EXCEPT ![j].op = op, ![j].pc = p]
      BY <1>1 DEF OrderInv
    <2> HIDE DEF p
    <2> QED
      BY <2>1, OpPcSet
  <1> SUFFICES ASSUME intact' PROVE scan'.queued = FALSE /\ Distinct(disk') /\ \A i \in Active' : Told(i)'
    BY DEF OrderTold
  <1>4. Held /\ Active = {} /\ scan.queued = FALSE /\ Distinct(disk)
    BY <1>2 DEF OrderInv, OrderTold
  <1>5. AllMatch
    BY <1>4, <1>2, NobodyRewrites DEF At, Rewriting
  <1>6. shown = View(disk, marker)
    BY <1>4 DEF TreeIsCurrent, Held, Alone, Active
  <1>7. shown.disk = disk /\ shown.marker = marker /\ Places' = Places /\ marker' = marker
    BY <1>2, <1>6 DEF View, Places
  <1>8. Active' \subseteq {j}
    BY <1>3, <1>4, OnlyStill
  <1>9. isOp(op) /\ (p = "read" => \A doc \in Updated(op, marker[home(op)]) : isMarker(doc))
    <2>1. Fits(j)'
      BY DEF OrderInv, Held
    <2>2. Fit(op, p, job'[j].doc, job'[j].carry, marker, Places)
      BY <1>3, <1>7, <2>1 DEF Fits
    <2> QED
      BY <2>2, MatchesIs DEF Fit
  <1>10. Told(j)'
    <2>1. CASE op.kind = "reorder"
      <3> SUFFICES ASSUME NEW w, isOutcome(w, op, "read", job'[j].doc, job'[j].carry, marker)
                   PROVE  Keeps(op, disk, marker, disk, w)
        BY <1>2, <1>3, <1>7, <2>1 DEF Told, Promised, At
      <3>1. ReadOutcome(w, op, marker)
        BY DEF isOutcome
      <3> QED
        BY <1>4, <1>5, <1>9, <2>1, <3>1, SoundNow, ReorderKeeps
    <2>2. CASE op.kind # "reorder"
      <3>1. Untaken(op, Places)
        BY <1>1 DEF Permitted, Untaken, Places
      <3> QED
        BY <1>2, <1>3, <1>6, <1>7, <2>2, <3>1 DEF Told, At, View
    <2> QED
      BY <2>1, <2>2
  <1> QED
    BY <1>2, <1>4, <1>8, <1>10

LEMMA ApplyTells ==
  ASSUME OrderInv, OrderInv', OrderTold, NEW j \in Jobs, Apply(j)
  PROVE  OrderTold'
  <1>1. PICK op : op = job[j].op
    OBVIOUS
  <1>2. /\ At(j, "apply") /\ (op.kind = "create" \/ op.from \in DOMAIN disk)
        /\ disk' = Changed(j, op) /\ marker' = MarkersAfter(op)
        /\ job' = [job EXCEPT ![j].pc = nextOf(op)] /\ UNCHANGED <<shown, scan, intact>>
    BY <1>1 DEF Apply, nextOf
  <1>3. /\ \A i \in Jobs : i # j => job'[i] = job[i]
        /\ job'[j].op = op /\ job'[j].pc = nextOf(op) /\ job'[j].doc = job[j].doc
    <2>1. JobFields /\ job' = [job EXCEPT ![j].pc = nextOf(op)]
      BY <1>2 DEF OrderInv
    <2> QED
      BY <1>1, <2>1, PcSet
  <1> SUFFICES ASSUME intact' PROVE scan'.queued = FALSE /\ Distinct(disk') /\ \A i \in Active' : Told(i)'
    BY DEF OrderTold
  <1>4. Held /\ Held' /\ j \in Active /\ job[j].pc = "apply"
    BY <1>2 DEF OrderInv, Active, At
  <1>5. AllMatch /\ Active \subseteq {j}
    <2>1. Active \subseteq {j} /\ job[j].pc \notin Rewriting
      BY <1>4, Only DEF Rewriting
    <2> QED
      BY <1>4, <2>1, NobodyRewrites
  <1>6. scan.queued = FALSE /\ Distinct(disk) /\ Told(j)
    BY <1>2, <1>4 DEF OrderTold
  <1>7. shown.disk = disk /\ shown.marker = marker /\ Untaken(op, DOMAIN disk)
    BY <1>1, <1>2, <1>6 DEF Told, View, Places
  <1>8. isOp(op) /\ op.kind # "reorder" /\ job[j].doc = Blank
    BY <1>1, <1>4 DEF Held, Fits, Fit
  <1>9. Sound(disk, marker) /\ isMarkers(marker)
    BY <1>4, <1>5, <1>6, SoundNow
  <1>10. nextOf(op) = "read" => \A doc \in Updated(op, marker'[home(op)]) : isMarker(doc)
    <2>1. Fit(op, nextOf(op), job'[j].doc, job'[j].carry, marker', Places')
      BY <1>3, <1>4 DEF Held, Fits
    <2> QED
      BY <2>1, MatchesIs DEF Fit
  <1>11. nextOf(op) # "apply"
    BY DEF nextOf
  <1>12. Told(j)'
    <2> SUFFICES ASSUME NEW w, isOutcome(w, op, nextOf(op), Blank, job'[j].carry, marker')
                 PROVE  Keeps(op, disk, marker, disk', w)
      BY <1>2, <1>3, <1>7, <1>8, <1>11 DEF Told, Promised, At
    <2> QED
      BY <1>2, <1>7, <1>8, <1>9, <1>10, AppliedKeeps
  <1>13. Distinct(disk')
    <2>1. Came(op, disk, disk')
      BY <1>2, <1>4, <1>8, ChangedCame DEF Held
    <2> QED
      BY <1>6, <2>1, DistinctIf
  <1> QED
    BY <1>2, <1>3, <1>5, <1>6, <1>12, <1>13, OnlyStill

LEMMA ReadTells ==
  ASSUME OrderInv, OrderTold, NEW j \in Jobs, NEW got, Read(j, got)
  PROVE  OrderTold'
  <1>1. PICK op : op = job[j].op
    OBVIOUS
  <1>2. PICK carry : carry = IF Twice(op) THEN extracted(got, op.from, op.to) ELSE Blank
    OBVIOUS
  <1>3. /\ At(j, "read") /\ UNCHANGED <<disk, marker, shown, scan>> /\ intact' = (intact /\ got = marker[home(op)])
        /\ \E doc \in Updated(op, got) : job' = [job EXCEPT ![j].doc = doc, ![j].pc = "write", ![j].carry = carry]
    BY <1>1, <1>2 DEF Read
  <1>4. PICK doc \in Updated(op, got) :
          job' = [job EXCEPT ![j].doc = doc, ![j].pc = "write", ![j].carry = carry]
    BY <1>3
  <1>5. /\ \A i \in Jobs : i # j => job'[i] = job[i]
        /\ job'[j].op = op /\ job'[j].pc = "write" /\ job'[j].doc = doc /\ job'[j].carry = carry
    <2>1. JobFields
      BY DEF OrderInv
    <2>2. Set(job, job', j, doc, "write", carry)
      BY <1>4 DEF Set
    <2> QED
      BY <1>1, <2>1, <2>2, DocPcCarrySet
  <1> SUFFICES ASSUME intact' PROVE scan'.queued = FALSE /\ Distinct(disk') /\ \A i \in Active' : Told(i)'
    BY DEF OrderTold
  <1>6. Held /\ j \in Active /\ job[j].pc = "read" /\ got = marker[home(op)]
    BY <1>3 DEF OrderInv, Active, At
  <1>7. Active \subseteq {j} /\ scan.queued = FALSE /\ Distinct(disk) /\ Told(j)
    BY <1>3, <1>6, Only DEF OrderTold
  <1>8. Told(j)'
    <2> SUFFICES ASSUME NEW w, isOutcome(w, op, "write", doc, carry, marker)
                 PROVE  Keeps(op, shown.disk, shown.marker, disk, w)
      BY <1>3, <1>5 DEF Told, Promised, At
    <2>1. w = Laid(op, carry, Written(op, marker, doc))
      BY DEF isOutcome
    <2>2. w = Laid(op, extracted(marker[home(op)], op.from, op.to), Written(op, marker, doc))
      BY <1>2, <1>6, <2>1 DEF Laid
    <2>3. isOutcome(w, op, "read", job[j].doc, job[j].carry, marker)
      BY <1>6, <2>2 DEF isOutcome, ReadOutcome
    <2>4. Promised(j)
      BY <1>6, <1>7 DEF Told, At
    <2> QED
      BY <1>1, <1>6, <2>3, <2>4 DEF Promised
  <1> QED
    BY <1>3, <1>5, <1>7, <1>8, OnlyStill

LEMMA WriteTells ==
  ASSUME OrderInv, OrderTold, NEW j \in Jobs, Write(j)
  PROVE  OrderTold'
  <1>1. PICK op : op = job[j].op
    OBVIOUS
  <1>2. PICK p : p = IF Twice(op) THEN "readTarget" ELSE "refresh"
    OBVIOUS
  <1>3. /\ At(j, "write") /\ job' = [job EXCEPT ![j].pc = p] /\ UNCHANGED <<shown, scan, intact>>
        /\ marker' = Written(op, marker, job[j].doc) /\ disk' = withRoot(disk, home(op), j)
    BY <1>1, <1>2 DEF Write, WriteTo, Enter, Written, withRoot
  <1>4. /\ \A i \in Jobs : i # j => job'[i] = job[i]
        /\ job'[j].op = op /\ job'[j].pc = p /\ job'[j].doc = job[j].doc /\ job'[j].carry = job[j].carry
    BY <1>1, <1>3, PcSet DEF OrderInv
  <1> SUFFICES ASSUME intact' PROVE scan'.queued = FALSE /\ Distinct(disk') /\ \A i \in Active' : Told(i)'
    BY DEF OrderTold
  <1>5. Held /\ j \in Active /\ job[j].pc = "write"
    BY <1>3 DEF OrderInv, Active, At
  <1>6. Active \subseteq {j} /\ scan.queued = FALSE /\ Distinct(disk) /\ Told(j)
    BY <1>3, <1>5, Only DEF OrderTold
  <1>7. Told(j)'
    <2> SUFFICES ASSUME NEW w, isOutcome(w, op, p, job[j].doc, job[j].carry, marker')
                 PROVE  Keeps(op, shown.disk, shown.marker, disk', w)
      BY <1>2, <1>3, <1>4 DEF Told, Promised, At
    <2>1. w = Laid(op, job[j].carry, marker')
      BY <1>2 DEF isOutcome, Laid
    <2>2. isOutcome(w, op, "write", job[j].doc, job[j].carry, marker)
      BY <1>3, <2>1 DEF isOutcome
    <2>3. Keeps(op, shown.disk, shown.marker, disk, w)
      BY <1>1, <1>5, <1>6, <2>2 DEF Told, Promised, At
    <2> QED
      BY <1>3, <2>3, RootKeeps
  <1>8. Distinct(disk')
    BY <1>3, <1>6, RootKeeps
  <1> QED
    BY <1>3, <1>4, <1>6, <1>7, <1>8, OnlyStill

LEMMA ReadTargetTells ==
  ASSUME OrderInv, OrderTold, NEW j \in Jobs, NEW got, ReadTarget(j, got)
  PROVE  OrderTold'
  <1>1. PICK op : op = job[j].op
    OBVIOUS
  <1>2. PICK doc : doc = upserted(overlaid(got, job[j].carry), op.to)
    OBVIOUS
  <1>3. /\ At(j, "readTarget") /\ UNCHANGED <<disk, marker, shown, scan>>
        /\ intact' = (intact /\ got = marker[Head(op.to)])
        /\ job' = [job EXCEPT ![j].doc = doc, ![j].pc = "writeTarget"]
    BY <1>1, <1>2 DEF ReadTarget
  <1>4. /\ JobFields' /\ \A i \in Jobs : i # j => job'[i] = job[i]
        /\ job'[j].op = job[j].op /\ job'[j].pc = "writeTarget" /\ job'[j].doc = doc
    BY <1>3, DocPcSet DEF OrderInv
  <1> SUFFICES ASSUME intact' PROVE scan'.queued = FALSE /\ Distinct(disk') /\ \A i \in Active' : Told(i)'
    BY DEF OrderTold
  <1>5. Held /\ j \in Active /\ job[j].pc = "readTarget" /\ got = marker[Head(op.to)]
    BY <1>3 DEF OrderInv, Active, At
  <1>6. Active \subseteq {j} /\ scan.queued = FALSE /\ Distinct(disk) /\ Told(j)
    BY <1>3, <1>5, Only DEF OrderTold
  <1>7. Told(j)'
    <2> SUFFICES ASSUME NEW w, isOutcome(w, op, "writeTarget", doc, job'[j].carry, marker)
                 PROVE  Keeps(op, shown.disk, shown.marker, disk, w)
      BY <1>1, <1>3, <1>4 DEF Told, Promised, At
    <2>1. w = Over(op, job[j].carry, marker)
      BY <1>2, <1>5 DEF isOutcome, Over
    <2>2. isOutcome(w, op, "readTarget", job[j].doc, job[j].carry, marker)
      BY <2>1 DEF isOutcome
    <2> QED
      BY <1>1, <1>5, <1>6, <2>2 DEF Told, Promised, At
  <1> QED
    BY <1>3, <1>4, <1>6, <1>7, OnlyStill

LEMMA WriteTargetTells ==
  ASSUME OrderInv, OrderTold, NEW j \in Jobs, WriteTarget(j)
  PROVE  OrderTold'
  <1>1. PICK op : op = job[j].op
    OBVIOUS
  <1>2. /\ At(j, "writeTarget") /\ job' = [job EXCEPT ![j].pc = "refresh"] /\ UNCHANGED <<shown, scan, intact>>
        /\ marker' = [marker EXCEPT ![Head(op.to)] = job[j].doc] /\ disk' = withRoot(disk, Head(op.to), j)
    BY <1>1 DEF WriteTarget, WriteTo, Enter, withRoot
  <1>3. /\ \A i \in Jobs : i # j => job'[i] = job[i]
        /\ job'[j].op = op /\ job'[j].pc = "refresh"
    BY <1>1, <1>2, PcSet DEF OrderInv
  <1> SUFFICES ASSUME intact' PROVE scan'.queued = FALSE /\ Distinct(disk') /\ \A i \in Active' : Told(i)'
    BY DEF OrderTold
  <1>4. Held /\ j \in Active /\ job[j].pc = "writeTarget"
    BY <1>2 DEF OrderInv, Active, At
  <1>5. Active \subseteq {j} /\ scan.queued = FALSE /\ Distinct(disk) /\ Told(j)
    BY <1>2, <1>4, Only DEF OrderTold
  <1>6. Told(j)'
    <2> SUFFICES ASSUME NEW w, isOutcome(w, op, "refresh", job'[j].doc, job'[j].carry, marker')
                 PROVE  Keeps(op, shown.disk, shown.marker, disk', w)
      BY <1>2, <1>3 DEF Told, Promised, At
    <2>1. w = marker'
      BY DEF isOutcome
    <2>2. isOutcome(w, op, "writeTarget", job[j].doc, job[j].carry, marker)
      BY <1>2, <2>1 DEF isOutcome
    <2>3. Keeps(op, shown.disk, shown.marker, disk, w)
      BY <1>1, <1>4, <1>5, <2>2 DEF Told, Promised, At
    <2> QED
      BY <1>2, <2>3, RootKeeps
  <1>7. Distinct(disk')
    BY <1>2, <1>5, RootKeeps
  <1> QED
    BY <1>2, <1>3, <1>5, <1>6, <1>7, OnlyStill

LEMMA AskTells ==
  ASSUME OrderInv, ScanShape, SomebodyWaits, OrderTold, NEW j \in Jobs, Ask(j)
  PROVE  OrderTold'
  <1>1. /\ At(j, "refresh") /\ job' = [job EXCEPT ![j].pc = "waiting"] /\ UNCHANGED <<disk, marker, shown, intact>>
        /\ scan' = IF scan.phase = "idle" THEN [scan EXCEPT !.phase = "asked"] ELSE [scan EXCEPT !.queued = TRUE]
    BY DEF Ask, Enter
  <1>2. /\ \A i \in Jobs : i # j => job'[i] = job[i]
        /\ job'[j].op = job[j].op /\ job'[j].pc = "waiting" /\ job'[j].doc = job[j].doc
        /\ job'[j].carry = job[j].carry
    BY <1>1, PcSet DEF OrderInv
  <1> SUFFICES ASSUME intact' PROVE scan'.queued = FALSE /\ Distinct(disk') /\ \A i \in Active' : Told(i)'
    BY DEF OrderTold
  <1>3. Held /\ j \in Active /\ job[j].pc = "refresh"
    BY <1>1 DEF OrderInv, Active, At
  <1>4. Active \subseteq {j} /\ scan.queued = FALSE /\ Distinct(disk) /\ Told(j)
    BY <1>1, <1>3, Only DEF OrderTold
  <1>5. scan.phase = "idle"
    <2> SUFFICES ASSUME scan.phase # "idle" PROVE FALSE
      OBVIOUS
    <2>1. PICK i \in Jobs : job[i].pc = "waiting"
      BY DEF SomebodyWaits
    <2>2. i \in Active
      BY <2>1 DEF Active
    <2> QED
      BY <1>3, <1>4, <2>1, <2>2
  <1>6. scan'.queued = FALSE
    BY <1>1, <1>4, <1>5 DEF ScanShape
  <1>7. Told(j)'
    <2>1. Promised(j)
      BY <1>3, <1>4 DEF Told, At
    <2>2. \A w : isOutcome(w, job[j].op, "waiting", job[j].doc, job[j].carry, marker)
                   <=> isOutcome(w, job[j].op, "refresh", job[j].doc, job[j].carry, marker)
      BY DEF isOutcome
    <2> QED
      BY <1>1, <1>2, <1>3, <2>1, <2>2 DEF Told, Promised, At
  <1> QED
    BY <1>1, <1>2, <1>4, <1>6, <1>7, OnlyStill

LEMMA PublishTells ==
  ASSUME OrderInv, ScanShape, SomebodyWaits, OrderTold, Publish
  PROVE  OrderTold'
  <1>1. /\ scan.phase = "scanned" /\ UNCHANGED <<disk, marker, intact>>
        /\ scan' = [scan EXCEPT !.phase = IF scan.queued THEN "asked" ELSE "idle", !.queued = FALSE]
        /\ job' = [j \in Jobs |-> IF At(j, "waiting") /\ ~scan.queued
                                  THEN [job[j] EXCEPT !.pc = "done"] ELSE job[j]]
    BY DEF Publish
  <1> SUFFICES ASSUME intact' PROVE scan'.queued = FALSE /\ Distinct(disk') /\ \A i \in Active' : Told(i)'
    BY DEF OrderTold
  <1>2. Held /\ scan.queued = FALSE /\ Distinct(disk) /\ JobFields
    BY <1>1 DEF OrderInv, OrderTold
  <1>3. scan'.queued = FALSE
    BY <1>1 DEF ScanShape
  <1>4. PICK j \in Jobs : job[j].pc = "waiting"
    BY <1>1 DEF SomebodyWaits
  <1>5. Active \subseteq {j}
    BY <1>2, <1>4, Only DEF Active
  <1>6. (\A i \in Jobs : i # j => job'[i] = job[i]) /\ job'[j].pc = "done"
    <2>1. \A i \in Jobs : job[i].pc = "waiting" => i = j
      BY <1>5 DEF Active
    <2>2. job'[j] = [job[j] EXCEPT !.pc = "done"]
      BY <1>1, <1>2, <1>4 DEF At
    <2>3. \A i \in Jobs : i # j => job'[i] = job[i]
      BY <1>1, <2>1 DEF At
    <2>4. [job[j] EXCEPT !.pc = "done"].pc = "done"
      BY <1>2 DEF JobFields
    <2> QED
      BY <2>2, <2>3, <2>4
  <1>7. Active' = {}
    BY <1>5, <1>6 DEF Active
  <1> QED
    BY <1>1, <1>2, <1>3, <1>7

LEMMA RestTells ==
  ASSUME OrderTold, UNCHANGED <<disk, marker, shown, job, intact>>, scan'.queued = scan.queued
  PROVE  OrderTold'
  <1> SUFFICES ASSUME intact' PROVE scan'.queued = FALSE /\ Distinct(disk') /\ \A i \in Active' : Told(i)'
    BY DEF OrderTold
  <1>1. Active' = Active
    BY DEF Active
  <1>2. \A i : Told(i)' <=> Told(i)
    BY DEF Told, Promised, At, View, Places
  <1> QED
    BY <1>1, <1>2 DEF OrderTold

(* What is published is what is there, with the order kept.                 *)
LEMMA PublishKeepsOrderOf ==
  ASSUME OrderInv, ScanShape, SomebodyWaits, ScanIsCurrent, OrderTold, Publish, intact'
  PROVE  \E j \in Active : Keeps(job[j].op, shown.disk, shown.marker, shown'.disk, shown'.marker)
  <1>1. scan.phase = "scanned" /\ intact /\ shown' = scan.view
    BY DEF Publish
  <1>2. Held /\ scan.queued = FALSE
    BY <1>1 DEF OrderInv, OrderTold
  <1>3. PICK j \in Jobs : job[j].pc = "waiting"
    BY <1>1 DEF SomebodyWaits
  <1>4. j \in Active /\ Active \subseteq {j}
    BY <1>2, <1>3, Only DEF Active
  <1>5. Told(j)
    BY <1>1, <1>4 DEF OrderTold
  <1>6. ~Unasked
    <2>1. \A i \in Jobs : i # j => job[i].pc \in {"unborn", "done"}
      BY <1>2, <1>4 DEF Held, Alone, Active
    <2> QED
      BY <1>3, <2>1 DEF Unasked
  <1>7. shown' = View(disk, marker)
    BY <1>1, <1>2, <1>6 DEF ScanIsCurrent
  <1>8. isOutcome(marker, job[j].op, job[j].pc, job[j].doc, job[j].carry, marker)
    BY <1>3 DEF isOutcome
  <1>9. Keeps(job[j].op, shown.disk, shown.marker, disk, marker)
    BY <1>3, <1>5, <1>8 DEF Told, Promised, At
  <1> QED
    BY <1>4, <1>7, <1>9 DEF View

LEMMA OneTells ==
  ASSUME TreeIsCurrent, TreeInv, OrderInv, OrderInv', OrderTold, NEW j \in Jobs,
         \/ Begin(j) \/ Apply(j) \/ Write(j) \/ WriteTarget(j) \/ Fails(j) \/ Ask(j)
         \/ \E got \in {marker[c] : c \in Collections} \cup {Blank} : Read(j, got) \/ ReadTarget(j, got)
  PROVE  OrderTold'
  <1>1. Fails(j) => OrderTold'
    BY DEF Fails, OrderTold
  <1>2. ScanShape /\ SomebodyWaits
    BY DEF TreeInv
  <1> QED
    BY <1>1, <1>2, BeginTells, ApplyTells, ReadTells, WriteTells, ReadTargetTells, WriteTargetTells, AskTells

LEMMA TellsStart == TreeInit => OrderTold
  <1> SUFFICES ASSUME TreeInit PROVE OrderTold
    OBVIOUS
  <1>1. PICK layout \in Layouts : disk = [l \in layout.disk |-> l]
    BY DEF TreeInit
  <1>2. Distinct(disk)
    BY <1>1 DEF Distinct
  <1>3. scan.queued = FALSE /\ Active = {}
    BY DEF TreeInit, Active
  <1> QED
    BY <1>2, <1>3 DEF OrderTold

LEMMA TellsKept ==
  TreeIsCurrent /\ TreeInv /\ OrderInv /\ OrderInv' /\ OrderTold /\ [TreeNext]_treeVars => OrderTold'
  <1> SUFFICES ASSUME TreeIsCurrent, TreeInv, OrderInv, OrderInv', OrderTold, [TreeNext]_treeVars
               PROVE  OrderTold'
    OBVIOUS
  <1>1. ScanShape /\ SomebodyWaits
    BY DEF TreeInv
  <1>2. UNCHANGED treeVars => OrderTold'
    BY RestTells DEF treeVars
  <1>3. Scan => OrderTold'
    <2> SUFFICES ASSUME Scan PROVE OrderTold'
      OBVIOUS
    <2>1. UNCHANGED <<disk, marker, shown, job, intact>> /\ scan'.queued = scan.queued
      BY <1>1 DEF Scan, ScanShape
    <2> QED
      BY <2>1, RestTells
  <1>4. Publish => OrderTold'
    BY <1>1, PublishTells
  <1> QED
    BY <1>2, <1>3, <1>4, OneTells DEF TreeNext

(* What is read here as the order of what is shown.                         *)
LEMMA ShownSubjects ==
  ASSUME NEW v
  PROVE  /\ Subjects(v) \subseteq Things(v.disk)
         /\ \A l : place(v, l) = rankOf(v.marker, l)
  BY PlaceIsRank DEF Subjects, Things, rankOf

LEMMA ExemptIs ==
  ASSUME NEW op, NEW l, NEW k
  PROVE  exempt(op, shown.marker, l, k) => Exempt(op, l, k)
  BY DEF exempt, unlistedOf, Exempt

LEMMA StepKeepsOrder ==
  TreeInv /\ OrderInv /\ OrderTold /\ [TreeNext]_treeVars => KeepsShownOrder
  <1> SUFFICES ASSUME TreeInv, OrderInv, OrderTold, [TreeNext]_treeVars, intact', shown' # shown
               PROVE  KeepsShownOrder
    BY DEF KeepsShownOrder
  <1>1. Publish
    BY DEF treeVars, TreeNext, Begin, Apply, Write, WriteTarget, Fails, Ask, Read, ReadTarget, Scan
  <1>2. ScanShape /\ SomebodyWaits /\ ScanIsCurrent
    BY DEF TreeInv
  <1>3. PICK j \in Active : Keeps(job[j].op, shown.disk, shown.marker, shown'.disk, shown'.marker)
    BY <1>1, <1>2, PublishKeepsOrderOf
  <1> SUFFICES ASSUME NEW l \in Subjects(shown), NEW k \in Subjects(shown),
                      NEW l2 \in Subjects(shown'), NEW k2 \in Subjects(shown'),
                      siblings(l, k), siblings(l2, k2),
                      shown.disk[l] = shown'.disk[l2], shown.disk[k] = shown'.disk[k2],
                      \A i \in Jobs : shown.disk[l] # <<i>> /\ shown.disk[k] # <<i>>,
                      place(shown, l) < place(shown, k),
                      \A i \in Active : ~Exempt(job[i].op, l, k)
               PROVE  place(shown', l2) < place(shown', k2)
    BY DEF KeepsShownOrder
  <1>4. /\ l \in Things(shown.disk) /\ k \in Things(shown.disk)
        /\ l2 \in Things(shown'.disk) /\ k2 \in Things(shown'.disk)
        /\ rankOf(shown.marker, l) < rankOf(shown.marker, k)
        /\ place(shown', l2) = rankOf(shown'.marker, l2) /\ place(shown', k2) = rankOf(shown'.marker, k2)
    BY ShownSubjects
  <1>5. ~isNew(shown.disk[l]) /\ ~isNew(shown.disk[k])
    BY DEF isNew
  <1>6. ~exempt(job[j].op, shown.marker, l, k)
    BY ExemptIs
  <1>7. rankOf(shown'.marker, l2) < rankOf(shown'.marker, k2)
    BY <1>3, <1>4, <1>5, <1>6 DEF Keeps
  <1> QED
    BY <1>4, <1>7

(* Whatever command is given, and however deep the folders it takes along:   *)
(* what the tree shows when the command is through is in the order in which  *)
(* it was shown before, but for what the user asked to be reordered, or      *)
(* renamed while the locale alone gave it its place.                        *)
THEOREM OrderOutlivesCommands == TreeSpec => OrderSurvives
  <1>1. TreeIsCurrent /\ TreeInv /\ OrderInv /\ OrderTold /\ [TreeNext]_treeVars
          => (OrderInv /\ OrderTold)'
    BY OrderKept, TellsKept
  <1>2. TreeIsCurrent /\ TreeInv /\ OrderInv /\ OrderTold /\ [TreeNext]_treeVars
          => [KeepsShownOrder]_treeVars
    BY StepKeepsOrder
  <1>3. TreeInit => OrderInv /\ OrderTold
    BY OrderStarts, TellsStart
  <1> QED
    BY <1>1, <1>2, <1>3, TreeInvariant, TreeShowsTheDisk, PTL DEF TreeSpec, OrderSurvives

-----------------------------------------------------------------------------
(* The history store. What list and get answer is the document the queue     *)
(* works on, unless a read beside the queue completed after a write. So what *)
(* a task writes is what its operation makes of the answer.                  *)

Given == FileHistoryStoreAssumption /\ OneWindow

Document == Seq(Entry)
Phase == {"idle", "loading", "writing"}
Store == [cache : {Unloaded} \union Document, maxEntries : Caps, queue : Seq(Task),
          phase : Phase, seen : {Unloaded, Missing, Corrupt} \union Document,
          target : {Unloaded} \union Document, asked : BOOLEAN,
          listing : {Unloaded, Missing, Corrupt} \union Document]

LEMMA TypesAre ==
  HistoryTypeOK <=> /\ file \in {Missing, Corrupt} \union Document
                     /\ issued \in Document /\ overtaken \subseteq Window
                     /\ windows \in [Window -> Store]
  <1>1. MaybeLoaded = {Unloaded} \union Document
    BY DEF MaybeLoaded, Document
  <1>2. MaybeRead = {Unloaded, Missing, Corrupt} \union Document
    BY DEF MaybeRead, FileContents, Document
  <1> QED
    BY <1>1, <1>2 DEF HistoryTypeOK, FileContents, Document, Phase, Store

(* What a task is going to do is known from its phase.                      *)
Prepared(s) ==
  /\ s.phase # "idle" => s.queue # <<>>
  /\ s.phase = "loading" => /\ s.seen \in {Missing, Corrupt} \union Document
                            /\ Head(s.queue).op # "clear"
  /\ s.phase = "writing" => s.target \in Document

(* While a task has a damaged file to move away nothing else is written.    *)
NothingToLose(s) == s.phase = "loading" /\ s.seen = Corrupt => file \in {Missing, Corrupt}

(* What the steps of the log may make of entries. *)
Results(entries, n) ==
  {Trimmed(Added(e, entries), n) : e \in Entry}
    \union {Without(entries, e) : e \in Entry} \union {<<>>, Trimmed(entries, n)}

Answer == Visible(TheWindow)

(* What is true of a store that no read overtook.                           *)
Faithful(s) ==
  /\ s.cache # Unloaded => file = Corrupt \/ s.cache = Contents(file)
  /\ s.phase = "loading" => Contents(s.seen) = Answer
  /\ s.phase = "writing" => s.target \in Results(Answer, s.maxEntries)

HistoryInv ==
  /\ Given /\ HistoryTypeOK
  /\ Prepared(windows[TheWindow]) /\ NothingToLose(windows[TheWindow])
  /\ overtaken = {} => Faithful(windows[TheWindow])

(* The operators of the store and of the log are those of Filtered.         *)
LEMMA SameFilter ==
  /\ \A s, e : Without(s, e) = Without(s, e)
  /\ \A s, e : Log!Without(s, e) = Without(s, e)
  BY DEF Without, Log!Without, Without, Cardinality, Cardinality,
     Log!Cardinality

LEMMA ResultsAreOutcomes == Log!Outcomes = Results(Answer, windows[TheWindow].maxEntries)
  BY SameFilter DEF Log!Outcomes, Results, Log!Trimmed, Trimmed,
     Log!With, Added, Answer, Visible

(* The kinds of value do not overlap. *)
LEMMA NoValue ==
  ASSUME Given
  PROVE  /\ \A d \in Document : d # Missing /\ d # Corrupt /\ d # Unloaded
         /\ <<>> \in Document /\ Window = {TheWindow} /\ Caps \subseteq Nat \ {0}
         /\ \A d \in Document : Contents(d) = d
         /\ Contents(Missing) = <<>> /\ Contents(Corrupt) = <<>>
         /\ \A f \in {Missing, Corrupt} \union Document : Contents(f) \in Document
  BY DEF Given, FileHistoryStoreAssumption, OneWindow, Document, Contents

LEMMA ResultsAreDocuments ==
  ASSUME Given, NEW d \in Document, NEW n \in Caps
  PROVE  Results(d, n) \subseteq Document
  <1>1. n \in Nat /\ n # 0
    BY NoValue
  <1>2. \A s \in Document : Trimmed(s, n) \in Document
    <2> TAKE s \in Document
    <2> DEFINE m == IF Len(s) < n THEN Len(s) ELSE n
    <2>1. Len(s) \in Nat /\ s \in Seq(Entry)
      BY DEF Document
    <2>2. m \in Nat /\ m <= Len(s)
      BY <1>1, <2>1
    <2>3. SubSeq(s, 1, m) \in Seq(Entry)
      <3> HIDE DEF m
      <3> QED
        BY <2>1, <2>2, SubSeqProperties
    <2> QED
      BY <2>3 DEF Trimmed, Document
  <1>3. \A e \in Entry : Without(d, e) \in Document
    BY ElementsWithout DEF Document
  <1>4. \A e \in Entry : Added(e, d) \in Document
    <2> TAKE e \in Entry
    <2>1. <<e>> \in Seq(Entry) /\ Without(d, e) \in Seq(Entry)
      BY <1>3 DEF Document
    <2> QED
      BY <2>1, SameFilter DEF Added, Document
  <1> QED
    BY <1>2, <1>3, <1>4, NoValue DEF Results

(* A task that has its entries settles or writes a result.                  *)
LEMMA ProceedGives ==
  ASSUME Given, NEW s \in Store, s.queue # <<>>, Head(s.queue).op # "clear", NEW d \in Document,
         NEW p, p = Proceed(s, d)
  PROVE  /\ p \in Store /\ Prepared(p) /\ p.phase \in {"idle", "writing"}
         /\ p.cache = s.cache /\ p.maxEntries = s.maxEntries
         /\ p.phase = "writing" => p.target \in Results(d, s.maxEntries)
  <1> DEFINE task == Head(s.queue)
             next == CASE task.op = "append" ->
                            Trimmed(Added(task.entry, d), s.maxEntries)
                       [] task.op = "delete" -> Without(d, task.entry)
                       [] task.op = "setMaxEntries" -> Trimmed(d, s.maxEntries)
  <1>1. s.queue \in Seq(Task) /\ s.maxEntries \in Caps
    BY DEF Store
  <1>2. task \in Task /\ Tail(s.queue) \in Seq(Task)
    BY <1>1
  <1>3. next \in Results(d, s.maxEntries)
    <2>1. CASE task.op = "append"
      <3>1. task.entry \in Entry
        BY <1>2, <2>1 DEF Task
      <3>2. next = Trimmed(Added(task.entry, d), s.maxEntries)
        BY <2>1
      <3> HIDE DEF next, task
      <3> QED
        BY <3>1, <3>2 DEF Results
    <2>2. CASE task.op = "delete"
      <3>1. task.entry \in Entry
        BY <1>2, <2>2 DEF Task
      <3>2. next = Without(d, task.entry)
        BY <2>2
      <3> HIDE DEF next, task
      <3> QED
        BY <3>1, <3>2, SameFilter DEF Results
    <2>3. CASE task.op = "setMaxEntries"
      <3>1. next = Trimmed(d, s.maxEntries)
        BY <2>3
      <3> HIDE DEF next, task
      <3> QED
        BY <3>1 DEF Results
    <2> QED
      BY <1>2, <2>1, <2>2, <2>3 DEF Task
  <1>4. next \in Document
    BY <1>1, <1>3, ResultsAreDocuments
  <1>5. p = IF task.op # "append" /\ Len(next) = Len(d) THEN Settled(s)
            ELSE Writing(s, next)
    BY DEF Proceed
  <1> HIDE DEF next
  <1>6. CASE p = Settled(s)
    BY <1>2, <1>6 DEF Settled, Store, Phase, Prepared
  <1>7. CASE p = Writing(s, next)
    BY <1>1, <1>3, <1>4, <1>7 DEF Writing, Store, Phase, Prepared
  <1> QED
    BY <1>5, <1>6, <1>7

-----------------------------------------------------------------------------
(* The steps. *)

LogStep == overtaken # {} \/ overtaken' # {} \/ Log!Next

(* The window's store becomes s, which answers a.                           *)
LEMMA StoreBecomes ==
  ASSUME HistoryInv, NEW s \in Store, Prepared(s), windows' = [windows EXCEPT ![TheWindow] = s],
         file' \in {Missing, Corrupt} \union Document, issued' \in Document,
         overtaken' \subseteq Window,
         s.phase = "loading" /\ s.seen = Corrupt => file' \in {Missing, Corrupt},
         NEW a, a = IF s.cache = Unloaded THEN Contents(file') ELSE s.cache,
         overtaken' = {} =>
           /\ s.cache # Unloaded => file' = Corrupt \/ s.cache = Contents(file')
           /\ s.phase = "loading" => Contents(s.seen) = a
           /\ s.phase = "writing" => s.target \in Results(a, s.maxEntries),
         overtaken = {} /\ overtaken' = {} =>
           a \in Results(Answer, windows[TheWindow].maxEntries) \union {Answer}
  PROVE  HistoryInv' /\ LogStep
  <1>1. Given /\ windows \in [Window -> Store] /\ TheWindow \in Window
    BY TypesAre, NoValue DEF HistoryInv
  <1>2. windows' \in [Window -> Store] /\ windows'[TheWindow] = s
    BY <1>1
  <1>3. Given' /\ HistoryTypeOK'
    <2>1. windows' \in [Window -> [cache : MaybeLoaded, maxEntries : Caps, queue : Seq(Task),
            phase : {"idle", "loading", "writing"},
            seen : MaybeRead, target : MaybeLoaded, asked : BOOLEAN, listing : MaybeRead]]
      <3>1. MaybeLoaded = {Unloaded} \union Document
        BY DEF MaybeLoaded, Document
      <3>2. MaybeRead = {Unloaded, Missing, Corrupt} \union Document
        BY DEF MaybeRead, FileContents, Document
      <3> QED
        BY <1>2, <3>1, <3>2 DEF Phase, Store
    <2>2. Given'
      BY <1>1 DEF Given, FileHistoryStoreAssumption, OneWindow
    <2> QED
      BY <2>1, <2>2 DEF HistoryTypeOK, FileContents, MaybeLoaded, MaybeRead, Document, Task
  <1>4. Prepared(windows[TheWindow])' /\ NothingToLose(windows[TheWindow])'
    BY <1>2 DEF Prepared, NothingToLose, Document
  <1>5. Answer' = a
    BY <1>2 DEF Answer, Visible, Contents
  <1>6. overtaken' = {} => Faithful(windows[TheWindow])'
    BY <1>2, <1>5 DEF Faithful, Contents, Results
  <1>7. LogStep
    <2> SUFFICES ASSUME overtaken = {}, overtaken' = {}
                 PROVE  Log!Next
      BY DEF LogStep
    <2>1. windows'[TheWindow].maxEntries \in Caps
      BY <1>2 DEF Store
    <2>2. Answer' \in Log!Outcomes \union {Answer}
      BY <1>5, ResultsAreOutcomes
    <2> QED
      BY <2>1, <2>2 DEF Log!Next, Log!Reopen, Answer, Visible
  <1> QED
    BY <1>3, <1>4, <1>6, <1>7 DEF HistoryInv

(* What every step may assume. *)
LEMMA StoreFacts ==
  ASSUME HistoryInv
  PROVE  /\ Given /\ windows[TheWindow] \in Store /\ Prepared(windows[TheWindow])
         /\ NothingToLose(windows[TheWindow])
         /\ file \in {Missing, Corrupt} \union Document /\ issued \in Document
         /\ overtaken \subseteq Window /\ Window = {TheWindow}
         /\ Answer \in Document
         /\ Answer = IF windows[TheWindow].cache = Unloaded THEN Contents(file)
                     ELSE windows[TheWindow].cache
  <1>1. /\ Given /\ Prepared(windows[TheWindow]) /\ windows[TheWindow] \in Store
        /\ NothingToLose(windows[TheWindow])
        /\ file \in {Missing, Corrupt} \union Document /\ issued \in Document
        /\ overtaken \subseteq Window /\ Window = {TheWindow}
    BY TypesAre, NoValue DEF HistoryInv
  <1>2. Answer = IF windows[TheWindow].cache = Unloaded THEN Contents(file)
                 ELSE windows[TheWindow].cache
    BY DEF Answer, Visible
  <1>3. Answer \in Document
    BY <1>1, <1>2, NoValue DEF Store
  <1> QED
    BY <1>1, <1>2, <1>3

LEMMA EnqueueKeeps ==
  ASSUME HistoryInv, NEW task \in Task, Enqueue(TheWindow, task)
  PROVE  HistoryInv' /\ LogStep
  <1> DEFINE W == windows[TheWindow]
             s == [W EXCEPT !.queue = Append(@, task)]
  <1>1. /\ W \in Store /\ Prepared(W) /\ (overtaken = {} => Faithful(W))
        /\ NothingToLose(W)
        /\ Answer = IF W.cache = Unloaded THEN Contents(file) ELSE W.cache
    BY StoreFacts DEF HistoryInv
  <1>2. windows' = [windows EXCEPT ![TheWindow] = s] /\ UNCHANGED <<file, overtaken>>
    BY DEF Enqueue, Update
  <1>3. issued' \in Document
    <2>1. task.op = "append" => task.entry \in Entry
      BY DEF Task
    <2> QED
      BY <2>1, StoreFacts DEF Enqueue, Document
  <1> HIDE DEF W
  <1>4. /\ s \in Store /\ s.cache = W.cache /\ s.maxEntries = W.maxEntries
        /\ s.phase = W.phase /\ s.seen = W.seen /\ s.target = W.target /\ s.queue # <<>>
        /\ W.queue # <<>> => Head(s.queue) = Head(W.queue)
    BY <1>1 DEF Store
  <1> HIDE DEF s
  <1>5. Prepared(s)
    BY <1>1, <1>4 DEF Prepared
  <1> QED
    BY <1>1, <1>2, <1>3, <1>4, <1>5, StoreFacts, StoreBecomes DEF Faithful, NothingToLose

(* A task begins: it goes on with the cache, reads the file, or settles.    *)
LEMMA StartTaskKeeps ==
  ASSUME HistoryInv, StartTask(TheWindow)
  PROVE  HistoryInv' /\ LogStep
  <1> DEFINE W == windows[TheWindow]
             task == Head(W.queue)
             s == IF task.op = "setMaxEntries" THEN [W EXCEPT !.maxEntries = task.cap] ELSE W
  <1>1. /\ W \in Store /\ Prepared(W) /\ (overtaken = {} => Faithful(W)) /\ Given
        /\ Answer = (IF W.cache = Unloaded THEN Contents(file) ELSE W.cache)
        /\ Answer \in Document
    BY StoreFacts DEF HistoryInv
  <1>2. W.phase = "idle" /\ W.queue # <<>> /\ UNCHANGED <<issued, overtaken>>
    BY DEF StartTask
  <1>3. \/ task.op = "clear" /\ Update(TheWindow, Writing(s, <<>>)) /\ UNCHANGED file
        \/ /\ task.op # "clear" /\ s.cache # Unloaded
           /\ Update(TheWindow, Proceed(s, s.cache)) /\ UNCHANGED file
        \/ /\ task.op # "clear" /\ s.cache = Unloaded
           /\ Update(TheWindow, [s EXCEPT !.phase = "loading", !.seen = file]) /\ UNCHANGED file
        \/ Update(TheWindow, Settled(s)) /\ UNCHANGED file
    BY DEF StartTask
  <1>4. task \in Task /\ Tail(W.queue) \in Seq(Task)
    BY <1>1, <1>2 DEF Store
  <1> HIDE DEF W
  <1>5. /\ s \in Store /\ s.cache = W.cache /\ s.phase = "idle" /\ s.queue = W.queue
    <2>1. task.op = "setMaxEntries" => task.cap \in Caps
      BY <1>4 DEF Task
    <2> HIDE DEF task
    <2> QED
      BY <1>1, <1>2, <2>1 DEF Store
  <1> HIDE DEF s
  <1>6. CASE task.op = "clear" /\ Update(TheWindow, Writing(s, <<>>)) /\ UNCHANGED file
    <2> DEFINE t == Writing(s, <<>>)
    <2>1. /\ t \in Store /\ Prepared(t) /\ t.cache = W.cache /\ t.phase = "writing"
          /\ t.target = <<>> /\ t.maxEntries = s.maxEntries
      BY <1>1, <1>2, <1>5, NoValue DEF Writing, Store, Phase, Prepared
    <2>2. t.target \in Results(Answer, t.maxEntries)
      BY <2>1 DEF Results
    <2>3. windows' = [windows EXCEPT ![TheWindow] = t]
      BY <1>6 DEF Update
    <2> HIDE DEF t
    <2> QED
      BY <1>1, <1>2, <1>6, <2>1, <2>2, <2>3, StoreFacts, StoreBecomes DEF Faithful
  <1>7. CASE /\ task.op # "clear" /\ s.cache # Unloaded
             /\ Update(TheWindow, Proceed(s, s.cache)) /\ UNCHANGED file
    <2> DEFINE t == Proceed(s, s.cache)
    <2>1. s.cache \in Document /\ s.cache = Answer
      BY <1>1, <1>5, <1>7 DEF Store
    <2>2. /\ t \in Store /\ Prepared(t) /\ t.phase \in {"idle", "writing"} /\ t.cache = W.cache
          /\ t.phase = "writing" => t.target \in Results(Answer, t.maxEntries)
      BY <1>1, <1>2, <1>5, <1>7, <2>1, ProceedGives DEF task
    <2>3. windows' = [windows EXCEPT ![TheWindow] = t]
      BY <1>7 DEF Update
    <2> HIDE DEF t
    <2> QED
      BY <1>1, <1>2, <1>7, <2>2, <2>3, StoreFacts, StoreBecomes DEF Faithful
  <1>8. CASE /\ task.op # "clear" /\ s.cache = Unloaded
             /\ Update(TheWindow, [s EXCEPT !.phase = "loading", !.seen = file]) /\ UNCHANGED file
    <2> DEFINE t == [s EXCEPT !.phase = "loading", !.seen = file]
    <2>1. Answer = Contents(file) /\ W.cache = Unloaded
      BY <1>1, <1>5, <1>8
    <2>2. /\ t \in Store /\ Prepared(t) /\ t.cache = Unloaded /\ t.phase = "loading"
          /\ t.seen = file
      BY <1>1, <1>2, <1>5, <1>8, <2>1, StoreFacts DEF Store, Phase, Prepared
    <2>3. file' = file /\ Contents(t.seen) = Answer
      BY <1>8, <2>1, <2>2
    <2>4. windows' = [windows EXCEPT ![TheWindow] = t]
      BY <1>8 DEF Update
    <2> HIDE DEF t
    <2> QED
      BY <1>2, <2>2, <2>3, <2>4, StoreFacts, StoreBecomes
  <1>9. CASE Update(TheWindow, Settled(s)) /\ UNCHANGED file
    <2> DEFINE t == Settled(s)
    <2>1. /\ t \in Store /\ Prepared(t) /\ t.cache = W.cache /\ t.phase = "idle"
      BY <1>1, <1>2, <1>4, <1>5 DEF Settled, Store, Phase, Prepared
    <2>2. windows' = [windows EXCEPT ![TheWindow] = t]
      BY <1>9 DEF Update
    <2> HIDE DEF t
    <2> QED
      BY <1>1, <1>2, <1>9, <2>1, <2>2, StoreFacts, StoreBecomes DEF Faithful
  <1> QED
    BY <1>3, <1>6, <1>7, <1>8, <1>9

(* The entries a task read become the cache, and the task goes on.          *)
LEMMA LoadKeeps ==
  ASSUME HistoryInv, LoadCompletes(TheWindow)
  PROVE  HistoryInv' /\ LogStep
  <1> DEFINE W == windows[TheWindow]
             d == Contents(W.seen)
             s == [W EXCEPT !.cache = d]
             t == Proceed(s, s.cache)
  <1>1. /\ W \in Store /\ Prepared(W) /\ (overtaken = {} => Faithful(W)) /\ Given
        /\ Answer = (IF W.cache = Unloaded THEN Contents(file) ELSE W.cache)
        /\ Answer \in Document
    BY StoreFacts DEF HistoryInv
  <1>2. /\ W.phase = "loading" /\ UNCHANGED <<file, issued, overtaken>>
        /\ windows' = [windows EXCEPT ![TheWindow] = t]
    BY DEF LoadCompletes, Update
  <1> HIDE DEF W
  <1>3. d \in Document /\ W.queue # <<>> /\ Head(W.queue).op # "clear"
    BY <1>1, <1>2, NoValue DEF Prepared
  <1>6. overtaken = {} => d = Answer /\ (file = Corrupt \/ d = Contents(file))
    BY <1>1, <1>2 DEF Faithful
  <1> HIDE DEF d
  <1>4. s \in Store /\ s.cache = d /\ s.queue = W.queue /\ s.maxEntries = W.maxEntries
    BY <1>1, <1>3 DEF Store
  <1> HIDE DEF s
  <1>5. /\ t \in Store /\ Prepared(t) /\ t.phase \in {"idle", "writing"} /\ t.cache = d
        /\ t.phase = "writing" => t.target \in Results(d, t.maxEntries)
    BY <1>1, <1>3, <1>4, ProceedGives
  <1> HIDE DEF t
  <1>7. d # Unloaded
    BY <1>1, <1>3, NoValue
  <1> QED
    BY <1>2, <1>5, <1>6, <1>7, StoreFacts, StoreBecomes

(* A task moves the damaged file away. *)
LEMMA TaskQuarantinesKeeps ==
  ASSUME HistoryInv, TaskQuarantines(TheWindow)
  PROVE  HistoryInv' /\ LogStep
  <1> DEFINE W == windows[TheWindow]
             t == [W EXCEPT !.seen = Missing]
  <1>1. /\ W \in Store /\ Prepared(W) /\ (overtaken = {} => Faithful(W)) /\ Given
        /\ NothingToLose(W)
        /\ Answer = (IF W.cache = Unloaded THEN Contents(file) ELSE W.cache)
    BY StoreFacts DEF HistoryInv
  <1>2. /\ W.phase = "loading" /\ W.seen = Corrupt /\ file' \in {Missing, file}
        /\ UNCHANGED <<issued, overtaken>>
        /\ windows' = [windows EXCEPT ![TheWindow] = t]
    BY DEF TaskQuarantines, Update, Quarantined
  <1> HIDE DEF W
  <1>3. file \in {Missing, Corrupt} /\ file' \in {Missing, Corrupt}
    BY <1>1, <1>2 DEF NothingToLose
  <1>4. Contents(file) = <<>> /\ Contents(file') = <<>> /\ Contents(W.seen) = <<>>
    BY <1>1, <1>2, <1>3, NoValue
  <1>5. /\ t \in Store /\ t.cache = W.cache /\ t.phase = "loading" /\ t.queue = W.queue
        /\ t.seen = Missing /\ t.target = W.target /\ t.maxEntries = W.maxEntries
    BY <1>1, <1>2 DEF Store
  <1> HIDE DEF t
  <1>6. Prepared(t)
    BY <1>1, <1>2, <1>5 DEF Prepared
  <1>7. Contents(t.seen) = <<>>
    BY <1>1, <1>5, NoValue
  <1>8. Answer = IF t.cache = Unloaded THEN Contents(file') ELSE t.cache
    BY <1>1, <1>4, <1>5
  <1>9. overtaken = {} => Answer = <<>>
    BY <1>1, <1>2, <1>4 DEF Faithful
  <1> QED
    BY <1>2, <1>3, <1>4, <1>5, <1>6, <1>7, <1>8, <1>9, StoreFacts, StoreBecomes

(* The file is written, then the cache. *)
LEMMA WriteKeeps ==
  ASSUME HistoryInv, WriteSucceeds(TheWindow)
  PROVE  HistoryInv' /\ LogStep
  <1> DEFINE W == windows[TheWindow]
             s == [W EXCEPT !.cache = W.target]
             t == Settled(s)
  <1>1. W \in Store /\ Prepared(W) /\ (overtaken = {} => Faithful(W)) /\ Given
    BY StoreFacts DEF HistoryInv
  <1>2. /\ W.phase = "writing" /\ file' = W.target /\ UNCHANGED <<issued, overtaken>>
        /\ windows' = [windows EXCEPT ![TheWindow] = t]
    BY DEF WriteSucceeds, Update
  <1> HIDE DEF W
  <1>3. W.target \in Document /\ W.queue # <<>>
    BY <1>1, <1>2 DEF Prepared
  <1>4. Tail(W.queue) \in Seq(Task)
    BY <1>1, <1>3 DEF Store
  <1>5. t \in Store /\ Prepared(t) /\ t.phase = "idle" /\ t.cache = W.target
    BY <1>1, <1>3, <1>4 DEF Settled, Store, Phase, Prepared
  <1> HIDE DEF t
  <1>6. W.target # Unloaded /\ Contents(file') = W.target /\ file' \in Document
    BY <1>1, <1>2, <1>3, NoValue
  <1>7. overtaken = {} => W.target \in Results(Answer, W.maxEntries)
    BY <1>1, <1>2 DEF Faithful
  <1>8. overtaken = {} => W.target \in Results(Answer, windows[TheWindow].maxEntries)
    BY <1>7 DEF W
  <1> QED
    BY <1>2, <1>5, <1>6, <1>8, StoreFacts, StoreBecomes

(* A write that fails leaves the cache as it was. The file may be damaged:   *)
(* with nothing cached, the entries are lost.                               *)
LEMMA FailureKeeps ==
  ASSUME HistoryInv, WriteFails(TheWindow)
  PROVE  HistoryInv' /\ LogStep
  <1> DEFINE W == windows[TheWindow]
             t == Settled(W)
  <1>1. /\ W \in Store /\ Prepared(W) /\ (overtaken = {} => Faithful(W)) /\ Given
        /\ Answer = (IF W.cache = Unloaded THEN Contents(file) ELSE W.cache)
    BY StoreFacts DEF HistoryInv
  <1>2. /\ W.phase = "writing" /\ file' \in {file, Corrupt} /\ UNCHANGED <<issued, overtaken>>
        /\ windows' = [windows EXCEPT ![TheWindow] = t]
    BY DEF WriteFails, Update
  <1> HIDE DEF W
  <1>3. Tail(W.queue) \in Seq(Task)
    BY <1>1, <1>2 DEF Store, Prepared
  <1>4. t \in Store /\ Prepared(t) /\ t.phase = "idle" /\ t.cache = W.cache
    BY <1>1, <1>3 DEF Settled, Store, Phase, Prepared
  <1> HIDE DEF t
  <1> DEFINE a == IF W.cache = Unloaded THEN Contents(file') ELSE W.cache
  <1>5. a \in Results(Answer, windows[TheWindow].maxEntries) \union {Answer}
    <2>1. CASE W.cache # Unloaded \/ file' = file
      BY <1>1, <2>1
    <2>2. CASE W.cache = Unloaded /\ file' = Corrupt
      BY <2>2 DEF Contents, Results
    <2> QED
      BY <1>2, <2>1, <2>2
  <1>6. overtaken = {} /\ W.cache # Unloaded => file' = Corrupt \/ W.cache = Contents(file')
    BY <1>1, <1>2 DEF Faithful
  <1>7. a = IF t.cache = Unloaded THEN Contents(file') ELSE t.cache
    BY <1>4
  <1> HIDE DEF a
  <1> QED
    BY <1>2, <1>4, <1>5, <1>6, <1>7, StoreFacts, StoreBecomes

(* A read beside the queue, the move of a damaged file, and its completion. *)
LEMMA ListingKeeps ==
  ASSUME HistoryInv, ListAsks(TheWindow) \/ ListReads(TheWindow)
  PROVE  HistoryInv' /\ LogStep
  <1> DEFINE W == windows[TheWindow]
  <1>1. /\ W \in Store /\ Prepared(W) /\ (overtaken = {} => Faithful(W)) /\ NothingToLose(W)
        /\ Answer = (IF W.cache = Unloaded THEN Contents(file) ELSE W.cache)
        /\ Answer \in Document
    BY StoreFacts DEF HistoryInv
  <1> DEFINE Same(t) == /\ t \in Store /\ t.cache = W.cache /\ t.phase = W.phase /\ t.queue = W.queue
                        /\ t.seen = W.seen /\ t.target = W.target /\ t.maxEntries = W.maxEntries
  <1>2. \E t : windows' = [windows EXCEPT ![TheWindow] = t] /\ Same(t)
    <2>1. CASE ListReads(TheWindow)
      <3>1. PICK f \in {file, Unloaded} :
              windows' = [windows EXCEPT ![TheWindow] = [W EXCEPT !.asked = FALSE, !.listing = f]]
        BY <2>1 DEF ListReads, Update
      <3> DEFINE t == [W EXCEPT !.asked = FALSE, !.listing = f]
      <3>2. windows' = [windows EXCEPT ![TheWindow] = t]
        BY <3>1
      <3> HIDE DEF W
      <3>3. Same(t)
        BY <1>1, StoreFacts DEF Store
      <3> HIDE DEF t, Same
      <3> QED
        BY <3>2, <3>3
    <2>2. CASE ListAsks(TheWindow)
      <3> DEFINE t == [W EXCEPT !.asked = TRUE]
      <3>1. windows' = [windows EXCEPT ![TheWindow] = t]
        BY <2>2 DEF ListAsks, Update
      <3> HIDE DEF W
      <3>2. Same(t)
        BY <1>1 DEF Store
      <3> HIDE DEF t, Same
      <3> QED
        BY <3>1, <3>2
    <2> HIDE DEF W, Same
    <2> QED
      BY <2>1, <2>2
  <1>3. UNCHANGED <<file, issued, overtaken>>
    BY DEF ListAsks, ListReads
  <1> HIDE DEF W
  <1>4. PICK t : windows' = [windows EXCEPT ![TheWindow] = t] /\ Same(t)
    BY <1>2
  <1>6. Prepared(t)
    BY <1>1, <1>4 DEF Prepared
  <1> QED
    BY <1>1, <1>3, <1>4, <1>6, StoreFacts, StoreBecomes DEF Faithful, NothingToLose

LEMMA ListQuarantinesKeeps ==
  ASSUME HistoryInv, ListQuarantines(TheWindow)
  PROVE  HistoryInv' /\ LogStep
  <1> DEFINE W == windows[TheWindow]
             t == [W EXCEPT !.listing = Missing]
  <1>1. /\ W \in Store /\ Prepared(W) /\ (overtaken = {} => Faithful(W)) /\ Given
        /\ NothingToLose(W) /\ TheWindow \in Window
        /\ Answer = (IF W.cache = Unloaded THEN Contents(file) ELSE W.cache)
        /\ Answer \in Document
    BY StoreFacts DEF HistoryInv
  <1>2. /\ W.listing = Corrupt /\ file' \in {Missing, file} /\ UNCHANGED issued
        /\ overtaken' = (IF file' = file \/ UpToDate(TheWindow) THEN overtaken
                         ELSE overtaken \union {TheWindow})
        /\ windows' = [windows EXCEPT ![TheWindow] = t]
    BY DEF ListQuarantines, Update, Quarantined
  <1>3. UpToDate(TheWindow) =>
          Contents(W.listing) = Answer /\ (W.phase = "loading" => Contents(W.seen) = Contents(W.listing))
    BY DEF UpToDate, Answer
  <1> HIDE DEF W
  <1>4. Contents(W.listing) = <<>> /\ Contents(Missing) = <<>>
    BY <1>1, <1>2, NoValue
  <1>5. /\ t \in Store /\ t.cache = W.cache /\ t.phase = W.phase /\ t.queue = W.queue
        /\ t.seen = W.seen /\ t.target = W.target /\ t.maxEntries = W.maxEntries
    BY <1>1 DEF Store
  <1> HIDE DEF t
  <1>6. Prepared(t)
    BY <1>1, <1>5 DEF Prepared
  <1>7. /\ file' \in {Missing, Corrupt} \union Document
        /\ W.phase = "loading" /\ W.seen = Corrupt => file' \in {Missing, Corrupt}
        /\ overtaken' \subseteq Window
    BY <1>1, <1>2, StoreFacts DEF NothingToLose
  <1>8. overtaken' = {} =>
          /\ overtaken = {}
          /\ file' = file \/ (file' = Missing /\ Answer = <<>>)
    BY <1>2, <1>3, <1>4
  <1> DEFINE a == IF t.cache = Unloaded THEN Contents(file') ELSE t.cache
  <1>9. overtaken' = {} => a = Answer /\ (W.cache # Unloaded => file' = Corrupt \/ W.cache = Contents(file'))
    BY <1>1, <1>4, <1>5, <1>8 DEF Faithful
  <1>10. a = IF t.cache = Unloaded THEN Contents(file') ELSE t.cache
    OBVIOUS
  <1> HIDE DEF a
  <1>11. overtaken' = {} =>
           /\ t.cache # Unloaded => file' = Corrupt \/ t.cache = Contents(file')
           /\ t.phase = "loading" => Contents(t.seen) = a
           /\ t.phase = "writing" => t.target \in Results(a, t.maxEntries)
    BY <1>1, <1>5, <1>8, <1>9 DEF Faithful
  <1>12. t.phase = "loading" /\ t.seen = Corrupt => file' \in {Missing, Corrupt}
    BY <1>5, <1>7
  <1> QED
    BY <1>2, <1>5, <1>6, <1>7, <1>9, <1>10, <1>11, <1>12, StoreFacts, StoreBecomes

LEMMA ListCompletesKeeps ==
  ASSUME HistoryInv, ListCompletes(TheWindow)
  PROVE  HistoryInv' /\ LogStep
  <1> DEFINE W == windows[TheWindow]
             d == Contents(W.listing)
             t == [W EXCEPT !.cache = d, !.listing = Unloaded]
  <1>1. /\ W \in Store /\ Prepared(W) /\ (overtaken = {} => Faithful(W)) /\ Given
        /\ NothingToLose(W)
        /\ Answer = (IF W.cache = Unloaded THEN Contents(file) ELSE W.cache)
        /\ Answer \in Document /\ TheWindow \in Window
    BY StoreFacts DEF HistoryInv
  <1>2. /\ W.listing \notin {Unloaded, Corrupt} /\ UNCHANGED <<file, issued>>
        /\ overtaken' = (IF UpToDate(TheWindow) THEN overtaken
                         ELSE overtaken \union {TheWindow})
        /\ windows' = [windows EXCEPT ![TheWindow] = t]
    BY DEF ListCompletes, Update
  <1>3. UpToDate(TheWindow) => d = Answer
    BY DEF UpToDate, Answer
  <1>9. d \in Document
    BY <1>1, <1>2, NoValue DEF Store
  <1> HIDE DEF W, d
  <1>4. /\ t \in Store /\ t.cache = d /\ t.phase = W.phase /\ t.queue = W.queue
        /\ t.seen = W.seen /\ t.target = W.target /\ t.maxEntries = W.maxEntries
    BY <1>1, <1>2, <1>9 DEF Store
  <1> HIDE DEF t
  <1>5. Prepared(t)
    BY <1>1, <1>4 DEF Prepared
  <1>6. overtaken' \subseteq Window
    BY <1>1, <1>2, StoreFacts
  <1>7. overtaken' = {} => overtaken = {} /\ d = Answer
    BY <1>2, <1>3
  <1>8. overtaken = {} => file = Corrupt \/ Answer = Contents(file)
    BY <1>1 DEF Faithful
  <1>10. d # Unloaded
    BY <1>1, <1>9, NoValue
  <1> QED
    BY <1>1, <1>2, <1>4, <1>5, <1>6, <1>7, <1>8, <1>10, StoreFacts, StoreBecomes
       DEF Faithful, NothingToLose

(* The window is opened again: a write under way may have been cut short.    *)
LEMMA ReopenKeeps ==
  ASSUME HistoryInv, NEW n \in Caps, Reopen(TheWindow, n)
  PROVE  HistoryInv' /\ LogStep
  <1> DEFINE W == windows[TheWindow]
             t == Fresh(n)
  <1>1. /\ W \in Store /\ Prepared(W) /\ (overtaken = {} => Faithful(W)) /\ Given
        /\ Answer = (IF W.cache = Unloaded THEN Contents(file) ELSE W.cache)
        /\ file \in {Missing, Corrupt} \union Document /\ overtaken \subseteq {TheWindow}
    BY StoreFacts DEF HistoryInv
  <1>2. /\ file' \in (IF W.phase = "writing" THEN {file, W.target, Corrupt} ELSE {file})
        /\ windows' = [windows EXCEPT ![TheWindow] = t]
        /\ overtaken' = overtaken \ {TheWindow} /\ UNCHANGED issued
    BY DEF Reopen, Update
  <1> HIDE DEF W
  <1>3. t \in Store /\ t.cache = Unloaded /\ t.phase = "idle" /\ Prepared(t)
    BY DEF Fresh, Store, Phase, Prepared, Task
  <1> HIDE DEF t
  <1>4. file' \in {Missing, Corrupt} \union Document
    BY <1>1, <1>2 DEF Prepared
  <1>5. ASSUME overtaken = {}
        PROVE  Contents(file') \in Results(Answer, windows[TheWindow].maxEntries) \union {Answer}
    <2>1. CASE file' = Corrupt
      BY <2>1 DEF Contents, Results
    <2>2. CASE file' = file /\ file # Corrupt
      BY <1>1, <1>5, <2>2 DEF Faithful
    <2>3. CASE W.phase = "writing" /\ file' = W.target
      <3>1. W.target \in Document /\ W.target \in Results(Answer, W.maxEntries)
        BY <1>1, <1>5, <2>3 DEF Prepared, Faithful
      <3>2. Contents(file') = W.target
        BY <1>1, <2>3, <3>1, NoValue
      <3> QED
        BY <3>1, <3>2 DEF W
    <2> QED
      BY <1>2, <2>1, <2>2, <2>3
  <1>6. overtaken' = {}
    BY <1>1, <1>2
  <1> QED
    BY <1>2, <1>3, <1>4, <1>5, <1>6, StoreFacts, StoreBecomes

LEMMA HistoryKeeps == HistoryInv /\ [HistoryNext]_historyVars => HistoryInv'
  <1> SUFFICES ASSUME HistoryInv, [HistoryNext]_historyVars PROVE HistoryInv'
    OBVIOUS
  <1>1. CASE HistoryNext
    <2>1. \A w \in Window : w = TheWindow
      BY StoreFacts
    <2> QED
      BY <1>1, <2>1, EnqueueKeeps, StartTaskKeeps, LoadKeeps, TaskQuarantinesKeeps,
         WriteKeeps, FailureKeeps, ListingKeeps, ListQuarantinesKeeps, ListCompletesKeeps,
         ReopenKeeps DEF HistoryNext, TaskStep, ListStep
  <1>2. CASE UNCHANGED historyVars
    BY <1>2 DEF historyVars, HistoryInv, Given, FileHistoryStoreAssumption,
       OneWindow, HistoryTypeOK, Prepared, NothingToLose, Faithful, Answer, Visible,
       Contents
  <1> QED
    BY <1>1, <1>2

LEMMA HistoryStarts == Given /\ HistoryInit => HistoryInv
  <1> SUFFICES ASSUME Given, HistoryInit PROVE HistoryInv
    OBVIOUS
  <1>1. Window = {TheWindow} /\ TheWindow \in Window
    BY NoValue
  <1>2. \A n \in Caps : Fresh(n) \in Store
    BY DEF Fresh, Store, Phase
  <1>3. windows \in [Window -> Store] /\ \E n \in Caps : windows[TheWindow] = Fresh(n)
    BY <1>1, <1>2 DEF HistoryInit
  <1>4. file \in {Missing, Corrupt} \union Document
    <2>1. \A e \in Entry : <<e>> \in Seq(Entry)
      OBVIOUS
    <2>2. file \in {Missing, Corrupt} \/ \E e \in Entry : file = <<e>>
      BY DEF HistoryInit
    <2> QED
      BY <2>1, <2>2 DEF Document
  <1>5. issued \in Document /\ overtaken = {}
    BY <1>4, NoValue DEF HistoryInit
  <1>6. HistoryTypeOK
    BY <1>3, <1>4, <1>5, TypesAre
  <1>7. /\ Prepared(windows[TheWindow]) /\ NothingToLose(windows[TheWindow])
        /\ Faithful(windows[TheWindow])
    BY <1>3 DEF Fresh, Prepared, NothingToLose, Faithful
  <1> QED
    BY <1>6, <1>7 DEF HistoryInv

LEMMA HistoryInvariant == HistorySpec => []HistoryInv
  <1>1. Given
    BY FileHistoryStoreAssumption, OneWindow DEF Given
  <1> QED
    BY <1>1, HistoryStarts, HistoryKeeps, PTL DEF HistorySpec

(* The types of the file, the caches and the queues.                        *)
THEOREM HistoryTypeCorrect == HistorySpec => []HistoryTypeOK
  <1>1. HistoryInv => HistoryTypeOK
    BY DEF HistoryInv
  <1> QED
    BY <1>1, HistoryInvariant, PTL

(* With one window, whatever is queued, fails, is torn or is read beside the *)
(* queue: a loaded cache is the document on disk, unless such a read         *)
(* completed after a newer write, or moved its document away for a damaged   *)
(* one, or a failed write damaged the file.                                  *)
THEOREM CacheIsTheFile == HistorySpec => []CacheMirrorsFile
  <1>1. HistoryInv => CacheMirrorsFile
    <2> SUFFICES ASSUME HistoryInv, NEW w \in Window \ overtaken, windows[w].cache # Unloaded
                 PROVE  file = Corrupt \/ windows[w].cache = Contents(file)
      BY DEF CacheMirrorsFile
    <2>1. w = TheWindow /\ overtaken = {}
      BY StoreFacts
    <2> QED
      BY <2>1 DEF HistoryInv, Faithful
  <1> QED
    BY <1>1, HistoryInvariant, PTL

(* The store implements the log of entries HistoryRepository promises, for   *)
(* any entries, caps and queue: until a read beside the queue completes, or  *)
(* moves a file away, after a newer write, each step is one of the log or    *)
(* none.                                                                     *)
THEOREM StoreImplementsLog == HistorySpec => ImplementsHistoryLog
  <1>1. Given
    BY FileHistoryStoreAssumption, OneWindow DEF Given
  <1>2. HistoryInv /\ [HistoryNext]_historyVars =>
          [LogStep]_<<Visible(TheWindow), windows[TheWindow].maxEntries>>
    <2> SUFFICES ASSUME HistoryInv, [HistoryNext]_historyVars
                 PROVE  LogStep \/ UNCHANGED <<Visible(TheWindow), windows[TheWindow].maxEntries>>
      OBVIOUS
    <2>1. CASE HistoryNext
      <3>1. \A w \in Window : w = TheWindow
        BY StoreFacts
      <3> QED
        BY <2>1, <3>1, EnqueueKeeps, StartTaskKeeps, LoadKeeps, TaskQuarantinesKeeps,
           WriteKeeps, FailureKeeps, ListingKeeps, ListQuarantinesKeeps, ListCompletesKeeps,
           ReopenKeeps DEF HistoryNext, TaskStep, ListStep
    <2>2. CASE UNCHANGED historyVars
      BY <2>2 DEF historyVars, Visible, Contents
    <2> QED
      BY <2>1, <2>2
  <1>3. Given /\ HistoryInit => Log!Init
    <2> SUFFICES ASSUME Given, HistoryInit PROVE Log!Init
      OBVIOUS
    <2>1. HistoryInv
      BY HistoryStarts
    <2>2. Answer \in Seq(Entry) /\ windows[TheWindow].maxEntries \in Caps
      BY <2>1, StoreFacts DEF Document, Store
    <2> QED
      BY <2>2 DEF Log!Init, Answer
  <1> QED
    BY <1>1, <1>2, <1>3, HistoryInvariant, PTL
       DEF HistorySpec, ImplementsHistoryLog, LogStep

=============================================================================
