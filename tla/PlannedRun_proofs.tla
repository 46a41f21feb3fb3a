----------------------------- MODULE PlannedRun_proofs -----------------------------
(***************************************************************************)
(* Proofs about a collection run, for plans of any size, any retry policy   *)
(* and any behaviour of the attempts: about the planner on its own, about   *)
(* the runner on its own, and about the run that composes them.             *)
(*                                                                          *)
(* The planner. The search leaves a node only after its successors, unless  *)
(* it has found a cycle; so when it found none, the last node it left of    *)
(* any set has no predecessor in that set, which is to say that the graph   *)
(* is acyclic. Kahn's algorithm then never runs dry before the end.         *)
(*                                                                          *)
(* The runner. What is said of commits rests on the two retry answers       *)
(* agreeing: an attempt commits exactly when it is the last of its request. *)
(* They agree whatever the response, by cases on what the assertion engine  *)
(* and the GraphQL envelope said.                                           *)
(*                                                                          *)
(* The run. The order hands the runner every member once (a surjection      *)
(* between finite sets of one size), and no producer of what a request      *)
(* needs comes after it, so what was missing when it was skipped stays      *)
(* missing.                                                                 *)
(***************************************************************************)
EXTENDS PlannedRun, FiniteSetTheorems, TLAPS

LEMMA MembersAreNaturals == Size \in Nat /\ Members \subseteq Nat
  BY PlanningAssumption DEF Members

(* A set of natural numbers that is not empty has a least element. *)
LEMMA LeastElement ==
  ASSUME NEW S \in SUBSET Nat, S # {}
  PROVE  \E n \in S : \A m \in S : n <= m
  <1>1. \E n \in S : \A m \in S : ~(<<m, n>> \in OpToRel(<, Nat))
    BY NatLessThanWellFounded, WFMin
  <1>2. PICK n \in S : \A m \in S : ~(<<m, n>> \in OpToRel(<, Nat))
    BY <1>1
  <1>3. \A m \in S : m < n => <<m, n>> \in OpToRel(<, Nat)
    BY DEF OpToRel
  <1>4. \A m \in S : ~(m < n)
    BY <1>2, <1>3
  <1>5. \A m \in S : m \in Nat /\ n \in Nat
    OBVIOUS
  <1>6. \A m \in S : n <= m
    BY <1>4, <1>5
  <1> QED
    BY <1>6

(* A set of positions that is not empty has a last one. *)
LEMMA LastPosition ==
  ASSUME NEW k \in Nat, NEW S \in SUBSET (1..k), S # {}
  PROVE  \E n \in S : \A m \in S : m <= n
  <1> DEFINE T == {k - i : i \in S}
  <1>0. \A i \in S : i \in 1..k /\ k - i \in Nat
    OBVIOUS
  <1>1. T \in SUBSET Nat /\ T # {}
    BY <1>0, Zenon
  <1>2. PICK t \in T : \A u \in T : t <= u
    BY <1>1, LeastElement
  <1>3. PICK n \in S : t = k - n
    BY <1>2
  <1>4. \A m \in S : t <= k - m
    BY <1>2
  <1>5. \A m \in S : m <= n
    BY <1>0, <1>3, <1>4
  <1> QED
    BY <1>5

(* The head of a list kept in ordinal order is its least member. *)
LEMMA FirstIsLeast ==
  ASSUME NEW S \in SUBSET Members, S # {}
  PROVE  first(S) \in S /\ \A m \in S : first(S) <= m
  <1>1. \E n \in S : \A m \in S : n <= m
    BY MembersAreNaturals, LeastElement
  <1> QED
    BY <1>1 DEF first

(* A sequence with one more element. *)
LEMMA AppendIs ==
  ASSUME NEW S, NEW s \in Seq(S), NEW e \in S
  PROVE  /\ Append(s, e) \in Seq(S) /\ Len(Append(s, e)) = Len(s) + 1
         /\ DOMAIN Append(s, e) = 1..(Len(s) + 1)
         /\ Append(s, e)[Len(s) + 1] = e
         /\ \A k \in 1..Len(s) : Append(s, e)[k] = s[k]
  OBVIOUS

-----------------------------------------------------------------------------
(* What the search knows of the nodes it left and of those it is in. *)
LeftAfterSuccessors ==
  cycles = {} => \A j \in DOMAIN done : \A s \in successors(done[j]) :
                   \E i \in DOMAIN done : i < j /\ done[i] = s

TriedOrTodo ==
  cycles = {} =>
    \A k \in DOMAIN stack : \A s \in successors(stack[k].node) :
      \/ s \in stack[k].todo \/ s \in Done
      \/ k < Len(stack) /\ s = stack[k + 1].node

StackIsPath ==
  /\ \A k \in DOMAIN stack : stack[k].todo \subseteq successors(stack[k].node)
  /\ \A k \in 1..(Len(stack) - 1) : stack[k + 1].node \in successors(stack[k].node)

VisitedOnce ==
  /\ \A i, j \in DOMAIN done : done[i] = done[j] => i = j
  /\ \A i, j \in DOMAIN stack : stack[i].node = stack[j].node => i = j
  /\ InStack \cap Done = {}

CyclesAreClosed == \A c \in cycles : ClosedPath(c)

Search ==
  phase # "build" =>
    LeftAfterSuccessors /\ TriedOrTodo /\ StackIsPath /\ VisitedOnce /\ CyclesAreClosed

Before ==
  /\ phase = "build" => stack = <<>> /\ done = <<>> /\ cycles = {}
  /\ phase \in {"build", "search"} => order = <<>>
  /\ refusal = "DEPENDENCY_CYCLE" => phase = "refused" /\ cycles # {}

(* What the sort knows of the nodes it scheduled and of the others. *)
Scheduled == Range(order)

ProducersFirst ==
  \A j \in DOMAIN order : \A e \in into(order[j]) : \E i \in DOMAIN order : i < j /\ order[i] = e.from

OrderedOnce == \A i, j \in DOMAIN order : order[i] = order[j] => i = j

Ties ==
  \A i \in DOMAIN order :
    \A n \in Members \ {order[k] : k \in 1..(i - 1)} :
      (\A e \in into(n) : e.from \in {order[k] : k \in 1..(i - 1)}) => order[i] <= n

Sorting ==
  /\ phase \in {"sort", "planned"} => Acyclic /\ ProducersFirst /\ OrderedOnce /\ Ties
  /\ phase = "sort" =>
       /\ \A n \in Members : blocked[n] = {e \in into(n) : e.from \notin Scheduled}
       /\ ready = {n \in Members \ Scheduled : blocked[n] = {}}
  /\ phase = "planned" => Members \subseteq Scheduled

Inv == TypeOK /\ Before /\ Search /\ Sorting

-----------------------------------------------------------------------------
(* A closed path is a set of members each of which follows another of them. *)
LEMMA ClosedPathIsCycle ==
  ASSUME NEW c \in Seq(Members), ClosedPath(c), edges \subseteq Edge
  PROVE  ~Acyclic
  <1> DEFINE S == {c[i] : i \in 1..Len(c)}
  <1>1. Len(c) \in Nat /\ Len(c) > 1 /\ c[1] = c[Len(c)]
    BY DEF ClosedPath
  <1>2. S \in SUBSET Members /\ c[1] \in S
    BY <1>1
  <1>3. ASSUME NEW n \in S
        PROVE  \E e \in into(n) : e.from \in S
    <2>1. PICK i \in 2..Len(c) : n = c[i]
      <3>1. PICK i \in 1..Len(c) : n = c[i]
        BY <1>3
      <3>2. CASE i = 1
        BY <1>1, <3>1, <3>2
      <3>3. CASE i # 1
        BY <1>1, <3>1, <3>3
      <3> QED
        BY <3>2, <3>3
    <2>2. i - 1 \in 1..(Len(c) - 1) /\ (i - 1) + 1 = i
      BY <1>1, <2>1
    <2>3. n \in successors(c[i - 1])
      BY <2>1, <2>2 DEF ClosedPath
    <2>4. PICK e \in edges : e.from = c[i - 1] /\ e.to = n
      BY <2>3 DEF successors
    <2>5. c[i - 1] \in S
      BY <1>1, <2>2
    <2> QED
      BY <2>4, <2>5 DEF into
  <1> QED
    BY <1>2, <1>3 DEF Acyclic

(* When every node was left after its successors, the one of a set that was *)
(* left last is preceded by none of that set.                               *)
LEMMA SearchedIsAcyclic ==
  ASSUME TypeOK, LeftAfterSuccessors, VisitedOnce, cycles = {}, Members \subseteq Done
  PROVE  Acyclic
  <1> SUFFICES ASSUME NEW S \in SUBSET Members, S # {}
               PROVE  \E n \in S : \A e \in into(n) : e.from \notin S
    BY DEF Acyclic
  <1> DEFINE P == {i \in 1..Len(done) : done[i] \in S}
  <1>1. done \in Seq(Members) /\ Len(done) \in Nat /\ DOMAIN done = 1..Len(done)
    BY DEF TypeOK
  <1>2. \A n \in Members : \E i \in 1..Len(done) : done[i] = n
    BY <1>1 DEF Done, Range
  <1>3. P # {} /\ P \in SUBSET (1..Len(done))
    BY <1>2
  <1>4. PICK k \in P : \A m \in P : m <= k
    BY <1>1, <1>3, LastPosition
  <1>5. ASSUME NEW e \in into(done[k]), e.from \in S
        PROVE  FALSE
    <2>1. PICK j \in P : done[j] = e.from
      BY <1>2, <1>5
    <2>2. done[k] \in successors(done[j])
      BY <1>5, <2>1 DEF into, successors
    <2>3. PICK i \in 1..Len(done) : i < j /\ done[i] = done[k]
      BY <1>1, <2>2 DEF LeftAfterSuccessors
    <2>4. i = k
      BY <1>1, <2>3 DEF VisitedOnce
    <2> QED
      BY <1>1, <1>4, <2>1, <2>3, <2>4
  <1> QED
    BY <1>4, <1>5

-----------------------------------------------------------------------------
(* What follows from a node is a set of members. *)
LEMMA Neighbours ==
  ASSUME TypeOK
  PROVE  /\ \A n \in Members : successors(n) \subseteq Members /\ frame(n) \in Frame
         /\ \A n \in Members : into(n) \subseteq Edge
  BY DEF TypeOK, successors, frame, Frame, into, Edge

(* A step that keeps the edges keeps who follows whom. *)
LEMMA NeighboursKept ==
  ASSUME UNCHANGED edges
  PROVE  \A n : successors(n)' = successors(n) /\ into(n)' = into(n)
  BY DEF successors, into

(* The edges of a plan connect members of it. *)
LEMMA EdgesOfPlan ==
  ASSUME NEW p \in Plan(Members)
  PROVE  edgesOf(p) \subseteq Edge
  <1>1. DOMAIN p.label = Members
    BY DEF Plan
  <1> QED
    BY <1>1 DEF edgesOf, implicitEdges, explicitEdges, members, Edge

(* The graph is built, or the plan is refused, before the search begins. *)
LEMMA BuildKeeps ==
  ASSUME Inv, Build \/ Unresolved
  PROVE  Inv'
  <1>1. CASE Build
    <2>1. edges' \subseteq Edge
      BY <1>1, EdgesOfPlan DEF Build, Inv, TypeOK
    <2>2. TypeOK'
      BY <1>1, <2>1 DEF Build, Inv, TypeOK, Phase
    <2>3. stack = <<>> /\ done = <<>> /\ cycles = {} /\ order = <<>>
      BY <1>1 DEF Build, Inv, Before
    <2>4. Before' /\ Sorting'
      BY <1>1, <2>3 DEF Build, Inv, Before, Sorting
    <2>5. Search'
      BY <1>1, <2>3 DEF Build, Search, LeftAfterSuccessors, TriedOrTodo, StackIsPath,
                        VisitedOnce, CyclesAreClosed, InStack, Done, Range
    <2> QED
      BY <2>2, <2>4, <2>5 DEF Inv
  <1>2. CASE Unresolved
    <2>1. /\ phase' = "refused" /\ refusal' \in {"UNKNOWN_DEPENDS_ON_TARGET", "AMBIGUOUS_DEPENDS_ON"}
          /\ UNCHANGED <<plan, edges, stack, done, cycles, blocked, ready, order>>
      BY <1>2 DEF Unresolved, Refuse
    <2>2. stack = <<>> /\ done = <<>> /\ cycles = {} /\ order = <<>>
      BY <1>2 DEF Unresolved, Inv, Before
    <2>3. TypeOK'
      BY <2>1 DEF Inv, TypeOK, Phase, Refusal
    <2>4. Before' /\ Sorting'
      BY <2>1, <2>2 DEF Before, Sorting
    <2>5. Search'
      BY <2>1, <2>2 DEF Search, LeftAfterSuccessors, TriedOrTodo, StackIsPath,
                        VisitedOnce, CyclesAreClosed, InStack, Done, Range
    <2> QED
      BY <2>3, <2>4, <2>5 DEF Inv
  <1> QED
    BY <1>1, <1>2

(* A root is entered when no node is in the stack. *)
LEMMA EnterKeeps ==
  ASSUME Inv, Enter
  PROVE  Inv'
  <1> DEFINE n == first(Unvisited)
  <1>1. n \in Members /\ n \notin Done
    <2>1. Unvisited \in SUBSET Members /\ Unvisited # {}
      BY DEF Enter, Unvisited
    <2> QED
      BY <2>1, FirstIsLeast DEF Unvisited
  <1>2. /\ phase = "search" /\ stack = <<>> /\ stack' = <<frame(n)>>
        /\ UNCHANGED <<plan, phase, refusal, edges, done, cycles, blocked, ready, order>>
    BY DEF Enter
  <1>3. frame(n) \in Frame /\ frame(n).node = n /\ frame(n).todo = successors(n)
    BY <1>1, Neighbours DEF Inv, frame
  <1>4. TypeOK'
    BY <1>2, <1>3 DEF Inv, TypeOK
  <1>5. Before' /\ Sorting'
    BY <1>2 DEF Inv, Before, Sorting
  <1>6. DOMAIN stack' = {1} /\ stack'[1] = frame(n) /\ Len(stack') = 1
    BY <1>2, <1>3
  <1>7. LeftAfterSuccessors' /\ CyclesAreClosed'
    BY <1>2 DEF Inv, Search, LeftAfterSuccessors, CyclesAreClosed, ClosedPath, successors
  <1>8. TriedOrTodo' /\ StackIsPath'
    BY <1>2, <1>3, <1>6, NeighboursKept DEF TriedOrTodo, StackIsPath
  <1>9. InStack' = {n} /\ Done' = Done
    BY <1>2, <1>3, <1>6 DEF InStack, Done
  <1>10. VisitedOnce'
    BY <1>1, <1>2, <1>6, <1>9 DEF Inv, Search, VisitedOnce
  <1> QED
    BY <1>4, <1>5, <1>7, <1>8, <1>10 DEF Inv, Search

-----------------------------------------------------------------------------
(* The stack when one successor of its top has been tried. *)
Tried(next) == Append(below, [top EXCEPT !.todo = @ \ {next}])

LEMMA BelowIs ==
  ASSUME TypeOK, stack # <<>>
  PROVE  /\ Len(stack) \in Nat \ {0} /\ top \in Frame
         /\ below \in Seq(Frame) /\ Len(below) = Len(stack) - 1
         /\ \A k \in 1..(Len(stack) - 1) : below[k] = stack[k]
  <1>1. stack \in Seq(Frame) /\ Len(stack) \in Nat \ {0} /\ DOMAIN stack = 1..Len(stack)
    BY DEF TypeOK
  <1>2. top \in Frame
    BY <1>1 DEF top
  <1>3. \A i \in 1..(Len(stack) - 1) : stack[i] \in Frame
    BY <1>1
  <1>4. below = [i \in 1..(Len(stack) - 1) |-> stack[i]]
    BY <1>1 DEF below
  <1>5. below \in Seq(Frame) /\ Len(below) = Len(stack) - 1
    BY <1>1, <1>3, <1>4
  <1> QED
    BY <1>1, <1>2, <1>4, <1>5

LEMMA TriedIs ==
  ASSUME TypeOK, stack # <<>>, NEW next \in top.todo
  PROVE  /\ Tried(next) \in Seq(Frame) /\ Len(Tried(next)) = Len(stack)
         /\ \A k \in 1..Len(stack) :
              /\ Tried(next)[k].node = stack[k].node
              /\ Tried(next)[k].todo = IF k = Len(stack) THEN stack[k].todo \ {next}
                                       ELSE stack[k].todo
  <1> DEFINE f == [top EXCEPT !.todo = @ \ {next}]
  <1>1. f \in Frame /\ f.node = top.node /\ f.todo = top.todo \ {next}
    BY BelowIs DEF Frame
  <1>2. Tried(next) = Append(below, f)
    BY DEF Tried
  <1> HIDE DEF f
  <1>3. /\ Tried(next) \in Seq(Frame) /\ Len(Tried(next)) = Len(stack)
        /\ Tried(next)[Len(stack)] = f
        /\ \A k \in 1..(Len(stack) - 1) : Tried(next)[k] = stack[k]
    BY <1>1, <1>2, BelowIs
  <1>4. ASSUME NEW k \in 1..Len(stack)
        PROVE  /\ Tried(next)[k].node = stack[k].node
               /\ Tried(next)[k].todo = IF k = Len(stack) THEN stack[k].todo \ {next}
                                        ELSE stack[k].todo
    <2>1. CASE k = Len(stack)
      BY <1>1, <1>3, <2>1 DEF top
    <2>2. CASE k # Len(stack)
      BY <1>3, <2>2, BelowIs
    <2> QED
      BY <2>1, <2>2
  <1> QED
    BY <1>3, <1>4

(* The path the search reports leads back to where it starts. *)
LEMMA PathIsClosed ==
  ASSUME Inv, phase = "search", stack # <<>>, NEW next \in top.todo, next \in InStack
  PROVE  pathFrom(next) \in Seq(Members) /\ ClosedPath(pathFrom(next))
  <1> DEFINE start == CHOOSE i \in DOMAIN stack : stack[i].node = next
             N == Len(stack)
             front == [i \in 1..(N - start + 1) |-> stack[start + i - 1].node]
  <1>1. stack \in Seq(Frame) /\ N \in Nat \ {0} /\ DOMAIN stack = 1..N
    BY BelowIs DEF Inv, TypeOK
  <1>2. start \in 1..N /\ stack[start].node = next
    BY <1>1 DEF InStack
  <1>3. pathFrom(next) = Append(front, next)
    BY DEF pathFrom
  <1> HIDE DEF start
  <1>4. \A i \in 1..(N - start + 1) : start + i - 1 \in 1..N
    BY <1>1, <1>2
  <1>5. \A i \in 1..N : stack[i].node \in Members
    <2>1. \A i \in 1..N : stack[i] \in Frame
      BY <1>1
    <2> QED
      BY <2>1 DEF Frame
  <1>6. front \in Seq(Members) /\ Len(front) = N - start + 1
    BY <1>1, <1>2, <1>4, <1>5
  <1>7. next \in Members
    BY <1>2, <1>5
  <1>8. /\ pathFrom(next) \in Seq(Members) /\ Len(pathFrom(next)) = N - start + 2
        /\ pathFrom(next)[N - start + 2] = next
        /\ \A i \in 1..(N - start + 1) : pathFrom(next)[i] = stack[start + i - 1].node
    <2> HIDE DEF front
    <2>1. \A i \in 1..(N - start + 1) : front[i] = stack[start + i - 1].node
      BY DEF front
    <2>2. pathFrom(next) \in Seq(Members) /\ Len(pathFrom(next)) = Len(front) + 1
      BY <1>3, <1>6, <1>7
    <2>3. /\ pathFrom(next)[Len(front) + 1] = next
          /\ \A i \in 1..Len(front) : pathFrom(next)[i] = front[i]
      BY <1>3, <1>6, <1>7
    <2>4. Len(front) + 1 = N - start + 2
      BY <1>1, <1>2, <1>6
    <2> QED
      BY <1>6, <2>1, <2>2, <2>3, <2>4
  <1>9. pathFrom(next)[1] = next
    BY <1>1, <1>2, <1>8
  <1>10. ASSUME NEW i \in 1..(N - start + 1)
         PROVE  pathFrom(next)[i + 1] \in successors(pathFrom(next)[i])
    <2>1. CASE i = N - start + 1
      <3>1. next \in successors(stack[N].node)
        BY <1>1 DEF Inv, Search, StackIsPath, top
      <3>2. pathFrom(next)[i + 1] = next /\ pathFrom(next)[i] = stack[N].node
        BY <1>1, <1>2, <1>8, <2>1
      <3> QED
        BY <3>1, <3>2
    <2>2. CASE i # N - start + 1
      <3>1. start + i - 1 \in 1..(N - 1) /\ i + 1 \in 1..(N - start + 1)
        BY <1>1, <1>2, <2>2
      <3>2. stack[(start + i - 1) + 1].node \in successors(stack[start + i - 1].node)
        BY <3>1 DEF Inv, Search, StackIsPath
      <3>3. (start + i - 1) + 1 = start + (i + 1) - 1
        BY <1>2, <3>1
      <3> QED
        BY <1>8, <3>1, <3>2, <3>3
    <2> QED
      BY <2>1, <2>2
  <1>11. Len(pathFrom(next)) > 1 /\ Len(pathFrom(next)) - 1 = N - start + 1
    BY <1>1, <1>2, <1>8
  <1> QED
    BY <1>8, <1>9, <1>10, <1>11 DEF ClosedPath

(* A successor that was left before is merely crossed off; one that is in    *)
(* the stack closes a cycle; another one is entered.                         *)
LEMMA TrySuccessorKeeps ==
  ASSUME Inv, TrySuccessor
  PROVE  Inv'
  <1>1. /\ phase = "search" /\ stack # <<>>
        /\ UNCHANGED <<plan, phase, refusal, edges, done, blocked, ready, order>>
    BY DEF TrySuccessor
  <1>2. PICK next \in top.todo :
          /\ stack' = IF next \in Unvisited THEN Append(Tried(next), frame(next)) ELSE Tried(next)
          /\ cycles' = IF next \in InStack /\ \A c \in cycles : Range(c) # Range(pathFrom(next))
                       THEN cycles \cup {pathFrom(next)} ELSE cycles
    BY DEF TrySuccessor, Tried
  <1> DEFINE N == Len(stack)
             rest == Tried(next)
  <1>3. /\ N \in Nat \ {0} /\ top \in Frame /\ DOMAIN stack = 1..N
        /\ stack \in Seq(Frame) /\ done \in Seq(Members) /\ top = stack[N]
    BY <1>1, BelowIs DEF Inv, TypeOK, top
  <1>4. /\ rest \in Seq(Frame) /\ Len(rest) = N /\ DOMAIN rest = 1..N
        /\ \A k \in 1..N : /\ rest[k].node = stack[k].node
                           /\ rest[k].todo = IF k = N THEN stack[k].todo \ {next} ELSE stack[k].todo
    <2>1. TypeOK
      BY DEF Inv
    <2>2. /\ rest \in Seq(Frame) /\ Len(rest) = N
          /\ \A k \in 1..N : /\ rest[k].node = stack[k].node
                             /\ rest[k].todo = IF k = N THEN stack[k].todo \ {next} ELSE stack[k].todo
      BY <1>1, <2>1, TriedIs
    <2>3. DOMAIN rest = 1..N
      BY <2>2
    <2> QED
      BY <2>2, <2>3
  <1>5. next \in successors(top.node) /\ next \in Members /\ top.node \in Members
    BY <1>1, <1>3, Neighbours DEF Inv, Search, StackIsPath, Frame
  <1>6. \A n : successors(n)' = successors(n) /\ into(n)' = into(n)
    BY <1>1, NeighboursKept
  <1>7. LeftAfterSuccessors /\ TriedOrTodo /\ StackIsPath /\ VisitedOnce /\ CyclesAreClosed
    BY <1>1 DEF Inv, Search
  <1>8. cycles' = {} => cycles = {}
    BY <1>2
  <1>9. Done' = Done
    BY <1>1 DEF Done
  <1>10. LeftAfterSuccessors'
    BY <1>1, <1>6, <1>7, <1>8 DEF LeftAfterSuccessors
  <1>11. cycles' \subseteq Seq(Members) /\ CyclesAreClosed'
    <2>1. \A c \in cycles' : c \in Seq(Members) /\ ClosedPath(c)
      BY <1>1, <1>2, <1>7, PathIsClosed DEF Inv, TypeOK, CyclesAreClosed
    <2>2. \A c : ClosedPath(c)' <=> ClosedPath(c)
      BY <1>6 DEF ClosedPath
    <2> QED
      BY <2>1, <2>2 DEF CyclesAreClosed
  <1>12. Before' /\ Sorting'
    BY <1>1 DEF Inv, Before, Sorting
  <1> HIDE DEF rest
  <1>13. /\ \A k \in 1..N : rest[k].todo \subseteq successors(rest[k].node)
         /\ \A k \in 1..(N - 1) : rest[k + 1].node \in successors(rest[k].node)
    <2>1. ASSUME NEW k \in 1..N
          PROVE  rest[k].todo \subseteq successors(rest[k].node)
      BY <1>3, <1>4, <1>7, <2>1 DEF StackIsPath
    <2>2. ASSUME NEW k \in 1..(N - 1)
          PROVE  rest[k + 1].node \in successors(rest[k].node)
      <3>1. k \in 1..N /\ k + 1 \in 1..N
        BY <1>3, <2>2
      <3> QED
        BY <1>4, <1>7, <2>2, <3>1 DEF StackIsPath
    <2> QED
      BY <2>1, <2>2
  <1>14. ASSUME cycles = {}, NEW k \in 1..N, NEW s \in successors(rest[k].node)
         PROVE  \/ s \in rest[k].todo \/ s \in Done
                \/ k < N /\ s = rest[k + 1].node
                \/ k = N /\ s = next
    <2>1. \/ s \in stack[k].todo \/ s \in Done
          \/ k < N /\ s = stack[k + 1].node
      BY <1>3, <1>4, <1>7, <1>14 DEF TriedOrTodo
    <2>2. CASE s \in stack[k].todo
      BY <1>4, <2>2
    <2>3. CASE k < N /\ s = stack[k + 1].node
      <3>1. k + 1 \in 1..N
        BY <1>3, <2>3
      <3> QED
        BY <1>4, <2>3, <3>1
    <2> QED
      BY <2>1, <2>2, <2>3
  <1>15. /\ InStack = {rest[k].node : k \in 1..N}
         /\ \A i, j \in 1..N : rest[i].node = rest[j].node => i = j
    <2>1. InStack = {stack[k].node : k \in 1..N}
      BY <1>3 DEF InStack
    <2>2. {stack[k].node : k \in 1..N} = {rest[k].node : k \in 1..N}
      BY <1>4
    <2>3. \A i, j \in 1..N : rest[i].node = rest[j].node => i = j
      BY <1>3, <1>4, <1>7 DEF VisitedOnce
    <2> QED
      BY <2>1, <2>2, <2>3
  <1>16. CASE next \notin Unvisited
    <2>1. stack' = rest /\ DOMAIN stack' = 1..N /\ Len(stack') = N
      BY <1>2, <1>4, <1>16 DEF rest
    <2>2. TypeOK'
      BY <1>1, <1>4, <1>11, <2>1 DEF Inv, TypeOK
    <2>3. InStack' = InStack
      BY <1>15, <2>1 DEF InStack
    <2>4. StackIsPath'
      BY <1>6, <1>13, <2>1 DEF StackIsPath
    <2>5. VisitedOnce'
      BY <1>1, <1>7, <1>9, <1>15, <2>1, <2>3 DEF VisitedOnce
    <2>6. cycles' = {} => next \in Done
      <3>1. next \in InStack => cycles' # {}
        BY <1>2
      <3> QED
        BY <1>5, <1>16, <3>1 DEF Unvisited
    <2>7. TriedOrTodo'
      <3> SUFFICES ASSUME cycles' = {}, NEW k \in 1..N, NEW s \in successors(rest[k].node)
                   PROVE  \/ s \in rest[k].todo \/ s \in Done
                          \/ k < N /\ s = rest[k + 1].node
        BY <1>6, <1>9, <2>1 DEF TriedOrTodo
      <3> QED
        BY <1>8, <1>14, <2>6
    <2> QED
      BY <1>10, <1>11, <1>12, <2>2, <2>4, <2>5, <2>7 DEF Inv, Search
  <1>17. CASE next \in Unvisited
    <2>1. stack' = Append(rest, frame(next)) /\ cycles' = cycles
      BY <1>2, <1>17 DEF rest, Unvisited
    <2>2. frame(next) \in Frame /\ frame(next).node = next /\ frame(next).todo = successors(next)
      BY <1>5, Neighbours DEF Inv, frame
    <2>3. /\ stack' \in Seq(Frame) /\ Len(stack') = N + 1
          /\ stack'[N + 1] = frame(next)
          /\ \A k \in 1..N : stack'[k] = rest[k]
      <3> DEFINE fr == frame(next)
      <3>1. fr \in Frame /\ rest \in Seq(Frame) /\ Len(rest) = N
        BY <1>4, <2>2
      <3> HIDE DEF fr
      <3>2. /\ Append(rest, fr) \in Seq(Frame) /\ Len(Append(rest, fr)) = N + 1
            /\ Append(rest, fr)[N + 1] = fr
            /\ \A k \in 1..N : Append(rest, fr)[k] = rest[k]
        BY <3>1, AppendIs
      <3> QED
        BY <2>1, <3>2 DEF fr
    <2>4. DOMAIN stack' = 1..(N + 1)
      BY <2>3
    <2>5. TypeOK'
      BY <1>1, <1>11, <2>3 DEF Inv, TypeOK
    <2>6. next \notin InStack /\ next \notin Done
      BY <1>17 DEF Unvisited
    <2>7. \A k \in 1..(N + 1) : k \in 1..N \/ k = N + 1
      BY <1>3
    <2>8. InStack' = InStack \cup {next}
      <3>1. InStack' = {stack'[k].node : k \in 1..(N + 1)}
        BY <2>4 DEF InStack
      <3>2. 1..(N + 1) = (1..N) \cup {N + 1}
        BY <1>3
      <3> QED
        BY <1>15, <2>2, <2>3, <3>1, <3>2
    <2>9. VisitedOnce'
      <3>1. \A i \in 1..N : stack'[i].node # next
        BY <1>15, <2>3, <2>6
      <3>2. \A i, j \in 1..(N + 1) : stack'[i].node = stack'[j].node => i = j
        BY <1>15, <2>2, <2>3, <2>7, <3>1
      <3> QED
        BY <1>1, <1>7, <1>9, <2>4, <2>6, <2>8, <3>2 DEF VisitedOnce
    <2>10. StackIsPath'
      <3>1. ASSUME NEW k \in 1..(N + 1)
            PROVE  stack'[k].todo \subseteq successors(stack'[k].node)
        BY <1>13, <2>2, <2>3, <2>7, <3>1
      <3>2. rest[N].node = top.node
        <4>1. N \in 1..N
          BY <1>3
        <4> QED
          BY <1>3, <1>4, <4>1
      <3>3. ASSUME NEW k \in 1..N
            PROVE  stack'[k + 1].node \in successors(stack'[k].node)
        <4>1. CASE k = N
          BY <1>3, <1>5, <2>2, <2>3, <3>2, <4>1
        <4>2. CASE k # N
          <5>0. N \in Nat
            BY <1>3
          <5>1. k \in 1..(N - 1) /\ k + 1 \in 1..N
            BY <3>3, <4>2, <5>0
          <5> QED
            BY <1>13, <2>3, <5>1
        <4> QED
          BY <4>1, <4>2
      <3>4. Len(stack') - 1 = N
        BY <1>3, <2>3
      <3> QED
        BY <1>6, <2>4, <3>1, <3>3, <3>4 DEF StackIsPath
    <2>11. TriedOrTodo'
      <3> SUFFICES ASSUME cycles = {}, NEW k \in 1..(N + 1), NEW s \in successors(stack'[k].node)
                   PROVE  \/ s \in stack'[k].todo \/ s \in Done
                          \/ k < N + 1 /\ s = stack'[k + 1].node
        BY <1>6, <1>8, <1>9, <2>3, <2>4 DEF TriedOrTodo
      <3>1. CASE k = N + 1
        BY <2>2, <2>3, <3>1
      <3>2. CASE k \in 1..N
        <4>1. k < N + 1 /\ (k < N => k + 1 \in 1..N)
          BY <1>3, <3>2
        <4> QED
          BY <1>14, <2>2, <2>3, <3>2, <4>1
      <3> QED
        BY <2>7, <3>1, <3>2
    <2> QED
      BY <1>10, <1>11, <1>12, <2>5, <2>9, <2>10, <2>11 DEF Inv, Search
  <1> QED
    BY <1>16, <1>17

(* A node is left when none of its successors remains to be tried. *)
LEMMA LeaveKeeps ==
  ASSUME Inv, Leave
  PROVE  Inv'
  <1> DEFINE N == Len(stack)
             M == Len(done)
             n == top.node
  <1>1. /\ phase = "search" /\ stack # <<>> /\ top.todo = {}
        /\ done' = Append(done, n) /\ stack' = below
        /\ UNCHANGED <<plan, phase, refusal, edges, cycles, blocked, ready, order>>
    BY DEF Leave
  <1>2. /\ N \in Nat \ {0} /\ top \in Frame /\ DOMAIN stack = 1..N /\ top = stack[N]
        /\ done \in Seq(Members) /\ M \in Nat /\ DOMAIN done = 1..M
    BY <1>1, BelowIs DEF Inv, TypeOK, top
  <1>3. /\ below \in Seq(Frame) /\ Len(below) = N - 1 /\ DOMAIN below = 1..(N - 1)
        /\ \A k \in 1..(N - 1) : below[k] = stack[k]
    <2>1. TypeOK
      BY DEF Inv
    <2>2. /\ below \in Seq(Frame) /\ Len(below) = N - 1
          /\ \A k \in 1..(N - 1) : below[k] = stack[k]
      BY <1>1, <2>1, BelowIs
    <2> QED
      BY <2>2
  <1>4. n \in Members
    BY <1>2 DEF Frame
  <1>5. /\ done' \in Seq(Members) /\ DOMAIN done' = 1..(M + 1)
        /\ done'[M + 1] = n /\ \A i \in 1..M : done'[i] = done[i]
    BY <1>1, <1>2, <1>4, AppendIs
  <1>6. TypeOK'
    BY <1>1, <1>3, <1>5 DEF Inv, TypeOK
  <1>7. Before' /\ Sorting'
    BY <1>1 DEF Inv, Before, Sorting
  <1>8. \A m : successors(m)' = successors(m) /\ into(m)' = into(m)
    BY <1>1, NeighboursKept
  <1>9. LeftAfterSuccessors /\ TriedOrTodo /\ StackIsPath /\ VisitedOnce /\ CyclesAreClosed
    BY <1>1 DEF Inv, Search
  <1>10. Done = {done[i] : i \in 1..M} /\ Done' = Done \cup {n}
    <2>1. Done = {done[i] : i \in 1..M} /\ Done' = {done'[i] : i \in 1..(M + 1)}
      BY <1>2, <1>5 DEF Done, Range
    <2>2. 1..(M + 1) = (1..M) \cup {M + 1}
      BY <1>2
    <2> QED
      BY <1>5, <2>1, <2>2
  <1>11. /\ N \in Nat /\ N \in 1..N
         /\ \A k \in 1..(N - 1) : k \in 1..N /\ k # N /\ k + 1 \in 1..N
    <2>1. N \in Nat /\ N # 0
      BY <1>2
    <2> HIDE DEF N
    <2> QED
      BY <2>1
  <1>12. n \in InStack /\ n \notin Done
    <2>1. n = stack[N].node
      BY <1>2
    <2> QED
      BY <1>2, <1>9, <1>11, <2>1 DEF VisitedOnce, InStack
  <1>13. LeftAfterSuccessors'
    <2> SUFFICES ASSUME cycles = {}, NEW j \in 1..(M + 1), NEW s \in successors(done'[j])
                 PROVE  \E i \in 1..(M + 1) : i < j /\ done'[i] = s
      <3>1. edges' = edges /\ cycles' = cycles
        BY <1>1
      <3> QED
        BY <1>5, <3>1 DEF LeftAfterSuccessors, successors
    <2>1. CASE j \in 1..M
      <3>1. PICK i \in 1..M : i < j /\ done[i] = s
        BY <1>2, <1>5, <1>9, <2>1 DEF LeftAfterSuccessors
      <3> QED
        BY <1>2, <1>5, <3>1
    <2>2. CASE j = M + 1
      <3>1. s \in successors(stack[N].node) /\ stack[N].todo = {}
        BY <1>1, <1>2, <1>5, <2>2
      <3>2. s \in stack[N].todo \/ s \in Done \/ N < N
        <4>1. DOMAIN stack = 1..N
          BY <1>2
        <4> QED
          BY <1>9, <1>11, <3>1, <4>1 DEF TriedOrTodo
      <3>4. s \in Done
        BY <1>11, <3>1, <3>2
      <3>3. PICK i \in 1..M : done[i] = s
        BY <1>10, <3>4
      <3> QED
        BY <1>2, <1>5, <2>2, <3>3
    <2> QED
      BY <1>2, <2>1, <2>2
  <1>14. TriedOrTodo'
    <2> SUFFICES ASSUME cycles = {}, NEW k \in 1..(N - 1), NEW s \in successors(stack[k].node)
                 PROVE  \/ s \in stack[k].todo \/ s \in Done'
                        \/ k < N - 1 /\ s = below[k + 1].node
      BY <1>1, <1>3, <1>8 DEF TriedOrTodo
    <2>1. \/ s \in stack[k].todo \/ s \in Done
          \/ k < N /\ s = stack[k + 1].node
      BY <1>2, <1>9, <1>11 DEF TriedOrTodo
    <2>2. CASE s = stack[k + 1].node /\ k = N - 1
      <3>0. k + 1 = N
        BY <1>11, <2>2
      <3>1. s = n
        BY <1>2, <2>2, <3>0
      <3> QED
        BY <1>10, <3>1
    <2>3. CASE s = stack[k + 1].node /\ k # N - 1
      <3>1. k < N - 1 /\ k + 1 \in 1..(N - 1)
        BY <1>11, <2>3
      <3> QED
        BY <1>3, <2>3, <3>1
    <2> QED
      BY <1>10, <2>1, <2>2, <2>3
  <1>15. StackIsPath'
    <2>1. \A k \in 1..(N - 1) : below[k].todo \subseteq successors(below[k].node)
      BY <1>2, <1>3, <1>9, <1>11 DEF StackIsPath
    <2>2. ASSUME NEW k \in 1..(N - 2)
          PROVE  below[k + 1].node \in successors(below[k].node)
      <3>1. k \in 1..(N - 1) /\ k + 1 \in 1..(N - 1)
        BY <1>11, <2>2
      <3> QED
        BY <1>3, <1>9, <3>1 DEF StackIsPath
    <2>3. Len(below) - 1 = N - 2
      BY <1>3, <1>11
    <2> QED
      BY <1>1, <1>3, <1>8, <2>1, <2>2, <2>3 DEF StackIsPath
  <1>16. VisitedOnce'
    <2>1. \A i, j \in 1..(M + 1) : done'[i] = done'[j] => i = j
      <3>1. \A i \in 1..M : done'[i] # n /\ done'[i] = done[i]
        BY <1>5, <1>10, <1>12
      <3>2. \A i \in 1..(M + 1) : i \in 1..M \/ i = M + 1
        BY <1>2
      <3> QED
        BY <1>2, <1>5, <1>9, <3>1, <3>2 DEF VisitedOnce
    <2>2. \A i, j \in 1..(N - 1) : below[i].node = below[j].node => i = j
      BY <1>2, <1>3, <1>9, <1>11 DEF VisitedOnce
    <2>3. InStack' \subseteq InStack \ {n}
      <3>1. InStack' = {below[i].node : i \in 1..(N - 1)}
        BY <1>1, <1>3 DEF InStack
      <3>2. \A i \in 1..(N - 1) : below[i].node \in InStack /\ below[i].node # stack[N].node
        BY <1>2, <1>3, <1>9, <1>11 DEF InStack, VisitedOnce
      <3> QED
        BY <1>2, <3>1, <3>2
    <2>4. InStack' \cap Done' = {}
      BY <1>9, <1>10, <2>3 DEF VisitedOnce
    <2> QED
      BY <1>1, <1>3, <1>5, <2>1, <2>2, <2>4 DEF VisitedOnce
  <1>17. CyclesAreClosed'
    BY <1>1, <1>8, <1>9 DEF CyclesAreClosed, ClosedPath
  <1> QED
    BY <1>6, <1>7, <1>13, <1>14, <1>15, <1>16, <1>17 DEF Inv, Search

(* A step that moves nothing the search looks at. *)
LEMMA SearchUnmoved ==
  ASSUME Inv, phase # "build", UNCHANGED <<edges, stack, done, cycles>>
  PROVE  Search'
  <1>1. LeftAfterSuccessors /\ TriedOrTodo /\ StackIsPath /\ VisitedOnce /\ CyclesAreClosed
    BY DEF Inv, Search
  <1>2. LeftAfterSuccessors' = LeftAfterSuccessors
    BY DEF LeftAfterSuccessors, successors
  <1>3. TriedOrTodo' = TriedOrTodo
    BY DEF TriedOrTodo, successors, Done
  <1>4. StackIsPath' = StackIsPath
    BY DEF StackIsPath, successors
  <1>5. VisitedOnce' = VisitedOnce
    BY DEF VisitedOnce, InStack, Done
  <1>6. CyclesAreClosed' = CyclesAreClosed
    BY DEF CyclesAreClosed, ClosedPath, successors
  <1> QED
    BY <1>1, <1>2, <1>3, <1>4, <1>5, <1>6 DEF Search

(* A cycle was found: the plan is refused. *)
LEMMA CycleFoundKeeps ==
  ASSUME Inv, CycleFound
  PROVE  Inv'
  <1>1. /\ phase = "search" /\ phase' = "refused" /\ refusal' = "DEPENDENCY_CYCLE" /\ cycles # {}
        /\ UNCHANGED <<plan, edges, stack, done, cycles, blocked, ready, order>>
    BY DEF CycleFound, Refuse
  <1>2. TypeOK' /\ Before' /\ Sorting'
    BY <1>1 DEF Inv, TypeOK, Before, Sorting, Phase, Refusal
  <1>3. Search'
    BY <1>1, SearchUnmoved
  <1> QED
    BY <1>2, <1>3 DEF Inv

-----------------------------------------------------------------------------
(* The sort starts with an acyclic graph and nothing scheduled. *)
LEMMA StartSortKeeps ==
  ASSUME Inv, StartSort
  PROVE  Inv'
  <1>1. /\ phase = "search" /\ stack = <<>> /\ Unvisited = {} /\ cycles = {}
        /\ blocked' = [n \in Members |-> into(n)]
        /\ ready' = {n \in Members : into(n) = {}}
        /\ phase' = "sort"
        /\ UNCHANGED <<plan, refusal, edges, stack, done, cycles, order>>
    BY DEF StartSort
  <1>2. order = <<>> /\ refusal # "DEPENDENCY_CYCLE"
    BY <1>1 DEF Inv, Before
  <1>3. Acyclic
    <2>1. InStack = {}
      BY <1>1 DEF InStack
    <2>2. Members \subseteq Done
      BY <1>1, <2>1 DEF Unvisited
    <2> QED
      BY <1>1, <2>2, SearchedIsAcyclic DEF Inv, Search
  <1>4. \A n \in Members : into(n) \subseteq Edge
    BY Neighbours DEF Inv
  <1>5. TypeOK'
    BY <1>1, <1>4 DEF Inv, TypeOK, Phase
  <1>6. Before'
    BY <1>1, <1>2 DEF Inv, Before
  <1>7. Search'
    BY <1>1, SearchUnmoved
  <1>8. \A n : into(n)' = into(n)
    BY <1>1, NeighboursKept
  <1>9. Acyclic'
    BY <1>1, <1>3 DEF Acyclic, into
  <1>10. order' = <<>> /\ Scheduled' = {} /\ DOMAIN order' = {}
    BY <1>1, <1>2 DEF Scheduled, Range
  <1>11. ProducersFirst' /\ OrderedOnce' /\ Ties'
    BY <1>10 DEF ProducersFirst, OrderedOnce, Ties
  <1>12. /\ \A n \in Members : blocked'[n] = {e \in into(n) : e.from \notin Scheduled'}
         /\ ready' = {n \in Members \ Scheduled' : blocked'[n] = {}}
    BY <1>1, <1>10
  <1>13. Sorting'
    BY <1>1, <1>8, <1>9, <1>11, <1>12 DEF Sorting
  <1> QED
    BY <1>5, <1>6, <1>7, <1>13 DEF Inv

(* The first ready node is scheduled: its producers all were, and it is the *)
(* least of the nodes of which that is true.                                *)
LEMMA ScheduleKeeps ==
  ASSUME Inv, Schedule
  PROVE  Inv'
  <1> DEFINE next == first(ready)
             M == Len(order)
  <1>1. /\ phase = "sort" /\ ready # {}
        /\ order' = Append(order, next)
        /\ blocked' = [n \in Members |-> {e \in blocked[n] : e.from # next}]
        /\ ready' = (ready \ {next}) \cup {n \in Members : blocked[n] # {} /\ blocked'[n] = {}}
        /\ UNCHANGED <<plan, phase, refusal, edges, stack, done, cycles>>
    BY DEF Schedule
  <1>2. /\ Acyclic /\ ProducersFirst /\ OrderedOnce /\ Ties
        /\ \A n \in Members : blocked[n] = {e \in into(n) : e.from \notin Scheduled}
        /\ ready = {n \in Members \ Scheduled : blocked[n] = {}}
    BY <1>1 DEF Inv, Sorting
  <1>3. next \in ready /\ \A m \in ready : next <= m
    BY <1>1, <1>2, FirstIsLeast
  <1> HIDE DEF next
  <1>4. next \in Members /\ next \notin Scheduled /\ blocked[next] = {}
    BY <1>2, <1>3
  <1>5. order \in Seq(Members) /\ M \in Nat /\ DOMAIN order = 1..M
    BY DEF Inv, TypeOK
  <1>6. /\ order' \in Seq(Members) /\ DOMAIN order' = 1..(M + 1)
        /\ order'[M + 1] = next /\ \A i \in 1..M : order'[i] = order[i]
    BY <1>1, <1>4, <1>5, AppendIs
  <1>7. Scheduled = {order[i] : i \in 1..M} /\ Scheduled' = Scheduled \cup {next}
    <2>1. Scheduled = {order[i] : i \in 1..M} /\ Scheduled' = {order'[i] : i \in 1..(M + 1)}
      BY <1>5, <1>6 DEF Scheduled, Range
    <2>2. 1..(M + 1) = (1..M) \cup {M + 1}
      BY <1>5
    <2> QED
      BY <1>6, <2>1, <2>2
  <1>8. \A n : into(n)' = into(n)
    BY <1>1, NeighboursKept
  <1>9. \A i \in 1..(M + 1) : i \in 1..M \/ i = M + 1
    BY <1>5
  <1>10. TypeOK'
    BY <1>1, <1>6 DEF Inv, TypeOK
  <1>11. Before' /\ Search'
    BY <1>1, SearchUnmoved DEF Inv, Before
  <1>12. Acyclic'
    BY <1>1, <1>2 DEF Acyclic, into
  <1>13. \A e \in into(next) : e.from \in Scheduled
    BY <1>2, <1>4
  <1>14. ProducersFirst'
    <2> SUFFICES ASSUME NEW j \in 1..(M + 1), NEW e \in into(order'[j])
                 PROVE  \E i \in 1..(M + 1) : i < j /\ order'[i] = e.from
      <3>1. edges' = edges
        BY <1>1
      <3> QED
        BY <1>6, <3>1 DEF ProducersFirst, into
    <2>1. CASE j \in 1..M
      <3>1. PICK i \in 1..M : i < j /\ order[i] = e.from
        BY <1>2, <1>5, <1>6, <2>1 DEF ProducersFirst
      <3> QED
        BY <1>5, <1>6, <3>1
    <2>2. CASE j = M + 1
      <3>1. PICK i \in 1..M : order[i] = e.from
        BY <1>6, <1>7, <1>13, <2>2
      <3> QED
        BY <1>5, <1>6, <2>2, <3>1
    <2> QED
      BY <1>9, <2>1, <2>2
  <1>15. OrderedOnce'
    <2>1. \A i \in 1..M : order'[i] = order[i] /\ order'[i] # next
      BY <1>4, <1>6, <1>7
    <2>2. \A i, j \in 1..(M + 1) : order'[i] = order'[j] => i = j
      BY <1>2, <1>5, <1>6, <1>9, <2>1 DEF OrderedOnce
    <2> QED
      BY <1>6, <2>2 DEF OrderedOnce
  <1>16. Ties'
    <2> DEFINE Earlier(i) == {order[k] : k \in 1..(i - 1)}
    <2>1. \A i \in 1..(M + 1) : {order'[k] : k \in 1..(i - 1)} = Earlier(i)
      <3>1. \A i \in 1..(M + 1) : \A k \in 1..(i - 1) : order'[k] = order[k]
        BY <1>5, <1>6
      <3> QED
        BY <3>1
    <2>2. ASSUME NEW i \in 1..(M + 1), NEW n \in Members \ Earlier(i),
                 \A e \in into(n) : e.from \in Earlier(i)
          PROVE  order'[i] <= n
      <3>1. CASE i \in 1..M
        BY <1>2, <1>5, <1>6, <2>2, <3>1 DEF Ties
      <3>2. CASE i = M + 1
        <4>1. Earlier(i) = Scheduled
          <5>1. i - 1 = M
            BY <1>5, <3>2
          <5> QED
            BY <1>7, <5>1
        <4>2. n \in ready
          BY <1>2, <2>2, <4>1
        <4> QED
          BY <1>3, <1>6, <3>2, <4>2
      <3> QED
        BY <1>9, <3>1, <3>2
    <2> QED
      BY <1>6, <1>8, <2>1, <2>2 DEF Ties
  <1>17. \A n \in Members : blocked'[n] = {e \in into(n) : e.from \notin Scheduled'}
    BY <1>1, <1>2, <1>7
  <1>18. ready' = {n \in Members \ Scheduled' : blocked'[n] = {}}
    <2>1. ASSUME NEW n \in Scheduled
          PROVE  n \in Members /\ blocked[n] = {}
      <3>1. PICK j \in 1..M : n = order[j]
        BY <1>7, <2>1
      <3>2. n \in Members
        BY <1>5, <3>1
      <3>3. \A e \in into(n) : e.from \in Scheduled
        BY <1>2, <1>5, <1>7, <3>1 DEF ProducersFirst
      <3> QED
        BY <1>2, <3>2, <3>3
    <2>2. \A n \in Members : blocked[n] = {} => blocked'[n] = {}
      BY <1>1
    <2>3. \A n \in Members : n \in ready' <=> n \notin Scheduled' /\ blocked'[n] = {}
      BY <1>1, <1>2, <1>4, <1>7, <2>1, <2>2
    <2>4. ready' \subseteq Members
      BY <1>1, <1>2
    <2> QED
      BY <2>3, <2>4
  <1>19. Sorting'
    BY <1>1, <1>8, <1>12, <1>14, <1>15, <1>16, <1>17, <1>18 DEF Sorting
  <1> QED
    BY <1>10, <1>11, <1>19 DEF Inv

(* The sort ends with every member scheduled, the graph being acyclic. *)
LEMMA PublishKeeps ==
  ASSUME Inv, Publish
  PROVE  Inv'
  <1>1. /\ phase = "sort" /\ ready = {} /\ phase' = "planned"
        /\ UNCHANGED <<plan, refusal, edges, stack, done, cycles, blocked, ready>>
    BY DEF Publish
  <1>2. /\ Acyclic /\ ProducersFirst /\ OrderedOnce /\ Ties
        /\ \A n \in Members : blocked[n] = {e \in into(n) : e.from \notin Scheduled}
        /\ ready = {n \in Members \ Scheduled : blocked[n] = {}}
    BY <1>1 DEF Inv, Sorting
  <1>3. Members \subseteq Scheduled
    <2> SUFFICES ASSUME Members \ Scheduled # {}
                 PROVE  FALSE
      OBVIOUS
    <2>1. PICK n \in Members \ Scheduled : \A e \in into(n) : e.from \notin Members \ Scheduled
      BY <1>2 DEF Acyclic
    <2>2. \A e \in into(n) : e.from \in Members
      BY DEF into, Inv, TypeOK, Edge
    <2>3. blocked[n] = {}
      BY <1>2, <2>1, <2>2
    <2> QED
      BY <1>1, <1>2, <2>1, <2>3
  <1>4. order' = order
    BY <1>3 DEF Publish, Scheduled
  <1>5. TypeOK' /\ Before' /\ Search'
    BY <1>1, <1>4, SearchUnmoved DEF Inv, TypeOK, Before, Phase
  <1>6. Acyclic' /\ ProducersFirst' /\ OrderedOnce' /\ Ties'
    BY <1>1, <1>2, <1>4 DEF Acyclic, ProducersFirst, OrderedOnce, Ties, into
  <1>7. Sorting'
    BY <1>1, <1>3, <1>4, <1>6 DEF Sorting, Scheduled
  <1> QED
    BY <1>5, <1>7 DEF Inv

-----------------------------------------------------------------------------
(* The conjunction holds at first. *)
LEMMA InvHoldsFirst == Init => Inv
  <1> SUFFICES ASSUME Init
               PROVE  Inv
    OBVIOUS
  <1>1. plan \in Plan(Members)
    BY PlanningAssumption DEF Init
  <1>2. TypeOK
    <2>0. stack = <<>> /\ done = <<>> /\ order = <<>>
      BY DEF Init
    <2>1. stack \in Seq(Frame) /\ done \in Seq(Members) /\ order \in Seq(Members)
      BY <2>0
    <2>2. phase \in Phase /\ refusal \in Refusal /\ ready \subseteq Members
      BY DEF Init, Phase, Refusal
    <2>3. blocked \in [Members -> SUBSET Edge] /\ edges \subseteq Edge /\ cycles \subseteq Seq(Members)
      BY DEF Init
    <2> QED
      BY <1>1, <2>1, <2>2, <2>3 DEF TypeOK
  <1>3. Before /\ Search /\ Sorting
    BY DEF Init, Before, Search, Sorting
  <1> QED
    BY <1>2, <1>3 DEF Inv

(* Every step preserves it. *)
LEMMA StepsPreserve == Inv /\ [Next]_vars => Inv'
  <1> SUFFICES ASSUME Inv, [Next]_vars
               PROVE  Inv'
    OBVIOUS
  <1>1. CASE Unresolved \/ Build
    BY <1>1, BuildKeeps
  <1>2. CASE Enter
    BY <1>2, EnterKeeps
  <1>3. CASE TrySuccessor
    BY <1>3, TrySuccessorKeeps
  <1>4. CASE Leave
    BY <1>4, LeaveKeeps
  <1>5. CASE CycleFound
    BY <1>5, CycleFoundKeeps
  <1>6. CASE StartSort
    BY <1>6, StartSortKeeps
  <1>7. CASE Schedule
    BY <1>7, ScheduleKeeps
  <1>8. CASE Publish
    BY <1>8, PublishKeeps
  <1>9. CASE UNCHANGED vars
    <2>1. UNCHANGED <<plan, phase, refusal, edges, stack, done, cycles, blocked, ready, order>>
      BY <1>9 DEF vars
    <2>2. TypeOK' /\ Before'
      BY <2>1 DEF Inv, TypeOK, Before
    <2>3. Search'
      BY <2>1, SearchUnmoved DEF Inv, Search
    <2>4. Sorting'
      BY <2>1 DEF Inv, Sorting, Acyclic, ProducersFirst, OrderedOnce, Ties, Scheduled, into
    <2> QED
      BY <2>2, <2>3, <2>4 DEF Inv
  <1> QED
    BY <1>1, <1>2, <1>3, <1>4, <1>5, <1>6, <1>7, <1>8, <1>9 DEF Next

(* Every reachable state satisfies it. *)
LEMMA InvHolds == Spec => []Inv
  BY InvHoldsFirst, StepsPreserve, PTL DEF Spec

(* Types of the planner's state, for plans of any size. *)
THEOREM TypesHold == Spec => []TypeOK
  <1>1. Inv => TypeOK
    BY DEF Inv
  <1> QED
    BY <1>1, InvHolds, PTL

(* What the invariant says of an order that is planned, and of a cycle that  *)
(* is reported.                                                              *)
LEMMA SafeOrder == Inv => OrderRespectsDependencies
  <1>1. ASSUME Inv
        PROVE  OrderRespectsDependencies
    <2> SUFFICES ASSUME phase = "planned"
                 PROVE  /\ Range(order) = Members
                        /\ \A i, j \in DOMAIN order : order[i] = order[j] => i = j
                        /\ \A e \in edges : \A i, j \in DOMAIN order :
                             order[i] = e.from /\ order[j] = e.to => i < j
      BY DEF OrderRespectsDependencies
    <2>1. ProducersFirst /\ OrderedOnce /\ Members \subseteq Scheduled
      BY <1>1 DEF Inv, Sorting
    <2>2. order \in Seq(Members)
      BY <1>1 DEF Inv, TypeOK
    <2>3. Range(order) = Members
      BY <2>1, <2>2 DEF Scheduled, Range
    <2>4. ASSUME NEW e \in edges, NEW i \in DOMAIN order, NEW j \in DOMAIN order,
                 order[i] = e.from, order[j] = e.to
          PROVE  i < j
      <3>1. PICK k \in DOMAIN order : k < j /\ order[k] = e.from
        BY <2>1, <2>4 DEF ProducersFirst, into
      <3> QED
        BY <2>1, <2>4, <3>1 DEF OrderedOnce
    <2> QED
      BY <2>1, <2>3, <2>4 DEF OrderedOnce
  <1> QED
    BY <1>1

LEMMA ExactCycles == Inv => CyclesBlockExactly
  <1>1. ASSUME Inv
        PROVE  CyclesBlockExactly
    <2>1. \A c \in cycles : c \in Seq(Members) /\ ClosedPath(c)
      BY <1>1 DEF Inv, TypeOK, Before, Search, CyclesAreClosed
    <2>2. edges \subseteq Edge
      BY <1>1 DEF Inv, TypeOK
    <2>3. refusal = "DEPENDENCY_CYCLE" => ~Acyclic
      BY <1>1, <2>1, <2>2, ClosedPathIsCycle DEF Inv, Before
    <2>4. phase \in {"sort", "planned"} => Acyclic
      BY <1>1 DEF Inv, Sorting
    <2> QED
      BY <2>1, <2>3, <2>4 DEF CyclesBlockExactly
  <1> QED
    BY <1>1

(* For every plan: a run that starts executes each request of its membership *)
(* once and after everything it depends on.                                  *)
THEOREM PlannedOrderIsSafe == Spec => []OrderRespectsDependencies
  BY SafeOrder, InvHolds, PTL

(* For every plan: it is refused for a cycle exactly when it has one, and    *)
(* what is reported is one.                                                  *)
THEOREM CycleCheckIsExact == Spec => []CyclesBlockExactly
  BY ExactCycles, InvHolds, PTL

(* For every plan: requests without a dependency between them keep the order *)
(* the user gave them.                                                       *)
THEOREM TiesAreStable == Spec => []TiesKeepMembershipOrder
  <1>1. Inv => TiesKeepMembershipOrder
    BY DEF Inv, Sorting, Ties, TiesKeepMembershipOrder
  <1> QED
    BY <1>1, InvHolds, PTL

-----------------------------------------------------------------------------
(* What the facts of a response are. *)
LEMMA FactsType ==
  ASSUME NEW f \in Facts
  PROVE  /\ f.httpSuccess \in BOOLEAN /\ f.graphqlFailed \in BOOLEAN
         /\ f.status \in Status /\ f.asserts \in Asserts /\ f.retryable \in Optional
         /\ ~f.httpSuccess => f.status = "none" /\ ~f.graphqlFailed /\ f.retryable # Unknown
  BY DEF Facts

(* Without an extraction report both views of a response are the same: the  *)
(* attempt is Passed or Failed for the same reason.                         *)
LEMMA SameCategory ==
  ASSUME NEW f \in Facts
  PROVE  MappedCategory(f, FALSE) =
           CASE ~f.httpSuccess -> "transport"
             [] f.httpSuccess /\ f.asserts = "failed" -> "assertion"
             [] f.httpSuccess /\ f.asserts # "failed" /\ f.graphqlFailed -> "protocol"
             [] OTHER -> "none"
  <1>1. CASE ~f.httpSuccess
    BY <1>1, FactsType DEF MappedCategory, OrchestratorSucceeds
  <1>2. CASE f.httpSuccess /\ f.asserts = "failed"
    BY <1>2, FactsType DEF MappedCategory, OrchestratorSucceeds
  <1>3. CASE f.httpSuccess /\ f.asserts # "failed" /\ f.graphqlFailed
    BY <1>3, FactsType DEF MappedCategory, OrchestratorSucceeds
  <1>4. CASE f.httpSuccess /\ f.asserts # "failed" /\ ~f.graphqlFailed
    BY <1>4, FactsType DEF MappedCategory, OrchestratorSucceeds
  <1> QED
    BY <1>1, <1>2, <1>3, <1>4, FactsType

(* The answer given before the history commit, from the facts of the        *)
(* response, is the one given after the attempt from its mapped result, as  *)
(* long as no extraction has failed in between.                             *)
THEOREM RetryAnswersAgree ==
  \A f \in Facts : EligibleFromResult(Mapped(f, FALSE)) = EligibleFromContext(f)
  BY SameCategory DEF EligibleFromResult, EligibleFromContext, Mapped

(* A response that was committed because no retry follows is not retried,   *)
(* whatever its extraction then does: an extraction that fails in a way     *)
(* that blocks only takes eligibility away.                                 *)
THEOREM CommittedIsNotRetried ==
  \A f \in Facts, blocking \in BOOLEAN :
    ~EligibleFromContext(f) => ~EligibleFromResult(Mapped(f, blocking))
  <1> SUFFICES ASSUME NEW f \in Facts, NEW blocking \in BOOLEAN,
                      EligibleFromResult(Mapped(f, blocking))
               PROVE  EligibleFromContext(f)
    OBVIOUS
  <1>1. CASE blocking /\ OrchestratorSucceeds(f)
    <2>1. MappedCategory(f, TRUE) = "extraction"
      BY <1>1, FactsType DEF MappedCategory, OrchestratorSucceeds
    <2>2. MappedCategory(f, blocking) = "extraction"
      <3>1. blocking = TRUE
        BY <1>1
      <3> QED
        BY <2>1, <3>1
    <2>3. Mapped(f, blocking).outcome = "Failed" /\ Mapped(f, blocking).category = "extraction"
      BY <2>2 DEF Mapped
    <2> QED
      BY <2>3 DEF EligibleFromResult, EligibleFromAttempt
  <1>2. CASE ~(blocking /\ OrchestratorSucceeds(f))
    <2>1. MappedCategory(f, blocking) = MappedCategory(f, FALSE)
      BY <1>2 DEF MappedCategory
    <2>2. Mapped(f, blocking) = Mapped(f, FALSE)
      BY <2>1 DEF Mapped
    <2> QED
      BY <2>2, RetryAnswersAgree
  <1> QED
    BY <1>1, <1>2

-----------------------------------------------------------------------------
USE DEF Policy, Stage, Outcome, Category

(* The plan is finite and is walked from 1 to Total. *)
LEMMA PlanBounds == Total \in Nat /\ MaxRetries \in Nat
  BY CollectionRunnerAssumption

(* Where the loop counters are: an attempt belongs to a planned request, it *)
(* is numbered from 1, and a wait leaves an attempt over.                   *)
Counters ==
  /\ stage \in {"reading", "attempting", "waiting"} => current \in Planned
  /\ stage \notin {"attempting", "waiting"} => attempt = 0
  /\ stage = "waiting" => attempt < options.maxAttempts

(* A request that has no result yet has not been committed. *)
NotYetCommitted == \A r \in Planned : r > Len(results) => committed[r] = 0

RunInv == RunTypeOK /\ Counters /\ NotYetCommitted /\ CommittedAtMostOnce

-----------------------------------------------------------------------------
(* The variables an iteration of the loop moves, apart from its effects.    *)
LoopTypes ==
  /\ requests \in [Planned -> PlannedRequest]
  /\ options \in [policy : Policy, maxAttempts : 1..(MaxRetries + 1), skipDestructive : BOOLEAN]
  /\ aborted \in BOOLEAN /\ stage \in Stage /\ attempt \in 0..(MaxRetries + 1)
  /\ results \in Seq(Result) /\ Len(results) <= Total
  /\ runStatus \in {"completed", "stopped", "cancelled"} /\ stop \in BOOLEAN

EffectTypes ==
  /\ store \subseteq RunVariables
  /\ committed \in [Planned -> Nat]

(* Types of the loop and types of its effects make up all types. *)
LEMMA TypesAre == RunTypeOK <=> LoopTypes /\ EffectTypes
  BY DEF RunTypeOK, LoopTypes, EffectTypes

(* Pushing a result goes on to the next request. *)
LEMMA FinishMoves ==
  ASSUME LoopTypes, current \in Planned,
         NEW o \in Outcome, NEW c \in Category, NEW n \in 0..(MaxRetries + 1), Finish(o, c, n)
  PROVE  LoopTypes' /\ Counters' /\ Len(results') = Len(results) + 1
  <1> USE PlanBounds
  <1>1. results' \in Seq(Result) /\ Len(results') = Len(results) + 1
    BY DEF Finish, LoopTypes, Result
  <1>2. Len(results') <= Total
    BY <1>1 DEF current, Planned, LoopTypes
  <1>3. stop' \in BOOLEAN
    <2>1. stop' = (stop \/ shouldStopAfter(o))
      BY DEF Finish
    <2> QED
      BY <2>1
  <1>4. runStatus' \in {"completed", "stopped", "cancelled"}
    BY DEF Finish, LoopTypes
  <1>5. UNCHANGED <<requests, options, aborted>> /\ stage' = "between" /\ attempt' = 0
    BY DEF Finish
  <1>6. LoopTypes'
    BY <1>1, <1>2, <1>3, <1>4, <1>5 DEF LoopTypes
  <1>7. Counters'
    BY <1>5 DEF Counters
  <1> QED
    BY <1>1, <1>6, <1>7

(* Entering an attempt pushes a Cancelled result or numbers the attempt.    *)
LEMMA EnterMoves ==
  ASSUME LoopTypes, Counters, stage \in {"reading", "waiting"}, EnterAttempt
  PROVE  LoopTypes' /\ Counters' /\ Len(results') >= Len(results)
  <1> USE PlanBounds
  <1>1. current \in Planned
    BY DEF Counters
  <1>2. CASE aborted
    <2>1. Finish("Cancelled", "none", attempt)
      BY <1>2 DEF EnterAttempt
    <2>2. attempt \in 0..(MaxRetries + 1)
      BY DEF LoopTypes
    <2>3. LoopTypes' /\ Counters' /\ Len(results') = Len(results) + 1
      BY <1>1, <2>1, <2>2, FinishMoves
    <2> QED
      BY <2>3 DEF LoopTypes
  <1>3. CASE ~aborted
    <2>1. /\ stage' = "attempting" /\ attempt' = attempt + 1
          /\ UNCHANGED <<requests, options, aborted, results, runStatus, stop>>
      BY <1>3 DEF EnterAttempt
    <2>2. attempt < options.maxAttempts
      BY DEF Counters, LoopTypes
    <2>3. attempt' \in 0..(MaxRetries + 1)
      BY <2>1, <2>2 DEF LoopTypes
    <2>4. Counters'
      BY <1>1, <2>1 DEF Counters, current
    <2> QED
      BY <2>1, <2>3, <2>4 DEF LoopTypes
  <1> QED
    BY <1>2, <1>3

(* After an attempt the request waits for the next one, being eligible, or  *)
(* its result is pushed.                                                    *)
LEMMA AfterMoves ==
  ASSUME LoopTypes, Counters, stage = "attempting", NEW result,
         result.outcome \in Outcome, result.category \in Category, AfterAttempt(result)
  PROVE  /\ LoopTypes' /\ Counters'
         /\ \/ Len(results') = Len(results) + 1
            \/ /\ retriesRemaining > 0 /\ EligibleFromResult(result)
               /\ results' = results
  <1> USE PlanBounds
  <1>1. CASE retriesRemaining > 0 /\ EligibleFromResult(result)
    <2>1. /\ stage' = "waiting"
          /\ UNCHANGED <<requests, options, aborted, attempt, results, runStatus, stop>>
      BY <1>1 DEF AfterAttempt
    <2>2. LoopTypes'
      BY <2>1 DEF LoopTypes
    <2>3. Counters'
      BY <1>1, <2>1 DEF Counters, current, retriesRemaining, LoopTypes
    <2> QED
      BY <1>1, <2>1, <2>2, <2>3
  <1>2. CASE ~(retriesRemaining > 0 /\ EligibleFromResult(result))
    <2>1. Finish(result.outcome, result.category, attempt)
      BY <1>2 DEF AfterAttempt
    <2>2. attempt \in 0..(MaxRetries + 1) /\ current \in Planned
      BY DEF LoopTypes, Counters
    <2> QED
      BY <2>1, <2>2, FinishMoves
  <1> QED
    BY <1>1, <1>2

-----------------------------------------------------------------------------
(* What is known about commits. *)
Commits == NotYetCommitted /\ CommittedAtMostOnce

(* A step that commits nothing keeps what is known about commits. *)
LEMMA NoCommit ==
  ASSUME LoopTypes, LoopTypes', Commits, UNCHANGED committed, Len(results') >= Len(results)
  PROVE  Commits'
  BY DEF Commits, NotYetCommitted, CommittedAtMostOnce, LoopTypes, Planned

(* So does the commit of the current request by a step that ends it. *)
LEMMA CommitCurrent ==
  ASSUME LoopTypes, EffectTypes, Commits, current \in Planned,
         committed' = [committed EXCEPT ![current] = @ + 1],
         Len(results') = Len(results) + 1
  PROVE  Commits'
  <1>1. \A r \in Planned : committed'[r] = IF r = current THEN committed[r] + 1 ELSE committed[r]
    BY DEF EffectTypes
  <1>2. committed[current] = 0
    BY DEF Commits, NotYetCommitted, current, Planned, LoopTypes
  <1>3. current = Len(results') /\ Len(results) \in Nat
    BY DEF current, LoopTypes
  <1>4. \A r \in Planned : r > Len(results') => committed'[r] = 0
    BY <1>1, <1>3 DEF Commits, NotYetCommitted, Planned
  <1>5. \A r \in Planned : committed'[r] <= 1
    BY <1>1, <1>2 DEF Commits, CommittedAtMostOnce
  <1> QED
    BY <1>4, <1>5 DEF Commits, NotYetCommitted, CommittedAtMostOnce

-----------------------------------------------------------------------------
(* The attempt. *)

(* The fields of the records AfterAttempt is given. *)
LEMMA MappedFields ==
  ASSUME NEW f \in Facts, NEW blocking \in BOOLEAN
  PROVE  Mapped(f, blocking).outcome \in Outcome /\ Mapped(f, blocking).category \in Category
  <1>1. MappedCategory(f, blocking) \in Category
    <2>1. MappedCategory(f, TRUE) \in Category /\ MappedCategory(f, FALSE) \in Category
      BY FactsType DEF MappedCategory, OrchestratorSucceeds
    <2>2. blocking = TRUE \/ blocking = FALSE
      OBVIOUS
    <2> QED
      BY <2>1, <2>2
  <1> QED
    BY <1>1 DEF Mapped

(* A cancelled attempt is not retried. *)
LEMMA BlankFields ==
  ASSUME NEW o \in Outcome, NEW c \in Category
  PROVE  /\ Blank(o, c).outcome \in Outcome /\ Blank(o, c).category \in Category
         /\ o = "Cancelled" => ~EligibleFromResult(Blank(o, c))
  BY DEF Blank, EligibleFromResult, EligibleFromAttempt

(* An answer that is committed is the last one of its request; one that is  *)
(* not committed changes no count.                                          *)
LEMMA AnsweredCommits ==
  ASSUME RunInv, NEW f \in Facts, NEW extracts \in SUBSET RunVariables, NEW blocking \in BOOLEAN,
         Answered(f, extracts, blocking)
  PROVE  RunInv'
  <1>1. LoopTypes /\ EffectTypes /\ Counters /\ Commits /\ stage = "attempting"
    BY TypesAre DEF RunInv, Commits, Answered
  <1>2. current \in Planned
    BY <1>1 DEF Counters
  <1>3. AfterAttempt(Mapped(f, blocking))
    BY DEF Answered
  <1>4. /\ LoopTypes' /\ Counters'
        /\ \/ Len(results') = Len(results) + 1
           \/ /\ retriesRemaining > 0 /\ EligibleFromResult(Mapped(f, blocking))
              /\ results' = results
    BY <1>1, <1>3, MappedFields, AfterMoves
  <1>5. CASE shouldCommitSideEffects(f)
    <2>1. committed' = [committed EXCEPT ![current] = @ + 1]
      BY <1>5 DEF Answered
    <2>2. ~(retriesRemaining > 0 /\ EligibleFromResult(Mapped(f, blocking)))
      <3>1. CASE ~EligibleFromContext(f)
        BY <3>1, CommittedIsNotRetried, Zenon
      <3>2. CASE retriesRemaining <= 0
        BY <1>1, <3>2 DEF retriesRemaining, LoopTypes
      <3> QED
        BY <1>5, <3>1, <3>2 DEF shouldCommitSideEffects
    <2>3. Commits'
      BY <1>1, <1>2, <1>4, <2>1, <2>2, CommitCurrent
    <2>4. committed' \in [Planned -> Nat]
      BY <1>1, <1>2, <2>1 DEF EffectTypes
    <2> QED
      BY <1>1, <1>2, <1>4, <2>3, <2>4, TypesAre DEF Answered, RunInv, Commits, EffectTypes,
         RunTypeOK, LoopTypes
  <1>6. CASE ~shouldCommitSideEffects(f)
    <2>1. UNCHANGED committed
      BY <1>1, <1>6 DEF Answered, EffectTypes
    <2>2. Len(results') >= Len(results)
      BY <1>1, <1>4 DEF LoopTypes
    <2>3. Commits'
      BY <1>1, <1>4, <2>1, <2>2, NoCommit
    <2> QED
      BY <1>1, <1>2, <1>4, <2>1, <2>3 DEF Answered, RunInv, Commits, EffectTypes,
         RunTypeOK, LoopTypes
  <1> QED
    BY <1>5, <1>6

(* So is a cancellation at the transport. *)
LEMMA CancelledCommits ==
  ASSUME RunInv, NEW atTransport \in BOOLEAN, AttemptCancelled(atTransport)
  PROVE  RunInv'
  <1>1. LoopTypes /\ EffectTypes /\ Counters /\ Commits /\ stage = "attempting"
    BY TypesAre DEF RunInv, Commits, AttemptCancelled
  <1>2. current \in Planned
    BY <1>1 DEF Counters
  <1>3. AfterAttempt(Blank("Cancelled", "cancelled"))
    BY DEF AttemptCancelled
  <1>4. LoopTypes' /\ Counters' /\ Len(results') = Len(results) + 1
    BY <1>1, <1>3, BlankFields, AfterMoves
  <1>5. CASE atTransport
    <2>1. committed' = [committed EXCEPT ![current] = @ + 1]
      BY <1>5 DEF AttemptCancelled
    <2>2. Commits'
      BY <1>1, <1>2, <1>4, <2>1, CommitCurrent
    <2>3. committed' \in [Planned -> Nat]
      BY <1>1, <1>2, <2>1 DEF EffectTypes
    <2> QED
      BY <1>1, <1>2, <1>4, <2>2, <2>3 DEF AttemptCancelled, RunInv, Commits, EffectTypes,
         RunTypeOK, LoopTypes
  <1>6. CASE ~atTransport
    <2>1. UNCHANGED committed
      BY <1>1, <1>6 DEF AttemptCancelled, EffectTypes
    <2>2. Commits'
      BY <1>1, <1>4, <2>1, NoCommit DEF LoopTypes
    <2> QED
      BY <1>1, <1>2, <1>4, <2>1, <2>2 DEF AttemptCancelled, RunInv, Commits, EffectTypes,
         RunTypeOK, LoopTypes
  <1> QED
    BY <1>5, <1>6

(* A step that leaves the effects alone and moves the loop on.              *)
LEMMA LoopMoves ==
  ASSUME RunInv, LoopTypes', Counters', UNCHANGED effects, Len(results') >= Len(results)
  PROVE  RunInv'
  <1>1. Commits'
    BY NoCommit, TypesAre DEF RunInv, Commits, effects
  <1> QED
    BY <1>1, TypesAre DEF RunInv, Commits, effects, EffectTypes, RunTypeOK, LoopTypes

(* Every other way an attempt ends. *)
LEMMA AttemptEnds ==
  ASSUME RunInv, AttemptReplaced \/ AttemptInvalid \/ AttemptThrows
  PROVE  RunInv'
  <1>1. LoopTypes /\ Counters /\ stage = "attempting" /\ UNCHANGED effects
    BY TypesAre DEF RunInv, AttemptReplaced, AttemptInvalid, AttemptThrows
  <1>2. PICK o \in Outcome, c \in Category : AfterAttempt(Blank(o, c))
    BY DEF AttemptReplaced, AttemptInvalid, AttemptThrows, classifyInvalid
  <1>3. LoopTypes' /\ Counters' /\ Len(results') >= Len(results)
    <2>1. Blank(o, c).outcome \in Outcome /\ Blank(o, c).category \in Category
      BY BlankFields
    <2>2. /\ LoopTypes' /\ Counters'
          /\ Len(results') = Len(results) + 1 \/ results' = results
      BY <1>1, <1>2, <2>1, AfterMoves
    <2> QED
      BY <1>1, <2>2 DEF LoopTypes
  <1> QED
    BY <1>1, <1>3, LoopMoves

(* Every step preserves the invariant. *)
LEMMA RunNextInv == RunInv /\ [RunNext]_runVars => RunInv'
  <1> SUFFICES ASSUME RunInv, [RunNext]_runVars PROVE RunInv'
    OBVIOUS
  <1> USE PlanBounds
  <1>0. LoopTypes /\ EffectTypes /\ Counters
    BY TypesAre DEF RunInv
  <1>1. CASE PassOver
    <2>1. results' \in Seq(Result) /\ Len(results') = Len(results) + 1
      BY <1>0, <1>1 DEF PassOver, LoopTypes, Result
    <2>2. LoopTypes'
      BY <1>0, <1>1, <2>1 DEF PassOver, LoopTypes, current, Planned
    <2>3. Counters'
      BY <1>0, <1>1 DEF PassOver, Counters
    <2> QED
      BY <1>0, <1>1, <2>1, <2>2, <2>3, LoopMoves DEF PassOver, LoopTypes
  <1>2. CASE End
    <2>1. LoopTypes' /\ Counters'
      BY <1>0, <1>2 DEF End, LoopTypes, Counters
    <2> QED
      BY <1>0, <1>2, <2>1, LoopMoves DEF End, LoopTypes
  <1>3. CASE SkipMissingVariable \/ SkipDestructive \/ ReadFails \/ DelayAborted
    <2>1. current \in Planned
      BY <1>0, <1>3 DEF SkipMissingVariable, SkipDestructive, ReadFails, DelayAborted,
         MayStart, Counters
    <2>2. PICK o \in Outcome, c \in Category, n \in 0..(MaxRetries + 1) : Finish(o, c, n)
      BY <1>0, <1>3 DEF SkipMissingVariable, SkipDestructive, ReadFails, DelayAborted,
         classifyInvalid, LoopTypes
    <2>3. UNCHANGED effects
      BY <1>3 DEF SkipMissingVariable, SkipDestructive, ReadFails, DelayAborted
    <2>4. LoopTypes' /\ Counters' /\ Len(results') = Len(results) + 1
      BY <1>0, <2>1, <2>2, FinishMoves
    <2> QED
      BY <1>0, <2>3, <2>4, LoopMoves DEF LoopTypes
  <1>4. CASE StartReading
    <2>1. LoopTypes' /\ Counters'
      BY <1>0, <1>4 DEF StartReading, MayStart, LoopTypes, Counters, current
    <2> QED
      BY <1>0, <1>4, <2>1, LoopMoves DEF StartReading, LoopTypes
  <1>5. CASE ReadSucceeds \/ DelayElapses
    <2>1. stage \in {"reading", "waiting"} /\ EnterAttempt /\ UNCHANGED effects
      BY <1>5 DEF ReadSucceeds, DelayElapses
    <2> QED
      BY <1>0, <2>1, EnterMoves, LoopMoves
  <1>6. CASE Attempt
    <2>1. requests[current].yields \subseteq RunVariables
      BY <1>0, <1>6 DEF Attempt, Counters, LoopTypes, PlannedRequest
    <2> QED
      BY <1>6, <2>1, AnsweredCommits, CancelledCommits, AttemptEnds DEF Attempt
  <1>7. CASE Cancel
    <2>1. LoopTypes' /\ Counters'
      BY <1>0, <1>7 DEF Cancel, LoopTypes, Counters, current
    <2> QED
      BY <1>0, <1>7, <2>1, LoopMoves DEF Cancel, LoopTypes
  <1>8. CASE UNCHANGED runVars
    <2>1. LoopTypes' /\ Counters'
      BY <1>0, <1>8 DEF runVars, LoopTypes, Counters, current
    <2> QED
      BY <1>0, <1>8, <2>1, LoopMoves DEF runVars, effects, LoopTypes
  <1> QED
    BY <1>1, <1>2, <1>3, <1>4, <1>5, <1>6, <1>7, <1>8 DEF RunNext, RunnerStep

(* At its entry the runner is in such a state, whoever made the plan. *)
LEMMA EntryIsSound ==
  Entry /\ requests \in [Planned -> PlannedRequest] /\ aborted \in BOOLEAN => RunInv
  <1> SUFFICES ASSUME Entry, requests \in [Planned -> PlannedRequest], aborted \in BOOLEAN
               PROVE  RunInv
    OBVIOUS
  <1>1. results = <<>> /\ Len(results) = 0 /\ results \in Seq(Result)
    BY DEF Entry
  <1>2. LoopTypes
    <2>1. options \in [policy : Policy, maxAttempts : 1..(MaxRetries + 1), skipDestructive : BOOLEAN]
      BY DEF Entry
    <2>2. stop \in BOOLEAN
      BY DEF Entry
    <2>3. attempt \in 0..(MaxRetries + 1) /\ Len(results) <= Total
      BY <1>1, PlanBounds DEF Entry
    <2> QED
      BY <1>1, <2>1, <2>2, <2>3 DEF Entry, LoopTypes
  <1>3. EffectTypes
    BY DEF Entry, EffectTypes
  <1>4. Counters /\ NotYetCommitted /\ CommittedAtMostOnce
    BY DEF Entry, Counters, NotYetCommitted, CommittedAtMostOnce
  <1> QED
    BY <1>2, <1>3, <1>4, TypesAre DEF RunInv

(* Every reachable state of the runner satisfies it. *)
LEMMA RunSpecInv == RunSpec => []RunInv
  <1>1. RunInit => RunInv
    BY EntryIsSound, CollectionRunnerAssumption DEF RunInit
  <1> QED
    BY <1>1, RunNextInv, PTL DEF RunSpec

(* Every variable keeps its type, whatever the plan and the retry limit. *)
THEOREM RunnerTypeCorrect == RunSpec => []RunTypeOK
  <1>1. RunInv => RunTypeOK
    BY DEF RunInv
  <1> QED
    BY <1>1, RunSpecInv, PTL

(* However often requests are retried, at most one attempt of each is       *)
(* committed to history and extracts variables.                             *)
THEOREM CommittedOnce == RunSpec => []CommittedAtMostOnce
  <1>1. RunInv => CommittedAtMostOnce
    BY DEF RunInv
  <1> QED
    BY <1>1, RunSpecInv, PTL
-----------------------------------------------------------------------------
(* The result of an attempt is pushed, or a retry follows because the       *)
(* attempt was eligible for one.                                            *)
LEMMA PushedOrRetried ==
  ASSUME NEW result, AfterAttempt(result)
  PROVE  \/ Finish(result.outcome, result.category, attempt)
         \/ /\ retriesRemaining > 0 /\ EligibleFromResult(result)
            /\ UNCHANGED <<requests, options, aborted, results, runStatus, stop>>
            /\ stage' = "waiting"
  BY DEF AfterAttempt

(* What a pushed result says of the response: one was read. *)
SaysResponse(result) ==
  result.outcome = "Passed" \/ result.category \in {"assertion", "extraction", "protocol"}

(* A result is pushed, by the end of an iteration or by passing over a      *)
(* request.                                                                 *)
Pushes(o, c, n) ==
  results' = Append(results, [outcome |-> o, category |-> c, attempts |-> n])

(* Every result that says that a response was read comes from an answer     *)
(* that was committed in the same step.                                     *)
LEMMA PushedAnswerWasCommitted ==
  ASSUME RunInv, NEW f \in Facts, NEW extracts \in SUBSET RunVariables, NEW blocking \in BOOLEAN,
         Answered(f, extracts, blocking), results' # results
  PROVE  committed'[current] = 1 /\ \A r \in Planned : r # current => committed'[r] = committed[r]
  <1>1. LoopTypes /\ EffectTypes /\ Counters /\ Commits /\ stage = "attempting"
    BY TypesAre DEF RunInv, Commits, Answered
  <1>2. current \in Planned
    BY <1>1 DEF Counters
  <1>3. ~(retriesRemaining > 0 /\ EligibleFromResult(Mapped(f, blocking)))
    BY DEF Answered, AfterAttempt
  <1>4. shouldCommitSideEffects(f)
    <2> SUFFICES ASSUME ~shouldCommitSideEffects(f) PROVE FALSE
      OBVIOUS
    <2>1. ~(retriesRemaining <= 0) /\ EligibleFromContext(f)
      BY DEF shouldCommitSideEffects
    <2>2. blocking = FALSE
      BY DEF Answered
    <2>3. EligibleFromResult(Mapped(f, blocking))
      BY <2>1, <2>2, RetryAnswersAgree
    <2>4. retriesRemaining > 0
      BY <1>1, <2>1 DEF retriesRemaining, LoopTypes
    <2> QED
      BY <1>3, <2>3, <2>4
  <1>5. committed' = [committed EXCEPT ![current] = @ + 1]
    BY <1>4 DEF Answered
  <1>6. committed[current] = 0
    BY <1>1, <1>2 DEF Commits, NotYetCommitted, current, LoopTypes
  <1> QED
    BY <1>1, <1>2, <1>5, <1>6 DEF EffectTypes

(* What a step does to what is reported: nothing (Quiet), one more request  *)
(* passed over (PassOver), or the end of an iteration (Ends), whose result, *)
(* if it says that a response was read, was committed. It commits no other  *)
(* request than the current one (OthersStay).                               *)
Quiet == UNCHANGED <<results, runStatus, options>>

OthersStay == \A r \in Planned : r # current => committed'[r] = committed[r]

Ends ==
  /\ stage # "ended" /\ current \in Planned
  /\ stage = "between" => ~stop /\ ~aborted
  /\ \E o \in Outcome, c \in Category, n \in 0..(MaxRetries + 1) :
       /\ Finish(o, c, n)
       /\ SaysResponse([outcome |-> o, category |-> c, attempts |-> n])
            => committed'[current] = 1

(* A step by the effect it has on what is reported. *)
LEMMA StepShape ==
  ASSUME RunInv, [RunNext]_runVars
  PROVE  /\ OthersStay
         /\ \/ Quiet \/ Ends \/ PassOver
  <1>0. LoopTypes /\ EffectTypes /\ Counters
    BY TypesAre DEF RunInv
  <1>1. CASE PassOver
    BY <1>1 DEF PassOver, effects, OthersStay
  <1>2. CASE End \/ StartReading \/ Cancel \/ UNCHANGED runVars
    BY <1>2 DEF End, StartReading, Cancel, runVars, effects, OthersStay, Quiet
  <1>3. CASE SkipMissingVariable \/ SkipDestructive
    <2>1. PICK c \in {"dependency", "destructive"} : Finish("Skipped", c, 0)
      BY <1>3 DEF SkipMissingVariable, SkipDestructive
    <2>2. UNCHANGED effects /\ MayStart
      BY <1>3 DEF SkipMissingVariable, SkipDestructive
    <2>3. 0 \in 0..(MaxRetries + 1) /\ c \in Category /\ "Skipped" \in Outcome
      BY PlanBounds
    <2>4. ~SaysResponse([outcome |-> "Skipped", category |-> c, attempts |-> 0])
      BY DEF SaysResponse
    <2> QED
      BY <2>1, <2>2, <2>3, <2>4 DEF MayStart, effects, Ends, OthersStay
  <1>4. CASE ReadFails
    <2>1. Finish(classifyInvalid, "unread", 0) /\ UNCHANGED effects /\ stage = "reading"
      BY <1>4 DEF ReadFails
    <2>2. classifyInvalid \in Outcome /\ "unread" \in Category /\ 0 \in 0..(MaxRetries + 1)
      BY PlanBounds DEF classifyInvalid
    <2>3. ~SaysResponse([outcome |-> classifyInvalid, category |-> "unread", attempts |-> 0])
      BY DEF SaysResponse, classifyInvalid
    <2>4. current \in Planned
      BY <1>0, <2>1 DEF Counters
    <2> QED
      BY <2>1, <2>2, <2>3, <2>4 DEF effects, Ends, OthersStay
  <1>5. CASE ReadSucceeds \/ DelayElapses \/ DelayAborted
    <2>1. /\ stage \in {"reading", "waiting"} /\ UNCHANGED effects
          /\ \/ Finish("Cancelled", "none", attempt)
             \/ UNCHANGED <<requests, options, aborted, results, runStatus, stop>>
      BY <1>5 DEF ReadSucceeds, DelayElapses, DelayAborted, EnterAttempt
    <2>2. current \in Planned /\ attempt \in 0..(MaxRetries + 1)
      BY <1>0, <2>1 DEF Counters, LoopTypes
    <2>3. ~SaysResponse([outcome |-> "Cancelled", category |-> "none", attempts |-> attempt])
      BY DEF SaysResponse
    <2> QED
      BY <2>1, <2>2, <2>3 DEF effects, Ends, OthersStay, Quiet
  <1>6. CASE Attempt
    <2>1. stage = "attempting" /\ current \in Planned /\ attempt \in 0..(MaxRetries + 1)
      BY <1>0, <1>6 DEF Attempt, Counters, LoopTypes
    <2>2. requests[current].yields \subseteq RunVariables
      BY <1>0, <2>1 DEF LoopTypes, PlannedRequest
    <2>3. ASSUME NEW f \in Facts, NEW extracts \in SUBSET RunVariables, NEW blocking \in BOOLEAN,
                 Answered(f, extracts, blocking)
          PROVE  OthersStay /\ (Quiet \/ Ends)
      <3>1. OthersStay
        BY <1>0, <2>1, <2>3 DEF Answered, EffectTypes, OthersStay
      <3>2. CASE results' = results
        <4>1. ~Finish(Mapped(f, blocking).outcome, Mapped(f, blocking).category, attempt)
          BY <1>0, <3>2, <2>1, MappedFields, FinishMoves DEF LoopTypes
        <4>2. AfterAttempt(Mapped(f, blocking))
          BY <2>3 DEF Answered
        <4> QED
          BY <3>1, <4>1, <4>2, PushedOrRetried DEF Quiet
      <3>3. CASE results' # results
        <4>1. committed'[current] = 1
          BY <2>3, <3>3, PushedAnswerWasCommitted
        <4>2. Finish(Mapped(f, blocking).outcome, Mapped(f, blocking).category, attempt)
          BY <2>3, <3>3, PushedOrRetried DEF Answered
        <4> QED
          BY <2>1, <3>1, <4>1, <4>2, MappedFields DEF Ends
      <3> QED
        BY <3>2, <3>3
    <2>4. ASSUME NEW o \in {"Cancelled", "Failed", "Skipped"},
                 NEW c \in {"cancelled", "precondition", "transport"},
                 AfterAttempt(Blank(o, c))
          PROVE  Quiet \/ Ends
      <3>1. o \in Outcome /\ c \in Category
        OBVIOUS
      <3>2. ~SaysResponse([outcome |-> o, category |-> c, attempts |-> attempt])
        BY DEF SaysResponse
      <3>3. Blank(o, c).outcome = o /\ Blank(o, c).category = c
        BY DEF Blank
      <3>4. Finish(o, c, attempt) \/ UNCHANGED <<results, runStatus, options>>
        BY <2>4, <3>3, PushedOrRetried
      <3> QED
        BY <2>1, <3>1, <3>2, <3>4 DEF Ends, Quiet
    <2>5. ASSUME NEW atTransport \in BOOLEAN, AttemptCancelled(atTransport)
          PROVE  OthersStay /\ (Quiet \/ Ends)
      <3>1. OthersStay
        BY <1>0, <2>1, <2>5 DEF AttemptCancelled, EffectTypes, OthersStay
      <3> QED
        BY <2>4, <2>5, <3>1 DEF AttemptCancelled
    <2>6. CASE AttemptReplaced \/ AttemptInvalid \/ AttemptThrows
      <3>1. OthersStay
        BY <2>6 DEF AttemptReplaced, AttemptInvalid, AttemptThrows, effects, OthersStay
      <3> QED
        BY <2>4, <2>6, <3>1 DEF AttemptReplaced, AttemptInvalid, AttemptThrows, classifyInvalid
    <2> QED
      BY <1>6, <2>2, <2>3, <2>5, <2>6 DEF Attempt
  <1> QED
    BY <1>1, <1>2, <1>3, <1>4, <1>5, <1>6 DEF RunNext, RunnerStep

-----------------------------------------------------------------------------
(* A result that says a response was read stays committed: later steps      *)
(* commit later requests only.                                              *)
LEMMA ReportedStay ==
  ASSUME RunInv, RunInv', ReportedResponseIsCommitted, [RunNext]_runVars
  PROVE  ReportedResponseIsCommitted'
  <1>0. LoopTypes /\ LoopTypes'
    BY DEF RunInv, RunTypeOK, LoopTypes
  <1>1. \A r \in Pushed : r \in Planned /\ r # current
    BY <1>0, PlanBounds DEF LoopTypes, Pushed, Planned, current
  <1>2. OthersStay /\ (Quiet \/ Ends \/ PassOver)
    BY StepShape
  <1>3. CASE Quiet
    <2>1. Pushed' = Pushed /\ results' = results
      BY <1>3 DEF Quiet, Pushed
    <2> QED
      BY <1>1, <1>2, <2>1 DEF ReportedResponseIsCommitted, OthersStay
  <1>4. ASSUME NEW o \in Outcome, NEW c \in Category, NEW n \in 0..(MaxRetries + 1),
               Pushes(o, c, n), current \in Planned,
               SaysResponse([outcome |-> o, category |-> c, attempts |-> n])
                 => committed'[current] = 1
        PROVE  ReportedResponseIsCommitted'
    <2>1. Pushed' = Pushed \union {current}
      BY <1>0, <1>4 DEF Pushes, LoopTypes, Pushed, current
    <2>2. \A r \in Pushed : results'[r] = results[r]
      BY <1>0, <1>4 DEF Pushes, LoopTypes, Pushed
    <2>3. results'[current] = [outcome |-> o, category |-> c, attempts |-> n]
      BY <1>0, <1>4 DEF Pushes, LoopTypes, current
    <2>4. ASSUME NEW r \in Pushed', SaysResponse(results'[r])
          PROVE  committed'[r] = 1
      <3>1. CASE r \in Pushed
        BY <1>1, <1>2, <2>2, <2>4, <3>1 DEF ReportedResponseIsCommitted, OthersStay, SaysResponse
      <3>2. CASE r = current
        BY <1>4, <2>3, <2>4, <3>2
      <3> QED
        BY <2>1, <3>1, <3>2
    <2> QED
      BY <2>4 DEF ReportedResponseIsCommitted, SaysResponse
  <1>5. CASE Ends
    <2>1. PICK o \in Outcome, c \in Category, n \in 0..(MaxRetries + 1) :
            /\ Finish(o, c, n)
            /\ SaysResponse([outcome |-> o, category |-> c, attempts |-> n])
                 => committed'[current] = 1
      BY <1>5 DEF Ends
    <2>2. Pushes(o, c, n) /\ current \in Planned
      BY <1>5, <2>1 DEF Finish, Pushes, Ends
    <2> QED
      BY <1>4, <2>1, <2>2
  <1>6. CASE PassOver
    <2>1. /\ current \in Planned
          /\ Pushes("Skipped", "none", 0) \/ Pushes("Cancelled", "none", 0)
      BY <1>6 DEF PassOver, Pushes
    <2>2. 0 \in 0..(MaxRetries + 1) /\ "none" \in Category /\ {"Skipped", "Cancelled"} \subseteq Outcome
      BY PlanBounds
    <2>3. \A o \in {"Skipped", "Cancelled"} :
            ~SaysResponse([outcome |-> o, category |-> "none", attempts |-> 0])
      BY DEF SaysResponse
    <2> QED
      BY <1>4, <2>1, <2>2, <2>3
  <1> QED
    BY <1>2, <1>3, <1>5, <1>6

-----------------------------------------------------------------------------
(* Why a run that goes on has the status it has: while a request is under   *)
(* way nothing has stopped the loop, and a status other than completed has  *)
(* the flag or the signal that keeps the loop from starting requests.       *)
StatusFitsLoop ==
  /\ stage \in {"reading", "attempting", "waiting"} => runStatus = "completed"
  /\ runStatus = "stopped" => stop
  /\ runStatus = "cancelled" => stop \/ aborted

StatusInv == StatusFitsLoop /\ StatusExplainsResults

(* An iteration begins only in a run that has not been stopped. *)
LEMMA LoopStaysFit ==
  ASSUME RunInv, StatusFitsLoop, [RunNext]_runVars
  PROVE  StatusFitsLoop' /\ (Ends => runStatus = "completed")
  <1>0. LoopTypes
    BY TypesAre DEF RunInv
  <1>1. Ends => runStatus = "completed"
    BY <1>0 DEF Ends, StatusFitsLoop, LoopTypes
  <1>2. CASE Ends
    <2>1. PICK o \in Outcome, c \in Category, n \in 0..(MaxRetries + 1) : Finish(o, c, n)
      BY <1>2 DEF Ends
    <2>2. runStatus = "completed"
      BY <1>1, <1>2
    <2>3. /\ stage' = "between" /\ stop' = (stop \/ shouldStopAfter(o))
          /\ runStatus' = "stopped" => shouldStopAfter(o)
          /\ runStatus' = "cancelled" => o = "Cancelled"
      BY <2>1, <2>2 DEF Finish
    <2>4. o = "Cancelled" => shouldStopAfter(o)
      BY DEF shouldStopAfter
    <2> QED
      BY <1>1, <2>3, <2>4 DEF StatusFitsLoop
  <1>3. CASE PassOver
    BY <1>0, <1>1, <1>3 DEF PassOver, StatusFitsLoop, LoopTypes
  <1>4. CASE ~Ends /\ ~PassOver
    <2>1. Quiet
      BY <1>4, StepShape
    <2>2. /\ stage' \in {"reading", "attempting", "waiting"} => runStatus = "completed"
          /\ stop' = stop /\ (aborted => aborted')
      <3>1. ASSUME NEW o, NEW c, NEW n, Finish(o, c, n) PROVE FALSE
        <4>1. results' # results
          BY <1>0, <3>1 DEF Finish, LoopTypes
        <4> QED
          BY <2>1, <4>1 DEF Quiet
      <3>2. \A result : AfterAttempt(result) => stage' = "waiting" /\ UNCHANGED <<stop, aborted>>
        BY <3>1, PushedOrRetried
      <3>3. EnterAttempt => UNCHANGED <<stop, aborted>>
        BY <3>1 DEF EnterAttempt
      <3>4. CASE End \/ StartReading \/ Cancel \/ UNCHANGED runVars
        BY <1>0, <3>4 DEF End, StartReading, MayStart, Cancel, runVars, StatusFitsLoop, LoopTypes
      <3>5. CASE SkipMissingVariable \/ SkipDestructive \/ ReadFails \/ DelayAborted
        BY <3>1, <3>5 DEF SkipMissingVariable, SkipDestructive, ReadFails, DelayAborted
      <3>6. CASE ReadSucceeds \/ DelayElapses
        BY <3>3, <3>6 DEF ReadSucceeds, DelayElapses, StatusFitsLoop
      <3>7. CASE Attempt
        BY <3>2, <3>7 DEF Attempt, Answered, AttemptCancelled, AttemptReplaced, AttemptInvalid,
           AttemptThrows, StatusFitsLoop
      <3> QED
        BY <1>4, <3>4, <3>5, <3>6, <3>7 DEF RunNext, RunnerStep
    <2> QED
      BY <1>1, <2>1, <2>2 DEF Quiet, StatusFitsLoop
  <1> QED
    BY <1>2, <1>3, <1>4

(* Pushing one more result keeps results and status in agreement: it is the *)
(* failure that stops the run, the first cancelled request, a skip after    *)
(* the stop, or nothing that changes the status.                            *)
LEMMA StatusStays ==
  ASSUME RunInv, RunInv', StatusInv, [RunNext]_runVars
  PROVE  StatusExplainsResults'
  <1>0. LoopTypes /\ LoopTypes'
    BY DEF RunInv, RunTypeOK, LoopTypes
  <1>1. CASE Quiet
    BY <1>1 DEF Quiet, StatusInv, StatusExplainsResults, Pushed, shouldStopAfter
  <1>2. ASSUME NEW o \in Outcome, NEW c, NEW n, Pushes(o, c, n)
        PROVE  /\ Pushed' = Pushed \union {current} /\ Pushed \subseteq Int /\ current \in Int
               /\ \A r \in Pushed : r < current /\ results'[r] = results[r]
               /\ results'[current].outcome = o
    BY <1>0, <1>2 DEF Pushes, LoopTypes, Pushed, current
  <1>3. \A r \in Pushed : results[r].outcome \in Outcome
    <2>1. \A r \in Pushed : results[r] \in Result
      BY <1>0 DEF LoopTypes, Pushed
    <2> QED
      BY <2>1 DEF Result
  <1>4. CASE Ends
    <2>1. PICK o \in Outcome, c \in Category, n \in 0..(MaxRetries + 1) : Finish(o, c, n)
      BY <1>4 DEF Ends
    <2>2. Pushes(o, c, n) /\ options' = options
      BY <2>1 DEF Finish, Pushes
    <2>3. runStatus = "completed"
      BY <1>4, LoopStaysFit DEF StatusInv
    <2>4. \A r \in Pushed :
            results[r].outcome # "Cancelled" /\ ~shouldStopAfter(results[r].outcome)
      BY <2>3 DEF StatusInv, StatusExplainsResults
    <2>5. runStatus' = IF o = "Cancelled" THEN "cancelled"
                       ELSE IF shouldStopAfter(o) THEN "stopped" ELSE "completed"
      BY <2>1, <2>3 DEF Finish
    <2>6. CASE o = "Cancelled"
      <3>1. runStatus' = "cancelled"
        BY <2>5, <2>6
      <3>2. current \in Pushed' /\ \A q \in Pushed' : results'[q].outcome = "Cancelled" <=> q >= current
        BY <1>2, <2>2, <2>4, <2>6
      <3> QED
        BY <3>1, <3>2 DEF StatusExplainsResults
    <2>7. CASE o # "Cancelled" /\ shouldStopAfter(o)
      <3>1. runStatus' = "stopped" /\ o = "Failed" /\ options.policy = "stop-on-first-error"
        BY <2>5, <2>7 DEF shouldStopAfter
      <3>2. \A q \in Pushed : results[q].outcome \in {"Passed", "Skipped"}
        BY <1>3, <2>4, <3>1 DEF shouldStopAfter
      <3>3. /\ current \in Pushed' /\ results'[current].outcome = "Failed"
            /\ \A q \in Pushed' : q < current => results'[q].outcome \in {"Passed", "Skipped"}
            /\ \A q \in Pushed' : ~(q > current)
        BY <1>2, <2>2, <3>1, <3>2
      <3> QED
        BY <2>2, <3>1, <3>3 DEF StatusExplainsResults
    <2>8. CASE o # "Cancelled" /\ ~shouldStopAfter(o)
      <3>1. runStatus' = "completed"
        BY <2>5, <2>8
      <3>2. \A r \in Pushed' :
              results'[r].outcome # "Cancelled" /\ ~shouldStopAfter(results'[r].outcome)
        BY <1>2, <2>2, <2>4, <2>8
      <3> QED
        BY <2>2, <3>1, <3>2 DEF StatusExplainsResults, shouldStopAfter
    <2> QED
      BY <2>6, <2>7, <2>8
  <1>5. CASE PassOver /\ runStatus = "stopped"
    <2>1. /\ Pushes("Skipped", "none", 0) /\ runStatus' = "stopped"
          /\ options' = options /\ "Skipped" \in Outcome
      BY <1>5 DEF PassOver, Pushes
    <2>2. options.policy = "stop-on-first-error"
      BY <1>5 DEF StatusInv, StatusExplainsResults
    <2>3. PICK r \in Pushed :
            /\ results[r].outcome = "Failed"
            /\ \A q \in Pushed : q < r => results[q].outcome \in {"Passed", "Skipped"}
            /\ \A q \in Pushed : q > r => results[q].outcome = "Skipped"
      BY <1>5 DEF StatusInv, StatusExplainsResults
    <2>4. /\ r \in Pushed' /\ results'[r].outcome = "Failed"
          /\ \A q \in Pushed' : q < r => results'[q].outcome \in {"Passed", "Skipped"}
          /\ \A q \in Pushed' : q > r => results'[q].outcome = "Skipped"
      BY <1>2, <2>1, <2>3
    <2> QED
      BY <2>1, <2>2, <2>4 DEF StatusExplainsResults
  <1>6. CASE PassOver /\ runStatus # "stopped"
    <2>1. /\ Pushes("Cancelled", "none", 0) /\ runStatus' = "cancelled"
          /\ "Cancelled" \in Outcome
      BY <1>6 DEF PassOver, Pushes
    <2>2. \E r \in Pushed' : \A q \in Pushed' : results'[q].outcome = "Cancelled" <=> q >= r
      <3>1. CASE runStatus = "completed"
        <4>1. \A r \in Pushed : results[r].outcome # "Cancelled"
          BY <3>1 DEF StatusInv, StatusExplainsResults
        <4>2. current \in Pushed'
              /\ \A q \in Pushed' : results'[q].outcome = "Cancelled" <=> q >= current
          BY <1>2, <2>1, <4>1
        <4> QED
          BY <4>2
      <3>2. CASE runStatus = "cancelled"
        <4>1. PICK r \in Pushed : \A q \in Pushed : results[q].outcome = "Cancelled" <=> q >= r
          BY <3>2 DEF StatusInv, StatusExplainsResults
        <4>2. r \in Pushed' /\ \A q \in Pushed' : results'[q].outcome = "Cancelled" <=> q >= r
          BY <1>2, <2>1, <4>1
        <4> QED
          BY <4>2
      <3> QED
        BY <1>0, <1>6, <3>1, <3>2 DEF LoopTypes
    <2> QED
      BY <2>1, <2>2 DEF StatusExplainsResults
  <1> QED
    BY <1>1, <1>4, <1>5, <1>6, StepShape

-----------------------------------------------------------------------------
(* A response that a result was made from is in history, committed once: no *)
(* retry was expected that then did not follow.                             *)
THEOREM ReportedIsCommitted == RunSpec => []ReportedResponseIsCommitted
  <1>1. RunInit => ReportedResponseIsCommitted
    BY DEF RunInit, Entry, ReportedResponseIsCommitted, Pushed
  <1>2. RunInv /\ RunInv' /\ ReportedResponseIsCommitted /\ [RunNext]_runVars
          => ReportedResponseIsCommitted'
    BY ReportedStay
  <1> QED
    BY <1>1, <1>2, RunSpecInv, PTL DEF RunSpec

(* The status of a run and its results tell the same story, however it is   *)
(* cancelled or stopped and under every failure policy.                     *)
THEOREM StatusIsExplained == RunSpec => []StatusExplainsResults
  <1>1. RunInit => StatusInv
    BY DEF RunInit, Entry, StatusInv, StatusFitsLoop, StatusExplainsResults, Pushed
  <1>2. RunInv /\ RunInv' /\ StatusInv /\ [RunNext]_runVars => StatusInv'
    BY LoopStaysFit, StatusStays DEF StatusInv
  <1>3. StatusInv => StatusExplainsResults
    BY DEF StatusInv
  <1> QED
    BY <1>1, <1>2, <1>3, RunSpecInv, PTL DEF RunSpec

(* Every way into an attempt looks at the signal. *)
LEMMA NoStartOnceAborted ==
  [RunNext]_runVars =>
    [aborted => /\ stage' = "attempting" => stage = "attempting"
                /\ stage' = "reading" => stage = "reading"]_runVars
  <1>1. ASSUME [RunNext]_runVars, aborted
        PROVE  /\ stage' = "attempting" => stage = "attempting"
               /\ stage' = "reading" => stage = "reading"
    <2>1. \A o, c, n : Finish(o, c, n) => stage' = "between"
      BY DEF Finish
    <2>2. \A result : AfterAttempt(result) => stage' \in {"waiting", "between"}
      BY <2>1, PushedOrRetried
    <2>3. EnterAttempt => stage' = "between"
      BY <1>1, <2>1 DEF EnterAttempt
    <2>4. CASE PassOver \/ End \/ Cancel \/ StartReading \/ UNCHANGED runVars
      BY <1>1, <2>4 DEF PassOver, End, Cancel, StartReading, MayStart, runVars
    <2>5. CASE SkipMissingVariable \/ SkipDestructive \/ ReadFails \/ DelayAborted
      BY <2>1, <2>5 DEF SkipMissingVariable, SkipDestructive, ReadFails, DelayAborted
    <2>6. CASE ReadSucceeds \/ DelayElapses
      BY <2>3, <2>6 DEF ReadSucceeds, DelayElapses
    <2>7. CASE Attempt
      BY <2>2, <2>7 DEF Attempt, Answered, AttemptCancelled, AttemptReplaced, AttemptInvalid,
         AttemptThrows
    <2> QED
      BY <1>1, <2>4, <2>5, <2>6, <2>7 DEF RunNext, RunnerStep
  <1> QED
    BY <1>1

(* After the run is cancelled no request is read and no attempt is made. *)
THEOREM CancelStopsStarts == RunSpec => NothingStartsAfterCancel
  BY NoStartOnceAborted, PTL DEF RunSpec, NothingStartsAfterCancel

-----------------------------------------------------------------------------
(* The run as a whole. The edges the planner works with are those of the     *)
(* plan, from the moment they are built.                                     *)
EdgesBuilt == phase \notin {"build", "refused"} => edges = edgesOf(plan)

LEMMA EdgesStayBuilt == EdgesBuilt /\ Next => EdgesBuilt'
  <1> SUFFICES ASSUME EdgesBuilt, Next
               PROVE  EdgesBuilt'
    OBVIOUS
  <1>1. CASE Unresolved \/ CycleFound
    BY <1>1 DEF Unresolved, CycleFound, Refuse, EdgesBuilt
  <1>2. CASE Build
    BY <1>2 DEF Build, EdgesBuilt
  <1>3. CASE Enter \/ TrySuccessor \/ Leave
    BY <1>3 DEF Enter, TrySuccessor, Leave, EdgesBuilt
  <1>4. CASE StartSort \/ Schedule \/ Publish
    BY <1>4 DEF StartSort, Schedule, Publish, EdgesBuilt
  <1> QED
    BY <1>1, <1>2, <1>3, <1>4 DEF Next

(* A planned order has a place for every member: it is a bijection, so it is *)
(* as long as the plan is large.                                             *)
LEMMA OrderHasEveryMember ==
  ASSUME Inv, phase = "planned"
  PROVE  order \in [Members -> Members] /\ OrderedOnce
  <1>1. order \in Seq(Members) /\ OrderedOnce /\ Members \subseteq Scheduled /\ Size \in Nat
    BY MembersAreNaturals DEF Inv, TypeOK, Sorting
  <1> DEFINE n == Len(order)
  <1>2. n \in Nat /\ order \in [1..n -> Members] /\ DOMAIN order = 1..n
    BY <1>1
  <1>3. order \in Surjection(1..n, Members)
    BY <1>1, <1>2 DEF Surjection, Scheduled, Range
  <1>4. order \in Injection(1..n, Members)
    BY <1>1, <1>2 DEF Injection, IsInjective, OrderedOnce
  <1>5. ExistsBijection(1..n, Members)
    BY <1>3, <1>4 DEF ExistsBijection, Bijection
  <1>6. Cardinality(Members) = n
    BY <1>2, <1>5, FS_CountingElements
  <1>7. Cardinality(1..Size) = IF 1 > Size THEN 0 ELSE Size - 1 + 1
    BY <1>1, FS_Interval
  <1>8. n = Size
    BY <1>1, <1>6, <1>7 DEF Members
  <1> QED
    BY <1>1, <1>2, <1>8 DEF Members

(* What is handed over is a plan of the runner's, in which no request that   *)
(* comes later extracts, as far as its analysis knew, what an earlier one    *)
(* needs.                                                                    *)
NoLaterProducer ==
  \A r, q \in Planned : r < q => requests[r].needs \cap requests[q].produces = {}

LEMMA HandedPlanIsOrdered ==
  ASSUME Inv, EdgesBuilt, Start
  PROVE  requests' \in [Planned -> PlannedRequest] /\ NoLaterProducer'
  <1>1. phase = "planned" /\ requests' = [i \in Planned |-> Request(order[i])]
    BY DEF Start, Hand
  <1>2. Planned = Members /\ Variables = RunVariables
    BY PlannedRunAssumption DEF Planned, Members
  <1>3. order \in [Members -> Members] /\ ProducersFirst /\ OrderedOnce /\ edges = edgesOf(plan)
    BY <1>1, OrderHasEveryMember DEF Inv, Sorting, EdgesBuilt
  <1>4. plan \in Plan(Members) /\ members(plan) = Members
    BY DEF Inv, TypeOK, Plan, members
  <1>5. \A r \in Members : \A e \in incoming(r) : e.label \in consumed(plan, r) /\ e.label \in Variables
    BY <1>3, <1>4 DEF incoming, into, edgesOf, implicitEdges, explicitEdges
  <1>6. \A r \in Members : Request(r) \in PlannedRequest
    <2> SUFFICES ASSUME NEW r \in Members
                 PROVE  Request(r) \in PlannedRequest
      OBVIOUS
    <2>1. plan.produces[r] \subseteq Variables
      BY <1>4 DEF Plan
    <2>2. {e.label : e \in incoming(r)} \subseteq Variables
      BY <1>5
    <2> QED
      BY <1>2, <2>1, <2>2 DEF Request, PlannedRequest
  <1>7. requests' \in [Planned -> PlannedRequest]
    BY <1>1, <1>2, <1>3, <1>6
  <1>8. ASSUME NEW r \in Planned, NEW q \in Planned, r < q,
               NEW v \in requests'[r].needs, v \in requests'[q].produces
        PROVE  FALSE
    <2>1. order[r] \in Members /\ order[q] \in Members /\ r \in DOMAIN order /\ q \in DOMAIN order
      BY <1>2, <1>3
    <2>2. requests'[r] = Request(order[r]) /\ requests'[q] = Request(order[q])
      BY <1>1
    <2>3. PICK e \in incoming(order[r]) : v = e.label
      BY <1>8, <2>2 DEF Request
    <2>4. v \in consumed(plan, order[r]) /\ v \in Variables
      BY <1>5, <2>1, <2>3
    <2>5. order[q] \in plan.readable /\ v \in plan.produces[order[q]]
      BY <1>8, <2>2 DEF Request
    <2>6. r \in Nat /\ q \in Nat
      BY PlanBounds DEF Planned
    <2>7. order[q] # order[r]
      BY <1>3, <1>8, <2>1, <2>6 DEF OrderedOnce
    <2> DEFINE d == [from |-> order[q], to |-> order[r], kind |-> "implicit", label |-> v]
    <2>8. d \in implicitEdges(plan)
      BY <1>4, <2>1, <2>4, <2>5, <2>7 DEF implicitEdges, producersOf
    <2>9. d \in into(order[r]) /\ d.from = order[q]
      BY <1>3, <2>8 DEF into, edgesOf
    <2>10. PICK i \in DOMAIN order : i < r /\ order[i] = order[q]
      BY <1>3, <2>1, <2>9 DEF ProducersFirst
    <2>11. i = q
      BY <1>3, <2>1, <2>10 DEF OrderedOnce
    <2> QED
      BY <1>8, <2>6, <2>10, <2>11
  <1> QED
    BY <1>7, <1>8 DEF NoLaterProducer

-----------------------------------------------------------------------------
(* A request is skipped for a dependency only while a variable it needs is   *)
(* missing, and nothing is extracted in that step.                           *)
DependencySkips ==
  \/ results' = results
  \/ \E x \in Result :
       /\ results' = Append(results, x)
       /\ x.category = "dependency" =>
            current \in Planned /\ MissingVariables(current) # {} /\ store' = store

(* The store grows by what the request that is being attempted extracts.     *)
StoreGrows ==
  \/ store' = store
  \/ /\ current \in Planned
     /\ \E extracts \in SUBSET requests[current].yields : store' = store \cup extracts

LEMMA ResultsAndStore ==
  ASSUME RunInv, [RunNext]_runVars
  PROVE  requests' = requests /\ DependencySkips /\ StoreGrows
  <1>0. LoopTypes /\ EffectTypes /\ Counters
    BY TypesAre DEF RunInv
  <1>1. \A o \in Outcome, c \in Category, n \in 0..(MaxRetries + 1) :
          Finish(o, c, n) /\ c # "dependency" => requests' = requests /\ DependencySkips
    BY DEF Finish, DependencySkips, Result
  <1>2. \A x : AfterAttempt(x) /\ x.outcome \in Outcome /\ x.category \in Category
               /\ x.category # "dependency" => requests' = requests /\ DependencySkips
    <2> SUFFICES ASSUME NEW x, AfterAttempt(x), x.outcome \in Outcome, x.category \in Category,
                        x.category # "dependency"
                 PROVE  requests' = requests /\ DependencySkips
      OBVIOUS
    <2>1. attempt \in 0..(MaxRetries + 1)
      BY <1>0 DEF LoopTypes
    <2>2. CASE Finish(x.outcome, x.category, attempt)
      BY <1>1, <2>1, <2>2
    <2>3. CASE UNCHANGED <<requests, results>>
      BY <2>3 DEF DependencySkips
    <2> QED
      BY <2>2, <2>3, PushedOrRetried
  <1>3. CASE PassOver
    <2>1. requests' = requests /\ store' = store
      BY <1>3 DEF PassOver, effects
    <2>2. \E x \in Result : results' = Append(results, x) /\ x.category = "none"
      BY <1>3, PlanBounds DEF PassOver, Result
    <2> QED
      BY <2>1, <2>2 DEF DependencySkips, StoreGrows
  <1>4. CASE End \/ StartReading \/ Cancel \/ UNCHANGED runVars
    BY <1>4 DEF End, StartReading, Cancel, runVars, effects, DependencySkips, StoreGrows
  <1>5. CASE SkipMissingVariable
    <2>1. /\ Finish("Skipped", "dependency", 0) /\ UNCHANGED <<store, committed>>
          /\ current \in Planned /\ MissingVariables(current) # {}
      BY <1>5 DEF SkipMissingVariable, MayStart, effects
    <2>2. \E x \in Result : results' = Append(results, x)
      BY <2>1, PlanBounds DEF Finish, Result
    <2> QED
      BY <2>1, <2>2 DEF Finish, DependencySkips, StoreGrows
  <1>6. CASE SkipDestructive
    <2>1. Finish("Skipped", "destructive", 0) /\ UNCHANGED <<store, committed>>
      BY <1>6 DEF SkipDestructive, effects
    <2> QED
      BY <1>1, <2>1, PlanBounds DEF StoreGrows
  <1>7. CASE ReadFails
    <2>1. Finish(classifyInvalid, "unread", 0) /\ UNCHANGED <<store, committed>>
      BY <1>7 DEF ReadFails, effects
    <2>2. classifyInvalid \in Outcome
      BY DEF classifyInvalid
    <2> QED
      BY <1>1, <2>1, <2>2, PlanBounds DEF StoreGrows
  <1>8. CASE ReadSucceeds \/ DelayElapses \/ DelayAborted
    <2>1. /\ UNCHANGED <<store, committed>>
          /\ \/ Finish("Cancelled", "none", attempt)
             \/ UNCHANGED <<requests, options, aborted, results, runStatus, stop>>
      BY <1>8 DEF ReadSucceeds, DelayElapses, DelayAborted, EnterAttempt, effects
    <2>2. attempt \in 0..(MaxRetries + 1)
      BY <1>0 DEF LoopTypes
    <2> QED
      BY <1>1, <2>1, <2>2 DEF StoreGrows, DependencySkips
  <1>9. CASE Attempt
    <2>1. current \in Planned
      BY <1>0, <1>9 DEF Attempt, Counters
    <2>2. ASSUME NEW f \in Facts, NEW extracts \in SUBSET requests[current].yields,
                 NEW blocking \in BOOLEAN, Answered(f, extracts, blocking)
          PROVE  requests' = requests /\ DependencySkips /\ StoreGrows
      <3>1. store' = store \union extracts /\ AfterAttempt(Mapped(f, blocking))
        BY <2>2 DEF Answered
      <3>2. /\ Mapped(f, blocking).outcome \in Outcome /\ Mapped(f, blocking).category \in Category
            /\ Mapped(f, blocking).category # "dependency"
        <4>1. MappedCategory(f, blocking) # "dependency"
          BY DEF MappedCategory
        <4> QED
          BY <4>1, MappedFields DEF Mapped
      <3>3. requests' = requests /\ DependencySkips
        BY <1>2, <3>1, <3>2
      <3> QED
        BY <2>1, <3>1, <3>3 DEF StoreGrows
    <2>3. ASSUME NEW o \in {"Cancelled", "Failed", "Skipped"},
                 NEW c \in {"cancelled", "precondition", "transport"},
                 AfterAttempt(Blank(o, c)), store' = store
          PROVE  requests' = requests /\ DependencySkips /\ StoreGrows
      <3>1. /\ Blank(o, c).outcome \in Outcome /\ Blank(o, c).category \in Category
            /\ Blank(o, c).category # "dependency"
        BY DEF Blank
      <3> QED
        BY <1>2, <2>3, <3>1 DEF StoreGrows
    <2>4. ASSUME NEW atTransport \in BOOLEAN, AttemptCancelled(atTransport)
          PROVE  requests' = requests /\ DependencySkips /\ StoreGrows
      BY <2>3, <2>4 DEF AttemptCancelled
    <2>5. CASE AttemptReplaced \/ AttemptInvalid \/ AttemptThrows
      BY <2>3, <2>5 DEF AttemptReplaced, AttemptInvalid, AttemptThrows, classifyInvalid, effects
    <2> QED
      BY <1>9, <2>2, <2>4, <2>5 DEF Attempt
  <1> QED
    BY <1>3, <1>4, <1>5, <1>6, <1>7, <1>8, <1>9 DEF RunNext, RunnerStep

(* What was missing when a request was skipped is extracted later only by a  *)
(* request whose analysis did not know of it.                                *)
LEMMA SkippedStayWithout ==
  ASSUME RunInv, NoLaterProducer, SkippedConsumersStayWithout, [RunNext]_runVars
  PROVE  SkippedConsumersStayWithout'
  <1>1. requests' = requests /\ DependencySkips /\ StoreGrows
    BY ResultsAndStore
  <1>2. /\ results \in Seq(Result) /\ Len(results) \in Nat /\ current = Len(results) + 1
        /\ requests \in [Planned -> PlannedRequest] /\ Len(results) <= Total /\ Total \in Nat
    BY PlanBounds DEF RunInv, RunTypeOK, current
  <1>3. ASSUME NEW r \in Planned, r < current, NEW v \in requests[r].needs, v \notin store
        PROVE  \/ v \notin store'
               \/ \E p \in Planned : v \in requests[p].yields \ requests[p].produces
    <2>1. CASE store' = store
      BY <1>3, <2>1
    <2>2. ASSUME current \in Planned, NEW extracts \in SUBSET requests[current].yields,
                 store' = store \cup extracts, v \in store'
          PROVE  v \in requests[current].yields \ requests[current].produces
      <3>1. v \in requests[current].yields
        BY <1>3, <2>2
      <3>2. v \notin requests[current].produces
        BY <1>3, <2>2 DEF NoLaterProducer
      <3> QED
        BY <3>1, <3>2
    <2> QED
      BY <1>1, <2>1, <2>2 DEF StoreGrows
  <1>4. ASSUME NEW r \in Pushed, results[r].category = "dependency"
        PROVE  \E v \in requests[r].needs :
                 \/ v \notin store'
                 \/ \E p \in Planned : v \in requests[p].yields \ requests[p].produces
    <2>1. r \in Planned /\ r < current
      BY <1>2 DEF Pushed, Planned
    <2>2. PICK v \in requests[r].needs :
            \/ v \notin store
            \/ \E p \in Planned : v \in requests[p].yields \ requests[p].produces
      BY <1>4 DEF SkippedConsumersStayWithout
    <2> QED
      BY <1>3, <2>1, <2>2
  <1>5. CASE results' = results
    BY <1>1, <1>4, <1>5 DEF SkippedConsumersStayWithout, Pushed
  <1>6. ASSUME NEW x \in Result, results' = Append(results, x),
               x.category = "dependency" =>
                 current \in Planned /\ MissingVariables(current) # {} /\ store' = store
        PROVE  SkippedConsumersStayWithout'
    <2>1. /\ Pushed' = Pushed \cup {current} /\ results'[current] = x
          /\ \A r \in Pushed : results'[r] = results[r]
      BY <1>2, <1>6 DEF Pushed
    <2>2. ASSUME x.category = "dependency"
          PROVE  \E v \in requests[current].needs : v \notin store'
      BY <1>6, <2>2 DEF MissingVariables
    <2> QED
      BY <1>1, <1>4, <2>1, <2>2 DEF SkippedConsumersStayWithout
  <1> QED
    BY <1>1, <1>5, <1>6 DEF DependencySkips

-----------------------------------------------------------------------------
(* While the plan is made the runner has not begun; once it runs, the        *)
(* planner's work is put away.                                               *)
Planning == phase # "executing" => Inv /\ EdgesBuilt /\ RunNotBegun

Running ==
  phase = "executing" =>
    /\ refusal = "" /\ cycles = {}
    /\ RunInv /\ NoLaterProducer /\ StatusInv
    /\ ReportedResponseIsCommitted /\ SkippedConsumersStayWithout

PlannedInv == Planning /\ Running

(* Nothing has been reported at the runner's entry. *)
LEMMA NothingReportedYet ==
  Entry => StatusInv /\ ReportedResponseIsCommitted /\ SkippedConsumersStayWithout
           /\ CommittedAtMostOnce
  BY DEF Entry, StatusInv, StatusFitsLoop, StatusExplainsResults, ReportedResponseIsCommitted,
     SkippedConsumersStayWithout, CommittedAtMostOnce, Pushed

(* The same of the state after the step that hands the plan over. *)
Begins == Entry /\ requests \in [Planned -> PlannedRequest] /\ aborted \in BOOLEAN

Sound == RunInv /\ StatusInv /\ ReportedResponseIsCommitted /\ SkippedConsumersStayWithout

LEMMA HandedEntryIsSound == Begins' => Sound'
  <1>1. Begins => Sound
    BY EntryIsSound, NothingReportedYet DEF Begins, Sound
  <1> QED
    BY <1>1, PTL

(* The planner's steps leave the phases of the planner only by Start. *)
LEMMA PlannerPhases == Next => phase' # "executing" /\ phase # "executing"
  BY DEF Next, Unresolved, Build, Enter, TrySuccessor, Leave, CycleFound, StartSort, Schedule,
     Publish, Refuse

LEMMA PlannedStepsPreserve == PlannedInv /\ [PlannedNext]_runVarsAndPlan => PlannedInv'
  <1> SUFFICES ASSUME PlannedInv, [PlannedNext]_runVarsAndPlan
               PROVE  PlannedInv'
    OBVIOUS
  <1>1. CASE Enrich
    <2>1. Next /\ phase # "executing" /\ phase' # "executing" /\ UNCHANGED runVars
      BY <1>1, PlannerPhases DEF Enrich
    <2>2. Inv /\ EdgesBuilt /\ RunNotBegun
      BY <2>1 DEF PlannedInv, Planning
    <2>3. Inv' /\ EdgesBuilt'
      BY <2>1, <2>2, StepsPreserve, EdgesStayBuilt
    <2>4. RunNotBegun'
      BY <2>1, <2>2 DEF RunNotBegun, Entry, runVars, effects
    <2> QED
      BY <2>1, <2>3, <2>4 DEF PlannedInv, Planning, Running
  <1>2. CASE Start
    <2>1. phase = "planned" /\ phase' = "executing" /\ refusal' = "" /\ cycles' = {}
      BY <1>2 DEF Start, Hand
    <2>2. Inv /\ EdgesBuilt /\ RunNotBegun
      BY <2>1 DEF PlannedInv, Planning
    <2>3. requests' \in [Planned -> PlannedRequest] /\ NoLaterProducer'
      BY <1>2, <2>2, HandedPlanIsOrdered
    <2>4. Entry' /\ aborted' \in BOOLEAN
      BY <1>2, <2>2 DEF Start, Hand, RunNotBegun, Entry, effects
    <2> QED
      BY <2>1, <2>3, <2>4, HandedEntryIsSound DEF Begins, Sound, PlannedInv, Planning, Running
  <1>3. CASE Executes(RunnerStep) \/ Executes(Cancel)
    <2>1. phase = "executing" /\ RunNext /\ UNCHANGED <<phase, refusal, cycles>>
      BY <1>3 DEF Executes, RunNext, planning, vars
    <2>2. RunInv /\ NoLaterProducer /\ StatusInv /\ ReportedResponseIsCommitted
          /\ SkippedConsumersStayWithout /\ refusal = "" /\ cycles = {}
      BY <2>1 DEF PlannedInv, Running
    <2>3. RunInv'
      BY <2>1, <2>2, RunNextInv
    <2>4. StatusInv' /\ ReportedResponseIsCommitted' /\ SkippedConsumersStayWithout'
      BY <2>1, <2>2, <2>3, LoopStaysFit, StatusStays, ReportedStay, SkippedStayWithout
         DEF StatusInv
    <2>5. NoLaterProducer'
      BY <2>1, <2>2, ResultsAndStore DEF NoLaterProducer
    <2> QED
      BY <2>1, <2>2, <2>3, <2>4, <2>5 DEF PlannedInv, Planning, Running
  <1>4. CASE UNCHANGED runVarsAndPlan
    <2>1. UNCHANGED vars /\ UNCHANGED runVars /\ UNCHANGED <<phase, refusal, cycles, edges, plan>>
      BY <1>4 DEF runVarsAndPlan, planning, vars
    <2>2. CASE phase # "executing"
      <3>1. Inv /\ EdgesBuilt /\ RunNotBegun
        BY <2>2 DEF PlannedInv, Planning
      <3>2. Inv'
        BY <2>1, <3>1, StepsPreserve
      <3>3. EdgesBuilt' /\ RunNotBegun'
        BY <2>1, <3>1 DEF EdgesBuilt, RunNotBegun, Entry, runVars, effects
      <3> QED
        BY <2>1, <2>2, <3>2, <3>3 DEF PlannedInv, Planning, Running
    <2>3. CASE phase = "executing"
      <3>1. RunInv /\ NoLaterProducer /\ StatusInv /\ ReportedResponseIsCommitted
            /\ SkippedConsumersStayWithout /\ refusal = "" /\ cycles = {}
        BY <2>3 DEF PlannedInv, Running
      <3>2. RunInv'
        BY <2>1, <3>1, RunNextInv
      <3>3. StatusInv' /\ ReportedResponseIsCommitted' /\ SkippedConsumersStayWithout'
        BY <2>1, <3>1, <3>2, LoopStaysFit, StatusStays, ReportedStay, SkippedStayWithout
           DEF StatusInv
      <3>4. NoLaterProducer'
        BY <2>1, <3>1 DEF NoLaterProducer, runVars
      <3> QED
        BY <2>1, <2>3, <3>1, <3>2, <3>3, <3>4 DEF PlannedInv, Planning, Running
    <2> QED
      BY <2>2, <2>3
  <1> QED
    BY <1>1, <1>2, <1>3, <1>4 DEF PlannedNext

LEMMA PlannedInvHolds == PlannedSpec => []PlannedInv
  <1>1. PlannedInit => PlannedInv
    <2> SUFFICES ASSUME PlannedInit
                 PROVE  PlannedInv
      OBVIOUS
    <2>1. phase = "build" /\ Init /\ RunNotBegun
      BY DEF PlannedInit, Init
    <2> QED
      BY <2>1, InvHoldsFirst DEF PlannedInv, Planning, Running, EdgesBuilt
  <1> QED
    BY <1>1, PlannedStepsPreserve, PTL DEF PlannedSpec

(* From the membership plan to the last result, for plans of any size: the   *)
(* order is sound, a cycle is refused exactly when there is one, nothing is  *)
(* committed twice, what is reported was committed, and the status says what *)
(* the results say.                                                          *)
THEOREM PlannedRunIsSafe ==
  PlannedSpec => [](/\ OrderRespectsDependencies /\ CyclesBlockExactly
                    /\ CommittedAtMostOnce /\ ReportedResponseIsCommitted
                    /\ StatusExplainsResults)
  <1>1. ASSUME PlannedInv
        PROVE  /\ OrderRespectsDependencies /\ CyclesBlockExactly
               /\ CommittedAtMostOnce /\ ReportedResponseIsCommitted /\ StatusExplainsResults
    <2>1. CASE phase # "executing"
      <3>1. Inv /\ Entry
        BY <1>1, <2>1 DEF PlannedInv, Planning, RunNotBegun
      <3> QED
        BY <3>1, NothingReportedYet, SafeOrder, ExactCycles DEF StatusInv
    <2>2. CASE phase = "executing"
      BY <1>1, <2>2 DEF PlannedInv, Running, RunInv, StatusInv, OrderRespectsDependencies,
         CyclesBlockExactly
    <2> QED
      BY <2>1, <2>2
  <1> QED
    BY <1>1, PlannedInvHolds, PTL

(* A request skipped because a variable was missing would have missed it at  *)
(* the end of the run as well, unless only a request whose text could not be *)
(* analysed before the run extracts it: the order puts every known producer  *)
(* first, and a producer that was skipped or failed never gets another turn. *)
THEOREM SkipsWereJustified == PlannedSpec => []SkippedConsumersStayWithout
  <1>1. PlannedInv => SkippedConsumersStayWithout
    BY NothingReportedYet DEF PlannedInv, Planning, Running, RunNotBegun
  <1> QED
    BY <1>1, PlannedInvHolds, PTL

(* Once the user cancels a planned run, nothing more of it is started. *)
THEOREM CancelStopsPlannedRun == PlannedSpec => NothingStartsAfterCancel
  <1>1. ASSUME PlannedInv, [PlannedNext]_runVarsAndPlan
        PROVE  [aborted => /\ stage' = "attempting" => stage = "attempting"
                           /\ stage' = "reading" => stage = "reading"]_runVars
    <2>1. CASE Enrich \/ UNCHANGED runVarsAndPlan
      BY <2>1 DEF Enrich, runVarsAndPlan
    <2>2. CASE Start
      BY <2>2 DEF Start, Hand
    <2>3. CASE Executes(RunnerStep) \/ Executes(Cancel)
      <3>1. RunNext
        BY <2>3 DEF Executes, RunNext
      <3> QED
        BY <3>1, NoStartOnceAborted
    <2> QED
      BY <1>1, <2>1, <2>2, <2>3 DEF PlannedNext
  <1> QED
    BY <1>1, PlannedInvHolds, PTL DEF PlannedSpec, NothingStartsAfterCancel
=============================================================================
