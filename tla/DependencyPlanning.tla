------------------------- MODULE DependencyPlanning -------------------------
(***************************************************************************)
(* From the membership plan of a run to the order it is executed in        *)
(* (enrichRunPlanWithDependencies, src/dependencies/plan-enricher.ts):     *)
(* the graph is built, a depth-first search looks for cycles               *)
(* (cycle-detector.ts), and Kahn's algorithm sorts what has none           *)
(* (topo-sort.ts). Members are their ordinals in the membership plan.      *)
(* The list `ready`, which insertSorted keeps in ordinal order, is the set *)
(* of its members; successors are tried in any order.                      *)
(***************************************************************************)
EXTENDS DependRefs, Sequences, Functions

CONSTANTS
  Size,   \* number of requests in the plan
  Plans   \* the membership plans considered

Members == 1..Size

ASSUME PlanningAssumption ==
  /\ Size \in Nat
  /\ Plans \subseteq Plan(Members)

VARIABLES
  plan,      \* the membership plan with the analyses of its requests
  phase,     \* "build", "search", "sort", "planned", "refused"
  refusal,   \* code of the failed enrichment, "" before
  edges,     \* edges of the dependency graph
  stack,     \* nodes in the stack of the search, each with successors to try
  done,      \* nodes the search has left, in that order
  cycles,    \* closed paths found
  blocked,   \* blocked[n]: edges into n counted by its remaining in-degree
  ready,     \* nodes with no remaining in-degree
  order      \* the execution order so far

vars == <<plan, phase, refusal, edges, stack, done, cycles, blocked, ready, order>>

Edge == [from : Members, to : Members, kind : {"implicit", "explicit"},
         label : Variables \cup Token]
Phase == {"build", "search", "sort", "planned", "refused"}
Refusal == {"", "UNKNOWN_DEPENDS_ON_TARGET", "AMBIGUOUS_DEPENDS_ON", "DEPENDENCY_CYCLE"}
Frame == [node : Members, todo : SUBSET Members]

InStack == {stack[i].node : i \in DOMAIN stack}
Done == Range(done)
Unvisited == Members \ (InStack \cup Done)
first(nodes) == CHOOSE n \in nodes : \A m \in nodes : n <= m
into(n) == {e \in edges : e.to = n}
successors(n) == {e.to : e \in {d \in edges : d.from = n}}
frame(n) == [node |-> n, todo |-> successors(n)]

Init ==
  /\ plan \in Plans
  /\ phase = "build" /\ refusal = "" /\ edges = {}
  /\ stack = <<>> /\ done = <<>> /\ cycles = {}
  /\ blocked = [n \in Members |-> {}] /\ ready = {} /\ order = <<>>

Refuse(code) == phase' = "refused" /\ refusal' = code

-----------------------------------------------------------------------------
(* buildDependencyGraph stops at the first token, in the order of the plan, *)
(* that names none or several of the members.                               *)
Unresolved ==
  /\ phase = "build"
  /\ LET failing == {r \in Members : unresolvedTokens(plan, r) # {}} IN
     /\ failing # {}
     /\ \E t \in unresolvedTokens(plan, first(failing)) :
          Refuse(IF matches(plan, t) = {} THEN "UNKNOWN_DEPENDS_ON_TARGET"
                 ELSE "AMBIGUOUS_DEPENDS_ON")
  /\ UNCHANGED <<plan, edges, stack, done, cycles, blocked, ready, order>>

Build ==
  /\ phase = "build"
  /\ \A r \in Members : unresolvedTokens(plan, r) = {}
  /\ edges' = edgesOf(plan)
  /\ phase' = "search"
  /\ UNCHANGED <<plan, refusal, stack, done, cycles, blocked, ready, order>>

-----------------------------------------------------------------------------
(* The search: a node is entered from the loop over the nodes or from a      *)
(* successor not yet visited, and left when its successors have been tried.  *)
Enter ==
  /\ phase = "search" /\ stack = <<>> /\ Unvisited # {}
  /\ stack' = <<frame(first(Unvisited))>>
  /\ UNCHANGED <<plan, phase, refusal, edges, done, cycles, blocked, ready, order>>

top == stack[Len(stack)]
below == SubSeq(stack, 1, Len(stack) - 1)

pathFrom(next) ==
  LET start == CHOOSE i \in DOMAIN stack : stack[i].node = next IN
  Append([i \in 1..(Len(stack) - start + 1) |-> stack[start + i - 1].node], next)

(* Faulty: a successor in the stack counts as visited, nothing else. *)
TrySuccessorBlind ==
  /\ phase = "search" /\ stack # <<>>
  /\ \E next \in top.todo :
       LET rest == Append(below, [top EXCEPT !.todo = @ \ {next}]) IN
       stack' = IF next \in Unvisited THEN Append(rest, frame(next)) ELSE rest
  /\ UNCHANGED <<plan, phase, refusal, edges, done, cycles, blocked, ready, order>>

TrySuccessor ==
  /\ phase = "search" /\ stack # <<>>
  /\ \E next \in top.todo :
       LET rest == Append(below, [top EXCEPT !.todo = @ \ {next}])
           path == pathFrom(next) IN
       /\ stack' = IF next \in Unvisited THEN Append(rest, frame(next)) ELSE rest
       /\ cycles' = IF next \in InStack /\ \A c \in cycles : Range(c) # Range(path)
                    THEN cycles \cup {path} ELSE cycles
  /\ UNCHANGED <<plan, phase, refusal, edges, done, blocked, ready, order>>

Leave ==
  /\ phase = "search" /\ stack # <<>> /\ top.todo = {}
  /\ done' = Append(done, top.node)
  /\ stack' = below
  /\ UNCHANGED <<plan, phase, refusal, edges, cycles, blocked, ready, order>>

CycleFound ==
  /\ phase = "search" /\ stack = <<>> /\ Unvisited = {} /\ cycles # {}
  /\ Refuse("DEPENDENCY_CYCLE")
  /\ UNCHANGED <<plan, edges, stack, done, cycles, blocked, ready, order>>

-----------------------------------------------------------------------------
(* topoSort *)
StartSort ==
  /\ phase = "search" /\ stack = <<>> /\ Unvisited = {} /\ cycles = {}
  /\ blocked' = [n \in Members |-> into(n)]
  /\ ready' = {n \in Members : into(n) = {}}
  /\ phase' = "sort"
  /\ UNCHANGED <<plan, refusal, edges, stack, done, cycles, order>>

(* Faulty: one edge out of the scheduled node is enough to release a node. *)
ScheduleEager ==
  /\ phase = "sort" /\ ready # {}
  /\ LET next == first(ready) IN
     /\ order' = Append(order, next)
     /\ blocked' = [n \in Members |-> IF n \in successors(next) THEN {} ELSE blocked[n]]
     /\ ready' = (ready \ {next}) \cup {n \in Members : blocked[n] # {} /\ blocked'[n] = {}}
  /\ UNCHANGED <<plan, phase, refusal, edges, stack, done, cycles>>

Schedule ==
  /\ phase = "sort" /\ ready # {}
  /\ LET next == first(ready) IN
     /\ order' = Append(order, next)
     /\ blocked' = [n \in Members |-> {e \in blocked[n] : e.from # next}]
     /\ ready' = (ready \ {next}) \cup {n \in Members : blocked[n] # {} /\ blocked'[n] = {}}
  /\ UNCHANGED <<plan, phase, refusal, edges, stack, done, cycles>>

(* What could not be scheduled is appended in its original order. *)
Publish ==
  /\ phase = "sort" /\ ready = {}
  /\ order' = IF Members \subseteq Range(order) THEN order
              ELSE order \o SelectSeq([n \in Members |-> n], LAMBDA n : n \notin Range(order))
  /\ phase' = "planned"
  /\ UNCHANGED <<plan, refusal, edges, stack, done, cycles, blocked, ready>>

Next ==
  \/ Unresolved \/ Build
  \/ Enter \/ TrySuccessor \/ Leave \/ CycleFound
  \/ StartSort \/ Schedule \/ Publish

Spec == Init /\ [][Next]_vars

-----------------------------------------------------------------------------
(* Types of the planner's state. *)
TypeOK ==
  /\ plan \in Plan(Members) /\ phase \in Phase /\ refusal \in Refusal
  /\ edges \subseteq Edge /\ cycles \subseteq Seq(Members)
  /\ stack \in Seq(Frame) /\ done \in Seq(Members) /\ order \in Seq(Members)
  /\ blocked \in [Members -> SUBSET Edge] /\ ready \subseteq Members

(* No cycle: every set of members has one that none of the set precedes. *)
Acyclic ==
  \A S \in SUBSET Members : S # {} => \E n \in S : \A e \in into(n) : e.from \notin S

ClosedPath(c) ==
  /\ Len(c) > 1 /\ c[1] = c[Len(c)]
  /\ \A i \in 1..(Len(c) - 1) : c[i + 1] \in successors(c[i])

(* A run starts with every request of the membership exactly once, and each  *)
(* after all it depends on: no response, variable or explicit wish of the    *)
(* user comes too late (the order CollectionRunner executes).                *)
OrderRespectsDependencies ==
  phase = "planned" =>
    /\ Range(order) = Members
    /\ \A i, j \in DOMAIN order : order[i] = order[j] => i = j
    /\ \A e \in edges : \A i, j \in DOMAIN order :
         order[i] = e.from /\ order[j] = e.to => i < j

(* A plan is refused for a cycle exactly when its graph has one, whatever     *)
(* order the search takes, and the paths shown to the user are cycles of it.  *)
CyclesBlockExactly ==
  /\ phase \in {"sort", "planned"} => Acyclic
  /\ refusal = "DEPENDENCY_CYCLE" => ~Acyclic
  /\ \A c \in cycles : ClosedPath(c)

(* Requests no dependency tells apart keep the order the user gave them: the *)
(* next request is always the first of those whose producers all came before. *)
TiesKeepMembershipOrder ==
  phase = "planned" =>
    \A i \in DOMAIN order :
      LET earlier == {order[k] : k \in 1..(i - 1)} IN
      \A n \in Members \ earlier :
        (\A e \in into(n) : e.from \in earlier) => order[i] <= n
=============================================================================
