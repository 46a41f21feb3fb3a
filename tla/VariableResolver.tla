--------------------------- MODULE VariableResolver ---------------------------
(***************************************************************************)
(* DefaultVariableResolver (src/variables/variable-resolver.ts): which     *)
(* definition of a name counts, what it resolves to, and what is reported  *)
(* and masked when a request refers to it.                                 *)
(*                                                                         *)
(* The recursion of resolveDefinition is a stack of frames, one step per   *)
(* entry, reference and return. A value is known by the definition it      *)
(* comes from and by whether it is sensitive; a text, by the names it      *)
(* refers to. The order in which they are tried is free, and so is the     *)
(* choice among several errors that fit one name.                          *)
(***************************************************************************)
EXTENDS Naturals, Sequences

CONSTANTS
  Names,      \* what a text can refer to
  BuiltIns,   \* of these the built-ins, whose names no definition may have
  Contexts,   \* lists of definitions
  Uses        \* sets of names that a request refers to

Scopes == {"global", "workspace", "collection", "environment", "document", "run"}
Definition == [name : Names, scope : Scopes, sensitive : BOOLEAN, refs : SUBSET Names]

ASSUME VariableResolverAssumption ==
  /\ BuiltIns \subseteq Names
  /\ Contexts \subseteq Seq(Definition)
  /\ Uses \subseteq SUBSET Names

PRECEDENCE == [global |-> 0, workspace |-> 1, collection |-> 2,
               environment |-> 3, document |-> 4, run |-> 5]

VARIABLES
  definitions,  \* of the context
  read,         \* how many of them have been looked at
  effective,    \* the definition that counts, by name
  values,       \* the resolved values, by name
  failed,       \* names that cannot be resolved
  stack,        \* resolving, with the locals of each call
  errors,
  result        \* of resolveRequest

vars == <<definitions, read, effective, values, failed, stack, errors, result>>

Init ==
  /\ definitions \in Contexts
  /\ read = 0
  /\ effective = <<>> /\ values = <<>> /\ failed = {} /\ stack = <<>> /\ errors = {}
  /\ result = [status |-> "none"]

-----------------------------------------------------------------------------
(* Which definition counts: of one scope the first, of several the highest.  *)
With(f, k, v) == [n \in DOMAIN f \union {k} |-> IF n = k THEN v ELSE f[n]]
error(code, name, chain) == [code |-> code, name |-> name, chain |-> chain]

isDuplicate(i) ==
  \E k \in 1..(i - 1) : /\ definitions[k].name = definitions[i].name
                        /\ definitions[k].scope = definitions[i].scope

counts(d) ==
  d.name \in DOMAIN effective =>
    PRECEDENCE[d.scope] > PRECEDENCE[effective[d.name].scope]

Define ==
  LET d == definitions[read + 1] IN
  /\ read < Len(definitions)
  /\ read' = read + 1
  /\ \/ /\ d.name \in BuiltIns
        /\ errors' = errors \union {error("MALFORMED_DEFINITION", d.name, <<d.name>>)}
        /\ UNCHANGED effective
     \/ /\ d.name \notin BuiltIns /\ isDuplicate(read + 1)
        /\ errors' = errors \union {error("DUPLICATE_DEFINITION", d.name, <<d.name>>)}
        /\ UNCHANGED effective
     \/ /\ d.name \notin BuiltIns /\ ~isDuplicate(read + 1)
        /\ effective' = IF counts(d) THEN With(effective, d.name, d) ELSE effective
        /\ UNCHANGED errors
  /\ UNCHANGED <<definitions, values, failed, stack, result>>

-----------------------------------------------------------------------------
(* resolveDefinition. *)
Resolving == read = Len(definitions) /\ result.status = "none"
Known(n) == n \in DOMAIN values \union failed
Top == stack[Len(stack)]
Below == SubSeq(stack, 1, Len(stack) - 1)
Path(n) == Append([i \in 1..Len(stack) |-> stack[i].name], n)
OnStack(n) == \E i \in 1..Len(stack) : stack[i].name = n

Call == [name : Names, todo : SUBSET Names, sensitive : BOOLEAN, valid : BOOLEAN]
Frame(n) == [name |-> n, todo |-> effective[n].refs,
             sensitive |-> effective[n].sensitive, valid |-> TRUE]

(* The loop over the names. *)
Enter(n) ==
  /\ Resolving /\ stack = <<>>
  /\ n \in DOMAIN effective /\ ~Known(n)
  /\ stack' = <<Frame(n)>>
  /\ UNCHANGED <<definitions, read, effective, values, failed, errors, result>>

(* The reference d of the text on top of the stack has no value. *)
Broken(d) ==
  stack' = Append(Below, [Top EXCEPT !.todo = @ \ {d}, !.valid = FALSE])

References(d) == Resolving /\ stack # <<>> /\ d \in Top.todo

(* Faulty: only the text itself decides whether it is sensitive. *)
SubstituteBare(d) ==
  /\ References(d) /\ d \in DOMAIN values
  /\ stack' = Append(Below, [Top EXCEPT !.todo = @ \ {d}])
  /\ UNCHANGED <<definitions, read, effective, values, failed, errors, result>>

Substitute(d) ==
  /\ References(d) /\ d \in DOMAIN values
  /\ stack' = Append(Below, [Top EXCEPT !.todo = @ \ {d},
                                        !.sensitive = @ \/ values[d].sensitive])
  /\ UNCHANGED <<definitions, read, effective, values, failed, errors, result>>

MeetFailed(d) ==
  /\ References(d) /\ d \in failed
  /\ Broken(d)
  /\ UNCHANGED <<definitions, read, effective, values, failed, errors, result>>

(* The names from d up to the top refer to each other in a circle. *)
Since(d) == CHOOSE i \in 1..Len(stack) : stack[i].name = d

(* Faulty: the chain begins where the search began. *)
MeetCycleFromRoot(d) ==
  /\ References(d) /\ ~Known(d) /\ OnStack(d)
  /\ errors' = errors \union {error("CYCLE", d, Path(d))}
  /\ failed' = failed \union {stack[i].name : i \in Since(d)..Len(stack)}
  /\ Broken(d)
  /\ UNCHANGED <<definitions, read, effective, values, result>>

MeetCycle(d) ==
  /\ References(d) /\ ~Known(d) /\ OnStack(d)
  /\ errors' = errors \union {error("CYCLE", d, SubSeq(Path(d), Since(d), Len(stack) + 1))}
  /\ failed' = failed \union {stack[i].name : i \in Since(d)..Len(stack)}
  /\ Broken(d)
  /\ UNCHANGED <<definitions, read, effective, values, result>>

unavailable(n, chain) ==
  error(IF n \in BuiltIns THEN "UNSUPPORTED_BUILT_IN" ELSE "MISSING_VARIABLE", n, chain)

MeetUndefined(d) ==
  /\ References(d) /\ ~Known(d) /\ ~OnStack(d) /\ d \notin DOMAIN effective
  /\ errors' = errors \union {unavailable(d, Path(d))}
  /\ failed' = failed \union {d}
  /\ Broken(d)
  /\ UNCHANGED <<definitions, read, effective, values, result>>

(* The call for d; its outcome is looked up when it has returned. *)
Descend(d) ==
  /\ References(d) /\ ~Known(d) /\ ~OnStack(d) /\ d \in DOMAIN effective
  /\ stack' = Append(stack, Frame(d))
  /\ UNCHANGED <<definitions, read, effective, values, failed, errors, result>>

(* Faulty: a text whose references failed is kept with what was left of it. *)
LeaveRegardless ==
  /\ Resolving /\ stack # <<>> /\ Top.todo = {}
  /\ stack' = Below
  /\ values' = With(values, Top.name, [scope |-> effective[Top.name].scope,
                                       sensitive |-> Top.sensitive])
  /\ UNCHANGED <<definitions, read, effective, failed, errors, result>>

Leave ==
  /\ Resolving /\ stack # <<>> /\ Top.todo = {}
  /\ stack' = Below
  /\ IF Top.valid /\ Top.name \notin failed
       THEN /\ values' = With(values, Top.name, [scope |-> effective[Top.name].scope,
                                                 sensitive |-> Top.sensitive])
            /\ UNCHANGED failed
       ELSE /\ failed' = failed \union {Top.name}
            /\ UNCHANGED values
  /\ UNCHANGED <<definitions, read, effective, errors, result>>

-----------------------------------------------------------------------------
(* resolveRequest: what a request that refers to these names becomes. *)
Analysed == Resolving /\ stack = <<>> /\ \A n \in DOMAIN effective : Known(n)

InChain(n, e) == n = e.name \/ \E i \in 1..Len(e.chain) : e.chain[i] = n
found(n) == {e \in errors : InChain(n, e)}
reasons(n) == IF found(n) = {} THEN {unavailable(n, <<n>>)} ELSE found(n)
duplicates(uses) == {e \in errors : e.code = "DUPLICATE_DEFINITION" /\ e.name \in uses}

Refuse(uses) ==
  LET unresolved == uses \ DOMAIN values IN
  /\ Analysed
  /\ unresolved \union duplicates(uses) # {}
  /\ \E reason \in [unresolved -> UNION {reasons(n) : n \in unresolved}] :
       /\ \A n \in unresolved : reason[n] \in reasons(n)
       /\ result' = [status |-> "refused", uses |-> uses,
                     errors |-> {reason[n] : n \in unresolved} \union duplicates(uses)]
  /\ UNCHANGED <<definitions, read, effective, values, failed, stack, errors>>

(* masked: the names for which the presentation URL and the snapshots show   *)
(* the mask.                                                                *)
Resolve(uses) ==
  /\ Analysed
  /\ uses \subseteq DOMAIN values /\ duplicates(uses) = {}
  /\ result' = [status |-> "resolved", uses |-> uses,
                masked |-> {n \in uses : values[n].sensitive}]
  /\ UNCHANGED <<definitions, read, effective, values, failed, stack, errors>>

Reference(d) ==
  Substitute(d) \/ MeetFailed(d) \/ MeetCycle(d) \/ MeetUndefined(d) \/ Descend(d)

Next ==
  \/ Define
  \/ \E n \in Names : Enter(n) \/ Reference(n)
  \/ Leave
  \/ \E uses \in Uses : Refuse(uses) \/ Resolve(uses)

Spec == Init /\ [][Next]_vars

-----------------------------------------------------------------------------
(* The documented meaning, from the definitions alone. *)
Proper == {i \in 1..Len(definitions) : definitions[i].name \notin BuiltIns}
Defined == {definitions[i].name : i \in Proper}
Beats(i, k) ==
  LET p == PRECEDENCE[definitions[i].scope]
      q == PRECEDENCE[definitions[k].scope] IN
  p > q \/ (p = q /\ i < k)
Winner(n) ==
  definitions[CHOOSE i \in Proper :
                /\ definitions[i].name = n
                /\ \A k \in Proper \ {i} : definitions[k].name = n => Beats(i, k)]

(* The names that resolving n has to do with. *)
Closed(S) == \A n \in S \intersect Defined : Winner(n).refs \subseteq S
Reach(n) ==
  LET around == {S \in SUBSET Names : n \in S /\ Closed(S)} IN
  {m \in Names : \A S \in around : m \in S}

(* No part of S refers to itself in a circle. *)
Grounded(S) == \A T \in SUBSET S : T # {} => \E n \in T : Winner(n).refs \intersect T = {}

(* "ADR-0001: run > document > environment > collection > workspace >        *)
(* global", "detects missing values, stable cycles, self-cycles": a name has *)
(* a value exactly when what it stands for, in whatever order the names are  *)
(* tried, comes down to texts without references.                           *)
ResolvesExactly ==
  Analysed =>
    /\ \A n \in Names : n \in DOMAIN values <=> n \in Defined /\ Winner(n).refs \subseteq DOMAIN values
    /\ Grounded(DOMAIN values)
    /\ \A n \in DOMAIN values : values[n].scope = Winner(n).scope

(* "resolves transitively and propagates sensitivity": in what is shown of a *)
(* request, a name is masked exactly when something sensitive went into its  *)
(* value, be it through other names and from other scopes.                   *)
MaskedExactly ==
  result.status = "resolved" =>
    result.masked = {n \in result.uses : \E m \in Reach(n) : Winner(m).sensitive}

(* "reports transitive missing chains": a chain is a path of references that *)
(* ends at a name without a definition or where it began, and every name     *)
(* that failed leads to a name reported.                                     *)
ErrorsTellWhy ==
  Analysed =>
    /\ \A e \in errors : e.code \in {"CYCLE", "MISSING_VARIABLE", "UNSUPPORTED_BUILT_IN"} =>
         /\ \A i \in 1..(Len(e.chain) - 1) :
              e.chain[i] \in Defined /\ e.chain[i + 1] \in Winner(e.chain[i]).refs
         /\ IF e.code = "CYCLE" THEN Len(e.chain) > 1 /\ e.chain[1] = e.name ELSE e.name \notin Defined
         /\ e.chain[Len(e.chain)] = e.name
    /\ \A n \in Defined \ DOMAIN values : \E e \in errors : e.name \in Reach(n)
                                            /\ e.code \notin {"MALFORMED_DEFINITION", "DUPLICATE_DEFINITION"}

TypeOK ==
  /\ definitions \in Seq(Definition)
  /\ read \in 0..Len(definitions)
  /\ DOMAIN effective \subseteq Names
  /\ \A n \in DOMAIN effective : effective[n] \in Definition
  /\ DOMAIN values \subseteq Names
  /\ \A n \in DOMAIN values : values[n] \in [scope : Scopes, sensitive : BOOLEAN]
  /\ failed \subseteq Names
  /\ stack \in Seq(Call)
  /\ result.status \in {"none", "refused", "resolved"}
=============================================================================
