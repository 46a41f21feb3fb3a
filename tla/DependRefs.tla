----------------------------- MODULE DependRefs -----------------------------
(***************************************************************************)
(* The references of `@depends-on` and the dependency graph of a set of    *)
(* requests: src/dependencies/depend-ref.ts and graph-builder.ts.          *)
(*                                                                         *)
(* A plan is a record of functions of its members. A token names a request *)
(* by its `@name`, alone or qualified by the folder it lies in.            *)
(***************************************************************************)
EXTENDS Naturals, FiniteSets

CONSTANTS
  Names,      \* `@name` labels
  Folders,    \* relative paths of folders, the collection's root among them
  AnyFolder,  \* the folder of a bare token
  Variables   \* names of variables that requests extract and refer to

ASSUME AnyFolderAssumption == AnyFolder \notin Folders

Token == [folder : Folders \cup {AnyFolder}, name : Names]

Plan(members) ==
  [label : [members -> Names], folder : [members -> Folders],
   produces : [members -> SUBSET Variables], consumes : [members -> SUBSET Variables],
   dependsOn : [members -> SUBSET Token], readable : SUBSET members]

members(plan) == DOMAIN plan.label

-----------------------------------------------------------------------------
(* depend-ref.ts *)
bare(name) == [folder |-> AnyFolder, name |-> name]

(* The members a token names: all of that label, in its folder if it is     *)
(* qualified. It resolves when there is exactly one.                        *)
matches(plan, token) ==
  {r \in members(plan) : /\ plan.label[r] = token.name
                         /\ token.folder \in {AnyFolder, plan.folder[r]}}

Resolves(plan, token, r) == matches(plan, token) = {r}

-----------------------------------------------------------------------------
(* analyze-plan.ts: a member whose file cannot be read or parsed is analysed *)
(* as one that produces, consumes and depends on nothing.                    *)
dependsOnNames(plan, r) == IF r \in plan.readable THEN plan.dependsOn[r] ELSE {}
consumed(plan, r) == IF r \in plan.readable THEN plan.consumes[r] ELSE {}
producersOf(plan, v) == {r \in plan.readable : v \in plan.produces[r]}

(* graph-builder.ts: from every other producer of a variable to each consumer *)
(* of it, and from the target of a token to the request that names it. The    *)
(* label keeps the edges apart that one pair of requests has for two reasons. *)
implicitEdges(plan) ==
  {e \in [from : members(plan), to : members(plan), kind : {"implicit"}, label : Variables] :
     /\ e.label \in consumed(plan, e.to)
     /\ e.from \in producersOf(plan, e.label) \ {e.to}}

explicitEdges(plan) ==
  {e \in [from : members(plan), to : members(plan), kind : {"explicit"}, label : Token] :
     /\ e.label \in dependsOnNames(plan, e.to)
     /\ e.from \in matches(plan, e.label) \ {e.to}}

edgesOf(plan) == implicitEdges(plan) \cup explicitEdges(plan)

unresolvedTokens(plan, r) ==
  {t \in dependsOnNames(plan, r) : \A p \in members(plan) : ~Resolves(plan, t, p)}
=============================================================================
