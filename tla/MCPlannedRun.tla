----------------------------- MODULE MCPlannedRun -----------------------------
(* Plans of three requests: every graph of explicit edges; requests of one   *)
(* name in one folder or two, with tokens that name one, none or several;    *)
(* and requests that extract and refer to one variable or another, the file  *)
(* of the first perhaps unreadable when the plan is analysed. The second     *)
(* member is a DELETE.                                                       *)
EXTENDS PlannedRun

CONSTANTS root, sub, v, w, noName
Labels == <<"a", "b", "c">>
MCNames == {Labels[r] : r \in Members} \cup {noName}
MCFolders == {root, sub}
MCVariables == {v, w}

Nothing == [r \in Members |-> {}]
Unrelated ==
  [label |-> [r \in Members |-> Labels[r]], folder |-> [r \in Members |-> root],
   produces |-> Nothing, consumes |-> Nothing, dependsOn |-> Nothing, readable |-> Members]

(* One bare token for each edge. *)
Graphs ==
  {[Unrelated EXCEPT !.dependsOn = [r \in Members |-> {bare(Labels[p]) : p \in f[r]}]] :
     f \in {f \in [Members -> SUBSET Members] : \A r \in Members : r \notin f[r]}}

Tokens == {{}, {bare("a")}, {bare("b")}, {[folder |-> sub, name |-> "a"]}, {bare(noName)},
           {bare("b"), [folder |-> root, name |-> "b"]}}
Named ==
  {[Unrelated EXCEPT !.label = <<"b", "a", "a">>,
                     !.folder = <<place, sub, place>>,
                     !.dependsOn = <<t1, {}, t3>>] :
     place \in MCFolders, t1 \in Tokens, t3 \in Tokens}

(* The third extracts what the others refer to, or the first what the third *)
(* does, or each of two refers to what the other extracts.                  *)
Chained ==
  {[Unrelated EXCEPT !.produces = flow.out, !.consumes = flow.in, !.readable = texts] :
     flow \in {[out |-> <<{}, {}, {v}>>, in |-> <<{v}, {v}, {}>>],
               [out |-> <<{v}, {w}, {v}>>, in |-> <<{}, {v}, {v, w}>>],
               [out |-> <<{v}, {w}, {}>>, in |-> <<{w}, {v}, {}>>]},
     texts \in {Members, Members \ {1}}}

MCPlans == Graphs \cup Named \cup Chained
=============================================================================
