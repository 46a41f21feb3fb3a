--------------------------- MODULE MCScenarioEngine ---------------------------
(* Every valid control flow over four steps, the first a condition, a       *)
(* variable or a group, the others requests and a delay.                    *)
EXTENDS ScenarioEngine

Graphs ==
  {g \in SUBSET {e \in Step \X Step : e[1] < e[2]} :
     \A to \in Step \ {1} : \E from \in Step : <<from, to>> \in g}

SmallScenarios ==
  {s \in [kind : {<<k, "request", l, "request">> :
                    k \in {"condition", "variable", "group", "request"}, l \in {"delay", "condition"}},
          edges : Graphs,
          branch : {<<{2, 3}, {}, {4}, {}>>, <<{3, 4}, {}, {4}, {}>>},
          maxRetries : {<<0, 1, 0, 0>>},
          delayed : BOOLEAN,
          stopOnFailure : {{}, {2}},
          stopPolicy : BOOLEAN] :
     Valid(s)}
=============================================================================
