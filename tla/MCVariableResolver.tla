-------------------------- MODULE MCVariableResolver --------------------------
(* Three names of one scope that refer to each other, to an undefined one    *)
(* and to a built-in in every way; and two names defined three times over    *)
(* two scopes, with one definition of a built-in.                           *)
EXTENDS VariableResolver

CONSTANTS x, y, z, missing, uuid

N == {x, y, z, missing, uuid}
D(names, scopes, refs) ==
  [name : names, scope : scopes, sensitive : BOOLEAN, refs : refs]
Few == {{}} \union {{p, q} : p, q \in {x, y, z, missing}}

Connected ==
  {<<d1, d2, d3>> : d1 \in D({x}, {"workspace"}, Few),
                    d2 \in D({y}, {"workspace"}, Few),
                    d3 \in D({z}, {"workspace"}, Few)}
Layered ==
  LET Any == D({x, y}, {"workspace", "document"}, {{}, {y}, {uuid}}) IN
  {<<d1, d2, d3>> : d1, d2 \in Any, d3 \in Any \union D({uuid}, {"run"}, {{}})}

TheContexts == Connected \union Layered
TheUses == {{n} : n \in N} \union {{x, y}}
=============================================================================
