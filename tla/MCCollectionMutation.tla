------------------------ MODULE MCCollectionMutation ------------------------
(* Two collections with folders and requests in an order that is not that of *)
(* the locale, or one with a nested folder.                                 *)
EXTENDS CollectionMutation, TLC

CONSTANTS a, b, f, g, q, r

Locale == <<f, g, q, r>>

Two ==
  [disk |-> {<<a>>, <<a, f>>, <<a, g>>, <<a, f, q>>, <<a, f, r>>, <<b>>, <<b, q>>},
   marker |-> (a :> [folders |-> (<<>> :> <<g, f>>), requests |-> (<<f>> :> <<r, q>>)])]

Nested ==
  [disk |-> {<<a>>, <<a, f>>, <<a, f, f>>, <<a, f, g>>, <<a, f, g, q>>, <<a, f, g, r>>},
   marker |-> (a :> [folders |-> (<<>> :> <<f>>) @@ (<<f>> :> <<g, f>>),
                     requests |-> (<<f, g>> :> <<r, q>>)])]

MCLayouts == {Two, Nested}
=============================================================================
