---------------------------- MODULE MCOmniState ----------------------------
(***************************************************************************)
(* Two branches of a short chain.  The first block creates a property; one *)
(* branch updates it, in its last block twice, the other creates a second  *)
(* property, updates both and freezes.                                     *)
(***************************************************************************)
EXTENDS OmniState

CONSTANTS g, a1, a2, a3, b2, b3

MCBlk == {g, a1, a2, a3, b2, b3}
MCParent == (a1 :> g) @@ (a2 :> a1) @@ (a3 :> a2) @@ (b2 :> a1) @@ (b3 :> b2)

Create == [kind |-> "create", id |-> 1]
Update(p) == [kind |-> "update", id |-> p]
Freeze == [kind |-> "freeze", id |-> 1]

MCTxs ==
  (g :> << >>) @@ (a1 :> <<Create>>) @@ (a2 :> <<Update(1)>>) @@ (a3 :> <<Update(1), Update(1)>>)
    @@ (b2 :> <<Create, Update(1)>>) @@ (b3 :> <<Freeze, Update(2)>>)

=============================================================================
