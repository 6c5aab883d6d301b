---------------------------- MODULE MCBaseIndex ----------------------------
(***************************************************************************)
(* BaseIndex on the tree                                                   *)
(*                                                                         *)
(*    a1                                                                   *)
(*   /                                                                     *)
(*  g --- b1 --- b2                                                        *)
(*                                                                         *)
(* where a transaction is on both branches, at different heights.          *)
(***************************************************************************)
EXTENDS BaseIndex

MCParent == [b \in Blk \ {Genesis} |-> IF b = "b2" THEN "b1" ELSE "g"]

MCTxs == [b \in Blk |->
            CASE b = "g" -> {}
              [] b \in {"a1", "b2"} -> {"t"}
              [] b = "b1" -> {"u"}]
=============================================================================
