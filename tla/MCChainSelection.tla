-------------------------- MODULE MCChainSelection --------------------------
(***************************************************************************)
(* ChainSelection on subtrees of                                           *)
(*                                                                         *)
(*    a1 --- a2 --- a3                                                     *)
(*   /                                                                     *)
(*  g --- b1 --- b2 --- b3                                                 *)
(*                                                                         *)
(* where every block adds one unit of work: blocks of one height differ    *)
(* only in when they were linked and where they are in memory.             *)
(***************************************************************************)
EXTENDS ChainSelection

MCParent == [b \in Blk \ {Genesis} |->
               CASE b \in {"a1", "b1"} -> "g"
                 [] b = "a2" -> "a1"
                 [] b = "a3" -> "a2"
                 [] b = "b2" -> "b1"
                 [] b = "b3" -> "b2"]

MCWork == [b \in Blk |-> Height(b) + 1]

\* Two layouts in memory, each the reverse of the other
Place == [b \in Blk |->
            CASE b = "g" -> 0 [] b = "a1" -> 1 [] b = "b1" -> 2
              [] b = "a2" -> 3 [] b = "b2" -> 4 [] b = "a3" -> 5 [] b = "b3" -> 6]
MCAddresses == {Place, [b \in Blk |-> 6 - Place[b]]}
=============================================================================
