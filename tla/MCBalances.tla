----------------------------- MODULE MCBalances -----------------------------
(***************************************************************************)
(* One outpoint that pays the burn account and one that is, from the       *)
(* start, a payment, a pledge, a retargeted pledge or a bind coin of       *)
(* either type.                                                            *)
(* Heights 1..MaxHeight let a transaction move to another block.           *)
(***************************************************************************)
EXTENDS Balances

CONSTANTS alice, bob, burned, MaxHeight

Out(acc, n, type, to, pointType) ==
  [account |-> acc, amount |-> n, type |-> type, receiver |-> to, pointType |-> pointType]

MCAccounts == {alice, bob, burned}
MCOutputs == { Out(burned, 1, "none", "none", "none"),
               Out(alice, 2, "none", "none", "none"),
               Out(alice, 4, "TERM_1", bob, "none"),
               Out(alice, 4, "RETARGET", bob, "TERM_1"),
               Out(alice, 3, "BURST", "none", "none"),
               Out(alice, 3, "CHIA", "none", "none") }
MCWeight == [TERM_0 |-> 25, TERM_1 |-> 50]
MCCoin == [height: 1..MaxHeight, out: MCOutputs]
MCBindCoin(o, c) == c.out.type \in BindTypes
=============================================================================
