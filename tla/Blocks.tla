------------------------------- MODULE Blocks -------------------------------
(***************************************************************************)
(* Chains of blocks as the coins code sees them, and the coins and bind    *)
(* records a chain stands for.                                             *)
(*                                                                         *)
(* A block is the set of outpoints it adds, the set it spends and its undo *)
(* data, the coin of each outpoint it spends; its height is its position   *)
(* in the chain.  An outpoint may be both added and spent in one block.    *)
(***************************************************************************)
EXTENDS Coins, Sequences

CONSTANTS Point,      \* values of (pointType, nPointHeight) of a retarget payload
          RealPoint   \* the one the transaction names

ASSUME PointAssumption == RealPoint \in Point

\* The coin AddCoins makes of output o of a transaction in a block of height h
NewCoin(o, h) == [height |-> h, point |-> RealPoint]

Created(ch, o) == \E i \in DOMAIN ch : o \in ch[i].add
SpentOn(ch, o) == \E i \in DOMAIN ch : o \in ch[i].spend

CreatedCoin(ch, o) == NewCoin(o, CHOOSE i \in DOMAIN ch : o \in ch[i].add)

\* The coin of an outpoint on chain ch
ChainCoin(ch, o) ==
  IF Created(ch, o) /\ ~SpentOn(ch, o) THEN CreatedCoin(ch, o) ELSE NoCoin

\* The bind record of an outpoint on chain ch: valid while the coin is
\* unspent, and kept as an unbind when the coin is not older than BHDIP007
ChainBind(ch, o) ==
  IF /\ Created(ch, o)
     /\ BindCoin(o, CreatedCoin(ch, o))
     /\ SpentOn(ch, o) => CreatedCoin(ch, o).height >= BHDIP007Height
  THEN [coin |-> CreatedCoin(ch, o), valid |-> ~SpentOn(ch, o)]
  ELSE NoBind

\* Chain a is a prefix of chain b
IsAncestor(a, b) == Len(a) <= Len(b) /\ SubSeq(b, 1, Len(a)) = a
=============================================================================
