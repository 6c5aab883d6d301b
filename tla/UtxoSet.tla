------------------------------ MODULE UtxoSet ------------------------------
(***************************************************************************)
(* What the layered coins views promise to the validation code: two maps   *)
(* per outpoint, its unspent coin and its bind record, changed by a        *)
(* transaction (one block connected or disconnected) that is committed or  *)
(* dropped as a whole.  No layer, flag or flush is visible.                *)
(***************************************************************************)
EXTENDS Coins

VARIABLES coins,    \* [Outpoints -> CoinOrNone], committed
          binds,    \* [Outpoints -> BindOrNone], committed
          wcoins,   \* the same two maps as the open transaction sees them
          wbinds

uvars == <<coins, binds, wcoins, wbinds>>

\* The record of a live bind coin, and nothing for any other coin
BindOf(o, c) == IF BindCoin(o, c) THEN [coin |-> c, valid |-> TRUE] ELSE NoBind

\* The record a coin leaves when it is spent: an unbind at BHDIP007Height or
\* later is remembered, a creation that is rolled back is forgotten
SpentBindOf(o, c, rollback) ==
  IF ~rollback /\ BindCoin(o, c) /\ c.height >= BHDIP007Height
  THEN [coin |-> c, valid |-> FALSE] ELSE NoBind

UInit ==
  /\ coins = [o \in Outpoints |-> NoCoin]
  /\ binds = [o \in Outpoints |-> NoBind]
  /\ wcoins = coins
  /\ wbinds = binds

UAdd(o, c) ==
  /\ wcoins' = [wcoins EXCEPT ![o] = c]
  /\ wbinds' = [wbinds EXCEPT ![o] = BindOf(o, c)]
  /\ UNCHANGED <<coins, binds>>

USpend(o, rollback) ==
  /\ wcoins[o] # NoCoin
  /\ wcoins' = [wcoins EXCEPT ![o] = NoCoin]
  /\ wbinds' = [wbinds EXCEPT ![o] = SpentBindOf(o, wcoins[o], rollback)]
  /\ UNCHANGED <<coins, binds>>

UCommit ==
  /\ coins' = wcoins
  /\ binds' = wbinds
  /\ UNCHANGED <<wcoins, wbinds>>

UAbort ==
  /\ wcoins' = coins
  /\ wbinds' = binds
  /\ UNCHANGED <<coins, binds>>

UNext ==
  \/ \E o \in Outpoints, c \in Coin : UAdd(o, c)
  \/ \E o \in Outpoints, rollback \in BOOLEAN : USpend(o, rollback)
  \/ UCommit
  \/ UAbort

USpec == UInit /\ [][UNext]_uvars
=============================================================================
