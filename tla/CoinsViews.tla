----------------------------- MODULE CoinsViews -----------------------------
(***************************************************************************)
(* The stack of coins views the validation code works on:                  *)
(*                                                                         *)
(*   view  the CCoinsViewCache a block is connected or disconnected in     *)
(*   tip   CoinsTip(), the CCoinsViewCache kept in memory                  *)
(*   db    CCoinsViewDB: the coin records and the bind index on disk       *)
(*                                                                         *)
(* One action per operation.  The guards of ViewAdd and ViewSpend are what *)
(* the callers establish first: UpdateCoins spends inputs CheckTxInputs    *)
(* found unspent, AddCoins adds outputs of a transaction that is not on    *)
(* the chain, ApplyTxInUndo puts back the coin that was spent and asks     *)
(* HaveCoin whether that overwrites one.  All of it runs under cs_main.    *)
(***************************************************************************)
EXTENDS Coins

CONSTANT Burn   \* outpoints that pay the burn account, which Uncache keeps

ASSUME BurnAssumption == Burn \subseteq Outpoints

VARIABLES dbCoin,   \* [Outpoints -> CoinOrNone]   DB_COIN
          dbBind,   \* [Outpoints -> BindOrNone]   DB_COIN_BINDPLOTTER, DB_COIN_BINDCHIAFARMER
          tip,      \* [Outpoints -> CacheEntry]   cacheCoins of CoinsTip()
          view      \* [Outpoints -> CacheEntry]   cacheCoins of the block's view

vars == <<dbCoin, dbBind, tip, view>>

EmptyCache == [o \in Outpoints |-> NoEntry]

\* What CoinsTip() answers for an outpoint
TipCoin(o) == GetCoin(tip[o], dbCoin[o])
TipBind(o) == GetBindPlotterEntry(o, tip[o], dbBind[o])

\* What the block's view answers for an outpoint
ViewCoin(o) == GetCoin(view[o], TipCoin(o))
ViewBind(o) == GetBindPlotterEntry(o, view[o], TipBind(o))

Init ==
  /\ dbCoin = [o \in Outpoints |-> NoCoin]
  /\ dbBind = [o \in Outpoints |-> NoBind]
  /\ tip = EmptyCache
  /\ view = EmptyCache

\* A lookup through the view leaves copies in the caches it went through
Fetched(o) ==
  /\ tip' = IF view[o] = NoEntry THEN [tip EXCEPT ![o] = FetchCoin(@, dbCoin[o])] ELSE tip
  /\ UNCHANGED <<dbCoin, dbBind>>

\* GetCoin, HaveCoin or AccessCoin on the view
ViewFetch(o) ==
  /\ Fetched(o)
  /\ view' = [view EXCEPT ![o] = FetchCoin(@, TipCoin(o))]

\* AddCoin on the view.  Without the overwrite flag the caller knows that no
\* unspent coin is there, and that an outpoint on record as unbound gets back
\* the coin it is on record with.
ViewAdd(o, c, overwrite) ==
  /\ ~overwrite => /\ ViewCoin(o) = NoCoin
                   /\ ViewBind(o) # NoBind => ViewBind(o).coin = c
  /\ view' = [view EXCEPT ![o] = AddCoin(o, @, c, overwrite)]
  /\ UNCHANGED <<dbCoin, dbBind, tip>>

\* SpendCoin on the view
ViewSpend(o, rollback) ==
  /\ ViewCoin(o) # NoCoin
  /\ Fetched(o)
  /\ view' = [view EXCEPT ![o] = SpendCoin(o, FetchCoin(@, TipCoin(o)), rollback)]

\* view.Flush(): BatchWrite into CoinsTip(), then the view is empty
ViewFlush ==
  /\ tip' = [o \in Outpoints |-> BatchWrite(o, tip[o], view[o])]
  /\ view' = EmptyCache
  /\ UNCHANGED <<dbCoin, dbBind>>

\* The view of a block that fails to connect goes out of scope
ViewDrop ==
  /\ view' = EmptyCache
  /\ UNCHANGED <<dbCoin, dbBind, tip>>

\* CoinsTip().Flush() in FlushStateToDisk, between blocks
TipFlush ==
  /\ view = EmptyCache
  /\ dbCoin' = [o \in Outpoints |-> WriteCoin(dbCoin[o], tip[o])]
  /\ dbBind' = [o \in Outpoints |-> WriteBind(o, dbBind[o], tip[o])]
  /\ tip' = EmptyCache
  /\ UNCHANGED view

\* CoinsTip().Uncache() after a transaction was not accepted to the mempool
TipUncache(o) ==
  /\ view = EmptyCache
  /\ tip' = [tip EXCEPT ![o] = Uncache(@, o \in Burn)]
  /\ UNCHANGED <<dbCoin, dbBind, view>>

Next ==
  \/ \E o \in Outpoints : ViewFetch(o)
  \/ \E o \in Outpoints, c \in Coin, overwrite \in BOOLEAN : ViewAdd(o, c, overwrite)
  \/ \E o \in Outpoints, rollback \in BOOLEAN : ViewSpend(o, rollback)
  \/ ViewFlush
  \/ ViewDrop
  \/ TipFlush
  \/ \E o \in Outpoints : TipUncache(o)

Spec == Init /\ [][Next]_vars

-----------------------------------------------------------------------------
TypeOK ==
  /\ dbCoin \in [Outpoints -> CoinOrNone]
  /\ dbBind \in [Outpoints -> BindOrNone]
  /\ tip \in [Outpoints -> CacheEntry]
  /\ view \in [Outpoints -> CacheEntry]

\* The flags of both caches are right: nothing an entry claims about the
\* layers below it is wrong, in any order of adds, spends, flushes, dropped
\* views and evictions.
FlagsFit ==
  \A o \in Outpoints :
    /\ EntryFits(o, tip[o], dbCoin[o], dbBind[o])
    /\ EntryFits(o, view[o], TipCoin(o), TipBind(o))

\* On disk and through each cache the bind record agrees with the coin: a
\* live bind coin has a valid record, a spent one only an invalid record of
\* a bind coin, so the assertions of GetLastBindPlotterCoin hold.
BindIndexAgrees ==
  \A o \in Outpoints : /\ BindAgrees(o, dbCoin[o], dbBind[o])
                       /\ BindAgrees(o, TipCoin(o), TipBind(o))
                       /\ BindAgrees(o, ViewCoin(o), ViewBind(o))

\* Flushing the block's view into CoinsTip() never throws "FRESH flag
\* misapplied" and never fails BatchWrite's assertions on bind coins.
FlushNeverThrows ==
  \A o \in Outpoints : ~BatchWriteThrows(o, tip[o], view[o])

\* The stack of caches implements the plain UTXO set with bind records:
\* fetching, evicting and writing to disk are invisible, a flushed view is
\* committed as a whole and a dropped one leaves nothing behind.
Abstract == INSTANCE UtxoSet WITH
              coins  <- [o \in Outpoints |-> TipCoin(o)],
              binds  <- [o \in Outpoints |-> TipBind(o)],
              wcoins <- [o \in Outpoints |-> ViewCoin(o)],
              wbinds <- [o \in Outpoints |-> ViewBind(o)]

ImplementsUtxoSet == Abstract!USpec
=============================================================================
