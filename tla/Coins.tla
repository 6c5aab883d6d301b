------------------------------- MODULE Coins -------------------------------
(***************************************************************************)
(* The entries of a coins cache (CCoinsCacheEntry) and what the operations *)
(* of CCoinsViewCache and CCoinsViewDB do to the entry of one outpoint.    *)
(*                                                                         *)
(* Every operation of the two classes acts on each outpoint independently  *)
(* of the others, so a cache is a function from outpoints to entries and   *)
(* the modules that use this one apply these operators pointwise.          *)
(*                                                                         *)
(* A coin is an opaque value with a height.  Whether it is a bind coin     *)
(* (Coin::IsBindPlotter) depends on the outpoint, whose transaction may    *)
(* carry a bind payload, and on the height at which the transaction was    *)
(* included: AddCoins reads a payload only at the heights where it is      *)
(* active.                                                                 *)
(***************************************************************************)
EXTENDS Naturals

CONSTANTS Outpoints,       \* COutPoint values
          Coin,            \* coin values: records with at least a field height
          BindCoin(_, _),  \* BindCoin(o, c): coin c of outpoint o is a bind coin
          BHDIP007Height   \* from this height on an unbind stays on record

NoCoin == [none |-> "coin"]

\* A coin has a height, and "no coin" is not a coin.
ASSUME CoinsAssumption ==
  /\ \A c \in Coin : c.height \in Nat
  /\ NoCoin \notin Coin
  /\ BHDIP007Height \in Nat

-----------------------------------------------------------------------------
(* CCoinsCacheEntry: a coin, spent or not, and its flags.  Coin::Clear      *)
(* keeps everything but the script, so a spent entry still knows its coin.  *)

Flags == {"DIRTY", "FRESH", "UNBIND"}

Entry == [coin: Coin, spent: BOOLEAN, flags: SUBSET Flags]

NoEntry == [none |-> "entry"]

CacheEntry == Entry \cup {NoEntry}
CoinOrNone == Coin \cup {NoCoin}

\* CBindPlotterCoinInfo, the value under DB_COIN_BINDPLOTTER / DB_COIN_BINDCHIAFARMER
BindInfo == [coin: Coin, valid: BOOLEAN]

NoBind == [none |-> "bind"]

BindOrNone == BindInfo \cup {NoBind}

CleanEntry(c) == [coin |-> c, spent |-> FALSE, flags |-> {}]

\* Mutant of FetchCoin: the result of base->GetCoin is not tested
FetchCoinUntested(e, base) == IF e # NoEntry THEN e ELSE CleanEntry(base)

\* CCoinsViewCache::FetchCoin: the entry e, or a clean copy of the base's coin
FetchCoin(e, base) ==
  IF e # NoEntry THEN e
  ELSE IF base # NoCoin THEN CleanEntry(base) ELSE NoEntry

\* CCoinsViewCache::GetCoin / HaveCoin / AccessCoin: the coin seen through entry e
GetCoin(e, base) ==
  LET f == FetchCoin(e, base)
  IN  IF f = NoEntry \/ f.spent THEN NoCoin ELSE f.coin

\* Mutant of AddedFresh: possible_overwrite does not matter
AddedFreshOverwriting(o, e, overwrite) ==
  e # NoEntry => "DIRTY" \notin e.flags /\ ~BindCoin(o, e.coin)

\* Mutant of AddedFresh: a spent entry that is not yet written may be FRESH
AddedFreshOverSpent(o, e, overwrite) ==
  /\ ~overwrite
  /\ e # NoEntry => ~BindCoin(o, e.coin)

\* CCoinsViewCache::AddCoin, the flags: FRESH only for an outpoint that has no
\* unwritten entry, and never for a bind coin
AddedFresh(o, e, overwrite) ==
  /\ ~overwrite
  /\ e # NoEntry => "DIRTY" \notin e.flags /\ ~BindCoin(o, e.coin)

AddedFlags(o, e, c, overwrite) ==
  {x \in Flags : \/ x = "DIRTY"
                 \/ /\ x = "FRESH"
                    /\ \/ AddedFresh(o, e, overwrite)
                       \/ e # NoEntry /\ "FRESH" \in e.flags
                    /\ ~BindCoin(o, c)}

\* CCoinsViewCache::AddCoin
AddCoin(o, e, c, overwrite) ==
  [coin |-> c, spent |-> FALSE, flags |-> AddedFlags(o, e, c, overwrite)]

\* CCoinsViewCache::SpendCoin on the fetched entry e; rollback when the
\* transaction that created the coin is being disconnected
SpendCoin(o, e, rollback) ==
  IF e = NoEntry THEN NoEntry
  ELSE IF ~rollback /\ BindCoin(o, e.coin) /\ e.coin.height >= BHDIP007Height
  THEN [e EXCEPT !.spent = TRUE, !.flags = (@ \cup {"DIRTY", "UNBIND"}) \ {"FRESH"}]
  ELSE IF "FRESH" \in e.flags THEN NoEntry
  ELSE [e EXCEPT !.spent = TRUE, !.flags = (@ \cup {"DIRTY"}) \ {"UNBIND"}]

IsDirty(e) == e # NoEntry /\ "DIRTY" \in e.flags

\* "FRESH flag misapplied to cache entry for base transaction with spendable
\* outputs": BatchWrite throws; and its assertions on bind and UNBIND entries
BatchWriteThrows(o, us, child) ==
  /\ IsDirty(child)
  /\ \/ "UNBIND" \in child.flags /\ ~child.spent
     \/ /\ us = NoEntry
        /\ "FRESH" \in child.flags /\ ~child.spent /\ BindCoin(o, child.coin)
     \/ /\ us # NoEntry
        /\ "FRESH" \in child.flags /\ ~us.spent

\* CCoinsViewCache::BatchWrite, the flags of an entry both caches have: the
\* parent's FRESH stays, except on a bind coin, and UNBIND is the child's
MergedFlags(o, us, child) ==
  {x \in Flags : \/ x = "DIRTY"
                 \/ x = "FRESH" /\ x \in us.flags /\ ~BindCoin(o, child.coin)
                 \/ x = "UNBIND" /\ x \in child.flags}

\* CCoinsViewCache::BatchWrite: the parent's entry us after the child's was written
BatchWrite(o, us, child) ==
  IF ~IsDirty(child) THEN us
  ELSE IF us = NoEntry
  THEN IF "FRESH" \in child.flags /\ child.spent THEN NoEntry ELSE child
  ELSE IF "FRESH" \in us.flags /\ child.spent /\ ~BindCoin(o, child.coin)
  THEN NoEntry
  ELSE [coin |-> child.coin, spent |-> child.spent, flags |-> MergedFlags(o, us, child)]

\* Mutant of Uncache: an entry that is not yet written may go
UncacheDirty(e, burn) == IF burn THEN e ELSE NoEntry

\* CCoinsViewCache::Uncache; burn: the coin pays the burn account
Uncache(e, burn) ==
  IF e # NoEntry /\ e.flags = {} /\ ~burn THEN NoEntry ELSE e

-----------------------------------------------------------------------------
(* CCoinsViewDB: the record DB_COIN of an outpoint and its record in the    *)
(* bind index, both written in one batch.                                   *)

\* CCoinsViewDB::BatchWrite, the record DB_COIN
WriteCoin(coin, e) ==
  IF ~IsDirty(e) THEN coin ELSE IF e.spent THEN NoCoin ELSE e.coin

\* Mutant of WriteBind: the record of a spent coin is not erased
WriteBindNoErase(o, bind, e) ==
  IF IsDirty(e) /\ BindCoin(o, e.coin) /\ (e.spent => "UNBIND" \in e.flags)
  THEN [coin |-> e.coin, valid |-> ~e.spent]
  ELSE bind

\* CCoinsViewDB::BatchWrite, the extra index of bind coins
WriteBind(o, bind, e) ==
  IF ~IsDirty(e) THEN bind
  ELSE IF BindCoin(o, e.coin) /\ (e.spent => "UNBIND" \in e.flags)
  THEN [coin |-> e.coin, valid |-> ~e.spent]
  ELSE NoBind

\* CCoinsViewCache::GetBindPlotterEntries: the record the base has for the
\* outpoint, overlaid by the cache's entry when it is dirty
GetBindPlotterEntry(o, e, bind) ==
  IF ~IsDirty(e) THEN bind
  ELSE IF e.spent /\ "UNBIND" \notin e.flags THEN NoBind
  ELSE IF BindCoin(o, e.coin) THEN [coin |-> e.coin, valid |-> ~e.spent]
  ELSE NoBind

-----------------------------------------------------------------------------
(* What an entry and a record claim, and when the claim is right.           *)

\* A cache entry e over a base that answers (coin, bind) for its outpoint:
\* a clean entry is a copy of the base's coin, FRESH means that the base
\* has neither coin nor bind record ("The parent view does not have this
\* entry (or it is pruned)"), UNBIND is a spent bind coin not yet written.
EntryFits(o, e, coin, bind) ==
  e # NoEntry =>
    /\ "DIRTY" \notin e.flags => coin # NoCoin /\ e = CleanEntry(coin)
    /\ "FRESH" \in e.flags => /\ ~e.spent /\ ~BindCoin(o, e.coin)
                              /\ coin = NoCoin /\ bind = NoBind
    /\ "UNBIND" \in e.flags => /\ e.spent /\ BindCoin(o, e.coin)
                               /\ e.coin.height >= BHDIP007Height

\* A live bind coin has a valid record, a spent one at most an invalid
\* record of a bind coin that is not older than BHDIP007
BindAgrees(o, coin, bind) ==
  IF coin # NoCoin
  THEN bind = IF BindCoin(o, coin) THEN [coin |-> coin, valid |-> TRUE] ELSE NoBind
  ELSE bind # NoBind => ~bind.valid /\ BindCoin(o, bind.coin) /\ bind.coin.height >= BHDIP007Height
=============================================================================
