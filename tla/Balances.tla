------------------------------ MODULE Balances ------------------------------
(***************************************************************************)
(* The balance and pledge queries over the stack of coins views.           *)
(*                                                                         *)
(* GetAccountBalance reads the account indexes of the database and then    *)
(* corrects what it read by the unwritten entries of the caches above.     *)
(* ConnectBlock derives the reward of a block from two of these numbers:   *)
(* what was pledged to the generator (balancePointReceive) and what the    *)
(* burn account held at a given height.  They must therefore depend on the *)
(* coins only, and not on when this node last wrote its caches to disk.    *)
(*                                                                         *)
(* A coin is its height and the output it stands for; the output of an     *)
(* outpoint never changes, but a reorganisation can include the same       *)
(* transaction again at another height.                                    *)
(***************************************************************************)
EXTENDS CoinsViews, Integers, FiniteSets, Functions

CONSTANTS Accounts,     \* CAccountID values
          BurnAccount,  \* GetBurnToAccountID()
          Outputs,      \* [account, amount, type, receiver, pointType]
          Weight,       \* nWeightPercent of each DATACARRIER_TYPE_CHIA_POINT*
          LockAmount    \* PROTOCOL_BINDPLOTTER_LOCKAMOUNT

VARIABLES utx,       \* [Outpoints -> Outputs]  what each outpoint pays, fixed
          dbIndex,   \* DB_COIN_INDEX: the outpoints on record for their account
          dbPoint    \* DB_COIN_POINT_*: the pledge on record, or NoPoint

bvars == <<vars, utx, dbIndex, dbPoint>>

ChiaPoints == DOMAIN Weight

\* DATACARRIER_TYPE_BINDPLOTTER and DATACARRIER_TYPE_BINDCHIAFARMER
BindTypes == {"BURST", "CHIA"}

\* A coin stands for an output of a transaction, at a height where payloads
\* are read, so the output tells whether it is a bind coin; a retarget names
\* the type of the point it moves.  There are finitely many outpoints and types,
\* which is said as the induction over their parts.
ASSUME BalancesAssumption ==
  /\ \A S \in {Outpoints, ChiaPoints} : \A Z \in SUBSET SUBSET S :
       {} \in Z /\ (\A s \in Z : \A x \in S : s \cup {x} \in Z) => S \in Z
  /\ \A c \in Coin : c.out \in Outputs
  /\ \A o \in Outpoints, c \in Coin : BindCoin(o, c) <=> c.out.type \in BindTypes
  /\ \A x \in Outputs : x.amount \in Nat /\ (x.type = "RETARGET" => x.pointType \in ChiaPoints)
  /\ \A t \in ChiaPoints : Weight[t] \in Nat
  /\ ({"RETARGET"} \cup BindTypes) \cap ChiaPoints = {}
  /\ LockAmount \in Nat

IsPoint(c) == c.out.type \in ChiaPoints
IsPointRetarget(c) == c.out.type = "RETARGET"

NoPoint == [none |-> "point"]

\* The values under PointEntry and PointRetargetEntry keys; sender and type are in the key
PointRecord(c) ==
  [type |-> c.out.type, sender |-> c.out.account,
   receiver |-> c.out.receiver, pointType |-> c.out.pointType]

\* Mutant of WriteIndex: the record of a spent coin is not erased
WriteIndexNoErase(e, there) == there \/ IsDirty(e)

\* CCoinsViewDB::BatchWrite, the record CoinIndexEntry
WriteIndex(e, there) == IF IsDirty(e) THEN ~e.spent ELSE there

\* CCoinsViewDB::BatchWrite, the pledge indexes: every type that is not written is erased
WritePoint(e, point) ==
  IF ~IsDirty(e) THEN point
  ELSE IF ~e.spent /\ (IsPoint(e.coin) \/ IsPointRetarget(e.coin)) THEN PointRecord(e.coin)
  ELSE NoPoint

-----------------------------------------------------------------------------
(* CCoinsViewDB::GetBalance; child is the map of entries the caches pass    *)
(* down.  Only its dirty entries count.                                     *)

Value == [o \in Outpoints |-> utx[o].amount]

DirtyIn(child) == {o \in Outpoints : IsDirty(child[o])}
SpentIn(child) == {o \in DirtyIn(child) : child[o].spent}
AddedIn(child) == DirtyIn(child) \ SpentIn(child)

\* Mutant of GetCoinBalance: an unspent entry counts although the database has it
GetCoinBalanceTwice(acc, child, nHeight) ==
  LET mine == {o \in Outpoints : utx[o].account = acc}
      upTo(c) == nHeight # 0 => c.height <= nHeight
  IN  SumFunctionOnSet(Value, {o \in mine : dbIndex[o] /\ upTo(dbCoin[o])})
      - SumFunctionOnSet(Value, {o \in mine \cap SpentIn(child) : dbIndex[o] /\ upTo(child[o].coin)})
      + SumFunctionOnSet(Value, {o \in mine \cap AddedIn(child) : upTo(child[o].coin)})

\* CCoinsViewDB::GetCoinBalance; nHeight = 0 stands for no limit
GetCoinBalance(acc, child, nHeight) ==
  LET mine == {o \in Outpoints : utx[o].account = acc}
      upTo(c) == nHeight # 0 => c.height <= nHeight
  IN  SumFunctionOnSet(Value, {o \in mine : dbIndex[o] /\ upTo(dbCoin[o])})
      - SumFunctionOnSet(Value, {o \in mine \cap SpentIn(child) : dbIndex[o] /\ upTo(child[o].coin)})
      + SumFunctionOnSet(Value, {o \in mine \cap AddedIn(child) : ~dbIndex[o] /\ upTo(child[o].coin)})

\* What the four queries that keep a map of the selected coins have in
\* common: the coins the index gives, less those spent in child, plus those
\* of child that the index did not give
Corrected(selected, matching, child) ==
  (selected \ SpentIn(child)) \cup {o \in AddedIn(child) \ selected : matching[o]}

\* CalculateTermAmount: GetTerm returns the term itself as the fallback of
\* an expired term, so the weight does not depend on the heights
TermAmount(o, t) == (Weight[t] * utx[o].amount) \div 100

\* CCoinsViewDB::GetBalancePointSend for a type of chia point
GetBalancePointSend(t, acc, child) ==
  SumFunctionOnSet(Value,
    Corrected({o \in Outpoints : dbPoint[o] # NoPoint /\ dbPoint[o].type = t /\ dbPoint[o].sender = acc},
              [o \in Outpoints |-> utx[o].type = t /\ utx[o].account = acc], child))

\* CCoinsViewDB::GetBalancePointReceive for a type of chia point
GetBalancePointReceive(t, acc, child) ==
  SumFunctionOnSet([o \in Outpoints |-> TermAmount(o, t)],
    Corrected({o \in Outpoints : dbPoint[o] # NoPoint /\ dbPoint[o].type = t /\ dbPoint[o].receiver = acc},
              [o \in Outpoints |-> utx[o].type = t /\ utx[o].receiver = acc], child))

\* What each retargeted point counts for
Retargeted == [o \in {p \in Outpoints : utx[p].type = "RETARGET"} |-> TermAmount(o, utx[o].pointType)]

\* Mutant of GetBalancePointRetargetReceive: no map of the selected coins
RetargetReceiveUnselected(acc, child) ==
  SumFunctionOnSet(Retargeted, {o \in Outpoints : dbPoint[o] # NoPoint /\ dbPoint[o].type = "RETARGET"
                                                  /\ dbPoint[o].receiver = acc})
  + SumFunctionOnSet(Retargeted, {o \in AddedIn(child) : utx[o].type = "RETARGET" /\ utx[o].receiver = acc})

\* CCoinsViewDB::GetBalancePointRetargetReceive
GetBalancePointRetargetReceive(acc, child) ==
  SumFunctionOnSet(Retargeted,
    Corrected({o \in Outpoints : dbPoint[o] # NoPoint /\ dbPoint[o].type = "RETARGET" /\ dbPoint[o].receiver = acc},
              [o \in Outpoints |-> utx[o].type = "RETARGET" /\ utx[o].receiver = acc], child))

Lock == [o \in Outpoints |-> LockAmount]

\* Mutant of GetBalanceBind: the record of a coin that is unbound counts
GetBalanceBindInvalid(t, acc, child) ==
  SumFunctionOnSet(Lock,
    Corrected({o \in Outpoints : dbBind[o] # NoBind /\ utx[o].type = t /\ utx[o].account = acc},
              [o \in Outpoints |-> utx[o].account = acc /\ child[o] # NoEntry
                                   /\ BindCoin(o, child[o].coin)], child))

\* CCoinsViewDB::GetBalanceBind for a type of bind data: the key of a record
\* holds its type, but an entry of child only has to be a bind coin of either
GetBalanceBind(t, acc, child) ==
  SumFunctionOnSet(Lock,
    Corrected({o \in Outpoints : dbBind[o] # NoBind /\ dbBind[o].valid
                                 /\ utx[o].type = t /\ utx[o].account = acc},
              [o \in Outpoints |-> utx[o].account = acc /\ child[o] # NoEntry
                                   /\ BindCoin(o, child[o].coin)], child))

\* CCoinsViewDB::GetBalance, balanceBindPlotter
BindPlotterBalance(includeBurst, acc, child) ==
  (IF includeBurst THEN GetBalanceBind("BURST", acc, child) ELSE 0) + GetBalanceBind("CHIA", acc, child)

\* CCoinsViewDB::GetBalance, the sum over the pledge types
PointReceived(acc, child) ==
  SumFunction([t \in ChiaPoints |-> GetBalancePointReceive(t, acc, child)])
  + GetBalancePointRetargetReceive(acc, child)

\* The coin is of the account or pledged to it
Concerns(e, acc) ==
  /\ e # NoEntry
  /\ \/ e.coin.out.account = acc
     \/ (IsPoint(e.coin) \/ IsPointRetarget(e.coin)) /\ e.coin.out.receiver = acc

\* CCoinsViewCache::GetBalance of CoinsTip() for a view above it: what it
\* passes to the database.  Merging an entry is BatchWrite of that entry.
Merged(acc) ==
  IF tip = EmptyCache THEN view
  ELSE IF view = EmptyCache THEN tip
  ELSE IF \A o \in Outpoints : ~Concerns(tip[o], acc) THEN view
  ELSE [o \in Outpoints |->
          BatchWrite(o, IF Concerns(tip[o], acc) THEN tip[o] ELSE NoEntry,
                        IF Concerns(view[o], acc) THEN view[o] ELSE NoEntry)]

-----------------------------------------------------------------------------
(* The views, with the account indexes.  An outpoint keeps its output, a    *)
(* transaction that is on the chain is not added again, and CheckTxInputs   *)
(* refuses to spend from the burn account ("tx-spend-burn-address"), so     *)
(* such a coin goes only when its block is disconnected.                    *)

BInit ==
  /\ Init
  /\ utx \in {f \in [Outpoints -> Outputs] :
                \A o \in Outpoints : o \in Burn <=> f[o].account = BurnAccount}
  /\ dbIndex = [o \in Outpoints |-> FALSE]
  /\ dbPoint = [o \in Outpoints |-> NoPoint]

InMemory == UNCHANGED <<utx, dbIndex, dbPoint>>

IndexFlush ==
  /\ TipFlush
  /\ dbIndex' = [o \in Outpoints |-> WriteIndex(tip[o], dbIndex[o])]
  /\ dbPoint' = [o \in Outpoints |-> WritePoint(tip[o], dbPoint[o])]
  /\ UNCHANGED utx

BNext ==
  \/ \E o \in Outpoints : ViewFetch(o) /\ InMemory
  \/ \E o \in Outpoints, c \in Coin, overwrite \in BOOLEAN :
       c.out = utx[o] /\ ViewCoin(o) = NoCoin /\ ViewAdd(o, c, overwrite) /\ InMemory
  \/ \E o \in Outpoints, rollback \in BOOLEAN :
       (o \in Burn => rollback) /\ ViewSpend(o, rollback) /\ InMemory
  \/ ViewFlush /\ InMemory
  \/ ViewDrop /\ InMemory
  \/ IndexFlush
  \/ \E o \in Outpoints : TipUncache(o) /\ InMemory

BSpec == BInit /\ [][BNext]_bvars

-----------------------------------------------------------------------------
\* The indexes list exactly the coins on disk, each with its pledge, so no
\* query throws "Database read error" or "Read coin error", whatever was
\* written, unbound, rolled back and written again.
IndexesAgree ==
  \A o \in Outpoints :
    /\ dbIndex[o] <=> dbCoin[o] # NoCoin
    /\ dbPoint[o] = IF dbCoin[o] # NoCoin /\ (IsPoint(dbCoin[o]) \/ IsPointRetarget(dbCoin[o]))
                    THEN PointRecord(dbCoin[o]) ELSE NoPoint

\* The coins a cache answers with
TipCoins == [o \in Outpoints |-> TipCoin(o)]
ViewCoins == [o \in Outpoints |-> ViewCoin(o)]

\* The outpoints whose coin is unspent and pays one of the outputs
Held(coins, outs) == {o \in Outpoints : coins[o] # NoCoin /\ coins[o].out \in outs}

\* "Scan UTXO for the account. Return total balance.": asked through CoinsTip()
\* or through the view of a block, the balance is the total of the account's
\* unspent coins, in whatever layers they are.
BalanceIsSum ==
  \A acc \in Accounts :
    LET mine == {x \in Outputs : x.account = acc}
    IN  /\ GetCoinBalance(acc, tip, 0) = SumFunctionOnSet(Value, Held(TipCoins, mine))
        /\ GetCoinBalance(acc, Merged(acc), 0) = SumFunctionOnSet(Value, Held(ViewCoins, mine))

\* The outputs that pledge to an account, and what a pledge counts for
Pledges(acc) == {x \in Outputs : x.type \in ChiaPoints \cup {"RETARGET"} /\ x.receiver = acc}
Pledged == [o \in {p \in Outpoints : utx[p].type \in ChiaPoints \cup {"RETARGET"}} |->
              TermAmount(o, IF utx[o].type = "RETARGET" THEN utx[o].pointType ELSE utx[o].type)]

\* What was pledged to an account, the number that decides between full and
\* low mortgage for its next block, is the weighted total of the unspent
\* pledges to it, so two nodes with the same chain agree on the reward
\* whenever they last flushed; and what an account pledged itself is the total
\* of its unspent points.
PledgesAreSums ==
  /\ \A acc \in Accounts :
       /\ PointReceived(acc, tip) = SumFunctionOnSet(Pledged, Held(TipCoins, Pledges(acc)))
       /\ PointReceived(acc, Merged(acc)) = SumFunctionOnSet(Pledged, Held(ViewCoins, Pledges(acc)))
  /\ \A acc \in Accounts, t \in ChiaPoints :
       LET sent == {x \in Outputs : x.type = t /\ x.account = acc}
       IN  /\ GetBalancePointSend(t, acc, tip) = SumFunctionOnSet(Value, Held(TipCoins, sent))
           /\ GetBalancePointSend(t, acc, Merged(acc)) = SumFunctionOnSet(Value, Held(ViewCoins, sent))

\* The locked balance answered for what the caches pass down and the coins they
\* stand for
LockedIs(acc, child, coins) ==
  LET live == Held(coins, {x \in Outputs : x.type \in BindTypes /\ x.account = acc})
      unwritten == live \cap DirtyIn(child)
  IN  /\ BindPlotterBalance(TRUE, acc, child) =
           SumFunctionOnSet(Lock, live) + SumFunctionOnSet(Lock, unwritten)
      /\ BindPlotterBalance(FALSE, acc, child) =
           SumFunctionOnSet(Lock, {o \in live : utx[o].type = "CHIA"} \cup unwritten)

\* What an account has locked is one lock amount for each of its live bind
\* coins that is written; an unbound coin stays on record but no longer counts.
\* A live bind coin that is not written yet counts for both types, since the
\* correction by the caches looks at no type: asked for both, as the wallet
\* asks, it counts twice until the next flush, and asked for CHIA alone a BURST
\* coin counts until then.  Nothing else can make the answer wrong.
LockedIsSum ==
  \A acc \in Accounts :
    LockedIs(acc, tip, TipCoins) /\ LockedIs(acc, Merged(acc), ViewCoins)

\* What the burn account held at a height, from which ConnectBlock derives
\* the required pledge, is the total of its coins up to that height, also
\* after a reorganisation moved a burn to another block.
BurnedIsSum ==
  \A h \in {c.height : c \in Coin} :
    GetCoinBalance(BurnAccount, tip, h) =
      SumFunctionOnSet(Value, {o \in Held(TipCoins, {x \in Outputs : x.account = BurnAccount}) :
                                 TipCoin(o).height <= h})
=============================================================================
