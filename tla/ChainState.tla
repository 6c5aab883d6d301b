----------------------------- MODULE ChainState -----------------------------
(***************************************************************************)
(* The active chain and its coins: ConnectTip, DisconnectTip, the flush of *)
(* CoinsTip() in several batches, a crash at any point, and ReplayBlocks   *)
(* after a crash that interrupted a flush.                                 *)
(*                                                                         *)
(* Each action runs under cs_main.  A flush is one action per batch        *)
(* because a crash may come between two of them.  Blocks and undo data are *)
(* on disk before the coins are (FlushStateToDisk), so a restart has them. *)
(***************************************************************************)
EXTENDS Blocks

CONSTANTS MaxHeight,   \* bound on the height of the chain
          Coinbase,    \* outpoints of coinbase transactions
          Retarget     \* outpoints whose coin carries a retarget payload

\* A transaction has at most one payload: an output that carries a retarget
\* is never a bind coin (ExtractTransactionDatacarrier gives AddCoins one)
ASSUME ChainStateAssumption ==
  /\ MaxHeight \in Nat
  /\ Coinbase \subseteq Outpoints /\ Retarget \subseteq Outpoints
  /\ Coin = [height: 1..MaxHeight, point: Point]
  /\ \A o \in Retarget, c \in Coin : ~BindCoin(o, c)

VARIABLES chain,    \* m_chain; while replaying, the chain the cache stands for
          tip,      \* cacheCoins of CoinsTip(), or of the cache of ReplayBlocks
          dbCoin,   \* DB_COIN
          dbBind,   \* DB_COIN_BINDPLOTTER, DB_COIN_BINDCHIAFARMER
          best,     \* DB_BEST_BLOCK
          heads,    \* DB_HEAD_BLOCKS
          mode,     \* what the process is doing
          todo      \* outpoints of the cache not yet in a batch of the flush

db == <<dbCoin, dbBind, best, heads>>
vars == <<chain, tip, db, mode, todo>>

NoChain == <<[none |-> "chain"]>>
NoHeads == [none |-> "heads"]
EmptyCache == [o \in Outpoints |-> NoEntry]

TipCoin(o) == GetCoin(tip[o], dbCoin[o])
TipBind(o) == GetBindPlotterEntry(o, tip[o], dbBind[o])

Init ==
  /\ chain = << >>
  /\ tip = EmptyCache
  /\ dbCoin = [o \in Outpoints |-> NoCoin]
  /\ dbBind = [o \in Outpoints |-> NoBind]
  /\ best = << >>
  /\ heads = NoHeads
  /\ mode = "run"
  /\ todo = {}

-----------------------------------------------------------------------------
(* Connecting and disconnecting a block                                     *)

\* Blocks that ConnectBlock accepts on the tip: every input is unspent in the
\* view or an earlier output of the block (CheckTxInputs); transaction ids are
\* unique along a chain, so no output is one the chain has already
CanConnect(add, spend) ==
  /\ \A o \in add : ~Created(chain, o)
  /\ \A o \in spend : TipCoin(o) # NoCoin \/ o \in add \ Coinbase

NewBlock(add, spend) ==
  LET h == Len(chain) + 1
  IN  [add |-> add, spend |-> spend,
       undo |-> [o \in spend |-> IF o \in add THEN NewCoin(o, h) ELSE TipCoin(o)]]

\* Outpoints a block looks up below its own view
Reads(b) == b.spend \ b.add

\* The entry in a cache after a lookup through it, when there is one
Looked(o, b, e, base) == IF o \in Reads(b) THEN FetchCoin(e, base) ELSE e

\* UpdateCoins in the view of ConnectBlock (mutableView)
UpdateCoins(o, b, h) ==
  LET e == IF o \in b.add THEN AddCoin(o, NoEntry, NewCoin(o, h), o \in Coinbase)
           ELSE Looked(o, b, NoEntry, TipCoin(o))
  IN  IF o \in b.spend THEN SpendCoin(o, e, FALSE) ELSE e

\* mutableView.Flush() into the view of ConnectTip, then view.Flush()
ConnectView(o, b, h) == BatchWrite(o, Looked(o, b, NoEntry, TipCoin(o)), UpdateCoins(o, b, h))
ConnectEntry(o, b, h) == BatchWrite(o, Looked(o, b, tip[o], dbCoin[o]), ConnectView(o, b, h))

ConnectTip(add, spend) ==
  /\ mode = "run" /\ Len(chain) < MaxHeight
  /\ CanConnect(add, spend)
  /\ LET b == NewBlock(add, spend)
     IN  /\ tip' = [o \in Outpoints |-> ConnectEntry(o, b, Len(chain) + 1)]
         /\ chain' = Append(chain, b)
  /\ UNCHANGED <<db, mode, todo>>

\* What TxInUndoDeserializer may give back for the coin TxInUndoSerializer
\* wrote: of a retarget payload only the receiver is written, the two other
\* fields are left uninitialised
UndoRead(o, c) ==
  IF o \in Retarget THEN {[c EXCEPT !.point = p] : p \in Point} ELSE {c}

UndoReads(b) == {u \in [b.spend -> Coin] : \A o \in b.spend : u[o] \in UndoRead(o, b.undo[o])}

\* Mutant of DisconnectBlock: the outputs are removed before the inputs are put back
DisconnectBlockSwapped(o, b, u, e, base) ==
  LET removed == IF o \in b.add THEN SpendCoin(o, FetchCoin(e, base), TRUE) ELSE e
  IN  IF o \in b.spend
      THEN AddCoin(o, FetchCoin(removed, base), u[o], GetCoin(removed, base) # NoCoin)
      ELSE removed

\* DisconnectBlock in a cache with entry e over base: the inputs are put
\* back (ApplyTxInUndo), then the outputs are removed
DisconnectBlock(o, b, u, e, base) ==
  LET restored == IF o \in b.spend
                  THEN AddCoin(o, FetchCoin(e, base), u[o], GetCoin(e, base) # NoCoin)
                  ELSE e
  IN  IF o \in b.add THEN SpendCoin(o, FetchCoin(restored, base), TRUE) ELSE restored

Touches(b) == b.add \cup b.spend

\* DisconnectBlock says DISCONNECT_OK: no output is missing or of another
\* height, no input is there already
DisconnectClean(b, h) ==
  /\ \A o \in b.spend : TipCoin(o) = NoCoin
  /\ \A o \in b.add \ b.spend : TipCoin(o) # NoCoin /\ TipCoin(o).height = h

DisconnectTip(u) ==
  LET h == Len(chain)
      b == chain[h]
  IN  /\ DisconnectClean(b, h)
      /\ tip' = [o \in Outpoints |->
                   IF o \in Touches(b)
                   THEN BatchWrite(o, FetchCoin(tip[o], dbCoin[o]),
                                   DisconnectBlock(o, b, u, NoEntry, TipCoin(o)))
                   ELSE tip[o]]
      /\ chain' = SubSeq(chain, 1, h - 1)
      /\ UNCHANGED <<db, mode, todo>>

\* A lookup in CoinsTip(): by the mempool, a query, or a block that fails
Lookup(o) ==
  /\ mode = "run"
  /\ tip' = [tip EXCEPT ![o] = FetchCoin(@, dbCoin[o])]
  /\ UNCHANGED <<chain, db, mode, todo>>

Evict(o) ==
  /\ mode = "run"
  /\ tip' = [tip EXCEPT ![o] = Uncache(@, FALSE)]
  /\ UNCHANGED <<chain, db, mode, todo>>

-----------------------------------------------------------------------------
(* Flushing: CCoinsViewDB::BatchWrite                                       *)

FlushStart ==
  /\ mode = "run"
  /\ mode' = "flush"
  /\ todo' = {o \in Outpoints : tip[o] # NoEntry}
  /\ UNCHANGED <<chain, tip, db>>

\* Mutant of OldTip: a flush after a replay forgets where the transition began
OldTipForgotten == IF best # NoChain THEN best ELSE heads.new

OldTip == IF best # NoChain THEN best ELSE heads.old

\* A partial batch; the first one also marks the transition
FlushPartial(o) ==
  /\ mode \in {"flush", "reflush"} /\ o \in todo
  /\ dbCoin' = [dbCoin EXCEPT ![o] = WriteCoin(@, tip[o])]
  /\ dbBind' = [dbBind EXCEPT ![o] = WriteBind(o, @, tip[o])]
  /\ best' = NoChain
  /\ heads' = [new |-> chain, old |-> OldTip]
  /\ todo' = todo \ {o}
  /\ UNCHANGED <<chain, tip, mode>>

\* The last batch: what is left, and the database is consistent again
FlushFinal ==
  /\ mode \in {"flush", "reflush"}
  /\ dbCoin' = [o \in Outpoints |-> IF o \in todo THEN WriteCoin(dbCoin[o], tip[o]) ELSE dbCoin[o]]
  /\ dbBind' = [o \in Outpoints |-> IF o \in todo THEN WriteBind(o, dbBind[o], tip[o]) ELSE dbBind[o]]
  /\ best' = chain
  /\ heads' = NoHeads
  /\ tip' = EmptyCache
  /\ mode' = "run"
  /\ todo' = {}
  /\ UNCHANGED chain

-----------------------------------------------------------------------------
(* Crash, restart and ReplayBlocks                                          *)

Crash ==
  /\ mode # "down"
  /\ mode' = "down"
  /\ chain' = << >>
  /\ tip' = EmptyCache
  /\ todo' = {}
  /\ UNCHANGED db

\* Mutant of Restart: an interrupted flush is taken for a finished one
RestartWithoutReplay ==
  /\ mode = "down"
  /\ mode' = "run"
  /\ chain' = IF heads = NoHeads THEN best ELSE heads.new
  /\ UNCHANGED <<tip, db, todo>>

Restart ==
  /\ mode = "down"
  /\ IF heads = NoHeads THEN mode' = "run" /\ chain' = best
                        ELSE mode' = "replay" /\ chain' = heads.old
  /\ UNCHANGED <<tip, db, todo>>

\* Mutant of ReplayRollback: pindexOld does not move
ReplayRollbackStuck(u) ==
  LET b == chain[Len(chain)]
  IN  /\ tip' = [o \in Outpoints |->
                   IF o \in Touches(b) THEN DisconnectBlock(o, b, u, tip[o], dbCoin[o]) ELSE tip[o]]
      /\ UNCHANGED <<chain, db, mode, todo>>

\* One block back along the old branch; an unclean result is accepted
ReplayRollback(u) ==
  LET b == chain[Len(chain)]
  IN  /\ tip' = [o \in Outpoints |->
                   IF o \in Touches(b) THEN DisconnectBlock(o, b, u, tip[o], dbCoin[o]) ELSE tip[o]]
      /\ chain' = SubSeq(chain, 1, Len(chain) - 1)
      /\ UNCHANGED <<db, mode, todo>>

\* Mutant of RollforwardBlock: the inputs are not spent
RollforwardBlockAddsOnly(o, b, h) ==
  IF o \in b.add
  THEN AddCoin(o, FetchCoin(tip[o], dbCoin[o]), NewCoin(o, h), GetCoin(tip[o], dbCoin[o]) # NoCoin)
  ELSE tip[o]

\* RollforwardBlock: SpendCoin on the inputs, AddCoins with check
RollforwardBlock(o, b, h) ==
  LET base  == dbCoin[o]
      added == IF o \in b.add
               THEN AddCoin(o, FetchCoin(tip[o], base), NewCoin(o, h), GetCoin(tip[o], base) # NoCoin)
               ELSE tip[o]
  IN  IF o \in b.spend THEN SpendCoin(o, FetchCoin(added, base), FALSE) ELSE added

ReplayForward ==
  /\ mode = "replay"
  /\ IsAncestor(chain, heads.new) /\ chain # heads.new
  /\ LET h == Len(chain) + 1
         b == heads.new[h]
     IN  /\ tip' = [o \in Outpoints |-> RollforwardBlock(o, b, h)]
         /\ chain' = Append(chain, b)
  /\ UNCHANGED <<db, mode, todo>>

\* Mutant of ReplayFlush: the cache is flushed before the new tip is reached
ReplayFlushEarly ==
  /\ mode = "replay" /\ IsAncestor(chain, heads.new)
  /\ mode' = "reflush"
  /\ todo' = {o \in Outpoints : tip[o] # NoEntry}
  /\ UNCHANGED <<chain, tip, db>>

ReplayFlush ==
  /\ mode = "replay" /\ chain = heads.new
  /\ mode' = "reflush"
  /\ todo' = {o \in Outpoints : tip[o] # NoEntry}
  /\ UNCHANGED <<chain, tip, db>>

\* DisconnectTip and ReplayRollback read the undo data of the last block
Disconnect ==
  /\ mode = "run" /\ chain # << >>
  /\ \E u \in UndoReads(chain[Len(chain)]) : DisconnectTip(u)

Rollback ==
  /\ mode = "replay" /\ ~IsAncestor(chain, heads.new)
  /\ \E u \in UndoReads(chain[Len(chain)]) : ReplayRollback(u)

Connect == \E add, spend \in SUBSET Outpoints : ConnectTip(add, spend)

Next ==
  \/ Connect
  \/ Disconnect
  \/ \E o \in Outpoints : Lookup(o)
  \/ \E o \in Outpoints : Evict(o)
  \/ FlushStart
  \/ \E o \in Outpoints : FlushPartial(o)
  \/ FlushFinal
  \/ Crash
  \/ Restart
  \/ Rollback
  \/ ReplayForward
  \/ ReplayFlush

Spec == Init /\ [][Next]_vars

\* A running process keeps working: a flush and a replay go on by themselves
Fairness == WF_vars(FlushFinal) /\ WF_vars(Rollback) /\ WF_vars(ReplayForward) /\ WF_vars(ReplayFlush)

FairSpec == Spec /\ Fairness

-----------------------------------------------------------------------------
Block == UNION {[add: SUBSET Outpoints, spend: {spend}, undo: [spend -> Coin]] : spend \in SUBSET Outpoints}

TypeOK ==
  /\ Len(chain) <= MaxHeight /\ \A i \in DOMAIN chain : chain[i] \in Block
  /\ tip \in [Outpoints -> CacheEntry]
  /\ dbCoin \in [Outpoints -> CoinOrNone]
  /\ dbBind \in [Outpoints -> BindOrNone]
  /\ best = NoChain <=> heads # NoHeads
  /\ mode \in {"run", "flush", "down", "replay", "reflush"}
  /\ todo \subseteq Outpoints

\* A coin and a bind record that are what chain ch says of outpoint o, up to
\* the fields of a retarget payload that the undo data does not keep
Matches(o, coin, bind, ch) ==
  /\ IF ChainCoin(ch, o) = NoCoin THEN coin = NoCoin ELSE coin \in UndoRead(o, ChainCoin(ch, o))
  /\ bind = ChainBind(ch, o)

\* Outpoint o has on disk what chain ch says of it
DiskIs(ch, o) == Matches(o, dbCoin[o], dbBind[o], ch)

\* What is answered for outpoint o is what the active chain says of it
AnswersMatch(o) == Matches(o, TipCoin(o), TipBind(o), chain)

\* The database is never worse than half way between two chains: with a best
\* block it holds that block's coins and bind records, and in the middle of a
\* transition the record of each outpoint is the old tip's or the new tip's.
\* It must survive crashes inside a flush, inside a replay and inside the
\* flush that ends a replay (CCoinsViewDB::BatchWrite, ReplayBlocks).
DiskConsistent ==
  IF heads = NoHeads
  THEN \A o \in Outpoints : DiskIs(best, o)
  ELSE \A o \in Outpoints : DiskIs(heads.old, o) \/ DiskIs(heads.new, o)

\* The coins and bind records a running node answers with are those of its
\* active chain, after any reorganisation, flush, eviction and recovery.
CoinsMatchChain == mode \in {"run", "flush"} => \A o \in Outpoints : AnswersMatch(o)

\* DisconnectTip never stops the node: DisconnectBlock finds every output of
\* the tip unspent at the tip's height and none of the inputs.
DisconnectIsClean ==
  mode = "run" /\ chain # << >> => DisconnectClean(chain[Len(chain)], Len(chain))

\* No BatchWrite fails.  A flush to the database that starts in the middle of
\* a transition is to the same new tip (the assertion old_heads[0] ==
\* hashBlock), and for every block that the chain accepts next neither flush of
\* its view (mutableView, then view) throws "FRESH flag misapplied" or fails
\* an assertion.
BatchWriteNeverFails ==
  /\ mode \in {"flush", "reflush"} /\ heads # NoHeads => heads.new = chain
  /\ mode = "run" /\ Len(chain) < MaxHeight =>
       \A add, spend \in SUBSET Outpoints :
         CanConnect(add, spend) =>
           \A o \in Outpoints :
             LET b == NewBlock(add, spend)
                 h == Len(chain) + 1
             IN  /\ ~BatchWriteThrows(o, Looked(o, b, NoEntry, TipCoin(o)), UpdateCoins(o, b, h))
                 /\ ~BatchWriteThrows(o, Looked(o, b, tip[o], dbCoin[o]), ConnectView(o, b, h))

\* The outpoints whose coin a disconnected block puts back as it was
Exact == Outpoints \ Retarget

Running == mode \in {"run", "flush"}

Answers == [o \in Exact |-> [coin |-> TipCoin(o), bind |-> TipBind(o)]]
NoAnswers == [o \in Exact |-> [coin |-> NoCoin, bind |-> NoBind]]

\* The coins and bind records chain ch stands for
StateOf(ch) == [o \in Exact |-> [coin |-> ChainCoin(ch, o), bind |-> ChainBind(ch, o)]]

\* The chainstate implements DurableChain: the answers are a function of the
\* chain, the first batch of a flush is the point where the chain is saved,
\* and what comes back after a crash is the chain saved last.
Durable == INSTANCE DurableChain WITH
             chain <- IF Running THEN chain ELSE << >>,
             utxo  <- IF Running THEN Answers ELSE NoAnswers,
             saved <- IF heads = NoHeads THEN best ELSE heads.new,
             up    <- Running

ImplementsDurableChain == Durable!DSpec

\* "Restore the UTXO in a Coin at a given COutPoint": after a block was
\* disconnected, each outpoint it spent (and did not create) has the coin
\* that was there before the block, as CBlockUndo recorded it.
UndoRestoresInputs ==
  [][Disconnect =>
       LET b == chain[Len(chain)]
       IN  \A o \in Reads(b) : TipCoin(o)' = b.undo[o]]_vars

\* A replay or a flush in progress ends: with the node running, or in another
\* crash.  Every rollback and roll forward step gets closer to the new tip.
ReplayEnds == mode \in {"flush", "replay", "reflush"} ~> mode \in {"run", "down"}
=============================================================================
