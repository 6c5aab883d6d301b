----------------------------- MODULE OmniState -----------------------------
(***************************************************************************)
(* How the Omni layer keeps its state in step with the active chain: the   *)
(* handlers ConnectTip and DisconnectTip call, the state files written     *)
(* after a block, the database of smart properties with its history and    *)
(* its watermark, the list of transactions, and what is loaded and scanned *)
(* again after a reorganisation or a restart.                              *)
(*                                                                         *)
(* The state in memory (balances, offers, accepts, crowdsales, orders) is  *)
(* the sequence of blocks that made it.  A transaction creates a property, *)
(* updates one or freezes tokens; the crowdsales a block ends are updates  *)
(* before its first transaction.  An entry of a property carries the       *)
(* transactions that are in it: Entry::historicalData is a map by txid.    *)
(* The six files of a block are one file, that is whole or was cut by a    *)
(* crash.  The chain state has a disk of its own, which the process        *)
(* flushes when it likes; a restart finds whatever both hold.              *)
(***************************************************************************)
EXTENDS BlockTree, Sequences, SequencesExt

CONSTANTS Txs,                  \* [Blk -> Seq(Op)], the Omni transactions of a block
          MaxId,                \* bound on property identifiers
          MaxTxs,               \* bound on the transactions of a block
          None,                 \* no block, no entry, no file
          GENESIS_BLOCK,        \* the first height that is parsed
          MAX_STATE_HISTORY, STORE_EVERY_N_BLOCK,
          MaxDisconnects,       \* bound on the number of DisconnectTip
          MaxRestarts           \* bound on the number of restarts

Ids == 1..MaxId
Op == [kind : {"create", "update", "freeze"}, id : Ids]    \* id is the property of an update

ASSUME OmniTreeAssumption ==
  /\ None \notin Blk
  /\ \A b \in Blk : Txs[b] \in BoundedSeq(Op, MaxTxs)
  /\ Txs[Genesis] = << >>
  /\ GENESIS_BLOCK \in Nat \ {0}
  /\ STORE_EVERY_N_BLOCK \in Nat \ {0}

VARIABLES tip,        \* ChainActive().Tip()
          diskTip,    \* the tip of the chain state on disk
          sp,         \* pDbSpInfo on disk: the entry of a property
          hist,       \* pDbSpInfo on disk: the entry before the update of a block
          watermark,  \* pDbSpInfo on disk: the block it is at
          files,      \* MP_persist: the state saved for a block
          txlist,     \* pDbTransactionList on disk
          tally,      \* memory: the blocks the state was made from, in order
          nextId,     \* memory: next_spid
          reorgRecoveryMode, reorgRecoveryMaxHeight, nWaterlineBlock,
          pc,         \* idle, or where the thread that holds cs_main is
          why,        \* what a load is for: start, again (second load of a start) or reorg
          loaded,     \* mastercore_init: nWaterline
          persisted,  \* LoadMostRelevantInMemoryState: persistedBlocks
          cur, k,     \* the block the handlers are in and its next transaction
          conn,       \* the block of the ConnectTip that waits for a rewind
          shut,       \* ShutdownRequested()
          disconnects, restarts, \* history: how many there were
          lapses      \* history: what happened that may leave a wrong state behind

chain == <<tip, diskTip>>
spdb == <<sp, hist, watermark>>
memory == <<tally, nextId>>
recovery == <<reorgRecoveryMode, reorgRecoveryMaxHeight>>
loading == <<why, loaded, persisted>>
place == <<pc, cur, k, conn>>
counts == <<disconnects, restarts>>
vars == <<chain, spdb, files, txlist, memory, recovery, nWaterlineBlock, loading, place, shut, counts, lapses>>

Partial == [whole |-> FALSE, tally |-> << >>, nextId |-> 1]
NoEntries == [id \in Ids |-> None]
NoHistory == [b \in Blk |-> NoEntries]

Init ==
  /\ tip = Genesis /\ diskTip = Genesis
  /\ sp = NoEntries /\ hist = NoHistory /\ watermark = None
  /\ files = [b \in Blk |-> None] /\ txlist = {}
  /\ tally = << >> /\ nextId = 1
  /\ reorgRecoveryMode = FALSE /\ reorgRecoveryMaxHeight = 0 /\ nWaterlineBlock = 0
  /\ pc = "back" /\ why = "start" /\ loaded = 0 /\ persisted = {}
  /\ cur = None /\ k = 1 /\ conn = None /\ shut = FALSE
  /\ disconnects = 0 /\ restarts = 0 /\ lapses = {}

-----------------------------------------------------------------------------
(* The transactions of a block.                                             *)

\* CMPSPInfo::putSP
PutSP(b, i) ==
  /\ sp' = [sp EXCEPT ![nextId] = [txs |-> {<<b, i>>}, update_block |-> b, creation_block |-> b]]
  /\ nextId' = nextId + 1
  /\ UNCHANGED <<hist, lapses>>

\* CMPSPInfo::updateSP of a property whose identifier was issued: the old
\* entry goes to the history of the block, whatever is there
UpdateSP(id, b, i) ==
  /\ hist' = [hist EXCEPT ![b][id] = sp[id]]
  /\ sp' = [sp EXCEPT ![id].txs = @ \cup {<<b, i>>}, ![id].update_block = b]
  /\ lapses' = IF sp[id].update_block = b /\ sp[id].creation_block # b THEN lapses \cup {"overwritten"} ELSE lapses
  /\ UNCHANGED nextId

\* interpretPacket, by what it does to the property database.  An update
\* of an identifier not yet issued is invalid (IsPropertyIdValid).
Interpret(op, b, i) ==
  IF op.kind = "create" THEN PutSP(b, i)
  ELSE IF op.kind = "update" /\ op.id < nextId /\ sp[op.id] # None THEN UpdateSP(op.id, b, i)
  ELSE UNCHANGED <<sp, hist, nextId, lapses>>

\* A block below the waterline is not parsed
Parsed(b) == Height(b) >= nWaterlineBlock

\* mastercore_handler_tx
HandlerTx ==
  /\ pc = "txs" /\ k \in DOMAIN Txs[cur]
  /\ k' = k + 1
  /\ IF Parsed(cur)
       THEN Interpret(Txs[cur][k], cur, k) /\ txlist' = txlist \cup {<<cur, k>>}
       ELSE UNCHANGED <<sp, hist, nextId, lapses, txlist>>
  /\ UNCHANGED <<chain, watermark, files, tally, recovery, nWaterlineBlock, loading, pc, cur, conn, shut, counts>>

-----------------------------------------------------------------------------
(* Where the thread goes after a block and after a load.                    *)

\* ConnectTip: after the handler of the beginning, SetTip and the transactions
StartBlock(b) == tip' = b /\ cur' = b /\ k' = 1 /\ pc' = "txs"

\* After msc_initial_scan: back to ConnectTip, or the start is over
ScanEnd ==
  /\ conn' = None
  /\ IF conn # None THEN StartBlock(conn) ELSE pc' = "idle" /\ cur' = None /\ UNCHANGED <<tip, k>>

\* Mutant of ScanFrom: the block of the loaded state is scanned again
ScanFromSame(n) ==
  IF n > Height(tip) \/ n = 1 THEN ScanEnd ELSE pc' = "scan" /\ cur' = AtHeight(tip, n - 1) /\ UNCHANGED <<tip, k, conn>>

\* msc_initial_scan(n): up to the height of the active chain
ScanFrom(n) ==
  IF n > Height(tip) THEN ScanEnd ELSE pc' = "scan" /\ cur' = AtHeight(tip, n) /\ UNCHANGED <<tip, k, conn>>

\* After block_end: the next block of the scan, or out of the scan, or out of ConnectTip
AfterBlock == IF cur # tip THEN ScanFrom(Height(cur) + 1) ELSE ScanEnd

\* The loop of msc_initial_scan goes on with a block; nothing is in recovery mode then
ScanBlock ==
  /\ pc = "scan"
  /\ pc' = "txs" /\ k' = 1
  /\ UNCHANGED <<chain, spdb, files, txlist, memory, recovery, nWaterlineBlock, loading, cur, conn, shut, counts, lapses>>

\* The loop stops: a shutdown was requested, or the block cannot be read.
\* Nobody learns of it: RewindDBsAndState and its callers go on.
ScanStops ==
  /\ pc = "scan"
  /\ shut' \in {shut, TRUE}
  /\ lapses' = IF shut' /\ conn = None THEN lapses ELSE lapses \cup {"cut"}
  /\ ScanEnd
  /\ UNCHANGED <<diskTip, spdb, files, txlist, memory, recovery, nWaterlineBlock, loading, counts>>

-----------------------------------------------------------------------------
(* The end of a block and the state files.                                  *)

\* IsPersistenceEnabled: near the top of the chain, or a height to keep
IsPersistenceEnabled(h) == Height(tip) <= h + MAX_STATE_HISTORY \/ h % STORE_EVERY_N_BLOCK = 0

\* Mutant of BlockEnd: the state is saved before the block is in it
BlockEndTooEarly ==
  /\ pc = "txs" /\ k \notin DOMAIN Txs[cur]
  /\ IF IsPersistenceEnabled(Height(cur)) /\ Height(cur) >= GENESIS_BLOCK
       THEN pc' = "write" /\ UNCHANGED <<tip, cur, k, conn>>
       ELSE AfterBlock
  /\ UNCHANGED <<diskTip, spdb, files, txlist, memory, recovery, nWaterlineBlock, loading, shut, counts, lapses>>

\* mastercore_handler_block_end up to the decision to save
BlockEnd ==
  /\ pc = "txs" /\ k \notin DOMAIN Txs[cur]
  /\ tally' = IF Parsed(cur) THEN Append(tally, cur) ELSE tally
  /\ IF IsPersistenceEnabled(Height(cur)) /\ Height(cur) >= GENESIS_BLOCK
       THEN pc' = "write" /\ UNCHANGED <<tip, cur, k, conn>>
       ELSE AfterBlock
  /\ UNCHANGED <<diskTip, spdb, files, txlist, nextId, recovery, nWaterlineBlock, loading, shut, counts, lapses>>

\* PersistInMemoryState begins to write the files of the block
WriteStateFiles ==
  /\ pc = "write"
  /\ files' = [files EXCEPT ![cur] = Partial]
  /\ pc' = "prune"
  /\ UNCHANGED <<chain, spdb, txlist, memory, recovery, nWaterlineBlock, loading, cur, k, conn, shut, counts, lapses>>

\* prune_state_files
TooOld(b) == Height(cur) > Height(b) + MAX_STATE_HISTORY /\ Height(b) % STORE_EVERY_N_BLOCK # 0
Pruned(f) == [b \in Blk |-> IF TooOld(b) THEN None ELSE f[b]]

\* The files are whole and the old ones are removed
PruneStateFiles ==
  /\ pc = "prune"
  /\ files' = Pruned([files EXCEPT ![cur] = [whole |-> TRUE, tally |-> tally, nextId |-> nextId]])
  /\ pc' = "mark"
  /\ UNCHANGED <<chain, spdb, txlist, memory, recovery, nWaterlineBlock, loading, cur, k, conn, shut, counts, lapses>>

\* CMPSPInfo::setWatermark, the last step of PersistInMemoryState
SetWatermark ==
  /\ pc = "mark"
  /\ watermark' = cur
  /\ AfterBlock
  /\ UNCHANGED <<diskTip, sp, hist, files, txlist, memory, recovery, nWaterlineBlock, loading, shut, counts, lapses>>

-----------------------------------------------------------------------------
(* LoadMostRelevantInMemoryState.                                           *)

\* clear_all_state, the files excepted: it leaves those where they are
ClearAllState ==
  /\ sp' = NoEntries /\ hist' = NoHistory /\ watermark' = None
  /\ txlist' = {} /\ tally' = << >> /\ nextId' = 1

\* The load found no usable state: everything is parsed again from the
\* first block.  The second load of a start does not move its nWaterline.
ReparseFrom == IF why = "again" THEN loaded + 1 ELSE GENESIS_BLOCK
LoadFails ==
  /\ ClearAllState
  /\ nWaterlineBlock' = IF why = "reorg" THEN GENESIS_BLOCK - 1 ELSE ReparseFrom
  /\ ScanFrom(ReparseFrom)
  /\ UNCHANGED <<loading, recovery>>

\* CMPSPInfo::popBlock: what the block created is deleted, what it updated
\* is put back from the history; a missing history is an error
OfBlock(b) == {id \in Ids : sp[id] # None /\ sp[id].update_block = b}
Restored(b) == {id \in OfBlock(b) : sp[id].creation_block # b}
CannotPop(b) == \E id \in Restored(b) : hist[b][id] = None

\* Mutant of SpAfterPop: what the block created stays
SpAfterPopCreated(b) ==
  [id \in Ids |-> IF id \in Restored(b) THEN hist[b][id] ELSE sp[id]]

\* The entries after popBlock, and how many remain
SpAfterPop(b) ==
  [id \in Ids |-> IF id \in Restored(b) THEN hist[b][id] ELSE IF id \in OfBlock(b) THEN None ELSE sp[id]]
RemainingSPs(b) == Cardinality({id \in Ids : SpAfterPop(b)[id] # None})
PopBlock(b) ==
  /\ sp' = SpAfterPop(b)
  /\ hist' = [hist EXCEPT ![b] = [id \in Ids |-> IF id \in Restored(b) THEN None ELSE @[id]]]

\* The watermark is gone, is of a block that is not in the block index, or
\* its block cannot be rolled back
LoadHasNoWatermark ==
  /\ \/ pc = "unknown"
     \/ pc = "back" /\ watermark = None
     \/ pc = "back" /\ watermark \notin Anc[tip] /\ CannotPop(watermark)
  /\ LoadFails
  /\ UNCHANGED <<diskTip, files, shut, counts, lapses>>

\* Mutant of WatermarkBack: the watermark is not moved
WatermarkStays(b) == watermark' = b

\* The first loop: back to the active chain.  popBlock and setWatermark are
\* two writes, here and in the second loop.
LoadGoesBack ==
  /\ pc = "back" /\ watermark # None /\ watermark \notin Anc[tip] /\ ~CannotPop(watermark)
  /\ PopBlock(watermark)
  /\ pc' = "popped"
  /\ UNCHANGED <<chain, watermark, files, txlist, memory, recovery, nWaterlineBlock, loading, cur, k, conn, shut, counts, lapses>>

\* CMPSPInfo::setWatermark of the block before, in both loops
WatermarkBack(b) == watermark' = Parent[b]
LoadMovesWatermark ==
  /\ pc \in {"popped", "popped2"}
  /\ WatermarkBack(watermark)
  /\ pc' = IF pc = "popped" THEN "back" ELSE "restore"
  /\ UNCHANGED <<chain, sp, hist, files, txlist, memory, recovery, nWaterlineBlock, loading, cur, k, conn, shut, counts, lapses>>

\* The blocks of the active chain that have files
LoadListsFiles ==
  /\ pc = "back" /\ watermark # None /\ watermark \in Anc[tip]
  /\ persisted' = {b \in Anc[tip] : files[b] # None}
  /\ pc' = "restore"
  /\ UNCHANGED <<chain, spdb, files, txlist, memory, recovery, nWaterlineBlock, why, loaded, cur, k, conn, shut, counts, lapses>>

\* The second loop may go on
Searching == persisted # {} /\ Height(watermark) > GENESIS_BLOCK - 1
HasState(b) == b \in persisted /\ files[b].whole

\* Mutant of Restore: the file with next_spid is not read
RestoreAllButGlobals(b) == tally' = files[b].tally /\ nextId' = nextId

\* RestoreInMemoryState of all the files of a block
Restore(b) == tally' = files[b].tally /\ nextId' = files[b].nextId

\* The files of the watermark's block are loaded.  mastercore_init rewinds
\* once more, and loads a second time, when the chain is higher: the range of
\* heights it drops from the list of transactions is empty, as
\* reorgRecoveryMaxHeight is 0.
LoadSucceeds ==
  /\ pc = "restore" /\ Searching /\ HasState(watermark)
  /\ Restore(watermark)
  /\ LET h == Height(watermark)
     IN  CASE why = "reorg" ->
                /\ nWaterlineBlock' = h
                /\ ScanFrom(h + 1)
                /\ UNCHANGED <<why, loaded>>
           [] why = "start" /\ h < Height(tip) ->
                /\ why' = "again" /\ loaded' = h /\ pc' = "back"
                /\ nWaterlineBlock' = GENESIS_BLOCK - 1
                /\ UNCHANGED <<tip, cur, k, conn>>
           [] OTHER ->
                /\ loaded' = (IF why = "again" THEN loaded ELSE h)
                /\ nWaterlineBlock' = loaded' + 1
                /\ ScanFrom(loaded' + 1)
                /\ UNCHANGED why
  /\ UNCHANGED <<diskTip, spdb, files, txlist, recovery, persisted, shut, counts, lapses>>

\* No usable files for this block: the property database goes back one block
LoadGoesFurtherBack ==
  /\ pc = "restore" /\ Searching /\ ~HasState(watermark)
  /\ ~CannotPop(watermark) /\ RemainingSPs(watermark) > 0
  /\ persisted' = persisted \ {watermark}
  /\ PopBlock(watermark)
  /\ pc' = "popped2"
  /\ UNCHANGED <<chain, watermark, files, txlist, memory, recovery, nWaterlineBlock, why, loaded, cur, k, conn, shut, counts, lapses>>

\* The files, the blocks or the properties are exhausted
LoadExhausted ==
  /\ pc = "restore"
  /\ ~Searching \/ (~HasState(watermark) /\ (CannotPop(watermark) \/ RemainingSPs(watermark) = 0))
  /\ LoadFails
  /\ UNCHANGED <<diskTip, files, shut, counts, lapses>>

-----------------------------------------------------------------------------
(* The chain moves, the process stops.                                      *)

\* Mutant of Outside: the first height is exclusive
OutsideAbove(first, last) == {t \in txlist : Height(t[1]) <= first \/ Height(t[1]) > last}

\* isMPinBlockRange(first, last, true): the transactions that stay
Outside(first, last) == {t \in txlist : Height(t[1]) < first \/ Height(t[1]) > last}

\* CMPTxList::CheckForFreezeTxs
CheckForFreezeTxs(h) == \E t \in txlist : Height(t[1]) >= h /\ Txs[t[1]][t[2]].kind = "freeze"

\* ConnectTip up to HandlerBlockBegin: the coins may be flushed just before.
\* In recovery mode RewindDBsAndState drops the transactions of the heights
\* that were disconnected, then loads, or clears because of a freeze.
ConnectTip(b) ==
  /\ pc = "idle" /\ ~shut /\ b # Genesis /\ Parent[b] = tip
  /\ diskTip' \in {diskTip, b}
  /\ IF reorgRecoveryMode
       THEN /\ reorgRecoveryMode' = FALSE /\ reorgRecoveryMaxHeight' = 0
            /\ nWaterlineBlock' = GENESIS_BLOCK - 1
            /\ txlist' = Outside(Height(b), reorgRecoveryMaxHeight)
            /\ why' = "reorg" /\ conn' = b
            /\ pc' = IF CheckForFreezeTxs(Height(b)) THEN "clear" ELSE "back"
            /\ UNCHANGED <<tip, cur, k>>
       ELSE StartBlock(b) /\ UNCHANGED <<recovery, nWaterlineBlock, txlist, why, conn>>
  /\ UNCHANGED <<spdb, files, memory, loaded, persisted, shut, counts, lapses>>

\* A freeze would be rolled back: clear_all_state and everything again
ClearForFreeze ==
  /\ pc = "clear"
  /\ LoadFails
  /\ UNCHANGED <<diskTip, files, shut, counts, lapses>>

\* DisconnectTip with mastercore_handler_disc_begin
DisconnectTip ==
  /\ pc = "idle" /\ ~shut /\ tip # Genesis /\ disconnects < MaxDisconnects
  /\ tip' = Parent[tip]
  /\ reorgRecoveryMode' = TRUE
  /\ reorgRecoveryMaxHeight' = IF Height(tip) > reorgRecoveryMaxHeight THEN Height(tip) ELSE reorgRecoveryMaxHeight
  /\ disconnects' = disconnects + 1
  /\ UNCHANGED <<diskTip, spdb, files, txlist, memory, nWaterlineBlock, loading, place, shut, restarts, lapses>>

\* FlushStateToDisk between two blocks
Flush ==
  /\ pc = "idle" /\ diskTip # tip
  /\ diskTip' = tip
  /\ UNCHANGED <<tip, spdb, files, txlist, memory, recovery, nWaterlineBlock, loading, place, shut, counts, lapses>>

\* Some entry is of a block the watermark has not reached
Unmarked == watermark # None /\ \E id \in Ids : sp[id] # None /\ sp[id].update_block \notin Anc[watermark]

\* The list has a transaction the chain on disk does not have, or a rewind
\* dropped one of a block whose state is still there to be loaded
TxsOf(S) == {<<b, i>> \in S \X (1..MaxTxs) : i \in DOMAIN Txs[b]}
Unlisted ==
  \/ ~(txlist \subseteq TxsOf(Anc[diskTip]))
  \/ watermark # None /\ ~(TxsOf(Anc[diskTip] \cap Anc[watermark]) \subseteq txlist)

\* The block of the watermark was rolled back and is still in the chain on disk
Unrolled == pc = "popped" /\ watermark \in Anc[diskTip]

\* What a restart finds that may leave a wrong state behind
Lapsed ==
  (IF Unmarked THEN {"unmarked"} ELSE {}) \cup (IF Unlisted THEN {"unlisted"} ELSE {})
    \cup (IF Unrolled THEN {"unrolled"} ELSE {})

\* The process stops, or is killed, anywhere; mastercore_init begins.  The
\* block index on disk may lack the watermark's block if the chain on disk does.
Restart ==
  /\ restarts < MaxRestarts
  /\ restarts' = restarts + 1
  /\ tip' = diskTip
  /\ tally' = << >> /\ nextId' = 1
  /\ reorgRecoveryMode' = FALSE /\ reorgRecoveryMaxHeight' = 0 /\ nWaterlineBlock' = 0
  /\ \/ pc' = "back"
     \/ pc' = "unknown" /\ watermark # None /\ watermark \notin Anc[diskTip]
  /\ why' = "start" /\ loaded' = 0 /\ persisted' = {}
  /\ cur' = None /\ k' = 1 /\ conn' = None /\ shut' = FALSE
  /\ lapses' = lapses \cup Lapsed
  /\ UNCHANGED <<diskTip, spdb, files, txlist, disconnects>>

\* The thread that holds cs_main, once it is in a handler or in mastercore_init
Handlers ==
  \/ HandlerTx \/ BlockEnd \/ WriteStateFiles \/ PruneStateFiles \/ SetWatermark
  \/ ScanBlock \/ ScanStops
  \/ LoadHasNoWatermark \/ LoadGoesBack \/ LoadMovesWatermark \/ LoadListsFiles
  \/ LoadSucceeds \/ LoadGoesFurtherBack \/ LoadExhausted \/ ClearForFreeze

Next ==
  \/ Handlers
  \/ \E b \in Blk : ConnectTip(b)
  \/ DisconnectTip \/ Flush \/ Restart

Spec == Init /\ [][Next]_vars /\ WF_vars(Handlers)

-----------------------------------------------------------------------------
(* What it promises.                                                        *)

\* The blocks from the first that is parsed up to b
Path(b) == [i \in 1..(IF Height(b) < GENESIS_BLOCK THEN 0 ELSE Height(b) - GENESIS_BLOCK + 1) |-> AtHeight(b, GENESIS_BLOCK + i - 1)]

\* The properties after one more transaction, when nothing ever goes wrong
OneMore(st, b, i) ==
  LET op == Txs[b][i]
  IN  CASE op.kind = "create" ->
             [sp |-> [st.sp EXCEPT ![st.nextId] = [txs |-> {<<b, i>>}, update_block |-> b, creation_block |-> b]],
              nextId |-> st.nextId + 1]
        [] op.kind = "update" /\ st.sp[op.id] # None ->
             [st EXCEPT !.sp[op.id].txs = @ \cup {<<b, i>>}, !.sp[op.id].update_block = b]
        [] OTHER -> st

\* The properties after the chain that ends in b
SpOf[b \in Blk] ==
  IF Height(b) < GENESIS_BLOCK THEN [sp |-> NoEntries, nextId |-> 1]
  ELSE FoldLeft(LAMBDA st, i : OneMore(st, b, i), SpOf[Parent[b]], [i \in DOMAIN Txs[b] |-> i])

\* Between two blocks, with no rewind outstanding and no shutdown under way
AtRest == pc = "idle" /\ ~reorgRecoveryMode /\ ~shut

\* Every variable has the type of the variable of the code it stands for.
TypeOK ==
  /\ tip \in Blk /\ diskTip \in Blk /\ watermark \in Blk \cup {None}
  /\ \A id \in Ids : sp[id] = None \/ sp[id].update_block \in Blk
  /\ nextId \in 1..(MaxId + 1) /\ persisted \subseteq Blk
  /\ reorgRecoveryMode \in BOOLEAN /\ reorgRecoveryMaxHeight \in Nat /\ nWaterlineBlock \in Nat
  /\ pc \in {"idle", "txs", "write", "prune", "mark", "scan", "clear", "back", "popped", "restore", "popped2", "unknown"}
  /\ (pc \in {"txs", "write", "prune", "mark", "scan"}) = (cur # None)
  /\ why \in {"start", "again", "reorg"}

\* StateIsOfChain: between two blocks the state in memory was made from exactly
\* the blocks of the active chain, each once and in order, whatever was
\* disconnected, wherever the process died and whichever files were cut,
\* unless a scan was stopped before its end (msc_initial_scan, RewindDBsAndState).
StateIsOfChain == AtRest /\ "cut" \notin lapses => tally = Path(tip)

\* FilesAreOfBlock: state files that pass their hash hold the state after the
\* chain of the block they are named after, and its next identifier
\* (PersistInMemoryState, RestoreInMemoryState).
FilesAreOfBlock ==
  "cut" \notin lapses =>
    \A b \in Blk : files[b] # None /\ files[b].whole =>
      files[b].tally = Path(b) /\ files[b].nextId = SpOf[b].nextId

\* PropertiesAreOfChain: between two blocks the property database holds the
\* entries the active chain makes, after any rollback by popBlock, unless a
\* history record was overwritten within its block, or the process died with
\* entries of a block the watermark had not reached, or between popBlock and
\* setWatermark of a block the chain state on disk still has.
PropertiesAreOfChain ==
  AtRest /\ lapses \cap {"cut", "overwritten", "unmarked", "unrolled"} = {} => sp = SpOf[tip].sp

\* IssuedExist: when a transaction is interpreted, every identifier below
\* next_spid has an entry, so the assert on getSP after IsPropertyIdValid
\* holds.  next_spid comes from the state files, the entries from the database.
\* Again unless a scan was stopped before its end, or the process died between
\* popBlock and setWatermark of a block the chain state on disk still has: the
\* files of that block are then loaded and its entries are gone.
IssuedExist ==
  pc \in {"idle", "txs"} /\ lapses \cap {"cut", "unrolled"} = {} => \A id \in 1..(nextId - 1) : sp[id] # None

\* ListIsOfChain: between two blocks the list of transactions holds exactly
\* those of the active chain, unless the process died with a list that does
\* not go with the chain on disk and the watermark (isMPinBlockRange).
ListIsOfChain ==
  AtRest /\ lapses \cap {"cut", "unlisted"} = {} =>
    txlist = TxsOf(Anc[tip])

\* Settles: every block, rewind and start comes to its end
\* (LoadMostRelevantInMemoryState, msc_initial_scan).
Settles == pc # "idle" ~> pc = "idle"

=============================================================================
