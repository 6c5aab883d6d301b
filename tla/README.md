# TLA+ models and proofs for the DePINC node

DePINC is a fork of Bitcoin Core 0.19. Blocks are mined with proof of capacity
and, from height BHDIP009 on, with Chia's proof of space and time. What a miner
earns depends on coins bound and pledged to the miner, so the coins database
carries more indexes than Bitcoin's, and the reward of a block depends on the
blocks before it. This directory models the parts of the node that keep that
state right: the coins caches and the balances read through them, the connection
and disconnection of blocks, flushing, crashes and recovery, the choice of the
best chain, the distribution of the full mortgage reward, and three parts that
follow the chain or talk to the outside: the Omni layer, the transaction index
and the timelord client. TLC checks the models on small instances; TLAPS proves
the safety properties of all of them but the Omni layer for every value of the
constants.

Paths below are relative to `src/src/`.

## The system

| Part | State | Operations |
|---|---|---|
| Coins caches (`coins.cpp`) | a map of entries with the flags DIRTY, FRESH, UNBIND | FetchCoin, AddCoin, SpendCoin, BatchWrite, Flush, Uncache |
| Coins database (`txdb.cpp`) | coin records, bind and pledge indexes, DB_BEST_BLOCK, DB_HEAD_BLOCKS | BatchWrite in batches, cursors, balances, Upgrade |
| Chain state (`validation.cpp`, `undo.h`) | the active chain, CoinsTip, undo data | ConnectTip, DisconnectTip, FlushStateToDisk, ReplayBlocks, LoadChainTip |
| Chain selection (`validation.cpp`) | block index with status flags, setBlockIndexCandidates, m_blocks_unlinked | AcceptBlock, ReceivedBlockTransactions, ActivateBestChain, InvalidateBlock, ResetBlockFailureFlags, PreciousBlock |
| Rewards (`validation.cpp`, `subsidy_utils.cpp`, `chiapos/mortgage_calculator.cpp`) | BLOCK_UNCONDITIONAL of each block, the cached heights of IndexRangeControl | GetBlockReward, CalcAccumulatedAmount, queryfullmortgageinfo |
| Bind and pledge rules (`consensus/tx_verify.cpp`, `validation.cpp`) | none of their own, they read the coins views | CheckTxInputs, CheckChiaPledgeTx, CheckWithdrawTx |
| Consensus kernel (`chiapos/`, `poc/`) | none but the chain | difficulty, iterations, proofs |
| Timelord client (`chiapos/timelord_cli/`) | connection status, send queue, timers | Connect, SendMessage, Calc, Exit, ping and pong |
| Omni layer (`omnicore/`) | tallies and offers in memory, state files, property database with watermark, transaction list | transaction handlers, block callbacks, persist, load, rewind, scan |
| Transaction index (`index/base.cpp`, `index/txindex.cpp`) | index records, the locator on disk, m_best_block_index | ThreadSync, BlockConnected, ChainStateFlushed, Rewind, Init |
| Mempool, network, wallet, block filters, RPC, GUI | as in Bitcoin Core | as in Bitcoin Core |

How they interact. A block is connected in a view over CoinsTip, which is a
cache over the database. The view is flushed into CoinsTip when the block is
valid and dropped when it is not. CoinsTip is flushed to the database now and
then, in batches of limited size; DB_HEAD_BLOCKS marks the time between the
first and the last batch, and a node that starts and finds it replays the blocks
between the old and the new tip. The reward of a block is computed from the
coins before the block and from the flags of earlier blocks; validation, block
assembly and two RPC calls share one calculator with a process-wide cache; the
pledge and burn balances it depends on are read from the database and corrected
by the entries of the caches above. The Omni layer is called inside ConnectTip
and DisconnectTip and keeps files and databases of its own, which a crash leaves
at other blocks than the coins. The transaction index follows through a queue of
events that is emptied by another thread.

What makes it hard: an entry's flags are claims about layers below that other
operations change; a crash may come between any two batches, also during the
recovery from a crash; the best chain is looked for by threads that release
cs_main between steps; undo data is a lossy conversion; and the height cache of
the calculator outlives the chain it was computed for.

## Modules

| Module | Models |
|---|---|
| `Coins` | what each operation of CCoinsViewCache and CCoinsViewDB does to the entry and the records of one outpoint |
| `UtxoSet` | abstract: a plain set of coins with bind records, and a working copy that is committed or dropped as a whole |
| `CoinsViews` | the three layers database, CoinsTip, block view; implements `UtxoSet` |
| `Blocks` | blocks, and the coins and bind records a chain of blocks stands for |
| `DurableChain` | abstract: a chain that grows, shrinks, is saved, crashes and comes back as it was saved |
| `ChainState` | connecting, disconnecting, flushing in batches, crashing, replaying; implements `DurableChain` |
| `BlockTree` | a tree of blocks with heights and ancestors, which the three modules that follow blocks extend |
| `ChainSelection` | the block index, its failure flags and candidates, activation and invalidation with the locks released between steps |
| `MortgageCalculator` | the distribution of the accumulated amounts and its height cache |
| `Balances` | extends `CoinsViews` by the account and pledge indexes and by the balance, pledge and bind queries |
| `OmniState` | how the Omni layer keeps its memory, files and databases in step with the active chain |
| `BaseIndex` | the transaction index: sync thread, event queue, locator, restarts |
| `TimelordClient` | connection, send queue and timers of the timelord client on an event loop |
| `Lemmas` | lemmas about one entry of a cache, about trees of blocks and about sums over finite sets |
| `CoinsViewsProofs`, `ChainStateProofs`, `ChainSelectionProofs`, `RewardProofs`, `BaseIndexProofs`, `TimelordProofs` | the theorems: of `CoinsViews` and `Balances`, and of the module with the name |
| `MCCoinsViews`, `MCChainState`, `MCChainSelection`, `MCMortgage`, `MCBalances`, `MCOmniState`, `MCBaseIndex` | instances for TLC |

**Coins.** Every operation of the two classes acts on each outpoint by itself, so
a cache is a function from outpoints to entries and the operators of `Coins` are
applied pointwise. A coin is a value with a height; whether it is a bind coin is
the constant operator `BindCoin`. Amounts, scripts and accounts are left out.
A spent entry keeps its coin, because `Coin::Clear` keeps everything but the
script and `BatchWrite` reads the payload of spent bind coins.

**CoinsViews.** One action per operation: `ViewFetch`, `ViewAdd`, `ViewSpend`,
`ViewFlush`, `ViewDrop`, `TipFlush`, `TipUncache`. The guards of `ViewAdd` and
`ViewSpend` are what the callers establish. `TipFlush` is atomic here; its
batches are in `ChainState`.

**ChainState.** `chain` is a sequence of blocks, each with the outpoints it adds
and spends and its undo data. `ConnectTip` and `DisconnectTip` do all of ConnectTip
and DisconnectTip to the coins, through both intermediate views. `FlushStart`,
`FlushPartial` and `FlushFinal` are the batches of `CCoinsViewDB::BatchWrite`,
in any order of the entries since the map is unordered. `Crash` loses everything
in memory. `Restart` reads DB_HEAD_BLOCKS; `Rollback`, `ReplayForward` and
`ReplayFlush` are ReplayBlocks. `UndoRead` is the undo conversion: the
fields it does not write come back with any value. A best block is represented
by the chain that ends in it and the empty chain is the genesis block.

**ChainSelection.** The tree of blocks is a constant; the variables are the fields
of CChainState and BlockManager, with the status bits as sets of blocks. `pc`
says which call holds m_cs_chainstate; cs_main is free unless a critical section
that takes several steps of the model is under way (`CsMainFree`).
`AcceptHeader`, `RejectHeader`, `RejectBlock`, `AcceptBlock` and `Link` are
AcceptBlockHeader, AcceptBlock and ReceivedBlockTransactions. `Activate`,
`DropCandidate`, `ActivateStep` and `ActivateDone` are ActivateBestChain with
FindMostWorkChain and ActivateBestChainStep. `InvalidateBlock`, `InvalidateStep`
and `InvalidateFinish` are InvalidateBlock. `SnatchPick`, `SnatchInvalidate` and
`SnatchReset` are the forging thread of `poc/poc.cpp`, which invalidates the tip
and resets its flags to try for a better block. The comparator's last resort is
the address of an entry, so the memory layout is a variable that a restart
chooses anew. `pending` stands for all calls of ActivateBestChain that are due; a
call that starts clears it, which makes TipIsBest stronger. Siblings that wait
for one parent are linked in any order. Headers may be accepted or not come at
all, which covers the rules of ProcessNewBlockHeaders about forks with little
work. Restarts are clean ones. The history variable `forgotten` has the blocks that
were received on top of an unlinked block with a failure flag: AcceptBlock puts
them neither among the linked nor among the waiting ones (`validation.cpp:3850`).

**MortgageCalculator.** A chain is the sequence of its blocks' flags. `paid` is
the field accumulate of each block's reward: positive for a full mortgage block,
negative for a low one. `TakeOff` stands for GetBlockAccumulateByBlockIndex.
`ComputeReward` is a reward computed for a block that is not connected (block
assembly, getmininginfo, a block that fails later checks) and
`QueryFullMortgageInfo` is the RPC; both change the shared cache. The names with an
M (`MSpec`, `MTypeOK`) and with a B in `Balances` let one proof module use
several specifications.

**Balances.** `BSpec` is the state machine of `CoinsViews` with two more stores that
`IndexFlush` writes together with the coins: DB_COIN_INDEX and the pledge
records. An outpoint stands for one output for ever, and a coin is that output at
a height, so a transaction that a reorganisation moves to another block is the
same outpoint at another height. `GetCoinBalance`, `GetBalancePointSend`,
`GetBalancePointReceive`, `GetBalancePointRetargetReceive` and `GetBalanceBind` are
the queries of `CCoinsViewDB`; the last four share the shape `Corrected`.
`Merged` is what `CCoinsViewCache::GetBalance` passes down when a view above has
entries too: merging one entry is `BatchWrite` of `Coins`. The reference is the
sum over the coins that `TipCoin` or `ViewCoin` finds (`Held`, the coins among given
outputs). `BalancesAssumption` ties the constants together: a bind coin is one
that pays a bind output, and the receiver type of a retarget is a point type.
A bind output is of type BURST or CHIA. `GetBalanceBind` selects the records of one
type, but its correction takes every bind coin of the account among the cached
entries (`txdb.cpp:986` asks IsBindPlotter, which is both types);
`BindPlotterBalance` is the sum GetBalance makes of one call or of two. The points
before BHDIP009 are left out.

**OmniState.** The state in memory is the sequence of blocks it was made from. A
transaction creates a property, updates one or freezes; the six files of a block
are one file, whole or cut. One thread, the one that holds cs_main, walks through
the handlers: `pc` says where it is, and `Restart` may come at any point, with the
coins on disk at any tip that was flushed. `ConnectTip` and `DisconnectTip` are the
calls in `validation.cpp`; `HandlerTx`, `BlockEnd`, `WriteStateFiles`,
`PruneStateFiles` and `SetWatermark` a block; `ScanBlock` and `ScanStops`
msc_initial_scan; the `Load...` actions LoadMostRelevantInMemoryState with what
RewindDBsAndState or mastercore_init do after it. popBlock and setWatermark are two
writes there, so `LoadMovesWatermark` is a step of its own in both loops. The
block index has no variable: after a restart the watermark's block may be missing
from it whenever the chain on disk does not have the block, which leads to a full
reparse (`persistence.cpp:721`); that is a little more than the code allows, since
a block that was flushed and disconnected again stays in the index. `lapses` is a
history variable with the five things that may leave a wrong state behind, see
below.

**BaseIndex.** Two threads and the chain. `SyncNext` and `SyncWrite` are one round of
ThreadSync, between which the chain may move; `SyncDone` and `SyncInterrupted`
end it and `SyncAborts` is the failed assertion at `index/base.cpp:177`.
`BlockConnected`, `BlockWritten` and `ChainStateFlushed` take events off the queue.
Every commit and every write may fail. A null pointer is `None`, and the chain may be
empty: a new node, or one told to build the chain state again
(-reindex-chainstate) or the index as well (-reindex, `init.cpp:1843`), starts
without a block, in step with it and with a null m_best_block_index, and is
announced the genesis block first. `Activate` connects all blocks up to the new tip
in one step, and the flush that ConnectTip may do in between is a `Flush` before or
after it. The history variable `right` says whether
the index was right when the process started, `lapse` whether the locator was
ever saved for a block that is not indexed.

**TimelordClient.** `ready` is the queue of handlers that the io_context runs one
after the other, `timer` the time left of the three timers. A timer that is
cancelled makes its handler ready with an error; one that has expired cannot be
cancelled any more. `Tick` is time, and the event loop may be late by `MaxLag`
ticks. The peer may stop answering, answers may be late, and the connection may
break. The client is compiled but nothing in the repository calls it; the owner
of the model calls Connect once, Calc whenever it likes, and Exit once.

## Runs

| Run | Config | Checks | Result |
|---|---|---|---|
| `coins_views` | `MCCoinsViews.cfg` | TypeOK, FlagsFit, BindIndexAgrees, FlushNeverThrows, ImplementsUtxoSet | holds |
| `chain_state` | `MCChainState.cfg` | DiskConsistent, CoinsMatchChain, DisconnectIsClean, BatchWriteNeverFails, ImplementsDurableChain, ReplayEnds | holds |
| `retarget_undo` | `MCRetargetUndo.cfg` | UndoRestoresInputs | violated |
| `selection` | `MCSelect.cfg` | FailureHasCause, CandidatesComplete, NeverOutOfCandidates, TipIsBest | holds |
| `invalidation` | `MCInvalidate.cfg` | LinkedOrWaiting, FailureHasCause, TipIsBest, ActivationEnds | holds |
| `mortgage` | `MCMortgage.cfg` | NeverOverpaid, RewardUntilReorg | holds |
| `mortgage_reorg` | `MCMortgageReorg.cfg` | RewardIsFunctionOfChain | violated |
| `balances` | `MCBalances.cfg` | IndexesAgree, BalanceIsSum, PledgesAreSums, LockedIsSum | holds |
| `burned_reorg` | `MCBurned.cfg` | BurnedIsSum | violated |
| `omni` | `MCOmniState.cfg` | StateIsOfChain, FilesAreOfBlock, PropertiesAreOfChain, IssuedExist, ListIsOfChain, Settles | holds |
| `base_index` | `MCBaseIndex.cfg` | AnswersAreCurrent, LocatorIsIndexed, FollowsChain, CatchesUp | holds |
| `timelord` | `MCTimelord.cfg` | OneWrite, WaitTimerIsOwn, DeadPeerReported, ConnectIsAnswered, ExitEnds | holds |

ChainState, ChainSelection, MortgageCalculator, OmniState, BaseIndex and
TimelordClient define a type invariant as well. It holds on the instances of the
passing runs but is not among their invariants, which are kept for what can go
wrong.

The violated properties are what comments of the code say:

- `retarget_undo`: the undo record of a coin with a retarget payload holds the
  receiver only. After DisconnectBlock the restored coin has an arbitrary point
  type and point height (`undo.h:47`, `undo.h:96`), while `Coin::Serialize`
  writes all three fields.
- `mortgage_reorg`: a reward computed after a reorganisation depends on which
  heights the abandoned chain left in the cache (`mortgage_calculator.cpp:47`).
  RewardUntilReorg, in `mortgage`, is the same property up to the first
  reorganisation, and holds.
- `burned_reorg`: a balance up to a height takes the height of a coin from the
  database for what is on disk and from the cache for the correction
  (`txdb.cpp:1015`, `txdb.cpp:1033`). A coin that was flushed, rolled back and
  included again higher up is counted at the height where it was. Without a
  height limit the balances are right (BalanceIsSum).

**What the passing runs leave out.** Some properties hold only outside cases that
the code does not handle. A history variable names each case, so that the
property covers everything else:

- `omni`: "cut", a scan stopped in a reorganisation by a shutdown, or anywhere by
  a block that cannot be read (`omnicore.cpp:1213`, `1238`): it is not reported,
  and the next block is applied to, and saved over, a state without the blocks
  that were not scanned. "overwritten", a second update of a property in one block
  (`dbspinfo.cpp:183`): the history then holds an entry from within the block,
  which popBlock restores. "unmarked", a crash before setWatermark with entries
  of the block on disk: popBlock starts at the watermark and does not reach them.
  "unlisted", a crash with a transaction list that does not go with the chain on
  disk: reorgRecoveryMaxHeight is 0 after a start and nothing is dropped.
  "unrolled", a crash between popBlock and setWatermark (`persistence.cpp:732`, `742`)
  of a block that was disconnected but is still in the chain on disk: the start
  finds the watermark on its chain and the files of the block whole, and loads
  next_spid from them although the entries of the block are gone. The same crash
  in the second loop does no harm, as the block has no usable files. Each
  property names the lapses it needs and with fewer of them TLC finds it
  violated.
- `base_index`: the locator is saved before the block is written
  (`index/base.cpp:131`), or for a null block, which GetLocator takes for the tip
  (`base.cpp:98`), or Init forks off without saving (`base.cpp:66`).
  AnswersAreCurrent leaves out the time until the genesis block is indexed when
  the process started on an empty chain: BlockUntilSyncedToCurrentChain takes a
  null m_best_block_index for caught up (`base.cpp:288`) and returns true, whatever
  the chain has come to, while `base.h:98` says that it blocks "until the index is
  caught up". No other answer is early: `GenesisWaits` is exactly that time.
- `timelord`: ConnectIsAnswered leaves out a resolver that throws, which is only
  logged; ExitEnds is about an Exit on an established connection with no Calc
  timer running. A connect that completed before Exit sets CONNECTED again after
  it, and Exit does not cancel Calc's timer.
- `selection` has reconsiderblock, of a block right above the genesis block, and
  the forging thread, but no invalidateblock, and one precious block;
  `invalidation` has invalidateblock but neither reconsiderblock nor
  preciousblock. So they say nothing of invalidateblock and reconsiderblock used
  together, nor of several precious blocks. ActivationEnds is checked without
  reconsiderblock: a user who resets the flags of an invalid branch each time
  cs_main is released sends the activation back to it for ever.

**Found with these models, without a run of their own:**

- A block that arrives while its parent, known by its header only, is invalidated
  is not put into m_blocks_unlinked (`validation.cpp:3850`), and reconsidering the
  parent does not make up for it, against the assertion at `validation.cpp:5717`.
  (`ChainSelection` with a header in `Invalidable` and `Reconsidered`;
  LinkedOrWaiting exempts the blocks in `forgotten`.)
- reconsiderblock clears the flags of ancestors but makes only the block and its
  descendants candidates (`validation.cpp:3751`), against its help text
  (`rpc/blockchain.cpp:1677`). (An invalidated block and a reconsidered header
  above it, TipIsBest.)
- The counter of preciousblock starts again at -1 when the tip has gained work
  (`validation.cpp:3565`), also when the tip itself has -1 from an earlier call;
  the two blocks are then ordered by address. (Two blocks in `Precious`,
  CandidatesComplete.)
- What an account has locked is counted twice for a bind coin that waits in a
  cache to be written to the database, when both types are asked for, as
  `interfaces/chain.cpp:420` always does; and without the burst type an unwritten
  BURST bind is counted as a CHIA one (`txdb.cpp:986`). `txdb.h:74` calls the answer
  the "balance for binding plotters". LockedIsSum states the amount the code gives:
  the coins that are written and of a type asked for, and each unwritten coin once
  per type asked for. So the answer for both types is the sum over the live bind
  coins exactly when none of them waits to be written.
- queryfullmortgageinfo leaves out shares paid from heights below the lowest
  cached one (`chiapos/chia_rpc.cpp:2023`).
- The condition in InvalidateBlock that should leave BLOCK_FAILED_VALID on the last
  disconnected block only (`validation.cpp:3660`) compares the parent of a block
  with its child, and never holds. `InvalidateStep` has it as it is.

## Bounds and fairness

- `MCCoinsViews`: outpoints are independent in every operation, so a few of them
  show all that can happen. There are two: one pays the burn account, which
  Uncache keeps, and one carries a bind payload. Of the three heights the first
  is before BHDIP007, the second gives a bind coin after it, and at the third the
  payload is not read. A plain coin outside the burn account is covered by the
  second outpoint at that height, and in general by the proof.
- `MCChainState`: `MaxHeight` bounds the chain. The instance has room for a
  reorganisation of more than one block, for a coin created and spent in the same
  block, and for crashes inside a flush, a replay and the flush of a replay; the
  number of crashes is not bounded. `MCRetargetUndo` adds a retarget coin.
- `MCChainSelection`: two branches of up to three blocks, each block with one unit
  of work, so that ties happen at two heights and a reorganisation goes through a
  block that ConnectBlock rejects and back. `selection` has three good blocks on
  the other branch: one that is better than pindexMostWork may arrive while the
  activation has released cs_main, and the tip to snatch may get children before
  it is invalidated. `invalidation` has a child of the rejected block and a block
  that ContextualCheckBlock rejects. `MaxPrecious` bounds
  nBlockReverseSequenceId. There are two memory layouts, one the reverse of the
  other, so a tie goes either way. The number of restarts, invalidations and
  headers is not bounded.
- `MCMortgage`: `MaxHeight` is past the end of a distribution. The heights of the
  three rule changes differ, and `MCTakeOff` leaves remainders when divided.
- `MCBalances`: two outpoints, as in `MCCoinsViews`: one pays the burn account, the
  other is, from the start, a payment, a pledge, a retargeted pledge or a bind
  coin of either type. The queries add up over outpoints, so one of each kind, in every
  combination of database, CoinsTip and view, shows what a wrong correction
  does. Two heights let a transaction move.
- `MCOmniState`: two branches over a common block with two more blocks each.
  `MaxDisconnects` and `MaxRestarts` allow a reorganisation to the other branch
  and part of the way back with one restart anywhere. MAX_STATE_HISTORY is 1, so
  that files are pruned and the load has to go back beyond the last saved state;
  STORE_EVERY_N_BLOCK, 5000 in the code, is beyond the chain. One branch updates
  a property twice in a block, the other freezes. With two restarts and two
  disconnects the properties hold as well, in a run that takes longer.
- `MCBaseIndex`: two branches, one transaction on both at different heights. The
  queue holds two events (`MaxQueue`); the chain moves only while there is room.
  One restart besides those of the failed assertion, which are not counted.
- `MCTimelord`: a ping every two ticks and one tick to answer; the code has 60 and
  10 seconds, and what matters is that the second is shorter. The event loop may
  be one tick late. `MaxReady` bounds the handlers
  that wait while time passes, `MaxSending` a send queue that a broken connection
  never empties, `MaxDue` the pings not yet answered.
- Fairness is used for the liveness properties. `chain_state` has weak fairness of `FlushFinal`,
  `Rollback`, `ReplayForward` and `ReplayFlush`. Each is the next statement of a
  loop that runs under cs_main and waits for nobody. `FlushPartial`, `Crash`,
  `Restart` and everything driven by blocks or users get no fairness. With
  `Crash` always possible the property ends in "run" or "down". `invalidation` has weak fairness of
  the threads that hold m_cs_chainstate or cs_main or are on their way to
  ActivateBestChain: they run straight-line code and wait only for locks that are
  released. Blocks, users, restarts and the forging thread get none. `omni` has weak
  fairness of `Handlers`, one thread in loops over finitely many blocks that
  holds cs_main. `base_index` has weak fairness of the sync thread and of the
  thread that runs the events. `timelord` has weak fairness of the io_context's
  steps: handlers that are ready run, expired timers are found, a connection
  attempt ends, operations on a broken socket fail. Time has strong fairness
  because the bound in `Tick` disables it while handlers are ready, which is not
  so in reality. The owner, answers of the peer and writes to a peer that hangs
  get none.
- Deadlock is checked in every run but `timelord` and `omni`: the event loop may run
  out of work after Exit, and a node that was asked to shut down stops.

## Proofs

Each proof module has an inductive invariant, a theorem that the specification
keeps it, and one theorem for each property that follows. All constants are
arbitrary within the named assumptions of the modules that declare them: sets
of outpoints, coins and blocks are of any size, also infinite where nothing is
said, and so are the bounds that the runs fix.

**Coins caches** (`Lemmas`, `CoinsViewsProofs`). `Lemmas` starts with lemmas about
one entry: if an entry and a record fit what is below, they do after each
operation. `CoinsViewsProofs` lifts them to the layers. `Inv` is TypeOK, FlagsFit
and the agreement of coins and bind records in the database; that they agree
through the two caches follows. FlagsFit needs the agreement: a coin added
without overwrite may be FRESH only because a bind record left below belongs to a
bind coin. The agreement needs FlagsFit: an entry may be erased or written only
because its flags are right. `Refinement` is ImplementsUtxoSet: fetching, flushing
to disk and evicting are stutters of the abstract specification, each other
action is one of its steps. The abstract spend may or may not be a rollback,
whatever the concrete one is; that a rolled back bind leaves no record is part
of CoinsMatchChain. Assumed: `CoinsAssumption` (a coin has a height, "no coin" is
not a coin, BHDIP007Height is a natural number) and `BurnAssumption`; `BindCoin` is
arbitrary.

**Balances** (`CoinsViewsProofs`). `BInv` adds to `Inv` that every layer holds the
output of the outpoint (`OwnOutput`) and IndexesAgree itself. `Sees` is what a
query needs of the entries it is given: for every outpoint of the account, the
entry fits the database and answers with the coin of the view. CoinsTip sees its
own coins (`TipSees`) and, since merging is BatchWrite, a view on top sees its own
(`MergedSees`). The rest is arithmetic: the sum on disk, plus the entries that add,
less those that take away, is the sum over the coins seen (`CorrectedIsHeld`). The
pledges add up by induction over the set of point types (`PledgeSum`), a retarget
being counted under the type it carries. The locks of one type are those of the
coins of the type and of the unwritten ones (`BindSum`); the unwritten ones are in
both sums, the others in one (`LockedSum`).

**Chain state** (`ChainStateProofs`). `ValidChain` says of a chain that an outpoint is
created and spent once, in that order, and that undo data hold the coin spent.
`Inv` has one part for each mode: while running, every entry fits the database
and answers with the chain's coin; in a flush, what is not in `todo` is on disk as
the chain has it, and the rest as the old or the new tip has it; in a replay
(`Replayed`), each outpoint answers with the coin of the chain the replay has come
to, or was written by the interrupted flush and not touched since. That last
alternative is the heart of it: rolling back over, and forward again through, a
block whose coins are already the new tip's must end with the right coins, FRESH
flags and bind records. DiskConsistent, CoinsMatchChain and DisconnectIsClean
follow; BatchWriteNeverFails needs the height of a new coin to be at most
`MaxHeight`, as the guard of `ConnectTip` has it. `Refinement` is ImplementsDurableChain.
`DurableChain` takes the state a chain stands for as its parameter StateOf. On
outpoints with a retarget payload the answers are not compared, because the undo
data lose fields (`retarget_undo`). `PointAssumption` and `ChainStateAssumption` are
used besides those of `Coins`.

**Trees of blocks** (`Lemmas`). `BlockTreeAssumption` says that a set with the
genesis block and the children of its members has every block, which is
induction over the tree; what is set by recursion along pprev, as heights are, is
proved from it to be defined (`TreeRecursion`). Ancestors are ordered, two ancestors of a block with the same
height are equal, and so on. The tree may be infinite.

**Chain selection** (`ChainSelectionProofs`). `Inv` holds on every tree and for every
use: where each received block is (`Placed`), that chain and target of an
activation are not invalid (`ChainSound`), and what the locals of InvalidateBlock
and of the forging thread name. From it LinkedOrWaiting, and `ChainIsValid`: no
block of the active chain is marked invalid at any point of an activation. The
other four properties are proved in `OrdinaryUse`: no reconsiderblock, no
preciousblock, and not both invalidateblock and a forging thread that replaces
the tip. `OInv` is the invariant: flags have a cause, candidates are complete with
respect to the tip the step started from (`Standard`), and mostWork is the best
block unless another activation is due (`Chosen`). That one of the candidates is
the best needs a finite index, which `Placed` keeps as `Tops`. Outside
OrdinaryUse the properties do not hold on every tree:

- FailureHasCause: ResetBlockFailureFlags clears the ancestors of a block, not the
  other descendants of these; and the forging thread's reset after an
  invalidateblock of an ancestor does the same.
- CandidatesComplete and TipIsBest: reconsiderblock does not make the ancestors
  and their descendants candidates; the second preciousblock resets the counter.
- NeverOutOfCandidates: after reconsiderblock, with a block that ConnectBlock
  rejects.

The instance of `selection` has one reconsidered, one precious and one snatchable
block in places where they do hold.

**Sums** (`Lemmas`). The recursion behind SumFunctionOnSet has a solution, built by
induction over the subsets of a finite set, so a sum is that of one element and
of the rest, sums of disjoint sets add up, and sums are monotonic. `Finite` is that
induction: a collection that has the empty set, and with a part each part of one
element more, has the whole set. `BalancesAssumption` says it of the outpoints and
of the types of points.

**Rewards** (`RewardProofs`). Intervals of heights are finite, by induction over the
natural numbers. `Solvent` is the invariant behind
NeverOverpaid: at every height what was paid so far plus what is still owed (`Debt`:
for each full mortgage block its share times the payments left, and what was
taken off since) is at most zero. `Cached` is the one behind RewardUntilReorg:
without a reorganisation every block with a share left is in the height cache or
above all of it (`Covers`), so the scan that stops at the lowest cached height
misses none. It holds although queries and block assembly change the cache too.
`MortgageAssumption` orders the heights of the rule changes.

**Transaction index** (`BaseIndexProofs`). While the thread synchronises, the chain of
pindex is indexed; then that of m_best_block_index. The locator is never ahead
of the thread that writes (`LocatorInv`). With a null best block the index is not
synced, or the chain is empty, or the first announcement in the queue is the
genesis block (`EmptyInv`). From this follows also that ChainStateFlushed, which
does not test the pointer, and the FatalError of BlockConnected for a first block
that is not the genesis block never meet a null one (`BestIsThereTheorem`). FollowsChain needs the queue: from every
announced block the following announcements lead to the tip (`Linked`), which
holds because a reorganisation connects the first block to an ancestor of what
was announced before it.

**Timelord client** (`TimelordProofs`). One write: while a write is in flight its
handler is not queued, and the queue of messages is not empty until it has run.
The wait timer: armed after the ping timer and shorter, it ends first, so the
handlers of one ping are through before the next (`WaitFirst`). `Off` is a time
longer than any interval and stands for a timer that is not armed.
`TimelordAssumption` has the order of the two intervals.

**Only model-checked.** ReplayEnds, ActivationEnds, Settles, CatchesUp,
DeadPeerReported, ConnectIsAnswered and ExitEnds are liveness properties under
fairness, which TLAPS does not reach. The five invariants of `OmniState` are not
proved: they compare databases that are rolled back entry by entry with a fold
over the transactions of a chain. The three violated properties have no theorem,
of course. The library's induction theorems take an operator, which the provers
cannot instantiate; where the proofs need induction (sums, trees, point types)
it is stated over the subsets of a finite set or the blocks of the tree.

## Not modelled

Scripts, signatures, amounts and the cryptography of proofs are outside: the
models let a valid block be any block that spends coins that exist. The order of
block file, block index and coins writes is assumed (blocks and undo data
survive a crash). `ChainSelection` leaves out pruned block files, system errors,
a shutdown in the middle of a call, pindexBestHeader and pindexBestInvalid; and it
exempts the time inside InvalidateBlock from the assertions of CheckBlockIndex,
which the comment at `validation.cpp:3698` concedes need not hold there. Its
blocks and those of `ChainState` are not joined: it takes ConnectBlock's verdict
as a constant. `Balances` leaves out GetBalancePointRetargetSend, the cursors and
the upgrade of old databases. `OmniState` leaves out what a transaction does to
balances, offers and orders, the trade, fee and send-to-owners databases, the
consistency check at a start, checkpoints and activations. `BaseIndex` leaves out
the block filter index and MigrateData. Pledge rules, subsidies, difficulty, the
mempool, wallet, network and user interfaces have no module. `PROJECT.json` lists
every component with the reason, and the hazards the models are built around.

## Plan

1. Subsidy, burn and withdrawal amounts and the difficulty adjustment as
   operators checked against reference definitions; the rules of pledge and
   withdrawal transactions over `Balances`.
2. The write order of block index and coins, pruning, and LoadChainTip on an older
   index.
3. The Omni tally and DEx inside a block; the mempool after a reorganisation.
4. Proofs: the invariants of `OmniState`; for `ChainSelection` a weaker form of
   TipIsBest that holds after reconsiderblock.
