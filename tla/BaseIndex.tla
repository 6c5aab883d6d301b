------------------------------ MODULE BaseIndex ------------------------------
(***************************************************************************)
(* The transaction index: BaseIndex, which follows the active chain, and   *)
(* TxIndex::WriteBlock, which records where each transaction is.           *)
(*                                                                         *)
(* Three threads meet here.  The thread that changes the chain announces   *)
(* every connected block and every flush in a queue.  ThreadSync reads     *)
(* blocks from disk until it has caught up with the chain and sets         *)
(* m_synced.  From then on the thread of the queue keeps the index.  Each  *)
(* takes cs_main only now and then.                                        *)
(*                                                                         *)
(* The process may die at any moment.  The chain then is what was flushed  *)
(* last and the index what was written to its own database, which nothing  *)
(* keeps together.  The tree of blocks is a constant.  A locator is the    *)
(* block it was made for: on chains this short it lists all its ancestors. *)
(***************************************************************************)
EXTENDS BlockTree, Sequences

CONSTANTS Txs,         \* [Blk -> SUBSET Tx], the transactions of a block
          Tx,
          None,        \* a null CBlockIndex*, or no entry
          MaxQueue,    \* bound on announcements that wait
          MaxRestarts  \* bound on the number of restarts

\* A transaction is at most once on a chain; those of the genesis block are not indexed
ASSUME IndexTreeAssumption ==
  /\ None \notin Blk
  /\ Txs \in [Blk -> SUBSET Tx] /\ Txs[Genesis] = {}
  /\ \A b \in Blk : \A a \in Anc[b] \ {b} : Txs[a] \cap Txs[b] = {}
  /\ MaxQueue \in Nat /\ MaxRestarts \in Nat

VARIABLES tip,        \* ChainActive().Tip()
          diskTip,    \* the tip of the chain state on disk
          queue,      \* announcements: a connected block, or a flush at a tip
          txindex,    \* the database: where a transaction is
          locator,    \* the database: DB_BEST_BLOCK
          best,       \* m_best_block_index
          synced,     \* m_synced
          interrupt,  \* m_interrupt
          pc,         \* ThreadSync: next, write or done; failed after a FatalError in either thread
          pindex,     \* ThreadSync: pindex
          writing,    \* the block BlockConnected is about to write
          restarts,   \* history: number of restarts
          right,      \* history: the index was right when the process started
          lapse       \* history: what may leave a wrong index behind has happened

chain == <<tip, diskTip>>
disk == <<txindex, locator>>
sync == <<pc, pindex, interrupt>>
history == <<restarts, right, lapse>>
vars == <<chain, queue, disk, best, synced, sync, writing, history>>

\* The chain up to b, which is empty for a null pointer
ChainOf(b) == IF b = None THEN {} ELSE Anc[b]

\* GetAncestor(height of a) of b is a
Below(a, b) == a \in ChainOf(b)

\* All transactions on the chain up to b are where the index says
Right(b) == \A a \in ChainOf(b) : \A t \in Txs[a] : txindex[t] = a

\* BaseIndex::Init; FindForkInGlobalIndex finds nothing on an empty chain
InitialBest(loc, t) == IF None \in {loc, t} THEN None ELSE Fork(t, loc)

\* The database of a new index
EmptyIndex == [t \in Tx |-> None]

\* The first start with an index, on the chain there is or on an empty one,
\* with which the index is in step at once
Init ==
  /\ tip \in Blk \cup {None} /\ diskTip = tip
  /\ queue = << >>
  /\ txindex = EmptyIndex /\ locator = None
  /\ best = None /\ synced = (tip = None)
  /\ interrupt = FALSE /\ pc = (IF synced THEN "done" ELSE "next") /\ pindex = None /\ writing = None
  /\ restarts = 0 /\ right = TRUE /\ lapse = FALSE

-----------------------------------------------------------------------------
(* The chain.                                                               *)

\* The height of the last block that the chains of the tip and of b share
ForkHeight(b) == IF tip = None THEN -1 ELSE Height(Fork(tip, b))

\* The blocks of b's chain after the fork, in the order they are connected
Ascending(b) == [i \in 1..(Height(b) - ForkHeight(b)) |-> AtHeight(b, ForkHeight(b) + i)]

\* ActivateBestChainStep moves to a chain with more work
Activate(b) ==
  /\ tip # None => Height(b) > Height(tip)
  /\ LET new == Ascending(b)
     IN  /\ Len(queue) + Len(new) <= MaxQueue
         /\ queue' = queue \o [i \in DOMAIN new |-> [event |-> "connected", block |-> new[i]]]
  /\ tip' = b
  /\ UNCHANGED <<diskTip, disk, best, synced, sync, writing, history>>

\* InvalidateBlock disconnects the tip
Disconnect ==
  /\ tip \notin {None, Genesis}
  /\ tip' = Parent[tip]
  /\ UNCHANGED <<diskTip, queue, disk, best, synced, sync, writing, history>>

\* FlushStateToDisk, which waits for a best block
Flush ==
  /\ tip # None
  /\ Len(queue) < MaxQueue
  /\ diskTip' = tip
  /\ queue' = Append(queue, [event |-> "flushed", block |-> tip])
  /\ UNCHANGED <<tip, disk, best, synced, sync, writing, history>>

-----------------------------------------------------------------------------
(* Writing.                                                                 *)

\* CChain::GetLocator takes a null block for the tip
LocatorOf(b) == IF b = None THEN tip ELSE b

\* Commit, after m_best_block_index became b; writing to the database may fail
Commit(b) == locator' \in {locator, LocatorOf(b)}

\* Mutant of Rewind: the locator is left for the next flush
RewindInMemory(new) == best' = new /\ UNCHANGED locator

\* Rewind, when the commit succeeds
Rewind(new) == best' = new /\ locator' = new

\* Mutant of WriteBlock: a transaction that is known stays where it is
WriteBlockOnce(b) == txindex' = [t \in Tx |-> IF t \in Txs[b] /\ txindex[t] = None THEN b ELSE txindex[t]]

\* TxIndex::WriteBlock
WriteBlock(b) == txindex' = [t \in Tx |-> IF t \in Txs[b] THEN b ELSE txindex[t]]

-----------------------------------------------------------------------------
(* ThreadSync.                                                              *)

\* Mutant of NextSyncBlock: only a block on top of b is looked for
NextSyncBlockAbove(b) ==
  IF b = None THEN Genesis
  ELSE LET next == {c \in Anc[tip] \ {Genesis} : Parent[c] = b}
       IN  IF next = {} THEN None ELSE CHOOSE c \in next : TRUE

\* The block after b, or after the fork when b is not on the chain
NextSyncBlock(b) ==
  IF b = None THEN Genesis
  ELSE LET next == {c \in Anc[tip] \ {Genesis} : Parent[c] = Fork(tip, b)}
       IN  IF next = {} THEN None ELSE CHOOSE c \in next : TRUE

PrevOf(b) == IF b = Genesis THEN None ELSE Parent[b]

SyncInterrupted ==
  /\ pc = "next" /\ interrupt
  /\ best' = pindex
  /\ Commit(pindex)
  /\ lapse' = (lapse \/ (pindex = None /\ locator' # locator))
  /\ pc' = "done"
  /\ UNCHANGED <<chain, queue, txindex, synced, pindex, interrupt, writing, restarts, right>>

\* It has caught up
SyncDone ==
  /\ pc = "next" /\ ~interrupt
  /\ NextSyncBlock(pindex) = None
  /\ best' = pindex /\ synced' = TRUE
  /\ Commit(pindex)
  /\ pc' = "done"
  /\ UNCHANGED <<chain, queue, txindex, pindex, interrupt, writing, history>>

\* Every SYNC_LOCATOR_WRITE_INTERVAL the locator of a block is saved, before the
\* block is written
SaveLocator(b, old) == best' = b /\ locator' \in {old, b}

\* The next block; the index is rewound first if the chain was reorganised.
\* Rewind's first assertion, that pindex is the best block, is in SyncAborts.
SyncNext ==
  /\ pc = "next" /\ ~interrupt
  /\ LET next == NextSyncBlock(pindex)
     IN  /\ next # None
         /\ \/ /\ PrevOf(next) = pindex
               /\ UNCHANGED <<best, locator>> \/ SaveLocator(next, locator)
               /\ pindex' = next /\ pc' = "write"
            \/ /\ PrevOf(next) # pindex /\ pindex = best
               /\ Rewind(PrevOf(next)) \/ SaveLocator(next, PrevOf(next))
               /\ pindex' = next /\ pc' = "write"
            \/ /\ PrevOf(next) # pindex /\ pindex = best
               /\ pc' = "failed" /\ UNCHANGED <<best, locator, pindex>>
  /\ UNCHANGED <<chain, queue, txindex, synced, interrupt, writing, history>>

\* The locator names a block that ThreadSync has not written yet
SavedEarly == pc = "write" /\ locator = pindex

\* ReadBlockFromDisk and WriteBlock, either of which may fail
SyncWrite ==
  /\ pc = "write"
  /\ \/ WriteBlock(pindex) /\ pc' = "next" /\ UNCHANGED lapse
     \/ UNCHANGED txindex /\ pc' = "failed" /\ lapse' = (lapse \/ SavedEarly)
  /\ UNCHANGED <<chain, queue, locator, best, synced, pindex, interrupt, writing, restarts, right>>

Interrupt ==
  /\ ~interrupt /\ pc \in {"next", "write"}
  /\ interrupt' = TRUE
  /\ UNCHANGED <<chain, queue, disk, best, synced, pc, pindex, writing, history>>

-----------------------------------------------------------------------------
(* The thread of the queue.                                                 *)

\* Mutant of Connects: only a block on top of the best block does
ConnectsOnTop(b) == best = PrevOf(b)

\* The block's parent is on the chain of the best block; without a best block
\* only the genesis block connects
Connects(b) == IF best = None THEN b = Genesis ELSE b # Genesis /\ Below(Parent[b], best)

Event == Head(queue)

\* BlockConnected up to WriteBlock: it is ignored, which is a FatalError when
\* the index has no best block, or rewinds the index if it has to, which fails
\* if the commit does
BlockConnected ==
  /\ queue # << >> /\ writing = None
  /\ Event.event = "connected"
  /\ LET b == Event.block
     IN  \/ /\ ~synced \/ ~Connects(b)
            /\ queue' = Tail(queue)
            /\ pc' = (IF synced /\ best = None THEN "failed" ELSE pc)
            /\ UNCHANGED <<best, locator, writing>>
         \/ /\ synced /\ Connects(b) /\ best # PrevOf(b)
            /\ \/ Rewind(Parent[b]) /\ writing' = b /\ UNCHANGED <<queue, pc>>
               \/ queue' = Tail(queue) /\ pc' = "failed" /\ UNCHANGED <<best, locator, writing>>
         \/ /\ synced /\ Connects(b) /\ best = PrevOf(b)
            /\ writing' = b
            /\ UNCHANGED <<queue, best, locator, pc>>
  /\ UNCHANGED <<chain, txindex, synced, pindex, interrupt, history>>

\* Its WriteBlock, which may fail, but not for the genesis block, of which
\* nothing is written
BlockWritten ==
  /\ writing # None
  /\ \/ WriteBlock(writing) /\ best' = writing /\ UNCHANGED pc
     \/ writing # Genesis /\ pc' = "failed" /\ UNCHANGED <<txindex, best>>
  /\ writing' = None
  /\ queue' = Tail(queue)
  /\ UNCHANGED <<chain, locator, synced, pindex, interrupt, history>>

ChainStateFlushed ==
  /\ queue # << >> /\ writing = None
  /\ Event.event = "flushed"
  /\ IF synced /\ Below(Event.block, best) THEN Commit(best) ELSE UNCHANGED locator
  /\ queue' = Tail(queue)
  /\ UNCHANGED <<chain, txindex, best, synced, sync, writing, history>>

-----------------------------------------------------------------------------
(* The process ends and starts again.                                       *)

\* Memory is lost; LoadChainTip finds the tip t, then Start and Init
StartAgain(t) ==
  /\ tip' = t /\ diskTip' = t
  /\ queue' = << >> /\ writing' = None
  /\ best' = InitialBest(locator', t)
  /\ synced' = (best' = t)
  /\ pc' = (IF synced' THEN "done" ELSE "next")
  /\ pindex' = best' /\ interrupt' = FALSE
  /\ right' = Right(best')
  /\ lapse' = (lapse \/ SavedEarly \/ (locator' # None /\ ~Below(locator', t)))

\* A crash, or the end of a shutdown; the new process may be told to build the
\* chain state again (-reindex-chainstate), or the index as well (-reindex)
Restart ==
  /\ restarts < MaxRestarts
  /\ restarts' = restarts + 1
  /\ \/ UNCHANGED disk /\ \E t \in {diskTip, None} : StartAgain(t)
     \/ txindex' = EmptyIndex /\ locator' = None /\ StartAgain(None)

\* Rewind finds that pindex is not the best block: assert() ends the process
SyncAborts ==
  /\ pc = "next" /\ ~interrupt
  /\ NextSyncBlock(pindex) # None /\ PrevOf(NextSyncBlock(pindex)) # pindex
  /\ pindex # best
  /\ UNCHANGED <<disk, restarts>>
  /\ StartAgain(diskTip)

SyncThread == SyncInterrupted \/ SyncDone \/ SyncNext \/ SyncWrite \/ SyncAborts
QueueThread == BlockConnected \/ BlockWritten \/ ChainStateFlushed

Next ==
  \/ \E b \in Blk : Activate(b)
  \/ Disconnect
  \/ Flush
  \/ SyncThread
  \/ QueueThread
  \/ Interrupt
  \/ Restart

Spec == Init /\ [][Next]_vars

\* Both threads run
LiveSpec == Spec /\ WF_vars(SyncThread) /\ WF_vars(QueueThread)

-----------------------------------------------------------------------------
TypeOK ==
  /\ {tip, diskTip, locator, best, pindex, writing} \subseteq Blk \cup {None}
  /\ queue \in Seq([event : {"connected", "flushed"}, block : Blk]) /\ Len(queue) <= MaxQueue
  /\ txindex \in [Tx -> Blk \cup {None}]
  /\ pc \in {"next", "write", "done", "failed"}
  /\ {synced, interrupt, right, lapse} \subseteq BOOLEAN
  /\ restarts \in 0..MaxRestarts
  /\ synced => pc \in {"done", "failed"}

\* BlockUntilSyncedToCurrentChain returns without waiting for the queue
AnswersNow == synced /\ (best = None \/ Below(tip, best))

\* The chain started empty and the queue has not come to its genesis block
GenesisWaits == best = None /\ queue # << >> /\ Event = [event |-> "connected", block |-> Genesis]

\* What BlockUntilSyncedToCurrentChain promises: when it finds the index caught
\* up, every transaction on the active chain is found in its block, whatever is
\* still in the queue and whichever reorganisations the sync thread raced
\* with, provided the database was right when the process started.  There is
\* one time when it answers too early: a null m_best_block_index counts as
\* caught up, and a process that started on an empty chain has one until the
\* announcement of the genesis block, first in the queue, is dealt with.
AnswersAreCurrent == (right /\ AnswersNow) => (Right(tip) \/ GenesisWaits)

\* A restart finds a right index: all blocks up to the locator are in it,
\* except in three cases, which lapse records: the process died, or reading or
\* writing failed, after ThreadSync saved the locator of a block and before it wrote it; ThreadSync was
\* interrupted before its first block, when Commit saves the tip; or the
\* process started on a chain without the locator's block, which Init does not save.
LocatorIsIndexed ==
  (~lapse /\ locator # None) =>
     \A a \in Anc[locator] \ (IF SavedEarly THEN {pindex} ELSE {}) : \A t \in Txs[a] : txindex[t] = a

\* BlockConnected drops announcements that do not fit the index, but never one
\* the index needs: when the queue is empty, a synced index has followed the
\* chain, unless a write failed.
FollowsChain ==
  (synced /\ queue = << >> /\ pc # "failed") => (tip = None \/ Below(tip, best))

\* Once the chain rests, the index catches up with it, also after crashes and
\* failed assertions, unless a write fails or the thread is interrupted.
CatchesUp ==
  <>[][tip' = tip]_tip =>
     <>[]((synced /\ (tip = None \/ Below(tip, best))) \/ interrupt \/ pc = "failed")
=============================================================================
