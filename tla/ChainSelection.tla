--------------------------- MODULE ChainSelection ---------------------------
(***************************************************************************)
(* How the node chooses its chain: the block index with its failure flags, *)
(* setBlockIndexCandidates, m_blocks_unlinked and m_failed_blocks, and the *)
(* operations of CChainState and BlockManager that change them.            *)
(*                                                                         *)
(* Two locks order the threads.  m_cs_chainstate is held by one call of    *)
(* ActivateBestChain or InvalidateBlock from its start to its end; pc says *)
(* which.  cs_main is held by every step, and both calls release it        *)
(* between their steps: then blocks arrive, flags are reset and blocks are *)
(* made precious.  Where a critical section takes several steps here,      *)
(* CsMainFree is false between them.                                       *)
(*                                                                         *)
(* The tree of blocks is a constant; what varies is which of them the node *)
(* has heard of, in which order, and what it thinks of them.  Whether      *)
(* ConnectBlock or the checks before it reject a block is a constant too.  *)
(* Pruning of block files, system errors and shutdown are left out.        *)
(***************************************************************************)
EXTENDS BlockTree

CONSTANTS Work,         \* [Blk -> Nat], nChainWork
          Rejected,     \* blocks that ConnectBlock finds invalid
          Malformed,    \* blocks that ContextualCheckBlock finds invalid
          Invalidable,  \* blocks the user may pass to invalidateblock,
          Reconsidered, \* to reconsiderblock
          Precious,     \* and to preciousblock
          Snatchable,   \* tips the forging thread may try to replace
          MaxPrecious,  \* bound on nBlockReverseSequenceId
          Addresses,    \* memory layouts of the block index a start may give
          None          \* a null CBlockIndex*

\* Work grows along a chain, addresses differ, the genesis block is fine.
ASSUME TreeAssumption ==
  /\ None \notin Blk
  /\ Work \in [Blk -> Nat]
  /\ \A b \in Blk \ {Genesis} : Work[b] > Work[Parent[b]]
  /\ Rejected \cup Malformed \cup Invalidable \cup Reconsidered \cup Snatchable
       \subseteq Blk \ {Genesis}
  /\ Precious \subseteq Blk
  /\ MaxPrecious \in Nat
  /\ Addresses # {} /\ Addresses \subseteq [Blk -> Nat]
  /\ \A adr \in Addresses : \A b, c \in Blk : adr[b] = adr[c] => b = c

VARIABLES index,        \* blocks with an entry in m_block_index
          data,         \* those with BLOCK_HAVE_DATA and BLOCK_VALID_TRANSACTIONS
          linked,       \* those for which HaveTxsDownloaded()
          scripts,      \* those with BLOCK_VALID_SCRIPTS
          failedValid,  \* those with BLOCK_FAILED_VALID
          failedChild,  \* those with BLOCK_FAILED_CHILD
          failedBlocks, \* m_failed_blocks
          candidates,   \* setBlockIndexCandidates
          unlinked,     \* the second components of m_blocks_unlinked
          forgotten,    \* history: the blocks whose data came in when the parent was
                        \* not linked and had a failure flag
          seq,          \* nSequenceId of every block
          nextSeq,      \* nBlockSequenceId
          reverseSeq,   \* nBlockReverseSequenceId
          lastPrecious, \* nLastPreciousChainwork
          address,      \* where the entries of the block index are in memory
          tip,          \* m_chain.Tip()
          queue,        \* the queue of ReceivedBlockTransactions
          pc,           \* what the holder of m_cs_chainstate is doing
          mostWork,     \* pindexMostWork
          startingTip,  \* starting_tip
          inv,          \* the locals of InvalidateBlock
          pending,      \* a thread is on its way to ActivateBestChain
          snatch        \* the forging thread: pTrySnatchTip and how far it is

received == <<data, linked, unlinked, forgotten, queue, nextSeq>>
flags == <<failedValid, failedChild, failedBlocks>>
rank == <<seq, reverseSeq, lastPrecious, address>>
activation == <<pc, mostWork, startingTip>>
vars == <<index, received, scripts, flags, candidates, rank, tip, activation, inv, pending, snatch>>

NoInv == [block |-> None, toMark |-> None, byWork |-> {}]
NoSnatch == [block |-> None, step |-> "idle"]

-----------------------------------------------------------------------------
Failed == failedValid \cup failedChild
Chain == Anc[tip]
Descendants(b) == {c \in index : b \in Anc[c]}

\* CBlockIndexWorkComparator: a is worse than b
Worse(a, b) ==
  \/ Work[a] < Work[b]
  \/ Work[a] = Work[b] /\ seq[a] > seq[b]
  \/ Work[a] = Work[b] /\ seq[a] = seq[b] /\ address[a] > address[b]

\* IsValid(BLOCK_VALID_TRANSACTIONS) && HaveTxsDownloaded()
Usable == (data \cap linked) \ Failed

\* Mutant of Prune: candidates as good as the tip go too
PruneTip(S, t) == {c \in S : Worse(t, c)}

\* PruneBlockIndexCandidates
Prune(S, t) == {c \in S : ~Worse(c, t)}

CsMainFree == queue = {} /\ pc # "locked"

Init ==
  /\ index = {Genesis} /\ data = {Genesis} /\ linked = {Genesis} /\ scripts = {Genesis}
  /\ failedValid = {} /\ failedChild = {} /\ failedBlocks = {}
  /\ candidates = {Genesis} /\ unlinked = {} /\ forgotten = {} /\ queue = {}
  /\ address \in Addresses
  /\ seq = [b \in Blk |-> IF b = Genesis THEN 1 ELSE 0]
  /\ nextSeq = 2 /\ reverseSeq = -1 /\ lastPrecious = 0
  /\ tip = Genesis
  /\ pc = "idle" /\ mostWork = None /\ startingTip = None
  /\ inv = NoInv /\ pending = FALSE /\ snatch = NoSnatch

-----------------------------------------------------------------------------
(* Headers and blocks arrive, under cs_main alone.                          *)

\* Mutant of FailedAncestors: any failed block will do
FailedAncestorsAny(p) == IF p \in scripts THEN {} ELSE failedBlocks

\* AcceptBlockHeader: the failed blocks that a new block on p descends from,
\* looked for only when p itself was never fully validated
FailedAncestors(p) == IF p \in scripts THEN {} ELSE failedBlocks \cap Anc[p]

HeaderAccepted(b) ==
  IF b \in index THEN b \notin Failed
  ELSE /\ Parent[b] \in index \ Failed
       /\ FailedAncestors(Parent[b]) = {}

\* AcceptBlockHeader finds that b descends from a failed block f
RejectHeader(b) ==
  /\ CsMainFree
  /\ b \notin index
  /\ Parent[b] \in index \ Failed
  /\ \E f \in FailedAncestors(Parent[b]) :
       failedChild' = failedChild \cup (Anc[Parent[b]] \ Anc[f])
  /\ UNCHANGED <<index, received, scripts, failedValid, failedBlocks, candidates, rank, tip,
                 activation, inv, pending, snatch>>

\* ProcessNewBlockHeaders, or AcceptBlock when it returns before it stores the
\* block: the block is known or was not asked for and has less work
AcceptHeader(b) ==
  /\ CsMainFree
  /\ HeaderAccepted(b)
  /\ index' = index \cup {b}
  /\ pending' \in {pending, TRUE}
  /\ UNCHANGED <<received, scripts, flags, candidates, rank, tip, activation, inv, snatch>>

\* AcceptBlock on a block that fails ContextualCheckBlock
RejectBlock(b) ==
  /\ CsMainFree
  /\ HeaderAccepted(b)
  /\ b \in Malformed
  /\ index' = index \cup {b}
  /\ failedValid' = failedValid \cup {b}
  /\ UNCHANGED <<received, scripts, failedChild, failedBlocks, candidates, rank, tip,
                 activation, inv, pending, snatch>>

\* Mutant of Waiting: nothing is put into m_blocks_unlinked
WaitingForgotten(b) == {}

\* ReceivedBlockTransactions, a block whose parent is not linked
Waiting(b) == IF Parent[b] \in Failed THEN {} ELSE {b}

\* ProcessNewBlock, up to the loop of ReceivedBlockTransactions
AcceptBlock(b) ==
  /\ CsMainFree
  /\ HeaderAccepted(b)
  /\ b \notin data \cup Malformed
  /\ index' = index \cup {b}
  /\ data' = data \cup {b}
  /\ \/ Parent[b] \in linked /\ queue' = {b} /\ UNCHANGED <<unlinked, forgotten>>
     \/ Parent[b] \notin linked /\ UNCHANGED queue
        /\ unlinked' = unlinked \cup Waiting(b)
        /\ forgotten' = IF Parent[b] \in Failed THEN forgotten \cup {b} ELSE forgotten
  /\ pending' = TRUE
  /\ UNCHANGED <<linked, nextSeq, scripts, flags, candidates, rank, tip, activation, inv, snatch>>

\* The range of m_blocks_unlinked under b
WaitingFor(b) == {c \in unlinked : Parent[c] = b}

\* One round of the loop of ReceivedBlockTransactions.  Blocks of a height may
\* come in any order: m_blocks_unlinked has them in order of arrival.
Link(b) ==
  /\ b \in queue
  /\ \A c \in queue : Height(b) <= Height(c)
  /\ UNCHANGED <<index, data, forgotten, scripts, flags, reverseSeq, lastPrecious, address, tip,
                 activation, inv, pending, snatch>>
  /\ linked' = linked \cup {b}
  /\ seq' = [seq EXCEPT ![b] = nextSeq]
  /\ nextSeq' = nextSeq + 1
  /\ candidates' = IF Worse(b, tip)' THEN candidates ELSE candidates \cup {b}
  /\ queue' = (queue \ {b}) \cup WaitingFor(b)
  /\ unlinked' = unlinked \ WaitingFor(b)

-----------------------------------------------------------------------------
(* ActivateBestChain                                                        *)

\* Mutant of Activate: a block that arrived while cs_main was released is
\* believed to be taken care of by the call that is running
ActivateForAll ==
  /\ CsMainFree
  /\ pc \in {"idle", "unlocked"}
  /\ pc' = "locked"
  /\ startingTip' = tip
  /\ pending' = FALSE
  /\ UNCHANGED <<index, received, scripts, flags, candidates, rank, tip, mostWork, inv, snatch>>

\* It takes m_cs_chainstate, or comes around its outer loop, and locks cs_main
Activate ==
  /\ CsMainFree
  /\ pc \in {"idle", "unlocked"}
  /\ pc' = "locked"
  /\ startingTip' = tip
  /\ pending' = (pc = "unlocked" /\ pending)
  /\ UNCHANGED <<index, received, scripts, flags, candidates, rank, tip, mostWork, inv, snatch>>

\* The last element of setBlockIndexCandidates, if there is one
Best == IF candidates = {} THEN None
        ELSE CHOOSE c \in candidates : \A d \in candidates : d # c => Worse(d, c)

\* FindMostWorkChain: the failed blocks between the chain and the best candidate
FailedOnPath == {b \in Failed \ Chain : Best # None /\ b \in Anc[Best]}

\* FindMostWorkChain drops the best candidate, up from the highest failed block
DropCandidate ==
  /\ pc = "locked" /\ mostWork = None
  /\ \E f \in FailedOnPath :
       /\ \A g \in FailedOnPath : Height(g) <= Height(f)
       /\ failedChild' = failedChild \cup (Anc[Best] \ Anc[f])
       /\ candidates' = candidates \ ((Anc[Best] \ Anc[f]) \cup {f})
  /\ UNCHANGED <<index, received, scripts, failedValid, failedBlocks, rank, tip, activation,
                 inv, pending, snatch>>

\* pindexMostWork, kept from before or found now; None if there is no candidate
Target == IF mostWork = None THEN Best ELSE mostWork

\* ActivateBestChainStep towards m connects the path from the fork up to the
\* first block that is invalid or that has more work than the old tip
Path(m) == Anc[m] \ Chain
Reached(m) == {b \in Path(m) : \A a \in Anc[b] \ ({b} \cup Chain) : Work[a] <= Work[tip]}
Connected(m) == {b \in Reached(m) : Anc[b] \cap Path(m) \cap Rejected = {}}

\* Mutant of FoundInvalid: InvalidBlockFound does not mark the block
FoundInvalidUnmarked(m) == {}

FoundInvalid(m) == {b \in Reached(m) \cap Rejected : (Anc[b] \ {b}) \cap Path(m) \cap Rejected = {}}
NewTip(m) == Highest(Connected(m) \cup (Anc[m] \cap Chain))

\* One round of the inner loop of ActivateBestChain.  cs_main stays locked
\* while the tip is worse than the one it started from; the outer loop ends
\* when the tip is pindexMostWork.
ActivateStep ==
  /\ pc = "locked"
  /\ mostWork = None => FailedOnPath = {}
  /\ Target \notin {tip, None}
  /\ LET m == Target
         left == IF FoundInvalid(m) = {} THEN m ELSE None
     IN  /\ tip' = NewTip(m)
         /\ scripts' = scripts \cup Connected(m)
         /\ failedValid' = failedValid \cup FoundInvalid(m)
         /\ failedBlocks' = failedBlocks \cup FoundInvalid(m)
         /\ candidates' = (IF Connected(m) = {} THEN candidates ELSE Prune(candidates, NewTip(m)))
                            \ FoundInvalid(m)
         /\ \/ /\ Worse(NewTip(m), startingTip)
               /\ mostWork' = left
               /\ UNCHANGED <<pc, startingTip>>
            \/ /\ ~Worse(NewTip(m), startingTip)
               /\ startingTip' = None
               /\ pc' = IF left = NewTip(m) THEN "idle" ELSE "unlocked"
               /\ mostWork' = IF left = NewTip(m) THEN None ELSE left
  /\ UNCHANGED <<index, received, failedChild, rank, inv, pending, snatch>>

\* There is nothing to do: pindexMostWork is null or the tip
ActivateDone ==
  /\ pc = "locked"
  /\ mostWork = None => FailedOnPath = {}
  /\ Target \in {tip, None}
  /\ pc' = "idle" /\ mostWork' = None /\ startingTip' = None
  /\ UNCHANGED <<index, received, scripts, flags, candidates, rank, tip, inv, pending, snatch>>

-----------------------------------------------------------------------------
(* PreciousBlock and ResetBlockFailureFlags, under cs_main; both are followed *)
(* by a call of ActivateBestChain.                                            *)

PreciousBlock(b) ==
  LET chosen == IF Work[tip] > lastPrecious THEN -1 ELSE reverseSeq
  IN  /\ CsMainFree
      /\ b \in index
      /\ Work[b] >= Work[tip]
      /\ chosen >= -MaxPrecious
      /\ lastPrecious' = Work[tip]
      /\ seq' = [seq EXCEPT ![b] = chosen]
      /\ reverseSeq' = chosen - 1
      /\ UNCHANGED <<index, received, scripts, flags, address, tip, activation, inv, snatch>>
      /\ candidates' = IF b \in Usable
                       THEN {c \in candidates \cup {b} : ~Worse(c, tip)'}
                       ELSE candidates \ {b}
      /\ pending' = TRUE

\* Mutant of Cleared: the block alone
ClearedAlone(b) == {b}

Cleared(b) == Descendants(b) \cup Anc[b]

\* Mutant of Reinstated: the block alone
ReinstatedAlone(b) == {b} \cap Failed \cap data \cap linked

Reinstated(b) == {c \in Descendants(b) \cap Failed \cap data \cap linked : Worse(tip, c)}

\* The flags of the block, its descendants and its ancestors are removed; the
\* descendants that had one become candidates if they are better than the tip
ResetBlockFailureFlags(b) ==
  /\ failedValid' = failedValid \ Cleared(b)
  /\ failedChild' = failedChild \ Cleared(b)
  /\ failedBlocks' = failedBlocks \ Cleared(b)
  /\ candidates' = candidates \cup Reinstated(b)
  /\ UNCHANGED <<index, received, scripts, rank, tip, activation, inv>>

\* reconsiderblock
ReconsiderBlock(b) ==
  /\ CsMainFree
  /\ b \in index
  /\ ResetBlockFailureFlags(b)
  /\ pending' = TRUE
  /\ UNCHANGED snatch

-----------------------------------------------------------------------------
(* InvalidateBlock, holding m_cs_chainstate                                 *)

\* candidate_blocks_by_work is collected once
InvalidateStart(b) ==
  /\ CsMainFree /\ pc = "idle"
  /\ b \in index
  /\ pc' = "invalidate"
  /\ inv' = [block |-> b, toMark |-> b,
             byWork |-> {c \in Usable \ Chain : ~Worse(c, Parent[b])}]
  /\ UNCHANGED <<index, received, scripts, flags, candidates, rank, tip, mostWork, startingTip, pending>>

\* invalidateblock
InvalidateBlock(b) == InvalidateStart(b) /\ UNCHANGED snatch

\* One block is disconnected and marked, then cs_main is released
InvalidateStep ==
  LET walk == tip
      up == Parent[walk]
      found == {c \in inv.byWork : ~Worse(c, up)}
      demote == IF up = inv.toMark THEN {up} \cap failedValid ELSE {}
  IN  /\ CsMainFree /\ pc = "invalidate"
      /\ inv.block \in Chain
      /\ tip' = up
      /\ failedValid' = (failedValid \cup {walk}) \ demote
      /\ failedChild' = failedChild \cup demote
      /\ candidates' = (candidates \ {walk}) \cup {up} \cup found
      /\ inv' = [inv EXCEPT !.byWork = @ \ found, !.toMark = walk]
      /\ UNCHANGED <<index, received, scripts, failedBlocks, rank, activation, pending, snatch>>

\* Mutant of Missed: candidate_blocks_by_work is believed to be complete
MissedNone(b) == {}

\* The last loop of InvalidateBlock over the block index, b being marked
Missed(b) == {c \in Usable \ {b} : ~Worse(c, tip)}

\* The block leaves the chain for good, and what arrived in the meantime and is
\* as good as the tip becomes a candidate.  invalidateblock goes on to
\* ActivateBestChain, the forging thread to ResetBlockFailureFlags.
InvalidateFinish ==
  /\ CsMainFree /\ pc = "invalidate"
  /\ inv.block \notin Chain
  /\ failedValid' = failedValid \cup {inv.toMark}
  /\ failedBlocks' = failedBlocks \cup {inv.toMark}
  /\ candidates' = (candidates \ {inv.toMark}) \cup Missed(inv.toMark)
  /\ pc' = "idle" /\ inv' = NoInv
  /\ IF snatch.step = "invalidate"
     THEN snatch' = [snatch EXCEPT !.step = "reset"] /\ UNCHANGED pending
     ELSE pending' = TRUE /\ UNCHANGED snatch
  /\ UNCHANGED <<index, received, scripts, failedChild, rank, tip, mostWork, startingTip>>

-----------------------------------------------------------------------------
(* CheckDeadlineThread: to forge a better block at the height of the tip, the *)
(* tip is invalidated, its flags are reset, and the best chain is activated   *)
(* again.  The block it forges, if any, arrives like any other.               *)

SnatchPick ==
  /\ CsMainFree
  /\ snatch = NoSnatch
  /\ tip \in Snatchable
  /\ snatch' = [block |-> tip, step |-> "picked"]
  /\ UNCHANGED <<index, received, scripts, flags, candidates, rank, tip, activation, inv, pending>>

SnatchInvalidate ==
  /\ snatch.step = "picked"
  /\ InvalidateStart(snatch.block)
  /\ snatch' = [snatch EXCEPT !.step = "invalidate"]

SnatchReset ==
  /\ CsMainFree
  /\ snatch.step = "reset"
  /\ ResetBlockFailureFlags(snatch.block)
  /\ snatch' = NoSnatch
  /\ pending' = TRUE

-----------------------------------------------------------------------------
\* The node stops and starts: LoadBlockIndex, LoadChainTip, then a first call
\* of ActivateBestChain.  Only the status bits are on disk.
Restart ==
  /\ CsMainFree /\ pc = "idle" /\ snatch = NoSnatch
  /\ address' \in Addresses
  /\ seq' = [b \in Blk |-> 0]
  /\ nextSeq' = 1 /\ reverseSeq' = -1 /\ lastPrecious' = 0
  /\ UNCHANGED <<index, data, scripts, failedValid, tip, queue, activation, inv, snatch>>
  /\ linked' = {b \in index : Anc[b] \subseteq data}
  /\ unlinked' = {b \in data \ {Genesis} : Parent[b] \notin linked'}
  /\ forgotten' = {}
  /\ failedChild' = failedChild \cup {b \in index \ Failed : Anc[b] \cap Failed # {}}
  /\ failedBlocks' = {}
  /\ candidates' = {b \in data \cap linked' : b \notin Failed' /\ ~Worse(b, tip)'}
  /\ pending' = TRUE

-----------------------------------------------------------------------------
\* Steps of the thread that holds a lock
Running == Activate \/ DropCandidate \/ ActivateStep \/ ActivateDone
             \/ InvalidateStep \/ InvalidateFinish \/ \E b \in Blk : Link(b)

Next ==
  \/ \E b \in Blk \ {Genesis} : RejectHeader(b) \/ AcceptHeader(b) \/ RejectBlock(b) \/ AcceptBlock(b)
  \/ \E b \in Precious : PreciousBlock(b)
  \/ \E b \in Reconsidered : ReconsiderBlock(b)
  \/ \E b \in Invalidable : InvalidateBlock(b)
  \/ SnatchPick \/ SnatchInvalidate \/ SnatchReset
  \/ Restart
  \/ Running

Spec == Init /\ [][Next]_vars

\* A thread that holds a lock, or is on its way to ActivateBestChain, goes on;
\* nothing obliges peers and users.
LiveSpec == Spec /\ WF_vars(Running /\ (pc # "idle" \/ queue # {} \/ pending))

-----------------------------------------------------------------------------
TypeOK ==
  /\ index \subseteq Blk /\ data \subseteq index /\ linked \subseteq data /\ scripts \subseteq linked
  /\ Failed \cup failedBlocks \cup candidates \cup unlinked \cup forgotten \cup queue \subseteq index
  /\ seq \in [Blk -> Int] /\ nextSeq \in Nat /\ reverseSeq \in Int /\ lastPrecious \in Nat
  /\ address \in Addresses
  /\ tip \in linked
  /\ pc \in {"idle", "locked", "unlocked", "invalidate"}
  /\ {mostWork, startingTip} \subseteq linked \cup {None}
  /\ inv \in [block : index \cup {None}, toMark : index \cup {None}, byWork : SUBSET linked]
  /\ pending \in BOOLEAN
  /\ snatch \in [block : index \cup {None}, step : {"idle", "picked", "invalidate", "reset"}]

\* InvalidateBlock knows that the block index is not consistent until it ends
Checked == CsMainFree /\ pc # "invalidate"

Sound(b) == Anc[b] \cap failedValid = {}

\* What CheckBlockIndex says of HaveTxsDownloaded() and m_blocks_unlinked, whatever
\* thread is where: a block has been linked exactly when it and all its
\* ancestors were received, and only then has it a positive nSequenceId; a
\* received block that is not linked is in m_blocks_unlinked, and no other is.
\* The exception CheckBlockIndex does not make: a block that came in on top of a
\* failed block that is not linked stays out, whatever becomes of the failure,
\* until the node is started again.
LinkedOrWaiting ==
  CsMainFree => /\ linked = {b \in index : Anc[b] \subseteq data \ forgotten}
                /\ \A b \in index \ linked : seq[b] <= 0
                /\ unlinked = data \ (linked \cup forgotten)

\* CheckBlockIndex: "The failed mask cannot be set for blocks without invalid
\* parents", and the assertion of AcceptBlockHeader on m_failed_blocks.
FailureHasCause ==
  Checked => /\ \A b \in Failed : ~Sound(b)
             /\ failedBlocks \subseteq failedValid

\* CheckBlockIndex on setBlockIndexCandidates: the tip and every block that is
\* as good as the tip, has its data and no invalid ancestor is a candidate; no
\* block that is worse than the tip or not linked is one.
CandidatesComplete ==
  Checked => /\ {b \in linked : Sound(b) /\ ~Worse(b, tip)} \subseteq candidates
             /\ \A b \in candidates : b \in linked /\ ~Worse(b, tip)

\* The assertion of PruneBlockIndexCandidates, and what FindMostWorkChain
\* needs: while cs_main is locked there is a candidate left, and it and all
\* blocks below it were downloaded.
NeverOutOfCandidates ==
  /\ candidates # {}
  /\ \A b \in candidates : Anc[b] \subseteq linked \cup queue

\* When no call of ActivateBestChain is running or due, the tip is the best of
\* the blocks that are downloaded and have no invalid ancestor, and nothing
\* invalid is in the chain.
TipIsBest ==
  Checked /\ pc = "idle" /\ ~pending /\ snatch.step # "reset" =>
    /\ Sound(tip)
    /\ \A b \in linked : Anc[b] \cap Failed = {} => ~Worse(tip, b)

\* ActivateBestChain and InvalidateBlock come to an end, however often they
\* find an invalid block or go back to the old tip, and whatever arrives
\* while cs_main is released, as long as nobody keeps resetting the flags of
\* the invalid blocks.
ActivationEnds == pc # "idle" ~> pc = "idle"
=============================================================================
