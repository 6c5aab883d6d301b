----------------------------- MODULE BlockTree -----------------------------
(***************************************************************************)
(* The block index as a tree: every entry but the one of the genesis block *)
(* points to the entry of the block before it, which was there first       *)
(* (BlockManager::AddToBlockIndex).  The tree is a constant of the models  *)
(* that walk it.                                                           *)
(***************************************************************************)
EXTENDS Integers

CONSTANTS Blk,     \* all blocks
          Genesis,
          Parent   \* [Blk \ {Genesis} -> Blk], pprev

\* A set that following pprev does not leave
Closed(S) == \A b \in S \ {Genesis} : Parent[b] \in S

\* A block and its ancestors: what following pprev from it leads to
Anc == [b \in Blk |-> {a \in Blk : \A S \in SUBSET Blk : b \in S /\ Closed(S) => a \in S}]

\* Entries are added on top of entries that are there, the first being the
\* genesis block, so a set that holds it and with a block all blocks on top of
\* it is the whole index: pprev always leads back to the genesis block.
ASSUME BlockTreeAssumption ==
  /\ Genesis \in Blk
  /\ Parent \in [Blk \ {Genesis} -> Blk]
  /\ \A S \in SUBSET Blk :
       Genesis \in S /\ (\A b \in Blk \ {Genesis} : Parent[b] \in S => b \in S) => S = Blk

\* nHeight, set when the entry is added
nHeight[b \in Blk] == IF b = Genesis THEN 0 ELSE nHeight[Parent[b]] + 1

Height(b) == nHeight[b]

\* CBlockIndex::GetAncestor
AtHeight(t, n) == CHOOSE b \in Anc[t] : Height(b) = n

Highest(S) == CHOOSE b \in S : \A c \in S : Height(c) <= Height(b)

\* CChain::FindFork, and FindForkInGlobalIndex of a block's locator
Fork(t, b) == Highest(Anc[t] \cap Anc[b])
=============================================================================
