------------------------- MODULE MortgageCalculator -------------------------
(***************************************************************************)
(* CMortgageCalculator: what a full mortgage block earns of the amounts    *)
(* that were taken off the rewards of low mortgage blocks.                 *)
(*                                                                         *)
(* A chain is the sequence of its blocks' flags: TRUE for a full mortgage  *)
(* block, FALSE for a low mortgage one (BLOCK_UNCONDITIONAL).  The run of  *)
(* low mortgage blocks before a full mortgage block is distributed, from   *)
(* BHDIP011 on in equal shares over that block and the full mortgage       *)
(* blocks that follow it.                                                  *)
(*                                                                         *)
(* IndexRangeControl keeps the heights with a share left to pay, for the   *)
(* whole process and all chains, so that a scan may stop early.            *)
(***************************************************************************)
EXTENDS Integers, Sequences, FiniteSets, FiniteSetsExt

CONSTANTS BHDIP008Height, BHDIP009Height, BHDIP011Height,
          NumHeightsToCalc,   \* BHDIP011NumHeightsToCalcDistributionPercentageOfFullMortgage
          MinBlocks,          \* BHDIP011MinFullMortgageBlocksToDistribute
          TakeOff,            \* [1..MaxHeight -> Nat], what a low mortgage block gives up
          MaxHeight           \* bound on the height of the chain

ASSUME MortgageAssumption ==
  /\ BHDIP008Height \in Nat \ {0} /\ BHDIP009Height \in Nat /\ BHDIP011Height \in Nat
  /\ BHDIP008Height <= BHDIP009Height /\ BHDIP009Height < BHDIP011Height
  /\ NumHeightsToCalc \in Nat /\ MinBlocks \in Nat \ {0} /\ MaxHeight \in Nat
  /\ TakeOff \in [1..MaxHeight -> Nat]

VARIABLES chain,     \* the active chain
          paid,      \* reward.accumulate of each of its blocks, as ConnectBlock computed it
          heights,   \* IndexRangeControl::m_mortgage_heights
          reorged    \* history: a block was disconnected since the start

mvars == <<chain, paid, heights, reorged>>

-----------------------------------------------------------------------------
IsFullMortgageBlock(h) == h >= BHDIP009Height /\ chain[h]

\* GetBlockAccumulateSubsidy: the low mortgage blocks up to height h without a gap
GetBlockAccumulateSubsidy(h) ==
  SumFunctionOnSet(TakeOff, {j \in BHDIP008Height..h : \A k \in j..h : ~chain[k]})

CalcNumOfDistributions(h) ==
  LET n == Cardinality({j \in Max({BHDIP009Height, h - NumHeightsToCalc})..(h - 1) : IsFullMortgageBlock(j)})
  IN  Max({MinBlocks, n})

CalcNumOfDistributedForTargetHeight(from, target) ==
  Cardinality({j \in from..(target - 1) : IsFullMortgageBlock(j)})

\* Mutant of CalcDistributeAmountToTargetHeight: one share too many
CalcDistributeAmountOnceMore(from, target) ==
  IF CalcNumOfDistributedForTargetHeight(from, target) > CalcNumOfDistributions(from)
  THEN 0
  ELSE GetBlockAccumulateSubsidy(from - 1) \div CalcNumOfDistributions(from)

\* The share of the run before height from that a block of height target gets
CalcDistributeAmountToTargetHeight(from, target) ==
  IF CalcNumOfDistributedForTargetHeight(from, target) >= CalcNumOfDistributions(from)
  THEN 0
  ELSE GetBlockAccumulateSubsidy(from - 1) \div CalcNumOfDistributions(from)

\* Mutant of GetLowestHeight: the highest height
GetHighestHeight(cached) == IF cached = {} THEN 0 ELSE Max(cached)

GetLowestHeight(cached) == IF cached = {} THEN 0 ELSE Min(cached)

\* The full mortgage blocks the scan of CalcAccumulatedAmount looks at
Scanned(target, lowest) == {h \in Max({BHDIP011Height, lowest})..(target - 1) : IsFullMortgageBlock(h)}

Paying(target, lowest) ==
  {h \in Scanned(target, lowest) : CalcDistributeAmountToTargetHeight(h, target) > 0}

\* CalcAccumulatedAmount, the amount, for a scan that goes down to lowest
AccumulatedAmount(target, lowest) ==
  SumFunction([h \in Scanned(target, lowest) |-> CalcDistributeAmountToTargetHeight(h, target)])
    + GetBlockAccumulateSubsidy(target - 1) \div CalcNumOfDistributions(target)

CalcAccumulatedAmount(target) == AccumulatedAmount(target, GetLowestHeight(heights))

\* CalcAccumulatedAmount, what it leaves in IndexRangeControl
CachedAfter(cached, target) ==
  LET lowest == GetLowestHeight(cached)
  IN  (cached \ Scanned(target, lowest)) \cup Paying(target, lowest)

-----------------------------------------------------------------------------
Tip == Len(chain)

MInit ==
  /\ chain = << >>
  /\ paid = << >>
  /\ heights = {}
  /\ reorged = FALSE

\* ConnectBlock of a full mortgage block (GetBlockReward)
ConnectFull ==
  /\ Tip < MaxHeight
  /\ IF Tip + 1 >= BHDIP011Height
     THEN /\ paid' = Append(paid, CalcAccumulatedAmount(Tip + 1))
          /\ heights' = CachedAfter(heights, Tip + 1)
     ELSE /\ paid' = Append(paid, IF Tip + 1 >= BHDIP008Height THEN GetBlockAccumulateSubsidy(Tip) ELSE 0)
          /\ UNCHANGED heights
  /\ chain' = Append(chain, TRUE)
  /\ UNCHANGED reorged

\* ConnectBlock of a low mortgage block
ConnectLow ==
  /\ Tip < MaxHeight
  /\ paid' = Append(paid, IF Tip + 1 >= BHDIP008Height THEN -TakeOff[Tip + 1] ELSE 0)
  /\ chain' = Append(chain, FALSE)
  /\ UNCHANGED <<heights, reorged>>

Disconnect ==
  /\ Tip > 0
  /\ chain' = SubSeq(chain, 1, Tip - 1)
  /\ paid' = SubSeq(paid, 1, Tip - 1)
  /\ reorged' = TRUE
  /\ UNCHANGED heights

\* A block template (CreateNewBlock), getmininginfo (GetFullMortgageBlockReward)
\* or a block that fails later: the reward of a next full mortgage block
ComputeReward ==
  /\ Tip + 1 >= BHDIP011Height
  /\ heights' = CachedAfter(heights, Tip + 1)
  /\ UNCHANGED <<chain, paid, reorged>>

\* queryfullmortgageinfo: CalcAccumulatedAmount for the full mortgage blocks
\* from height hi down to height lo, the newest first
QueryFullMortgageInfo(lo, hi) ==
  /\ heights' = LET cache[h \in lo..(hi + 1)] ==
                      IF h = hi + 1 THEN heights
                      ELSE IF IsFullMortgageBlock(h) THEN CachedAfter(cache[h + 1], h)
                      ELSE cache[h + 1]
                IN  cache[lo]
  /\ UNCHANGED <<chain, paid, reorged>>

MNext ==
  \/ ConnectFull
  \/ ConnectLow
  \/ ComputeReward
  \/ \E lo, hi \in BHDIP009Height..Tip : lo <= hi /\ QueryFullMortgageInfo(lo, hi)
  \/ Disconnect

MSpec == MInit /\ [][MNext]_mvars

-----------------------------------------------------------------------------
MTypeOK ==
  /\ chain \in Seq(BOOLEAN) /\ Tip <= MaxHeight
  /\ paid \in Seq(Int) /\ Len(paid) = Tip
  /\ heights \subseteq BHDIP011Height..MaxHeight
  /\ reorged \in BOOLEAN

\* The amounts taken off low mortgage blocks and paid to full mortgage blocks
\* never add up to more than zero, on any prefix of the chain, with the shares
\* of a run rounded down and the rule of the distribution changing at BHDIP011:
\* GetBlockReward never issues more than the subsidies of the chain.
NeverOverpaid ==
  \A n \in 1..Tip : SumFunctionOnSet(paid, 1..n) <= 0

\* "The distribution is completed for the nDistributeFromHeight" is the only
\* reason why a full mortgage block pays nothing: the early end of the scan
\* changes no reward, so the reward of the next block is a function of the
\* chain and two nodes agree on it.
RewardIsFunctionOfChain ==
  CalcAccumulatedAmount(Tip + 1) = AccumulatedAmount(Tip + 1, 0)

\* The same as long as no block was disconnected: on a chain that only grows
\* no order of connected blocks, block templates and queries, which all write
\* to the one process-wide cache of heights, changes a reward.
RewardUntilReorg == ~reorged => RewardIsFunctionOfChain
=============================================================================
