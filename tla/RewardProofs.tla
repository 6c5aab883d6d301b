---------------------------- MODULE RewardProofs ----------------------------
(***************************************************************************)
(* Theorems about MortgageCalculator, for every subsidy taken off, every   *)
(* window, every length of the active chain and of a reorganisation.       *)
(***************************************************************************)
EXTENDS MortgageCalculator, Lemmas, FiniteSetTheorems, WellFoundedInduction, SequenceTheorems

\* The provers every step below is tried with, unless it names one.
USE SMT, Zenon, SMTT(20), ZenonT(40), SMTT(40)

-----------------------------------------------------------------------------
(* Numbers, intervals and the sums over them.                               *)

\* A nonempty set of natural numbers has a least element.
LEMMA LeastNumber ==
  ASSUME NEW T \in SUBSET Nat, T # {}
  PROVE  \E x \in T : \A y \in T : x <= y
<1>. DEFINE R == OpToRel(<, Nat)
<1>1. IsWellFoundedOn(R, Nat)
  BY NatLessThanWellFounded
<1>2. \A x, y \in Nat : x < y => <<x, y>> \in R
  BY DEF OpToRel
<1>. HIDE DEF R
<1>3. PICK x \in T : \A y \in T : ~(<<y, x>> \in R)
  BY <1>1, WFMin
<1>4. x \in Nat /\ T \subseteq Nat
  OBVIOUS
<1>5. \A y \in T : ~(y < x)
  BY <1>2, <1>3, <1>4, Zenon
<1>6. \A y \in T : x <= y
  BY <1>4, <1>5
<1>. QED
  BY <1>6

\* What a set of numbers with 0 that is closed under + 1 holds
LEMMA NumberInduction ==
  ASSUME NEW T, 0 \in T, \A n \in Nat : n \in T => n + 1 \in T
  PROVE  Nat \subseteq T
<1>. SUFFICES ASSUME Nat \ T # {}
              PROVE  FALSE
  OBVIOUS
<1>1. PICK x \in Nat \ T : \A y \in Nat \ T : x <= y
  BY LeastNumber
<1>2. x # 0 /\ x - 1 \in Nat
  BY <1>1
<1>3. x - 1 \in T
  BY <1>1, <1>2
<1>. QED
  BY <1>1, <1>2, <1>3

\* A finite set with one more element is finite.
LEMMA FiniteAdd ==
  ASSUME NEW D, Finite(D), NEW y
  PROVE  Finite(D \cup {y})
<1>. SUFFICES ASSUME NEW Z \in SUBSET SUBSET (D \cup {y}), {} \in Z,
                     \A s \in Z : \A x \in D \cup {y} : s \cup {x} \in Z
              PROVE  D \cup {y} \in Z
  BY DEF Finite
<1>. DEFINE W == {s \in SUBSET D : s \cup {y} \in Z}
<1>1. {} \in W
  OBVIOUS
<1>2. ASSUME NEW s \in SUBSET D, NEW x \in D \ s, s \in W
      PROVE  s \cup {x} \in W
  <2>1. (s \cup {x}) \cup {y} = (s \cup {y}) \cup {x}
    OBVIOUS
  <2>. QED
    BY <1>2, <2>1
<1>3. D \in W
  <2>. HIDE DEF W
  <2>. QED
    BY <1>1, <1>2, FiniteGrowth
<1>. QED
  BY <1>3

\* An interval is finite.
LEMMA FiniteInterval ==
  ASSUME NEW a \in Int, NEW b \in Int
  PROVE  Finite(a..b)
<1>. DEFINE T == {n \in Nat : Finite(a..(a + n - 1))}
<1>0. Finite({})
  BY DEF Finite
<1>1. 0 \in T
  <2>1. a..(a + 0 - 1) = {}
    OBVIOUS
  <2>. QED
    BY <1>0, <2>1
<1>2. ASSUME NEW n \in Nat, n \in T
      PROVE  n + 1 \in T
  <2>1. a..(a + (n + 1) - 1) = (a..(a + n - 1)) \cup {a + n}
    OBVIOUS
  <2>2. Finite(a..(a + n - 1))
    BY <1>2
  <2>3. Finite((a..(a + n - 1)) \cup {a + n})
    BY <2>2, FiniteAdd
  <2>4. Finite(a..(a + (n + 1) - 1))
    BY <2>1, <2>3, Zenon
  <2>. QED
    BY <2>4
<1>3. Nat \subseteq T
  <2>. HIDE DEF T
  <2>. QED
    BY <1>1, <1>2, NumberInduction
<1>4. CASE b < a
  <2>1. a..b = {}
    BY <1>4
  <2>. QED
    BY <1>0, <2>1
<1>5. CASE b >= a
  <2>1. \A n \in Nat : Finite(a..(a + n - 1))
    BY <1>3
  <2>2. PICK n \in Nat : a + n - 1 = b
    <3>1. b - a + 1 \in Nat /\ a + (b - a + 1) - 1 = b
      BY <1>5
    <3>. QED
      BY <3>1
  <2>. QED
    BY <2>1, <2>2, Zenon
<1>. QED
  BY <1>4, <1>5

\* The sum of two functions.
LEMMA SumPlus ==
  ASSUME NEW D, Finite(D), NEW f, NEW g, NEW h,
         \A x \in D : f[x] \in Int /\ g[x] \in Int /\ h[x] = f[x] + g[x]
  PROVE  SumFunctionOnSet(h, D) = SumFunctionOnSet(f, D) + SumFunctionOnSet(g, D)
<1>. DEFINE F(s) == SumFunctionOnSet(f, s)
            G(s) == SumFunctionOnSet(g, s)
            H(s) == SumFunctionOnSet(h, s)
            Z == {s \in SUBSET D : H(s) = F(s) + G(s)}
<1>1. \A s \in SUBSET D : F(s) \in Int
  BY SumType
<1>2. \A s \in SUBSET D : G(s) \in Int
  BY SumType
<1>3. F({}) = 0 /\ \A s \in SUBSET D : \A x \in D \ s : F(s \cup {x}) = f[x] + F(s)
  BY SumAdd
<1>4. G({}) = 0 /\ \A s \in SUBSET D : \A x \in D \ s : G(s \cup {x}) = g[x] + G(s)
  BY SumAdd
<1>5. H({}) = 0 /\ \A s \in SUBSET D : \A x \in D \ s : H(s \cup {x}) = h[x] + H(s)
  <2>1. \A x \in D : h[x] \in Int
    OBVIOUS
  <2>. QED
    BY <2>1, SumAdd
<1>. HIDE DEF F, G, H
<1>6. {} \in Z
  BY <1>3, <1>4, <1>5
<1>7. ASSUME NEW s \in SUBSET D, NEW x \in D \ s, s \in Z
      PROVE  s \cup {x} \in Z
  <2>1. F(s \cup {x}) = f[x] + F(s) /\ G(s \cup {x}) = g[x] + G(s) /\ H(s \cup {x}) = h[x] + H(s)
    BY <1>3, <1>4, <1>5
  <2>2. F(s) \in Int /\ G(s) \in Int /\ H(s) = F(s) + G(s)
    BY <1>1, <1>2, <1>7
  <2>3. f[x] \in Int /\ g[x] \in Int /\ h[x] = f[x] + g[x]
    OBVIOUS
  <2>4. H(s \cup {x}) = F(s \cup {x}) + G(s \cup {x})
    BY <2>1, <2>2, <2>3
  <2>. QED
    BY <2>4
<1>. HIDE DEF Z
<1>8. D \in Z
  BY <1>6, <1>7, FiniteGrowth
<1>. QED
  BY <1>8 DEF Z, F, G, H

\* Elements whose value is zero do not count.
LEMMA SumZeros ==
  ASSUME NEW D, Finite(D), NEW f, NEW A \in SUBSET D,
         \A x \in D : f[x] \in Int, \A x \in D \ A : f[x] = 0
  PROVE  SumFunctionOnSet(f, A) = SumFunctionOnSet(f, D)
<1>. DEFINE F(s) == SumFunctionOnSet(f, s)
            Z == {s \in SUBSET (D \ A) : F(s) = 0}
<1>1. \A s \in SUBSET D : F(s) \in Int
  BY SumType
<1>2. F({}) = 0 /\ \A s \in SUBSET D : \A x \in D \ s : F(s \cup {x}) = f[x] + F(s)
  BY SumAdd
<1>3. F(A \cup (D \ A)) = F(A) + F(D \ A)
  <2>1. D \ A \in SUBSET D /\ A \cap (D \ A) = {}
    OBVIOUS
  <2>. QED
    BY <2>1, SumDisjoint
<1>. HIDE DEF F
<1>4. {} \in Z
  BY <1>2
<1>5. ASSUME NEW s \in SUBSET (D \ A), NEW x \in (D \ A) \ s, s \in Z
      PROVE  s \cup {x} \in Z
  BY <1>2, <1>5
<1>. HIDE DEF Z
<1>6. D \ A \in Z
  <2>1. Finite(D \ A)
    BY FiniteSubset
  <2>. QED
    BY <1>4, <1>5, <2>1, FiniteGrowth
<1>7. F(D \ A) = 0
  BY <1>6 DEF Z
<1>8. A \cup (D \ A) = D
  OBVIOUS
<1>9. F(A) = F(D)
  <2>1. F(D) = F(A) + F(D \ A) /\ F(A) \in Int
    BY <1>1, <1>3, <1>8, Zenon
  <2>. QED
    BY <1>7, <2>1
<1>. QED
  BY <1>9 DEF F

\* A sum of natural numbers is not negative.
LEMMA SumNat ==
  ASSUME NEW D, Finite(D), NEW f, \A x \in D : f[x] \in Nat
  PROVE  SumFunctionOnSet(f, D) \in Nat
<1>. DEFINE z == [x \in D |-> 0]
<1>1. SumFunctionOnSet(z, D) = 0
  <2>1. \A x \in D : z[x] \in Int
    OBVIOUS
  <2>2. \A x \in D \ {} : z[x] = 0
    OBVIOUS
  <2>3. {} \in SUBSET D
    OBVIOUS
  <2>. HIDE DEF z
  <2>4. SumFunctionOnSet(z, {}) = SumFunctionOnSet(z, D)
    BY <2>1, <2>2, <2>3, SumZeros
  <2>5. SumFunctionOnSet(z, {}) = 0
    BY <2>1, SumAdd
  <2>. QED
    BY <2>4, <2>5
<1>2. SumFunctionOnSet(z, D) <= SumFunctionOnSet(f, D)
  <2>1. \A x \in D : z[x] \in Int /\ f[x] \in Int /\ z[x] <= f[x]
    OBVIOUS
  <2>. HIDE DEF z
  <2>. QED
    BY <2>1, SumMonotone
<1>3. SumFunctionOnSet(f, D) \in Int
  <2>1. \A x \in D : f[x] \in Int
    OBVIOUS
  <2>. QED
    BY <2>1, SumType
<1>. QED
  BY <1>1, <1>2, <1>3

\* The sum over an interval with one more number.
LEMMA SumInterval ==
  ASSUME NEW n \in Nat, NEW f, \A x \in 1..(n + 1) : f[x] \in Int
  PROVE  /\ SumFunctionOnSet(f, 1..n) \in Int
         /\ SumFunctionOnSet(f, 1..(n + 1)) = f[n + 1] + SumFunctionOnSet(f, 1..n)
<1>. DEFINE D == 1..(n + 1)
            s == 1..n
<1>1. /\ Finite(D) /\ \A x \in D : f[x] \in Int
      /\ s \in SUBSET D /\ n + 1 \in D \ s /\ D = s \cup {n + 1}
  <2>1. Finite(D)
    BY FiniteInterval
  <2>2. s \in SUBSET D /\ n + 1 \in D \ s /\ D = s \cup {n + 1}
    OBVIOUS
  <2>. QED
    BY <2>1, <2>2
<1>. HIDE DEF D, s
<1>2. SumFunctionOnSet(f, s \cup {n + 1}) = f[n + 1] + SumFunctionOnSet(f, s)
  BY <1>1, SumInsert
<1>3. SumFunctionOnSet(f, s) \in Int
  BY <1>1, SumType
<1>4. SumFunctionOnSet(f, D) = f[n + 1] + SumFunctionOnSet(f, s)
  BY <1>1, <1>2
<1>. QED
  BY <1>3, <1>4 DEF D, s
-----------------------------------------------------------------------------
(* The reward of the full mortgage blocks.                                  *)

\* The operators of MortgageCalculator, for any chain c
Full(c, h) == h >= BHDIP009Height /\ c[h]
LowRun(c, h) == {j \in BHDIP008Height..h : \A k \in j..h : ~c[k]}
Acc(c, h) == SumFunctionOnSet(TakeOff, LowRun(c, h))
FullIn(c, from, to) == {j \in from..to : Full(c, j)}
Dists(c, h) == Max({MinBlocks, Cardinality(FullIn(c, Max({BHDIP009Height, h - NumHeightsToCalc}), h - 1))})
Done(c, from, target) == Cardinality(FullIn(c, from, target - 1))
Share(c, from) == Acc(c, from - 1) \div Dists(c, from)
Due(c, from, target) == IF Done(c, from, target) >= Dists(c, from) THEN 0 ELSE Share(c, from)

\* What the full mortgage blocks up to height n have yet to pay out, one entry
\* for each of them
Owed(c, n) ==
  [h \in 1..n |-> IF h >= BHDIP011Height /\ Full(c, h) /\ Done(c, h, n + 1) < Dists(c, h)
                  THEN Share(c, h) * (Dists(c, h) - Done(c, h, n + 1)) ELSE 0]

\* That and what has been taken off since the last of them
Debt(c, n) == SumFunctionOnSet(Owed(c, n), 1..n) + Acc(c, n)

\* The model's operators are these, for the active chain.
LEMMA ForChain ==
  /\ \A h : IsFullMortgageBlock(h) <=> Full(chain, h)
  /\ \A h : GetBlockAccumulateSubsidy(h) = Acc(chain, h)
  /\ \A h : CalcNumOfDistributions(h) = Dists(chain, h)
  /\ \A f, t : CalcNumOfDistributedForTargetHeight(f, t) = Done(chain, f, t)
  /\ \A f, t : CalcDistributeAmountToTargetHeight(f, t) = Due(chain, f, t)
<1>1. \A h : IsFullMortgageBlock(h) <=> Full(chain, h)
  BY DEF IsFullMortgageBlock, Full
<1>2. \A h : GetBlockAccumulateSubsidy(h) = Acc(chain, h)
  BY DEF GetBlockAccumulateSubsidy, Acc, LowRun
<1>3. \A h : CalcNumOfDistributions(h) = Dists(chain, h)
  BY DEF CalcNumOfDistributions, Dists, FullIn, Full, IsFullMortgageBlock
<1>4. \A f, t : CalcNumOfDistributedForTargetHeight(f, t) = Done(chain, f, t)
  BY DEF CalcNumOfDistributedForTargetHeight, Done, FullIn, Full, IsFullMortgageBlock
<1>5. \A f, t : CalcDistributeAmountToTargetHeight(f, t) = Due(chain, f, t)
  BY <1>2, <1>3, <1>4 DEF CalcDistributeAmountToTargetHeight, Due, Share
<1>. QED
  BY <1>1, <1>2, <1>3, <1>4, <1>5

\* The larger of two numbers, the least of a set.
LEMMA LargerOfTwo ==
  ASSUME NEW a \in Int, NEW b \in Int
  PROVE  /\ Max({a, b}) \in Int /\ Max({a, b}) >= a /\ Max({a, b}) >= b
         /\ Max({a, b}) = a \/ Max({a, b}) = b
<1>1. \E x \in {a, b} : \A y \in {a, b} : x >= y
  <2>1. CASE a >= b
    BY <2>1
  <2>2. CASE b >= a
    BY <2>2
  <2>. QED
    BY <2>1, <2>2
<1>2. Max({a, b}) \in {a, b} /\ \A y \in {a, b} : Max({a, b}) >= y
  BY <1>1 DEF Max
<1>. QED
  BY <1>2

\* Min is the least element.
LEMMA LeastOf ==
  ASSUME NEW S \in SUBSET Nat, S # {}
  PROVE  Min(S) \in S /\ \A x \in S : Min(S) <= x
<1>1. \E x \in S : \A y \in S : x <= y
  BY LeastNumber
<1>. QED
  BY <1>1 DEF Min

\* Sets of heights are finite and their sizes are numbers.
LEMMA FullInFacts ==
  ASSUME NEW c, NEW a \in Int, NEW b \in Int
  PROVE  IsFiniteSet(FullIn(c, a, b)) /\ Cardinality(FullIn(c, a, b)) \in Nat
<1>1. IsFiniteSet(a..b) /\ FullIn(c, a, b) \subseteq a..b
  BY FS_Interval DEF FullIn
<1>. QED
  BY <1>1, FS_Subset, FS_CardinalityType

\* CalcNumOfDistributions never answers with zero, which is divided by.
LEMMA DistsType ==
  ASSUME NEW c, NEW h \in Int
  PROVE  Dists(c, h) \in Nat \ {0}
<1>. DEFINE a == Max({BHDIP009Height, h - NumHeightsToCalc})
            n == Cardinality(FullIn(c, a, h - 1))
<1>1. a \in Int
  <2>1. BHDIP009Height \in Int /\ h - NumHeightsToCalc \in Int
    BY MortgageAssumption
  <2>. QED
    BY <2>1, LargerOfTwo, Zenon
<1>. HIDE DEF a
<1>2. n \in Nat
  BY <1>1, FullInFacts
<1>. HIDE DEF n
<1>3. Max({MinBlocks, n}) \in Int /\ Max({MinBlocks, n}) >= MinBlocks
  <2>1. MinBlocks \in Int /\ n \in Int
    BY <1>2, MortgageAssumption
  <2>. QED
    BY <2>1, LargerOfTwo, Zenon
<1>4. Dists(c, h) = Max({MinBlocks, n})
  BY DEF Dists, n, a
<1>. QED
  BY <1>3, <1>4, MortgageAssumption

\* The number of shares paid is a number.
LEMMA DoneType ==
  ASSUME NEW c, NEW f \in Int, NEW t \in Int
  PROVE  Done(c, f, t) \in Nat
BY FullInFacts DEF Done

\* The run of low mortgage blocks is within the chain, and its sum a number.
LEMMA AccType ==
  ASSUME NEW c, NEW h \in Int, h <= MaxHeight
  PROVE  /\ LowRun(c, h) \in SUBSET (1..MaxHeight)
         /\ Acc(c, h) \in Nat
<1>1. LowRun(c, h) \in SUBSET (1..MaxHeight)
  BY MortgageAssumption DEF LowRun
<1>2. Finite(LowRun(c, h))
  BY <1>1, MortgageAssumption, FiniteInterval, FiniteSubset
<1>3. \A x \in LowRun(c, h) : TakeOff[x] \in Nat
  BY <1>1, MortgageAssumption
<1>. QED
  BY <1>1, <1>2, <1>3, SumNat DEF Acc

\* A share and what is owed of it are natural numbers.
LEMMA ShareType ==
  ASSUME NEW c, NEW h \in 1..MaxHeight
  PROVE  Share(c, h) \in Nat /\ Share(c, h) * Dists(c, h) <= Acc(c, h - 1)
<1>1. Acc(c, h - 1) \in Nat
  <2>1. h - 1 \in Int /\ h - 1 <= MaxHeight
    BY MortgageAssumption
  <2>. QED
    BY <2>1, AccType
<1>2. Dists(c, h) \in Nat \ {0}
  BY MortgageAssumption, DistsType
<1>. QED
  BY <1>1, <1>2 DEF Share

\* What a block has yet to pay is not negative.
LEMMA OwedType ==
  ASSUME NEW c, NEW n \in Nat, n <= MaxHeight, NEW h \in 1..n
  PROVE  Owed(c, n)[h] \in Nat
<1>1. Share(c, h) \in Nat
  BY MortgageAssumption, ShareType
<1>2. Dists(c, h) \in Nat /\ Done(c, h, n + 1) \in Nat
  BY DistsType, DoneType
<1>3. CASE h >= BHDIP011Height /\ Full(c, h) /\ Done(c, h, n + 1) < Dists(c, h)
  <2>1. Owed(c, n)[h] = Share(c, h) * (Dists(c, h) - Done(c, h, n + 1))
    BY <1>3 DEF Owed
  <2>2. Dists(c, h) - Done(c, h, n + 1) \in Nat
    BY <1>2, <1>3
  <2>. QED
    BY <1>1, <2>1, <2>2
<1>4. CASE ~(h >= BHDIP011Height /\ Full(c, h) /\ Done(c, h, n + 1) < Dists(c, h))
  BY <1>4 DEF Owed
<1>. QED
  BY <1>3, <1>4

\* Nor is what all of them have.
LEMMA DebtType ==
  ASSUME NEW c, NEW n \in Nat, n <= MaxHeight
  PROVE  /\ SumFunctionOnSet(Owed(c, n), 1..n) \in Nat
         /\ Debt(c, n) \in Nat
<1>1. SumFunctionOnSet(Owed(c, n), 1..n) \in Nat
  <2>1. \A h \in 1..n : Owed(c, n)[h] \in Nat
    BY OwedType
  <2>2. Finite(1..n)
    BY FiniteInterval
  <2>. QED
    BY <2>1, <2>2, SumNat
<1>2. Acc(c, n) \in Nat
  BY AccType
<1>. QED
  BY <1>1, <1>2 DEF Debt

-----------------------------------------------------------------------------
\* What the operators give depends on the blocks up to the height only.
LEMMA AgreeRuns ==
  ASSUME NEW c, NEW d, NEW n \in Nat, \A k \in 1..n : c[k] = d[k]
  PROVE  /\ \A h \in 0..n : Acc(c, h) = Acc(d, h)
         /\ \A h \in 1..(n + 1) : Dists(c, h) = Dists(d, h)
         /\ \A h \in 1..(n + 1) : Share(c, h) = Share(d, h)
         /\ \A f \in 1..(n + 1), t \in 1..(n + 1) : Done(c, f, t) = Done(d, f, t)
<1>1. \A h \in 0..n : Acc(c, h) = Acc(d, h)
  <2>. SUFFICES ASSUME NEW h \in 0..n
                PROVE  Acc(c, h) = Acc(d, h)
    OBVIOUS
  <2>1. \A j \in BHDIP008Height..h : \A k \in j..h : c[k] = d[k]
    BY MortgageAssumption
  <2>2. LowRun(c, h) = LowRun(d, h)
    BY <2>1 DEF LowRun
  <2>. QED
    BY <2>2 DEF Acc
<1>2. ASSUME NEW a \in Int, a >= 1, NEW b \in Int, b <= n
      PROVE  FullIn(c, a, b) = FullIn(d, a, b)
  <2>1. \A j \in a..b : c[j] = d[j]
    BY <1>2
  <2>. QED
    BY <2>1 DEF FullIn, Full
<1>3. ASSUME NEW h \in 1..(n + 1)
      PROVE  Dists(c, h) = Dists(d, h)
  <2>. DEFINE a == Max({BHDIP009Height, h - NumHeightsToCalc})
  <2>1. a \in Int /\ a >= BHDIP009Height
    <3>1. BHDIP009Height \in Int /\ h - NumHeightsToCalc \in Int
      BY MortgageAssumption
    <3>. QED
      BY <3>1, LargerOfTwo, Zenon
  <2>. HIDE DEF a
  <2>2. a >= 1 /\ h - 1 \in Int /\ h - 1 <= n
    BY <2>1, MortgageAssumption
  <2>3. FullIn(c, a, h - 1) = FullIn(d, a, h - 1)
    BY <1>2, <2>1, <2>2
  <2>. QED
    BY <2>3 DEF Dists, a
<1>4. ASSUME NEW f \in 1..(n + 1), NEW t \in 1..(n + 1)
      PROVE  Done(c, f, t) = Done(d, f, t)
  <2>1. f \in Int /\ f >= 1 /\ t - 1 \in Int /\ t - 1 <= n
    OBVIOUS
  <2>2. FullIn(c, f, t - 1) = FullIn(d, f, t - 1)
    BY <1>2, <2>1
  <2>. QED
    BY <2>2 DEF Done
<1>5. ASSUME NEW h \in 1..(n + 1)
      PROVE  Share(c, h) = Share(d, h)
  <2>1. h - 1 \in 0..n
    OBVIOUS
  <2>. QED
    BY <1>1, <1>3, <2>1 DEF Share
<1>. QED
  BY <1>1, <1>3, <1>4, <1>5

\* So do the debt and the shares due at a height.
LEMMA AgreeDebt ==
  ASSUME NEW c, NEW d, NEW n \in Nat, \A k \in 1..n : c[k] = d[k]
  PROVE  /\ Debt(c, n) = Debt(d, n)
         /\ \A f \in 1..n, t \in 1..(n + 1) : Due(c, f, t) = Due(d, f, t)
<1>1. /\ \A h \in 0..n : Acc(c, h) = Acc(d, h)
      /\ \A h \in 1..(n + 1) : Dists(c, h) = Dists(d, h)
      /\ \A h \in 1..(n + 1) : Share(c, h) = Share(d, h)
      /\ \A f \in 1..(n + 1), t \in 1..(n + 1) : Done(c, f, t) = Done(d, f, t)
  BY AgreeRuns
<1>2. ASSUME NEW h \in 1..n
      PROVE  Owed(c, n)[h] = Owed(d, n)[h]
  <2>1. h \in 1..(n + 1) /\ n + 1 \in 1..(n + 1)
    OBVIOUS
  <2>2. Dists(c, h) = Dists(d, h) /\ Share(c, h) = Share(d, h) /\ Done(c, h, n + 1) = Done(d, h, n + 1)
    BY <1>1, <2>1
  <2>3. Full(c, h) <=> Full(d, h)
    BY DEF Full
  <2>. QED
    BY <2>2, <2>3 DEF Owed
<1>3. Owed(c, n) = Owed(d, n)
  BY <1>2 DEF Owed
<1>4. Acc(c, n) = Acc(d, n)
  BY <1>1
<1>5. Debt(c, n) = Debt(d, n)
  BY <1>3, <1>4 DEF Debt
<1>6. ASSUME NEW f \in 1..n, NEW t \in 1..(n + 1)
      PROVE  Due(c, f, t) = Due(d, f, t)
  <2>1. f \in 1..(n + 1)
    OBVIOUS
  <2>. QED
    BY <1>1, <2>1 DEF Due
<1>. QED
  BY <1>5, <1>6

-----------------------------------------------------------------------------
\* GetBlockAccumulateSubsidy with one more block.
LEMMA AccStep ==
  ASSUME NEW c, NEW n \in Nat, n + 1 <= MaxHeight
  PROVE  /\ c[n + 1] = TRUE => Acc(c, n + 1) = 0
         /\ c[n + 1] = FALSE /\ n + 1 >= BHDIP008Height => Acc(c, n + 1) = TakeOff[n + 1] + Acc(c, n)
         /\ n < BHDIP008Height => Acc(c, n) = 0
<1>1. SumFunctionOnSet(TakeOff, {}) = 0
  BY SumEmpty
<1>2. c[n + 1] = TRUE => Acc(c, n + 1) = 0
  <2>. SUFFICES ASSUME c[n + 1] = TRUE
                PROVE  Acc(c, n + 1) = 0
    OBVIOUS
  <2>1. \A j \in BHDIP008Height..(n + 1) : n + 1 \in j..(n + 1)
    BY MortgageAssumption
  <2>2. LowRun(c, n + 1) = {}
    BY <2>1 DEF LowRun
  <2>. QED
    BY <1>1, <2>2 DEF Acc
<1>3. n < BHDIP008Height => Acc(c, n) = 0
  <2>. SUFFICES ASSUME n < BHDIP008Height
                PROVE  Acc(c, n) = 0
    OBVIOUS
  <2>1. BHDIP008Height..n = {}
    BY MortgageAssumption
  <2>2. LowRun(c, n) = {}
    BY <2>1 DEF LowRun
  <2>. QED
    BY <1>1, <2>2 DEF Acc
<1>4. ASSUME c[n + 1] = FALSE, n + 1 >= BHDIP008Height
      PROVE  Acc(c, n + 1) = TakeOff[n + 1] + Acc(c, n)
  <2>1. LowRun(c, n + 1) = LowRun(c, n) \cup {n + 1}
    <3>1. ASSUME NEW j \in LowRun(c, n + 1)
          PROVE  j \in LowRun(c, n) \cup {n + 1}
      <4>1. j \in BHDIP008Height..(n + 1) /\ \A k \in j..(n + 1) : ~c[k]
        BY DEF LowRun
      <4>2. CASE j = n + 1
        BY <4>2
      <4>3. CASE j # n + 1
        <5>1. j \in BHDIP008Height..n /\ \A k \in j..n : k \in j..(n + 1)
          BY <4>1, <4>3, MortgageAssumption
        <5>. QED
          BY <4>1, <5>1 DEF LowRun
      <4>. QED
        BY <4>2, <4>3
    <3>2. n + 1 \in LowRun(c, n + 1)
      <4>1. n + 1 \in BHDIP008Height..(n + 1) /\ \A k \in (n + 1)..(n + 1) : k = n + 1
        BY <1>4, MortgageAssumption
      <4>. QED
        BY <1>4, <4>1 DEF LowRun
    <3>3. ASSUME NEW j \in LowRun(c, n)
          PROVE  j \in LowRun(c, n + 1)
      <4>1. j \in BHDIP008Height..n /\ \A k \in j..n : ~c[k]
        BY DEF LowRun
      <4>2. j \in BHDIP008Height..(n + 1) /\ \A k \in j..(n + 1) : k \in j..n \/ k = n + 1
        BY <4>1, MortgageAssumption
      <4>. QED
        BY <1>4, <4>1, <4>2 DEF LowRun
    <3>. QED
      BY <3>1, <3>2, <3>3
  <2>2. LowRun(c, n) \in SUBSET (1..MaxHeight) /\ n + 1 \in (1..MaxHeight) \ LowRun(c, n)
    <3>1. n \in Int /\ n <= MaxHeight
      BY MortgageAssumption
    <3>2. LowRun(c, n) \in SUBSET (1..MaxHeight)
      BY <3>1, AccType
    <3>3. n + 1 \in 1..MaxHeight /\ n + 1 \notin BHDIP008Height..n
      BY MortgageAssumption
    <3>. QED
      BY <3>2, <3>3 DEF LowRun
  <2>3. Finite(1..MaxHeight) /\ \A x \in 1..MaxHeight : TakeOff[x] \in Int
    BY MortgageAssumption, FiniteInterval
  <2>4. SumFunctionOnSet(TakeOff, LowRun(c, n) \cup {n + 1}) = TakeOff[n + 1] + SumFunctionOnSet(TakeOff, LowRun(c, n))
    <3>. DEFINE D == 1..MaxHeight
    <3>1. /\ Finite(D) /\ \A x \in D : TakeOff[x] \in Int
          /\ LowRun(c, n) \in SUBSET D /\ n + 1 \in D \ LowRun(c, n)
      BY <2>2, <2>3
    <3>. HIDE DEF D
    <3>. QED
      BY <3>1, SumInsert
  <2>. QED
    BY <2>1, <2>4 DEF Acc
<1>. QED
  BY <1>2, <1>3, <1>4

\* CalcNumOfDistributedForTargetHeight with one more block.
LEMMA DoneStep ==
  ASSUME NEW c, NEW f \in Nat, NEW t \in Nat, f <= t
  PROVE  /\ Done(c, f, t + 1) = Done(c, f, t) + (IF Full(c, t) THEN 1 ELSE 0)
         /\ Done(c, t, t) = 0
<1>1. FullIn(c, f, (t + 1) - 1) = IF Full(c, t) THEN FullIn(c, f, t - 1) \cup {t} ELSE FullIn(c, f, t - 1)
  <2>1. f..((t + 1) - 1) = (f..(t - 1)) \cup {t}
    OBVIOUS
  <2>. QED
    BY <2>1 DEF FullIn
<1>2. t \notin FullIn(c, f, t - 1)
  BY DEF FullIn
<1>3. IsFiniteSet(FullIn(c, f, t - 1)) /\ Cardinality(FullIn(c, f, t - 1)) \in Nat
  BY FullInFacts
<1>4. Cardinality(FullIn(c, f, t - 1) \cup {t}) = Cardinality(FullIn(c, f, t - 1)) + 1
  BY <1>2, <1>3, FS_AddElement
<1>5. FullIn(c, t, t - 1) = {}
  BY DEF FullIn
<1>6. Done(c, t, t) = 0
  BY <1>5, FS_EmptySet DEF Done
<1>7. CASE Full(c, t)
  BY <1>1, <1>4, <1>6, <1>7 DEF Done
<1>8. CASE ~Full(c, t)
  BY <1>1, <1>3, <1>6, <1>8 DEF Done
<1>. QED
  BY <1>7, <1>8

\* What is owed with one more block: a full mortgage block pays one share of
\* every distribution that is not complete.
LEMMA OwedStep ==
  ASSUME NEW c, NEW n \in Nat, n + 1 <= MaxHeight, NEW h \in 1..n
  PROVE  Owed(c, n)[h] = Owed(c, n + 1)[h] +
           (IF h >= BHDIP011Height /\ Full(c, h) /\ Full(c, n + 1) THEN Due(c, h, n + 1) ELSE 0)
<1>1. h \in 1..(n + 1) /\ h \in 1..MaxHeight /\ h <= n + 1
  BY MortgageAssumption
<1>2. Share(c, h) \in Nat /\ Dists(c, h) \in Nat /\ Done(c, h, n + 1) \in Nat
  BY <1>1, ShareType, DistsType, DoneType
<1>3. Done(c, h, (n + 1) + 1) = Done(c, h, n + 1) + (IF Full(c, n + 1) THEN 1 ELSE 0)
  BY <1>1, DoneStep
<1>4. CASE ~(h >= BHDIP011Height /\ Full(c, h))
  BY <1>1, <1>4 DEF Owed
<1>5. CASE h >= BHDIP011Height /\ Full(c, h) /\ ~Full(c, n + 1)
  BY <1>1, <1>2, <1>3, <1>5 DEF Owed
<1>6. CASE h >= BHDIP011Height /\ Full(c, h) /\ Full(c, n + 1)
  <2>1. Done(c, h, (n + 1) + 1) = Done(c, h, n + 1) + 1
    BY <1>3, <1>6
  <2>2. CASE Done(c, h, n + 1) >= Dists(c, h)
    BY <1>1, <1>2, <1>6, <2>1, <2>2 DEF Owed, Due
  <2>3. CASE Done(c, h, n + 1) < Dists(c, h)
    <3>. DEFINE x == Dists(c, h) - Done(c, h, n + 1)
    <3>1. x \in Nat \ {0}
      BY <1>2, <2>3
    <3>2. Owed(c, n)[h] = Share(c, h) * x
      BY <1>6, <2>3 DEF Owed
    <3>3. Owed(c, n + 1)[h] = Share(c, h) * (x - 1)
      <4>1. Owed(c, n + 1)[h] = IF x - 1 > 0 THEN Share(c, h) * (x - 1) ELSE 0
        BY <1>1, <1>2, <1>6, <2>1 DEF Owed
      <4>. HIDE DEF x
      <4>. QED
        BY <1>2, <3>1, <4>1
    <3>4. Due(c, h, n + 1) = Share(c, h)
      BY <1>2, <2>3 DEF Due
    <3>. HIDE DEF x
    <3>5. Share(c, h) * x = Share(c, h) * (x - 1) + Share(c, h)
      BY <1>2, <3>1
    <3>. QED
      BY <1>6, <3>2, <3>3, <3>4, <3>5
  <2>. QED
    BY <1>2, <2>2, <2>3
<1>. QED
  BY <1>4, <1>5, <1>6

\* The sum of what is owed by all blocks but the last.
LEMMA OwedButLast ==
  ASSUME NEW c, NEW n \in Nat, n + 1 <= MaxHeight
  PROVE  /\ \A h \in 1..(n + 1) : Owed(c, n + 1)[h] \in Nat
         /\ SumFunctionOnSet(Owed(c, n + 1), 1..n) \in Int
         /\ SumFunctionOnSet(Owed(c, n + 1), 1..(n + 1)) =
              Owed(c, n + 1)[n + 1] + SumFunctionOnSet(Owed(c, n + 1), 1..n)
<1>1. \A h \in 1..(n + 1) : Owed(c, n + 1)[h] \in Nat
  BY OwedType
<1>2. \A h \in 1..(n + 1) : Owed(c, n + 1)[h] \in Int
  BY <1>1
<1>. QED
  BY <1>1, <1>2, SumInterval

\* A block that is not a full mortgage block leaves what is owed as it is.
LEMMA OwedUnpaid ==
  ASSUME NEW c, NEW n \in Nat, n + 1 <= MaxHeight, ~Full(c, n + 1) \/ n + 1 < BHDIP011Height
  PROVE  SumFunctionOnSet(Owed(c, n + 1), 1..(n + 1)) = SumFunctionOnSet(Owed(c, n), 1..n)
<1>1. ASSUME NEW h \in 1..n
      PROVE  Owed(c, n)[h] \in Int /\ Owed(c, n)[h] = Owed(c, n + 1)[h]
  <2>1. Owed(c, n + 1)[h] \in Nat
    BY OwedButLast
  <2>2. ~(h >= BHDIP011Height /\ Full(c, h) /\ Full(c, n + 1))
    BY MortgageAssumption
  <2>3. Owed(c, n)[h] = Owed(c, n + 1)[h] + 0
    BY <2>2, OwedStep
  <2>. QED
    BY <2>1, <2>3
<1>2. Owed(c, n + 1)[n + 1] = 0
  <2>1. n + 1 \in 1..(n + 1) /\ ~(n + 1 >= BHDIP011Height /\ Full(c, n + 1))
    BY MortgageAssumption
  <2>. QED
    BY <2>1 DEF Owed
<1>3. SumFunctionOnSet(Owed(c, n), 1..n) = SumFunctionOnSet(Owed(c, n + 1), 1..n)
  <2>1. Finite(1..n)
    BY FiniteInterval
  <2>. QED
    BY <1>1, <2>1, SumEqual
<1>. QED
  BY <1>2, <1>3, OwedButLast

\* A low mortgage block adds what it gives up to the debt.
LEMMA DebtLow ==
  ASSUME NEW c, NEW n \in Nat, n + 1 <= MaxHeight, c[n + 1] = FALSE
  PROVE  Debt(c, n + 1) = Debt(c, n) + (IF n + 1 >= BHDIP008Height THEN TakeOff[n + 1] ELSE 0)
<1>1. ~Full(c, n + 1)
  BY DEF Full
<1>2. SumFunctionOnSet(Owed(c, n + 1), 1..(n + 1)) = SumFunctionOnSet(Owed(c, n), 1..n)
  BY <1>1, OwedUnpaid
<1>3. SumFunctionOnSet(Owed(c, n), 1..n) \in Nat /\ Acc(c, n) \in Nat
  BY MortgageAssumption, DebtType, AccType
<1>4. CASE n + 1 >= BHDIP008Height
  <2>1. Acc(c, n + 1) = TakeOff[n + 1] + Acc(c, n)
    BY <1>4, AccStep
  <2>2. TakeOff[n + 1] \in Nat
    BY MortgageAssumption
  <2>. QED
    BY <1>2, <1>3, <1>4, <2>1, <2>2 DEF Debt
<1>5. CASE n + 1 < BHDIP008Height
  <2>1. Acc(c, n) = 0
    <3>1. n < BHDIP008Height
      BY <1>5, MortgageAssumption
    <3>. QED
      BY <3>1, AccStep
  <2>2. Acc(c, n + 1) = 0
    <3>1. BHDIP008Height..(n + 1) = {}
      BY <1>5, MortgageAssumption
    <3>2. LowRun(c, n + 1) = {}
      BY <3>1 DEF LowRun
    <3>. QED
      BY <3>2, SumEmpty DEF Acc
  <2>. QED
    BY <1>2, <1>3, <1>5, <2>1, <2>2, MortgageAssumption DEF Debt
<1>. QED
  BY <1>4, <1>5, MortgageAssumption

\* Before BHDIP011 a full mortgage block is paid all that was taken off.
LEMMA DebtOld ==
  ASSUME NEW c, NEW n \in Nat, n + 1 <= MaxHeight, c[n + 1] = TRUE, n + 1 < BHDIP011Height
  PROVE  Debt(c, n + 1) = Debt(c, n) - Acc(c, n)
<1>1. SumFunctionOnSet(Owed(c, n + 1), 1..(n + 1)) = SumFunctionOnSet(Owed(c, n), 1..n)
  BY OwedUnpaid
<1>2. SumFunctionOnSet(Owed(c, n), 1..n) \in Nat /\ Acc(c, n) \in Nat
  BY MortgageAssumption, DebtType, AccType
<1>3. Acc(c, n + 1) = 0
  BY AccStep
<1>. QED
  BY <1>1, <1>2, <1>3 DEF Debt

\* From BHDIP011 on it is paid shares, of any of the blocks before it and of the
\* run that ends with it, and the debt goes down by at least as much.
LEMMA DebtFull ==
  ASSUME NEW c, NEW n \in Nat, n + 1 <= MaxHeight, c[n + 1] = TRUE, n + 1 >= BHDIP011Height,
         NEW S \in SUBSET {h \in 1..n : h >= BHDIP011Height /\ Full(c, h)},
         NEW due, \A h \in S : due[h] = Due(c, h, n + 1)
  PROVE  /\ SumFunctionOnSet(due, S) \in Int
         /\ Debt(c, n + 1) + SumFunctionOnSet(due, S) + Share(c, n + 1) <= Debt(c, n)
<1>. DEFINE g == [h \in 1..n |-> IF h \in S THEN due[h] ELSE 0]
            k == [h \in 1..n |-> Owed(c, n + 1)[h] + g[h]]
<1>1. Finite(1..n) /\ Finite(S) /\ S \in SUBSET (1..n)
  <2>1. Finite(1..n)
    BY FiniteInterval
  <2>2. S \subseteq 1..n
    OBVIOUS
  <2>. QED
    BY <2>1, <2>2, FiniteSubset
<1>2. Full(c, n + 1)
  BY MortgageAssumption DEF Full
<1>3. \A h \in 1..n : Due(c, h, n + 1) \in Nat
  <2>. SUFFICES ASSUME NEW h \in 1..n
                PROVE  Due(c, h, n + 1) \in Nat
    OBVIOUS
  <2>1. h \in 1..MaxHeight
    BY MortgageAssumption
  <2>. QED
    BY <2>1, ShareType DEF Due
<1>4. \A h \in S : due[h] \in Int /\ due[h] = g[h]
  BY <1>1, <1>3
<1>5. \A h \in 1..n : g[h] \in Int
  <2>. SUFFICES ASSUME NEW h \in 1..n
                PROVE  g[h] \in Int
    OBVIOUS
  <2>1. CASE h \in S
    BY <1>4, <2>1
  <2>2. CASE h \notin S
    BY <2>2
  <2>. QED
    BY <2>1, <2>2
<1>6. SumFunctionOnSet(due, S) \in Int /\ SumFunctionOnSet(due, S) = SumFunctionOnSet(g, 1..n)
  <2>1. SumFunctionOnSet(due, S) \in Int
    BY <1>1, <1>4, SumType
  <2>2. \A h \in (1..n) \ S : g[h] = 0
    OBVIOUS
  <2>. HIDE DEF g
  <2>3. SumFunctionOnSet(due, S) = SumFunctionOnSet(g, S)
    BY <1>1, <1>4, SumEqual
  <2>4. SumFunctionOnSet(g, S) = SumFunctionOnSet(g, 1..n)
    BY <1>1, <1>5, <2>2, SumZeros
  <2>. QED
    BY <2>1, <2>3, <2>4
<1>7. \A h \in 1..n : Owed(c, n + 1)[h] \in Int /\ Owed(c, n)[h] \in Int
  <2>1. \A h \in 1..(n + 1) : Owed(c, n + 1)[h] \in Nat
    BY OwedButLast
  <2>2. \A h \in 1..n : Owed(c, n)[h] \in Nat
    BY MortgageAssumption, OwedType
  <2>. QED
    BY <2>1, <2>2
<1>8. \A h \in 1..n : k[h] \in Int /\ k[h] = Owed(c, n + 1)[h] + g[h]
  BY <1>5, <1>7
<1>9. \A h \in 1..n : k[h] <= Owed(c, n)[h]
  <2>. SUFFICES ASSUME NEW h \in 1..n
                PROVE  k[h] <= Owed(c, n)[h]
    OBVIOUS
  <2>1. Owed(c, n)[h] = Owed(c, n + 1)[h] +
           (IF h >= BHDIP011Height /\ Full(c, h) /\ Full(c, n + 1) THEN Due(c, h, n + 1) ELSE 0)
    BY OwedStep
  <2>2. CASE h \in S
    BY <1>2, <1>3, <1>7, <2>1, <2>2
  <2>3. CASE h \notin S
    BY <1>3, <1>7, <2>1, <2>3
  <2>. QED
    BY <2>2, <2>3
<1>10. SumFunctionOnSet(k, 1..n) = SumFunctionOnSet(Owed(c, n + 1), 1..n) + SumFunctionOnSet(g, 1..n)
  <2>. DEFINE D == 1..n
              f == Owed(c, n + 1)
  <2>1. Finite(D) /\ \A h \in D : f[h] \in Int /\ g[h] \in Int /\ k[h] = f[h] + g[h]
    BY <1>1, <1>5, <1>7, <1>8
  <2>. HIDE DEF g, k, D, f
  <2>2. SumFunctionOnSet(k, D) = SumFunctionOnSet(f, D) + SumFunctionOnSet(g, D)
    BY <2>1, SumPlus
  <2>. QED
    BY <2>2 DEF D, f
<1>11. SumFunctionOnSet(k, 1..n) <= SumFunctionOnSet(Owed(c, n), 1..n)
  <2>. HIDE DEF g, k
  <2>. QED
    BY <1>1, <1>7, <1>8, <1>9, SumMonotone
<1>. HIDE DEF g, k
<1>12. Owed(c, n + 1)[n + 1] = Share(c, n + 1) * (Dists(c, n + 1) - 1)
  <2>1. n + 1 \in 1..(n + 1) /\ n + 1 \in 1..MaxHeight
    BY MortgageAssumption
  <2>2. Done(c, n + 1, (n + 1) + 1) = 1
    BY <1>2, DoneStep
  <2>3. Dists(c, n + 1) \in Nat \ {0} /\ Share(c, n + 1) \in Nat
    BY <2>1, DistsType, ShareType
  <2>4. Owed(c, n + 1)[n + 1] = IF 1 < Dists(c, n + 1) THEN Share(c, n + 1) * (Dists(c, n + 1) - 1) ELSE 0
    BY <1>2, <2>1, <2>2 DEF Owed
  <2>. QED
    BY <2>3, <2>4
<1>13. Owed(c, n + 1)[n + 1] + Share(c, n + 1) <= Acc(c, n)
  <2>1. n + 1 \in 1..MaxHeight /\ (n + 1) - 1 = n
    BY MortgageAssumption
  <2>2. Share(c, n + 1) \in Nat /\ Share(c, n + 1) * Dists(c, n + 1) <= Acc(c, n) /\ Dists(c, n + 1) \in Nat
    BY <2>1, ShareType, DistsType
  <2>3. Acc(c, n) \in Nat
    BY MortgageAssumption, AccType
  <2>. QED
    BY <1>12, <2>2, <2>3
<1>14. Acc(c, n + 1) = 0
  BY AccStep
<1>15. /\ SumFunctionOnSet(Owed(c, n), 1..n) \in Nat /\ Acc(c, n) \in Nat
       /\ Share(c, n + 1) \in Nat
  BY MortgageAssumption, DebtType, AccType, ShareType
<1>16. /\ SumFunctionOnSet(Owed(c, n + 1), 1..n) \in Int /\ Owed(c, n + 1)[n + 1] \in Int
       /\ SumFunctionOnSet(Owed(c, n + 1), 1..(n + 1)) =
            Owed(c, n + 1)[n + 1] + SumFunctionOnSet(Owed(c, n + 1), 1..n)
  <2>1. n + 1 \in 1..(n + 1)
    OBVIOUS
  <2>. QED
    BY <2>1, OwedButLast
<1>. QED
  BY <1>6, <1>10, <1>11, <1>13, <1>14, <1>15, <1>16 DEF Debt

-----------------------------------------------------------------------------
\* The scan of CalcAccumulatedAmount and what it leaves in the cache, for any
\* chain c
Scan(c, t, lowest) == {h \in Max({BHDIP011Height, lowest})..(t - 1) : Full(c, h)}
After(c, k, t) ==
  (k \ Scan(c, t, GetLowestHeight(k))) \cup {h \in Scan(c, t, GetLowestHeight(k)) : Due(c, h, t) > 0}

\* The blocks with a share for a block of height t
DueHeights(c, t) == {h \in BHDIP011Height..(t - 1) : Full(c, h) /\ Due(c, h, t) > 0}

\* A cache k from which a block of height t is paid in full: a block with a
\* share for it is in the cache, or above all of it
Covers(c, t, k) ==
  /\ k \subseteq 1..(t - 1)
  /\ \A p \in DueHeights(c, t) : p \in k \/ \A q \in k : q < p

\* The scan and the cache, for the active chain.
LEMMA ForChainScan ==
  /\ \A t, l : Scanned(t, l) = Scan(chain, t, l)
  /\ \A k, t : CachedAfter(k, t) = After(chain, k, t)
<1>1. \A t, l : Scanned(t, l) = Scan(chain, t, l)
  BY DEF Scanned, Scan, IsFullMortgageBlock, Full
<1>2. \A h, t : CalcDistributeAmountToTargetHeight(h, t) = Due(chain, h, t)
  BY ForChain
<1>3. ASSUME NEW k, NEW t
      PROVE  CachedAfter(k, t) = After(chain, k, t)
  <2>1. Scanned(t, GetLowestHeight(k)) = Scan(chain, t, GetLowestHeight(k))
    BY <1>1
  <2>2. Paying(t, GetLowestHeight(k)) =
          {h \in Scan(chain, t, GetLowestHeight(k)) : Due(chain, h, t) > 0}
    BY <1>2, <2>1 DEF Paying
  <2>. QED
    BY <2>1, <2>2 DEF CachedAfter, After
<1>. QED
  BY <1>1, <1>3

\* The scan looks at the full mortgage blocks from the lowest cached height on,
\* at all of them if nothing is cached.
LEMMA ScanIs ==
  ASSUME NEW c, NEW t \in Int, NEW k \in SUBSET (BHDIP011Height..MaxHeight), NEW h \in Int
  PROVE  h \in Scan(c, t, GetLowestHeight(k)) <=>
           /\ h \in BHDIP011Height..(t - 1)
           /\ Full(c, h)
           /\ k = {} \/ \E q \in k : q <= h
<1>. DEFINE l == GetLowestHeight(k)
            m == Max({BHDIP011Height, l})
<1>1. CASE k = {}
  <2>1. l = 0
    BY <1>1 DEF GetLowestHeight
  <2>2. BHDIP011Height \in Int /\ l \in Int /\ BHDIP011Height >= l
    BY <2>1, MortgageAssumption
  <2>. HIDE DEF l
  <2>3. m \in Int /\ m >= BHDIP011Height /\ m >= l /\ (m = BHDIP011Height \/ m = l)
    BY <2>2, LargerOfTwo, Zenon
  <2>4. m = BHDIP011Height
    BY <2>2, <2>3
  <2>. HIDE DEF m
  <2>5. h \in Scan(c, t, l) <=> h \in m..(t - 1) /\ Full(c, h)
    BY DEF Scan, m
  <2>. QED
    BY <1>1, <2>4, <2>5 DEF l
<1>2. CASE k # {}
  <2>1. k \in SUBSET Nat
    BY MortgageAssumption
  <2>2. l \in k /\ \A x \in k : l <= x
    BY <1>2, <2>1, LeastOf DEF GetLowestHeight
  <2>. HIDE DEF l
  <2>3. BHDIP011Height \in Int /\ l \in Int /\ BHDIP011Height <= l
    BY <2>2, MortgageAssumption
  <2>4. m \in Int /\ m >= BHDIP011Height /\ m >= l /\ (m = BHDIP011Height \/ m = l)
    BY <2>3, LargerOfTwo, Zenon
  <2>5. m = l
    BY <2>3, <2>4
  <2>. HIDE DEF m
  <2>6. h \in Scan(c, t, l) <=> h \in m..(t - 1) /\ Full(c, h)
    BY DEF Scan, m
  <2>7. (\E q \in k : q <= h) <=> l <= h
    BY <2>1, <2>2, <2>3
  <2>8. h \in Scan(c, t, l) <=> h \in BHDIP011Height..(t - 1) /\ Full(c, h) /\ \E q \in k : q <= h
    BY <2>3, <2>5, <2>6, <2>7
  <2>. QED
    BY <1>2, <2>8 DEF l
<1>. QED
  BY <1>1, <1>2

\* What has been distributed only grows, so what is due only ends.
LEMMA DueBefore ==
  ASSUME NEW c, NEW p \in 1..MaxHeight, NEW t \in Int, NEW u \in Int, t <= u, Due(c, p, u) > 0
  PROVE  Due(c, p, t) > 0
<1>1. Done(c, p, t) <= Done(c, p, u)
  <2>1. FullIn(c, p, t - 1) \in SUBSET FullIn(c, p, u - 1)
    BY DEF FullIn
  <2>2. IsFiniteSet(FullIn(c, p, u - 1))
    BY FullInFacts
  <2>3. Cardinality(FullIn(c, p, t - 1)) <= Cardinality(FullIn(c, p, u - 1))
    BY <2>1, <2>2, FS_Subset
  <2>. QED
    BY <2>3 DEF Done
<1>2. Done(c, p, t) \in Nat /\ Done(c, p, u) \in Nat /\ Dists(c, p) \in Nat
  BY DoneType, DistsType
<1>3. ~(Done(c, p, u) >= Dists(c, p)) /\ Share(c, p) > 0
  BY DEF Due
<1>. QED
  BY <1>1, <1>2, <1>3 DEF Due

\* CalcAccumulatedAmount for a height that is not above the next block keeps
\* the cache covering.
LEMMA AfterCovers ==
  ASSUME NEW c, NEW t \in Nat, NEW u \in Nat, t <= u, u <= MaxHeight + 1,
         NEW k \in SUBSET (BHDIP011Height..MaxHeight)
  PROVE  /\ After(c, k, t) \in SUBSET (BHDIP011Height..MaxHeight)
         /\ Covers(c, u, k) => Covers(c, u, After(c, k, t))
<1>. DEFINE S == Scan(c, t, GetLowestHeight(k))
<1>1. \A h \in S : h \in Int /\ BHDIP011Height <= h /\ h <= t - 1
  <2>. SUFFICES ASSUME NEW h \in S
                PROVE  h \in Int /\ BHDIP011Height <= h /\ h <= t - 1
    OBVIOUS
  <2>1. h \in Int
    BY DEF Scan
  <2>2. h \in BHDIP011Height..(t - 1)
    BY <2>1, ScanIs
  <2>. QED
    BY <2>1, <2>2, MortgageAssumption
<1>2. \A x \in After(c, k, t) : x \in k \/ x \in S
  BY DEF After
<1>3. \A x \in k \ S : x \in After(c, k, t)
  BY DEF After
<1>4. \A x \in S : Due(c, x, t) > 0 => x \in After(c, k, t)
  BY DEF After
<1>5. \A h \in Int : /\ h \in BHDIP011Height..(t - 1)
                     /\ Full(c, h)
                     /\ k = {} \/ \E q \in k : q <= h
                     => h \in S
  BY ScanIs
<1>. HIDE DEF S
<1>6. After(c, k, t) \in SUBSET (BHDIP011Height..MaxHeight)
  <2>. SUFFICES ASSUME NEW x \in After(c, k, t)
                PROVE  x \in BHDIP011Height..MaxHeight
    OBVIOUS
  <2>1. CASE x \in k
    BY <2>1
  <2>2. CASE x \in S
    <3>1. x \in Int /\ BHDIP011Height <= x /\ x <= t - 1
      BY <1>1, <2>2
    <3>. QED
      BY <3>1, MortgageAssumption
  <2>. QED
    BY <1>2, <2>1, <2>2
<1>7. ASSUME Covers(c, u, k)
      PROVE  Covers(c, u, After(c, k, t))
  <2>1. k \subseteq 1..(u - 1)
    BY <1>7 DEF Covers
  <2>2. After(c, k, t) \subseteq 1..(u - 1)
    <3>. SUFFICES ASSUME NEW x \in After(c, k, t)
                  PROVE  x \in 1..(u - 1)
      OBVIOUS
    <3>1. CASE x \in k
      BY <2>1, <3>1
    <3>2. CASE x \in S
      <4>1. x \in Int /\ BHDIP011Height <= x /\ x <= t - 1
        BY <1>1, <3>2
      <4>. QED
        BY <4>1, MortgageAssumption
    <3>. QED
      BY <1>2, <3>1, <3>2
  <2>3. ASSUME NEW p \in DueHeights(c, u)
        PROVE  p \in After(c, k, t) \/ \A q \in After(c, k, t) : q < p
    <3>1. p \in BHDIP011Height..(u - 1) /\ Full(c, p) /\ Due(c, p, u) > 0
      BY DEF DueHeights
    <3>2. p \in k \/ \A q \in k : q < p
      BY <1>7 DEF Covers
    <3>3. CASE p < t
      <4>1. p \in 1..MaxHeight
        BY <3>1, MortgageAssumption
      <4>2. Due(c, p, t) > 0
        BY <3>1, <4>1, DueBefore
      <4>3. k = {} \/ \E q \in k : q <= p
        BY <3>2, <4>1, <2>1
      <4>4. p \in S
        BY <1>5, <3>1, <3>3, <4>3
      <4>. QED
        BY <1>4, <4>2, <4>4
    <3>4. CASE p >= t
      <4>0. p \in Int
        BY <3>1
      <4>1. p \notin S /\ \A x \in S : x < p
        BY <1>1, <3>4, <4>0
      <4>2. CASE p \in k
        BY <1>3, <4>1, <4>2
      <4>3. CASE \A q \in k : q < p
        BY <1>2, <4>1, <4>3
      <4>. QED
        BY <3>2, <4>2, <4>3
    <3>. QED
      BY <3>1, <3>3, <3>4
  <2>. QED
    BY <2>2, <2>3 DEF Covers
<1>. QED
  BY <1>6, <1>7

\* A cache that covers the next block covers the one after it.
LEMMA CoversNext ==
  ASSUME NEW c, NEW d, NEW n \in Nat, n < MaxHeight, \A j \in 1..n : c[j] = d[j],
         NEW k, Covers(c, n + 1, k)
  PROVE  Covers(d, (n + 1) + 1, k)
<1>1. k \subseteq 1..n
  BY DEF Covers
<1>2. ASSUME NEW p \in DueHeights(d, (n + 1) + 1)
      PROVE  p \in k \/ \A q \in k : q < p
  <2>1. p \in BHDIP011Height..(n + 1) /\ Full(d, p) /\ Due(d, p, (n + 1) + 1) > 0
    BY DEF DueHeights
  <2>2. CASE p = n + 1
    BY <1>1, <2>2
  <2>3. CASE p <= n
    <3>1. p \in 1..n /\ p \in 1..MaxHeight
      BY <2>1, <2>3, MortgageAssumption
    <3>2. Due(d, p, n + 1) > 0
      BY <2>1, <3>1, DueBefore
    <3>3. Due(c, p, n + 1) = Due(d, p, n + 1)
      <4>1. n + 1 \in 1..(n + 1)
        OBVIOUS
      <4>. QED
        BY <3>1, <4>1, AgreeDebt
    <3>4. Full(c, p)
      BY <2>1, <3>1 DEF Full
    <3>5. p \in DueHeights(c, n + 1)
      BY <2>1, <2>3, <3>2, <3>3, <3>4 DEF DueHeights
    <3>. QED
      BY <3>5 DEF Covers
  <2>. QED
    BY <2>1, <2>2, <2>3, MortgageAssumption
<1>. QED
  BY <1>1, <1>2 DEF Covers

-----------------------------------------------------------------------------
\* The cache as the walk of queryfullmortgageinfo leaves it after height h, from
\* what it was after height h + 1
Walked(f, h, hi) ==
  IF h = hi + 1 THEN heights
  ELSE IF IsFullMortgageBlock(h) THEN CachedAfter(f[h + 1], h)
  ELSE f[h + 1]

\* The walk down from any height to any height is defined.
LEMMA WalkExists ==
  ASSUME NEW lo \in Nat, NEW hi \in Nat, lo <= hi
  PROVE  \E f : f = [h \in lo..(hi + 1) |-> Walked(f, h, hi)]
<1>. DEFINE len == (hi + 1) - lo
            T == {m \in Nat : m <= len => \E f : \A h \in ((hi + 1) - m)..(hi + 1) : f[h] = Walked(f, h, hi)}
<1>1. 0 \in T
  <2>. DEFINE f == [h \in {hi + 1} |-> heights]
  <2>1. \A h \in ((hi + 1) - 0)..(hi + 1) : h = hi + 1
    OBVIOUS
  <2>2. f[hi + 1] = Walked(f, hi + 1, hi)
    BY DEF Walked
  <2>3. \A h \in ((hi + 1) - 0)..(hi + 1) : f[h] = Walked(f, h, hi)
    BY <2>1, <2>2
  <2>. QED
    BY <2>3
<1>2. ASSUME NEW m \in Nat, m \in T
      PROVE  m + 1 \in T
  <2>. SUFFICES ASSUME m + 1 <= len
                PROVE  \E f : \A h \in ((hi + 1) - (m + 1))..(hi + 1) : f[h] = Walked(f, h, hi)
    OBVIOUS
  <2>1. PICK f : \A h \in ((hi + 1) - m)..(hi + 1) : f[h] = Walked(f, h, hi)
    BY <1>2
  <2>. DEFINE b == (hi + 1) - (m + 1)
              g == [h \in b..(hi + 1) |-> IF h = b THEN Walked(f, b, hi) ELSE f[h]]
  <2>2. ASSUME NEW h \in b..(hi + 1)
        PROVE  g[h] = Walked(g, h, hi)
    <3>1. h # hi + 1 => g[h + 1] = f[h + 1]
      OBVIOUS
    <3>2. Walked(g, h, hi) = Walked(f, h, hi)
      BY <3>1 DEF Walked
    <3>3. CASE h = b
      BY <3>2, <3>3
    <3>4. CASE h # b
      <4>1. h \in ((hi + 1) - m)..(hi + 1)
        BY <3>4
      <4>. QED
        BY <2>1, <3>2, <3>4, <4>1
    <3>. QED
      BY <3>3, <3>4
  <2>. HIDE DEF g
  <2>. QED
    BY <2>2
<1>3. len \in Nat
  OBVIOUS
<1>. HIDE DEF T
<1>4. len \in T
  BY <1>1, <1>2, <1>3, NumberInduction
<1>5. \E f : \A h \in lo..(hi + 1) : f[h] = Walked(f, h, hi)
  BY <1>4 DEF T
<1>6. PICK f : \A h \in lo..(hi + 1) : f[h] = Walked(f, h, hi)
  BY <1>5
<1>. DEFINE g == [h \in lo..(hi + 1) |-> f[h]]
<1>7. ASSUME NEW h \in lo..(hi + 1)
      PROVE  f[h] = Walked(g, h, hi)
  <2>1. h # hi + 1 => g[h + 1] = f[h + 1]
    OBVIOUS
  <2>2. Walked(g, h, hi) = Walked(f, h, hi)
    BY <2>1 DEF Walked
  <2>. QED
    BY <1>6, <2>2
<1>8. g = [h \in lo..(hi + 1) |-> Walked(g, h, hi)]
  BY <1>7
<1>. QED
  BY <1>8

\* What every CalcAccumulatedAmount of a query keeps true of the cache, the
\* query keeps true.
LEMMA QueryClosed ==
  ASSUME NEW lo \in Nat, NEW hi \in Nat, lo <= hi, QueryFullMortgageInfo(lo, hi),
         NEW Z, heights \in Z,
         \A h \in lo..hi : \A k \in Z : CachedAfter(k, h) \in Z
  PROVE  heights' \in Z
<1>. DEFINE cache == CHOOSE f : f = [h \in lo..(hi + 1) |-> Walked(f, h, hi)]
            len == (hi + 1) - lo
            T == {m \in Nat : m <= len => cache[(hi + 1) - m] \in Z}
<1>1. cache = [h \in lo..(hi + 1) |-> Walked(cache, h, hi)]
  BY WalkExists
<1>2. heights' = cache[lo]
  BY DEF QueryFullMortgageInfo, Walked
<1>. HIDE DEF cache
<1>3. \A h \in lo..(hi + 1) : cache[h] = Walked(cache, h, hi)
  BY <1>1
<1>4. 0 \in T
  <2>1. cache[hi + 1] = heights
    BY <1>3 DEF Walked
  <2>. QED
    BY <2>1
<1>5. ASSUME NEW m \in Nat, m \in T
      PROVE  m + 1 \in T
  <2>. SUFFICES ASSUME m + 1 <= len
                PROVE  cache[(hi + 1) - (m + 1)] \in Z
    OBVIOUS
  <2>. DEFINE b == (hi + 1) - (m + 1)
  <2>1. b \in lo..hi /\ b + 1 = (hi + 1) - m /\ b # hi + 1
    OBVIOUS
  <2>2. cache[b + 1] \in Z
    BY <1>5, <2>1
  <2>. HIDE DEF b
  <2>3. b \in lo..(hi + 1)
    BY <2>1
  <2>4. cache[b] = IF IsFullMortgageBlock(b) THEN CachedAfter(cache[b + 1], b) ELSE cache[b + 1]
    BY <1>3, <2>1, <2>3 DEF Walked
  <2>5. cache[b] \in Z
    BY <2>1, <2>2, <2>4
  <2>. QED
    BY <2>5 DEF b
<1>6. len \in Nat /\ (hi + 1) - len = lo
  OBVIOUS
<1>. HIDE DEF T
<1>7. len \in T
  BY <1>4, <1>5, <1>6, NumberInduction
<1>8. cache[(hi + 1) - len] \in Z
  BY <1>6, <1>7 DEF T
<1>. HIDE DEF len
<1>. QED
  BY <1>2, <1>6, <1>8

-----------------------------------------------------------------------------
\* The amounts of the blocks and what is owed add up to no more than zero, at
\* every height.
Solvent == \A n \in 0..Tip : SumFunctionOnSet(paid, 1..n) + Debt(chain, n) <= 0

\* As long as no block was disconnected the cache covers the next block.
Cached == ~reorged => Covers(chain, Tip + 1, heights)

MInv == MTypeOK /\ Solvent /\ Cached

\* One more amount.
LEMMA PaidGrows ==
  ASSUME NEW p \in Seq(Int), NEW v \in Int
  PROVE  /\ \A n \in 0..Len(p) : /\ SumFunctionOnSet(p, 1..n) \in Int
                                 /\ SumFunctionOnSet(Append(p, v), 1..n) = SumFunctionOnSet(p, 1..n)
         /\ SumFunctionOnSet(Append(p, v), 1..(Len(p) + 1)) = v + SumFunctionOnSet(p, 1..Len(p))
<1>. DEFINE q == Append(p, v)
<1>1. /\ Len(p) \in Nat
      /\ \A i \in 1..Len(p) : p[i] \in Int /\ q[i] = p[i]
      /\ q[Len(p) + 1] = v
  BY AppendProperties, LenProperties, ElementOfSeq
<1>. HIDE DEF q
<1>2. ASSUME NEW n \in 0..Len(p)
      PROVE  /\ SumFunctionOnSet(p, 1..n) \in Int
             /\ SumFunctionOnSet(q, 1..n) = SumFunctionOnSet(p, 1..n)
  <2>. DEFINE D == 1..n
  <2>1. Finite(D)
    BY FiniteInterval
  <2>2. \A i \in D : p[i] \in Int /\ p[i] = q[i]
    BY <1>1
  <2>. HIDE DEF D
  <2>3. SumFunctionOnSet(p, D) = SumFunctionOnSet(q, D)
    BY <2>1, <2>2, SumEqual
  <2>4. SumFunctionOnSet(p, D) \in Int
    BY <2>1, <2>2, SumType
  <2>. QED
    BY <2>3, <2>4 DEF D
<1>3. \A i \in 1..(Len(p) + 1) : q[i] \in Int
  BY <1>1
<1>4. SumFunctionOnSet(q, 1..(Len(p) + 1)) = q[Len(p) + 1] + SumFunctionOnSet(q, 1..Len(p))
  BY <1>1, <1>3, SumInterval
<1>5. SumFunctionOnSet(q, 1..Len(p)) = SumFunctionOnSet(p, 1..Len(p))
  BY <1>1, <1>2
<1>6. SumFunctionOnSet(q, 1..(Len(p) + 1)) = v + SumFunctionOnSet(p, 1..Len(p))
  BY <1>1, <1>4, <1>5
<1>. QED
  BY <1>2, <1>6 DEF q

\* A block is connected: the amounts stay covered if the debt goes down by at
\* least what the block is paid.
LEMMA ConnectSolvent ==
  ASSUME MTypeOK, Solvent, Tip < MaxHeight, NEW full \in BOOLEAN, NEW v \in Int,
         chain' = Append(chain, full), paid' = Append(paid, v),
         v + Debt(Append(chain, full), Tip + 1) <= Debt(chain, Tip)
  PROVE  /\ Solvent'
         /\ chain' \in Seq(BOOLEAN) /\ Tip' = Tip + 1 /\ Tip' <= MaxHeight
         /\ paid' \in Seq(Int) /\ Len(paid') = Tip'
<1>. DEFINE d == Append(chain, full)
            n == Tip
<1>1. /\ chain \in Seq(BOOLEAN) /\ paid \in Seq(Int) /\ Len(paid) = n /\ n \in Nat /\ n <= MaxHeight
  BY LenProperties DEF MTypeOK, Tip
<1>2. /\ d \in Seq(BOOLEAN) /\ Len(d) = n + 1
      /\ \A j \in 1..n : d[j] = chain[j]
  BY <1>1, AppendProperties DEF Tip
<1>3. paid' \in Seq(Int) /\ Len(paid') = n + 1
  BY <1>1, AppendProperties
<1>4. Tip' = n + 1
  BY <1>2 DEF Tip
<1>5. ASSUME NEW m \in 0..(n + 1)
      PROVE  SumFunctionOnSet(paid', 1..m) + Debt(d, m) <= 0
  <2>1. CASE m \in 0..n
    <3>1. SumFunctionOnSet(paid', 1..m) = SumFunctionOnSet(paid, 1..m)
      BY <1>1, <2>1, PaidGrows
    <3>2. Debt(d, m) = Debt(chain, m)
      <4>1. m \in Nat /\ \A j \in 1..m : d[j] = chain[j]
        BY <1>1, <1>2, <2>1
      <4>. HIDE DEF d
      <4>. QED
        BY <4>1, AgreeDebt
    <3>3. SumFunctionOnSet(paid, 1..m) + Debt(chain, m) <= 0
      BY <2>1 DEF Solvent
    <3>. QED
      BY <3>1, <3>2, <3>3
  <2>2. CASE m = n + 1
    <3>1. SumFunctionOnSet(paid', 1..(n + 1)) = v + SumFunctionOnSet(paid, 1..n)
      BY <1>1, PaidGrows
    <3>2. SumFunctionOnSet(paid, 1..n) \in Int
      <4>1. n \in 0..Len(paid)
        BY <1>1
      <4>. QED
        BY <1>1, <4>1, PaidGrows
    <3>3. Debt(d, n + 1) \in Nat /\ Debt(chain, n) \in Nat
      <4>1. n + 1 <= MaxHeight
        BY <1>1, MortgageAssumption
      <4>. QED
        BY <1>1, <4>1, DebtType
    <3>4. SumFunctionOnSet(paid, 1..n) + Debt(chain, n) <= 0
      <4>1. n \in 0..n
        BY <1>1
      <4>. QED
        BY <4>1 DEF Solvent
    <3>5. v + Debt(d, n + 1) <= Debt(chain, n)
      OBVIOUS
    <3>. HIDE DEF d, n
    <3>. QED
      BY <2>2, <3>1, <3>2, <3>3, <3>4, <3>5
  <2>. QED
    BY <1>1, <2>1, <2>2
<1>6. Solvent'
  BY <1>4, <1>5 DEF Solvent
<1>. QED
  BY <1>1, <1>2, <1>3, <1>4, <1>6, MortgageAssumption

\* The inductive invariant: what was paid is covered and the cache is complete.
LEMMA MInvHolds == MSpec => []MInv
<1>1. MInit => MInv
  <2>. SUFFICES ASSUME MInit
                PROVE  MInv
    OBVIOUS
  <2>1. chain = << >> /\ paid = << >> /\ heights = {} /\ reorged = FALSE /\ Tip = 0
    BY EmptySeq DEF MInit, Tip
  <2>2. MTypeOK
    <3>1. chain \in Seq(BOOLEAN) /\ paid \in Seq(Int) /\ Len(paid) = 0
      BY <2>1, EmptySeq
    <3>2. Tip <= MaxHeight
      BY <2>1, MortgageAssumption
    <3>. QED
      BY <2>1, <3>1, <3>2 DEF MTypeOK
  <2>3. Solvent
    <3>1. 1..0 = {}
      OBVIOUS
    <3>2. SumFunctionOnSet(paid, {}) = 0 /\ SumFunctionOnSet(Owed(chain, 0), {}) = 0
      BY SumEmpty
    <3>3. Acc(chain, 0) = 0
      <4>1. BHDIP008Height..0 = {}
        BY MortgageAssumption
      <4>2. LowRun(chain, 0) = {}
        BY <4>1 DEF LowRun
      <4>. QED
        BY <4>2, SumEmpty DEF Acc
    <3>4. SumFunctionOnSet(paid, 1..0) + Debt(chain, 0) <= 0
      BY <3>1, <3>2, <3>3 DEF Debt
    <3>5. \A n \in 0..0 : n = 0
      OBVIOUS
    <3>. QED
      BY <2>1, <3>4, <3>5 DEF Solvent
  <2>4. Cached
    BY <2>1 DEF Cached, Covers
  <2>. QED
    BY <2>2, <2>3, <2>4 DEF MInv
<1>2. MInv /\ [MNext]_mvars => MInv'
  <2>. SUFFICES ASSUME MInv, [MNext]_mvars
                PROVE  MInv'
    OBVIOUS
  <2>0. /\ MTypeOK /\ Solvent /\ Cached
        /\ chain \in Seq(BOOLEAN) /\ Tip \in Nat /\ Tip <= MaxHeight
        /\ \A j \in 1..Tip : chain[j] \in BOOLEAN
        /\ heights \in SUBSET (BHDIP011Height..MaxHeight)
        /\ reorged \in BOOLEAN
    BY LenProperties, ElementOfSeq DEF MInv, MTypeOK, Tip
  <2>1. ASSUME Tip < MaxHeight, NEW full \in BOOLEAN, chain' = Append(chain, full),
               UNCHANGED reorged,
               heights' \in SUBSET (BHDIP011Height..MaxHeight),
               ~reorged => Covers(chain, Tip + 1, heights'),
               NEW v \in Int, paid' = Append(paid, v),
               v + Debt(Append(chain, full), Tip + 1) <= Debt(chain, Tip)
        PROVE  MInv'
    <3>1. /\ Solvent'
          /\ chain' \in Seq(BOOLEAN) /\ Tip' = Tip + 1 /\ Tip' <= MaxHeight
          /\ paid' \in Seq(Int) /\ Len(paid') = Tip'
      BY <2>0, <2>1, ConnectSolvent
    <3>2. MTypeOK'
      BY <2>0, <2>1, <3>1 DEF MTypeOK
    <3>3. ASSUME ~reorged'
          PROVE  Covers(chain', Tip' + 1, heights')
      <4>1. \A j \in 1..Tip : chain[j] = chain'[j]
        BY <2>0, <2>1, AppendProperties DEF Tip
      <4>2. Covers(chain, Tip + 1, heights')
        BY <2>1, <3>3
      <4>3. Covers(chain', (Tip + 1) + 1, heights')
        BY <2>0, <2>1, <4>1, <4>2, CoversNext
      <4>. QED
        BY <3>1, <4>3
    <3>. QED
      BY <3>1, <3>2, <3>3 DEF MInv, Cached
  <2>2. ASSUME heights' \in SUBSET (BHDIP011Height..MaxHeight),
               ~reorged => Covers(chain, Tip + 1, heights'),
               UNCHANGED <<chain, paid, reorged>>
        PROVE  MInv'
    BY <2>0, <2>2 DEF MInv, MTypeOK, Solvent, Cached, Tip
  <2>3. ASSUME NEW t \in Nat, t <= Tip + 1, NEW k \in SUBSET (BHDIP011Height..MaxHeight)
        PROVE  /\ CachedAfter(k, t) \in SUBSET (BHDIP011Height..MaxHeight)
               /\ Covers(chain, Tip + 1, k) => Covers(chain, Tip + 1, CachedAfter(k, t))
    <3>1. CachedAfter(k, t) = After(chain, k, t)
      BY ForChainScan
    <3>2. Tip + 1 \in Nat /\ Tip + 1 <= MaxHeight + 1
      BY <2>0, MortgageAssumption
    <3>. DEFINE u == Tip + 1
    <3>. HIDE DEF u
    <3>3. u \in Nat /\ t <= u /\ u <= MaxHeight + 1
      BY <2>3, <3>2 DEF u
    <3>4. /\ After(chain, k, t) \in SUBSET (BHDIP011Height..MaxHeight)
          /\ Covers(chain, u, k) => Covers(chain, u, After(chain, k, t))
      BY <3>3, AfterCovers
    <3>. QED
      BY <3>1, <3>4 DEF u
  <2>4. CASE ConnectFull
    <3>. DEFINE n == Tip
                d == Append(chain, TRUE)
    <3>1. n < MaxHeight /\ chain' = d /\ UNCHANGED reorged
      BY <2>4 DEF ConnectFull
    <3>2. n \in Nat /\ n + 1 <= MaxHeight /\ n <= MaxHeight
      BY <2>0, <3>1, MortgageAssumption
    <3>3. d[n + 1] = TRUE /\ \A j \in 1..n : d[j] = chain[j]
      BY <2>0, AppendProperties DEF Tip
    <3>. HIDE DEF d
    <3>4. /\ Debt(d, n) = Debt(chain, n)
          /\ \A f \in 1..n, t \in 1..(n + 1) : Due(d, f, t) = Due(chain, f, t)
      BY <3>2, <3>3, AgreeDebt
    <3>5. /\ Acc(d, n) = Acc(chain, n)
          /\ Share(d, n + 1) = Share(chain, n + 1)
      <4>1. n \in 0..n /\ n + 1 \in 1..(n + 1)
        BY <3>2
      <4>. QED
        BY <3>2, <3>3, <4>1, AgreeRuns
    <3>6. CASE n + 1 >= BHDIP011Height
      <4>. DEFINE l == GetLowestHeight(heights)
                  S == Scanned(n + 1, l)
                  due == [h \in S |-> CalcDistributeAmountToTargetHeight(h, n + 1)]
                  v == CalcAccumulatedAmount(n + 1)
      <4>1. paid' = Append(paid, v) /\ heights' = CachedAfter(heights, n + 1)
        BY <2>4, <3>6 DEF ConnectFull
      <4>2. v = SumFunctionOnSet(due, S) + Share(chain, n + 1)
        <5>1. DOMAIN due = S
          OBVIOUS
        <5>2. GetBlockAccumulateSubsidy((n + 1) - 1) \div CalcNumOfDistributions(n + 1) = Share(chain, n + 1)
          BY ForChain DEF Share
        <5>. QED
          BY <5>1, <5>2 DEF CalcAccumulatedAmount, AccumulatedAmount, SumFunction
      <4>3. \A h \in S : due[h] = Due(chain, h, n + 1)
        BY ForChain
      <4>4. \A h \in S : h \in 1..n /\ h >= BHDIP011Height /\ Full(d, h)
        <5>. SUFFICES ASSUME NEW h \in S
                      PROVE  h \in 1..n /\ h >= BHDIP011Height /\ Full(d, h)
          OBVIOUS
        <5>1. h \in Scan(chain, n + 1, l)
          BY ForChainScan
        <5>2. h \in Int
          BY <5>1 DEF Scan
        <5>3. h \in BHDIP011Height..((n + 1) - 1) /\ Full(chain, h)
          BY <2>0, <3>2, <5>1, <5>2, ScanIs
        <5>4. h \in 1..n /\ h >= BHDIP011Height
          BY <3>2, <5>2, <5>3, MortgageAssumption
        <5>. QED
          BY <3>3, <5>3, <5>4 DEF Full
      <4>. HIDE DEF l, S, due, v
      <4>5. \A h \in S : due[h] = Due(d, h, n + 1)
        <5>1. n + 1 \in 1..(n + 1)
          BY <3>2
        <5>. QED
          BY <3>4, <4>3, <4>4, <5>1
      <4>6. S \in SUBSET {h \in 1..n : h >= BHDIP011Height /\ Full(d, h)}
        BY <4>4
      <4>7. /\ SumFunctionOnSet(due, S) \in Int
            /\ Debt(d, n + 1) + SumFunctionOnSet(due, S) + Share(d, n + 1) <= Debt(d, n)
        BY <3>2, <3>3, <3>6, <4>5, <4>6, DebtFull
      <4>8. Debt(d, n + 1) \in Nat /\ Debt(chain, n) \in Nat /\ Share(chain, n + 1) \in Nat
        <5>1. n + 1 \in 1..MaxHeight
          BY <3>2, MortgageAssumption
        <5>. QED
          BY <3>2, <5>1, DebtType, ShareType
      <4>9. v \in Int /\ v + Debt(d, n + 1) <= Debt(chain, n)
        BY <3>4, <3>5, <4>2, <4>7, <4>8
      <4>10. /\ heights' \in SUBSET (BHDIP011Height..MaxHeight)
             /\ ~reorged => Covers(chain, n + 1, heights')
        <5>1. n + 1 \in Nat /\ n + 1 <= n + 1
          BY <3>2
        <5>. QED
          BY <2>0, <2>3, <4>1, <5>1 DEF Cached
      <4>. QED
        BY <2>1, <3>1, <4>1, <4>9, <4>10 DEF d
    <3>7. CASE n + 1 < BHDIP011Height
      <4>. DEFINE v == IF n + 1 >= BHDIP008Height THEN Acc(chain, n) ELSE 0
      <4>1. GetBlockAccumulateSubsidy(n) = Acc(chain, n)
        BY ForChain
      <4>2. ~(n + 1 >= BHDIP011Height)
        BY <3>2, <3>7, MortgageAssumption
      <4>3. paid' = Append(paid, v) /\ heights' = heights
        BY <2>4, <4>1, <4>2 DEF ConnectFull
      <4>4. Acc(chain, n) \in Nat /\ Debt(chain, n) \in Nat
        BY <3>2, AccType, DebtType
      <4>5. Debt(d, n + 1) = Debt(d, n) - Acc(d, n)
        BY <3>2, <3>3, <3>7, DebtOld
      <4>6. v \in Int /\ v <= Acc(chain, n)
        BY <4>4
      <4>. HIDE DEF v
      <4>7. v + Debt(d, n + 1) <= Debt(chain, n)
        BY <3>4, <3>5, <4>4, <4>5, <4>6
      <4>. QED
        BY <2>0, <2>1, <3>1, <4>3, <4>6, <4>7 DEF d, Cached
    <3>. QED
      BY <3>2, <3>6, <3>7, MortgageAssumption
  <2>5. CASE ConnectLow
    <3>. DEFINE n == Tip
                d == Append(chain, FALSE)
                v == IF n + 1 >= BHDIP008Height THEN -TakeOff[n + 1] ELSE 0
    <3>1. n < MaxHeight /\ chain' = d /\ paid' = Append(paid, v) /\ UNCHANGED <<heights, reorged>>
      BY <2>5 DEF ConnectLow
    <3>2. n \in Nat /\ n + 1 <= MaxHeight /\ n <= MaxHeight
      BY <2>0, <3>1, MortgageAssumption
    <3>3. d[n + 1] = FALSE /\ \A j \in 1..n : d[j] = chain[j]
      BY <2>0, AppendProperties DEF Tip
    <3>. HIDE DEF d
    <3>4. Debt(d, n) = Debt(chain, n)
      BY <3>2, <3>3, AgreeDebt
    <3>5. Debt(d, n + 1) = Debt(d, n) + (IF n + 1 >= BHDIP008Height THEN TakeOff[n + 1] ELSE 0)
      BY <3>2, <3>3, DebtLow
    <3>6. TakeOff[n + 1] \in Nat
      BY <3>2, MortgageAssumption
    <3>7. Debt(chain, n) \in Nat
      BY <3>2, DebtType
    <3>8. v \in Int /\ v + Debt(d, n + 1) <= Debt(chain, n)
      <4>1. CASE n + 1 >= BHDIP008Height
        BY <3>4, <3>5, <3>6, <3>7, <4>1
      <4>2. CASE ~(n + 1 >= BHDIP008Height)
        BY <3>4, <3>5, <3>7, <4>2
      <4>. QED
        BY <4>1, <4>2
    <3>. HIDE DEF v
    <3>. QED
      BY <2>0, <2>1, <3>1, <3>8 DEF d, Cached
  <2>6. CASE ComputeReward
    <3>1. heights' = CachedAfter(heights, Tip + 1) /\ UNCHANGED <<chain, paid, reorged>>
      BY <2>6 DEF ComputeReward
    <3>2. Tip + 1 \in Nat /\ Tip + 1 <= Tip + 1
      BY <2>0
    <3>3. /\ heights' \in SUBSET (BHDIP011Height..MaxHeight)
          /\ ~reorged => Covers(chain, Tip + 1, heights')
      BY <2>0, <2>3, <3>1, <3>2 DEF Cached
    <3>. QED
      BY <2>2, <3>1, <3>3
  <2>7. CASE \E lo, hi \in BHDIP009Height..Tip : lo <= hi /\ QueryFullMortgageInfo(lo, hi)
    <3>1. PICK lo \in BHDIP009Height..Tip, hi \in BHDIP009Height..Tip : lo <= hi /\ QueryFullMortgageInfo(lo, hi)
      BY <2>7
    <3>2. lo \in Nat /\ hi \in Nat /\ hi <= Tip
      BY <2>0, MortgageAssumption
    <3>. DEFINE Z == {k \in SUBSET (BHDIP011Height..MaxHeight) : ~reorged => Covers(chain, Tip + 1, k)}
    <3>3. heights \in Z
      BY <2>0 DEF Cached
    <3>4. ASSUME NEW h \in lo..hi, NEW k \in Z
          PROVE  CachedAfter(k, h) \in Z
      <4>1. h \in Nat /\ h <= Tip + 1
        BY <2>0, <3>2
      <4>. QED
        BY <2>3, <4>1
    <3>. HIDE DEF Z
    <3>5. heights' \in Z
      BY <3>1, <3>2, <3>3, <3>4, QueryClosed
    <3>6. UNCHANGED <<chain, paid, reorged>>
      BY <3>1 DEF QueryFullMortgageInfo
    <3>. QED
      BY <2>2, <3>5, <3>6 DEF Z
  <2>8. CASE Disconnect
    <3>. DEFINE n == Tip - 1
    <3>1. /\ Tip > 0 /\ chain' = SubSeq(chain, 1, n) /\ paid' = SubSeq(paid, 1, n)
          /\ reorged' = TRUE /\ heights' = heights
      BY <2>8 DEF Disconnect
    <3>2. n \in Nat /\ n < Tip
      BY <2>0, <3>1
    <3>3. paid \in Seq(Int) /\ Len(paid) = Tip /\ \A j \in 1..Tip : paid[j] \in Int
      BY ElementOfSeq DEF MInv, MTypeOK
    <3>4. /\ chain' \in Seq(BOOLEAN) /\ Len(chain') = n
          /\ \A j \in 1..n : chain'[j] = chain[j]
      BY <2>0, <3>1, <3>2, SubSeqProperties
    <3>5. /\ paid' \in Seq(Int) /\ Len(paid') = n
          /\ \A j \in 1..n : paid'[j] = paid[j]
      BY <3>1, <3>2, <3>3, SubSeqProperties
    <3>6. Tip' = n
      BY <3>4 DEF Tip
    <3>. HIDE DEF n
    <3>7. ASSUME NEW m \in 0..n
          PROVE  SumFunctionOnSet(paid', 1..m) + Debt(chain', m) <= 0
      <4>1. Debt(chain', m) = Debt(chain, m)
        <5>1. m \in Nat /\ \A j \in 1..m : chain'[j] = chain[j]
          BY <3>2, <3>4
        <5>. QED
          BY <5>1, AgreeDebt
      <4>2. SumFunctionOnSet(paid', 1..m) = SumFunctionOnSet(paid, 1..m)
        <5>. DEFINE D == 1..m
        <5>1. Finite(D)
          BY FiniteInterval
        <5>2. \A j \in D : paid'[j] \in Int /\ paid'[j] = paid[j]
          BY <2>0, <3>2, <3>3, <3>5
        <5>. HIDE DEF D
        <5>3. SumFunctionOnSet(paid', D) = SumFunctionOnSet(paid, D)
          BY <5>1, <5>2, SumEqual
        <5>. QED
          BY <5>3 DEF D
      <4>3. m \in 0..Tip
        BY <2>0, <3>2
      <4>. QED
        BY <2>0, <4>1, <4>2, <4>3 DEF Solvent
    <3>8. Solvent'
      BY <3>6, <3>7 DEF Solvent
    <3>9. MTypeOK'
      BY <2>0, <3>1, <3>2, <3>4, <3>5, <3>6, MortgageAssumption DEF MTypeOK
    <3>. QED
      BY <3>1, <3>8, <3>9 DEF MInv, Cached
  <2>9. CASE UNCHANGED mvars
    BY <2>0, <2>9 DEF MInv, MTypeOK, Solvent, Cached, Tip, mvars
  <2>. QED
    BY <2>4, <2>5, <2>6, <2>7, <2>8, <2>9 DEF MNext
<1>. QED
  BY <1>1, <1>2, PTL DEF MSpec

\* What ConnectBlock takes off low mortgage blocks and pays to full mortgage
\* blocks never adds up to more than zero on any prefix of the chain, for every
\* schedule of the three upgrades, every number of shares and every amount
\* taken off.
THEOREM NeverOverpaidTheorem == MSpec => []NeverOverpaid
<1>1. MInv => NeverOverpaid
  <2>. SUFFICES ASSUME MInv, NEW n \in 1..Tip
                PROVE  SumFunctionOnSet(paid, 1..n) <= 0
    BY DEF NeverOverpaid
  <2>1. /\ paid \in Seq(Int) /\ Len(paid) = Tip /\ Tip \in Nat /\ Tip <= MaxHeight
        /\ Solvent
    BY LenProperties DEF MInv, MTypeOK, Tip
  <2>2. n \in Nat /\ n <= MaxHeight /\ n \in 0..Tip /\ n \in 0..Len(paid)
    BY <2>1, MortgageAssumption
  <2>3. SumFunctionOnSet(paid, 1..n) + Debt(chain, n) <= 0
    BY <2>1, <2>2 DEF Solvent
  <2>4. SumFunctionOnSet(paid, 1..n) \in Int
    BY <2>1, <2>2, PaidGrows
  <2>5. Debt(chain, n) \in Nat
    BY <2>2, DebtType
  <2>. QED
    BY <2>3, <2>4, <2>5
<1>. QED
  BY <1>1, MInvHolds, PTL

\* As long as no block is disconnected, the early end of the scan at the lowest
\* height of IndexRangeControl changes no reward, whatever templates, RPC calls
\* and failed blocks wrote to it.
THEOREM RewardUntilReorgTheorem == MSpec => []RewardUntilReorg
<1>1. MInv => RewardUntilReorg
  <2>. SUFFICES ASSUME MInv, ~reorged
                PROVE  CalcAccumulatedAmount(Tip + 1) = AccumulatedAmount(Tip + 1, 0)
    BY DEF RewardUntilReorg, RewardIsFunctionOfChain
  <2>. DEFINE t == Tip + 1
              l == GetLowestHeight(heights)
              A == Scanned(t, l)
              D == Scanned(t, 0)
              f == [h \in A |-> CalcDistributeAmountToTargetHeight(h, t)]
              g == [h \in D |-> CalcDistributeAmountToTargetHeight(h, t)]
  <2>1. /\ Tip \in Nat /\ Tip <= MaxHeight /\ heights \in SUBSET (BHDIP011Height..MaxHeight)
        /\ Covers(chain, t, heights)
    BY LenProperties DEF MInv, MTypeOK, Tip, Cached
  <2>2. GetLowestHeight({}) = 0 /\ {} \in SUBSET (BHDIP011Height..MaxHeight)
    BY DEF GetLowestHeight
  <2>3. \A h \in A : h \in Int
    BY DEF Scanned
  <2>4. \A h \in D : h \in Int
    BY DEF Scanned
  <2>5. \A h \in Int : h \in D <=> h \in BHDIP011Height..(t - 1) /\ Full(chain, h)
    <3>1. t \in Int
      BY <2>1
    <3>2. D = Scan(chain, t, GetLowestHeight({}))
      BY <2>2, ForChainScan
    <3>. HIDE DEF t, D
    <3>3. \A h \in Int : h \in Scan(chain, t, GetLowestHeight({})) <=>
            h \in BHDIP011Height..(t - 1) /\ Full(chain, h)
      BY <2>2, <3>1, ScanIs
    <3>. QED
      BY <3>2, <3>3
  <2>6. \A h \in Int : h \in A <=> /\ h \in BHDIP011Height..(t - 1) /\ Full(chain, h)
                                   /\ heights = {} \/ \E q \in heights : q <= h
    <3>1. t \in Int
      BY <2>1
    <3>2. A = Scan(chain, t, GetLowestHeight(heights))
      BY ForChainScan
    <3>. HIDE DEF t, A
    <3>. QED
      BY <2>1, <3>1, <3>2, ScanIs
  <2>7. \A h : CalcDistributeAmountToTargetHeight(h, t) = Due(chain, h, t)
    BY ForChain
  <2>8. (\A h \in A : f[h] = Due(chain, h, t)) /\ \A h \in D : g[h] = Due(chain, h, t)
    BY <2>7
  <2>9. DOMAIN f = A /\ DOMAIN g = D
    OBVIOUS
  <2>10. t \in Int /\ t - 1 = Tip
    BY <2>1
  <2>12. SumFunctionOnSet(f, A) = SumFunctionOnSet(g, D) => CalcAccumulatedAmount(t) = AccumulatedAmount(t, 0)
    BY <2>9 DEF CalcAccumulatedAmount, AccumulatedAmount, SumFunction
  <2>. HIDE DEF t, l, A, D, f, g
  <2>13. A \in SUBSET D
    BY <2>3, <2>5, <2>6
  <2>14. Finite(D) /\ Finite(A)
    <3>1. Finite(BHDIP011Height..(t - 1))
      <4>1. BHDIP011Height \in Int /\ t - 1 \in Int
        BY <2>10, MortgageAssumption
      <4>. QED
        BY <4>1, FiniteInterval
    <3>2. D \subseteq BHDIP011Height..(t - 1)
      BY <2>4, <2>5
    <3>. QED
      BY <2>13, <3>1, <3>2, FiniteSubset
  <2>15. \A h \in D : g[h] \in Nat
    <3>. SUFFICES ASSUME NEW h \in D
                  PROVE  g[h] \in Nat
      OBVIOUS
    <3>1. h \in 1..MaxHeight
      BY <2>1, <2>4, <2>5, <2>10, MortgageAssumption
    <3>2. Due(chain, h, t) \in Nat
      BY <3>1, ShareType DEF Due
    <3>. QED
      BY <2>8, <3>2
  <2>16. ASSUME NEW h \in D \ A
         PROVE  g[h] = 0
    <3>1. h \in BHDIP011Height..(t - 1) /\ Full(chain, h) /\ heights # {} /\ ~\E q \in heights : q <= h
      BY <2>4, <2>5, <2>6
    <3>2. ~(Due(chain, h, t) > 0)
      <4>. SUFFICES ASSUME Due(chain, h, t) > 0
                    PROVE  FALSE
        OBVIOUS
      <4>1. h \in DueHeights(chain, t)
        BY <3>1 DEF DueHeights
      <4>2. h \in heights \/ \A q \in heights : q < h
        BY <2>1, <4>1 DEF Covers
      <4>3. h \in Int
        BY <2>4
      <4>4. \A q \in heights : q \in Int
        BY <2>1, MortgageAssumption
      <4>5. PICK q \in heights : TRUE
        BY <3>1
      <4>6. h \in heights => h <= h
        BY <4>3
      <4>7. q < h => q <= h
        BY <4>3, <4>4
      <4>. QED
        BY <3>1, <4>2, <4>6, <4>7
    <3>. QED
      BY <2>8, <2>15, <3>2
  <2>17. SumFunctionOnSet(f, A) = SumFunctionOnSet(g, A)
    <3>1. \A h \in A : f[h] \in Int /\ f[h] = g[h]
      BY <2>8, <2>13, <2>15
    <3>. QED
      BY <2>14, <3>1, SumEqual
  <2>18. SumFunctionOnSet(g, A) = SumFunctionOnSet(g, D)
    <3>1. \A h \in D : g[h] \in Int
      BY <2>15
    <3>. QED
      BY <2>13, <2>14, <2>16, <3>1, SumZeros
  <2>. QED
    BY <2>12, <2>17, <2>18 DEF t
<1>. QED
  BY <1>1, MInvHolds, PTL
=============================================================================
