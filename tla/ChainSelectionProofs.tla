------------------------ MODULE ChainSelectionProofs ------------------------
(***************************************************************************)
(* Theorems about ChainSelection, for every block tree, every work and     *)
(* every set of invalid blocks.                                            *)
(***************************************************************************)
EXTENDS ChainSelection, Lemmas

\* The provers every step below is tried with, unless it names one.
USE SMT, Zenon, SMTT(20), ZenonT(40), SMTT(40)

-----------------------------------------------------------------------------
(* What holds whatever the operator of the node asks for.                   *)

\* I is finite: of the blocks of any part of it one is rated highest, whatever
\* they are rated by.
Tops(I) == \A S \in SUBSET I : S # {} =>
             \A f \in [Blk -> Int] : \E c \in S : \A e \in S : f[e] <= f[c]

\* The entries of the index came one by one; where a block is whose data was
\* received
Placed ==
  /\ Genesis \in linked /\ Closed(index) /\ Tops(index) /\ Closed(linked)
  /\ data = linked \cup queue \cup unlinked \cup forgotten
  /\ linked \cap (queue \cup unlinked \cup forgotten) = {}
  /\ forgotten \cap (queue \cup unlinked) = {}
  /\ \A b \in queue : Parent[b] \in linked
  /\ \A b \in unlinked : Parent[b] \notin linked
  /\ data \cap Malformed = {}
  /\ pc = "locked" => queue = {}

\* nSequenceId is positive only in linked blocks
Ranked ==
  /\ \A b \in Blk \ linked : seq[b] <= 0
  /\ nextSeq >= 1
  /\ reverseSeq <= -1

\* The chain, and what ActivateBestChain goes to or came from, is not invalid
ChainSound ==
  /\ Closed(scripts) /\ scripts \cap Rejected = {}
  /\ tip \in scripts /\ Sound(tip)
  /\ candidates \subseteq linked
  /\ failedBlocks \subseteq failedValid
  /\ pc = "locked" => startingTip \in scripts /\ Sound(startingTip)
  /\ pc # "locked" => startingTip = None
  /\ pc \in {"idle", "invalidate"} => mostWork = None
  /\ mostWork # None => Sound(mostWork)

\* The block InvalidateBlock works on, and the one the forging thread does
LocalsOf ==
  /\ pc = "invalidate" => /\ inv.block \in index \ {Genesis}
                          /\ inv.toMark \in index \ {Genesis}
                          /\ inv.block \in Anc[inv.toMark]
  /\ snatch.step = "idle" => snatch = NoSnatch
  /\ snatch.step # "idle" => snatch.block \in scripts \cap Snatchable

Inv == TypeOK /\ Placed /\ Ranked /\ ChainSound /\ LocalsOf

-----------------------------------------------------------------------------
(* What holds as long as nobody calls reconsiderblock or preciousblock, nor *)
(* invalidateblock on a node whose forging thread replaces the tip.         *)
OrdinaryUse == Reconsidered = {} /\ Precious = {} /\ (Invalidable = {} \/ Snatchable = {})

\* CBlockIndexWorkComparator by the sequence numbers q and the addresses d
Below(a, b, q, d) ==
  \/ Work[a] < Work[b]
  \/ Work[a] = Work[b] /\ q[a] > q[b]
  \/ Work[a] = Work[b] /\ q[a] = q[b] /\ d[a] > d[b]

\* A block with a failure flag has an invalid ancestor
Caused == \A b \in Failed : ~Sound(b)

\* The blocks that were valid once and are flagged are the ones the forging
\* thread has invalidated and will reset
OwnFailures ==
  /\ Snatchable = {} => snatch = NoSnatch
  /\ Invalidable = {} =>
       /\ pc = "invalidate" => snatch.step = "invalidate" /\ inv.block = snatch.block
       /\ \A b \in failedValid \cap scripts :
            snatch.step \in {"invalidate", "reset"} /\ snatch.block \in Anc[b]

\* The tip that the candidates are measured against
Standard == IF pc = "locked" THEN startingTip ELSE tip

\* The candidates are the usable blocks that are as good as the tip, and maybe
\* failed ones that are
Complete ==
  /\ \A b \in candidates : ~Below(b, Standard, seq, address)
  /\ pc # "invalidate" => \A b \in linked \ Failed :
                            ~Below(b, Standard, seq, address) => b \in candidates
  /\ pc = "invalidate" => tip \in candidates
  /\ pc = "locked" => ~Below(startingTip, tip, seq, address)

\* No block that could be the tip is better than t
BestOf(t) == \A b \in linked : Anc[b] \cap Failed = {} => ~Below(t, b, seq, address)

Chosen ==
  /\ queue # {} => pending
  /\ mostWork # None => /\ tip \in Anc[mostWork] /\ tip # mostWork
                        /\ pending \/ BestOf(mostWork)
                        /\ pc = "locked" => ~Below(mostWork, startingTip, seq, address)
  /\ pc = "idle" /\ ~pending /\ snatch.step # "reset" => BestOf(tip)

OInv == Caused /\ OwnFailures /\ Complete /\ Chosen

-----------------------------------------------------------------------------
(* Trees, chains and the order of the candidates.                            *)

\* The facts about the constants that the proofs below use.
LEMMA ConstantTypes ==
  /\ None \notin Blk
  /\ \A b \in Blk : Work[b] \in Nat
  /\ \A adr \in Addresses : /\ \A b \in Blk : adr[b] \in Nat
                            /\ \A b, c \in Blk : adr[b] = adr[c] => b = c
BY TreeAssumption

\* CBlockIndexWorkComparator is a strict total order.
LEMMA BelowOrder ==
  ASSUME NEW q \in [Blk -> Int], NEW d \in Addresses
  PROVE  /\ \A a \in Blk : ~Below(a, a, q, d)
         /\ \A a, b \in Blk : a # b => Below(a, b, q, d) \/ Below(b, a, q, d)
         /\ \A a, b \in Blk : Below(a, b, q, d) => ~Below(b, a, q, d)
<1>1. /\ \A b \in Blk : Work[b] \in Int /\ q[b] \in Int /\ d[b] \in Int
      /\ \A b, c \in Blk : d[b] = d[c] => b = c
  BY ConstantTypes
<1>. QED
  BY <1>1 DEF Below

\* A block that is not worse than one that is not worse than a third.
LEMMA NotBelowTransitive ==
  ASSUME NEW q \in [Blk -> Int], NEW d \in Addresses,
         NEW a \in Blk, NEW b \in Blk, NEW c \in Blk,
         ~Below(a, b, q, d), ~Below(b, c, q, d)
  PROVE  ~Below(a, c, q, d)
<1>1. /\ Work[a] \in Int /\ q[a] \in Int /\ d[a] \in Int
      /\ Work[b] \in Int /\ q[b] \in Int /\ d[b] \in Int
      /\ Work[c] \in Int /\ q[c] \in Int /\ d[c] \in Int
  BY ConstantTypes
<1>. QED
  BY <1>1 DEF Below

\* Work grows along a chain.
LEMMA WorkGrows == \A b \in Blk : \A a \in Anc[b] : a = b \/ Work[a] < Work[b]
<1>. DEFINE S == {b \in Blk : \A a \in Anc[b] : a = b \/ Work[a] < Work[b]}
<1>1. Genesis \in S
  BY AncGenesis, TreeTypes
<1>2. ASSUME NEW b \in Blk \ {Genesis}, Parent[b] \in S PROVE b \in S
  <2>1. Anc[b] = {b} \cup Anc[Parent[b]] /\ Parent[b] \in Blk
    BY AncStep, TreeTypes
  <2>2. Work[Parent[b]] < Work[b]
    BY TreeAssumption
  <2>3. ASSUME NEW a \in Anc[Parent[b]] PROVE Work[a] < Work[b]
    <3>1. a \in Blk /\ (a = Parent[b] \/ Work[a] < Work[Parent[b]])
      BY <1>2, <2>1, TreeTypes
    <3>2. Work[a] \in Int /\ Work[b] \in Int /\ Work[Parent[b]] \in Int
      BY <2>1, <3>1, ConstantTypes
    <3>. QED
      BY <2>2, <3>1, <3>2
  <2>. QED
    BY <2>1, <2>3
<1>3. S = Blk
  <2>. HIDE DEF S
  <2>1. S \in SUBSET Blk
    BY DEF S
  <2>. QED
    BY <1>1, <1>2, <2>1, BlockTreeAssumption
<1>. QED
  BY <1>3

\* An ancestor is worse than the block, and not better.
LEMMA AncestorBelow ==
  ASSUME NEW q \in [Blk -> Int], NEW d \in Addresses, NEW b \in Blk, NEW a \in Anc[b]
  PROVE  /\ ~Below(b, a, q, d)
         /\ a # b => Below(a, b, q, d)
<1>1. a \in Blk /\ (a = b \/ Work[a] < Work[b])
  BY WorkGrows, TreeTypes
<1>2. Work[a] \in Int /\ Work[b] \in Int /\ q[a] \in Int /\ q[b] \in Int
      /\ d[a] \in Int /\ d[b] \in Int
  BY <1>1, ConstantTypes
<1>. QED
  BY <1>1, <1>2 DEF Below

\* The genesis block alone is finite.
LEMMA TopsOfOne == Tops({Genesis})
BY TreeTypes DEF Tops

\* A finite set of blocks stays finite when one comes in.
LEMMA TopsGrow ==
  ASSUME NEW I \in SUBSET Blk, Tops(I), NEW b \in Blk
  PROVE  Tops(I \cup {b})
<1>1. SUFFICES ASSUME NEW S \in SUBSET (I \cup {b}), S # {}, NEW f \in [Blk -> Int]
               PROVE  \E c \in S : \A e \in S : f[e] <= f[c]
  BY DEF Tops
<1>. DEFINE T == S \ {b}
<1>2. \A e \in S : f[e] \in Int
  OBVIOUS
<1>3. CASE T = {}
  BY <1>1, <1>2, <1>3
<1>4. CASE T # {}
  <2>1. PICK c \in T : \A e \in T : f[e] <= f[c]
    BY <1>4 DEF Tops
  <2>2. CASE b \in S /\ f[c] <= f[b]
    BY <1>2, <2>1, <2>2
  <2>3. CASE ~(b \in S /\ f[c] <= f[b])
    BY <1>2, <2>1, <2>3
  <2>. QED
    BY <2>2, <2>3
<1>. QED
  BY <1>3, <1>4

\* The last element of setBlockIndexCandidates exists unless the set is empty.
LEMMA LastExists ==
  ASSUME NEW q \in [Blk -> Int], NEW d \in Addresses, NEW I \in SUBSET Blk, Tops(I),
         NEW S \in SUBSET I, S # {}
  PROVE  \E c \in S : \A e \in S : e # c => Below(e, c, q, d)
<1>1. /\ \A b \in S : Work[b] \in Int /\ q[b] \in Int /\ d[b] \in Int
      /\ \A b, c \in S : d[b] = d[c] => b = c
  BY ConstantTypes
<1>2. PICK x \in S : \A b \in S : Work[b] <= Work[x]
  <2>1. Work \in [Blk -> Int]
    BY TreeAssumption
  <2>. QED
    BY <2>1 DEF Tops
<1>. DEFINE S2 == {b \in S : Work[b] = Work[x]}
<1>3. PICK y \in S2 : \A b \in S2 : q[y] <= q[b]
  <2>. DEFINE f == [b \in Blk |-> -q[b]]
  <2>1. f \in [Blk -> Int] /\ S2 \in SUBSET I /\ S2 # {}
    BY <1>2
  <2>2. PICK y \in S2 : \A b \in S2 : f[b] <= f[y]
    <3>. HIDE DEF f, S2
    <3>. QED
      BY <2>1 DEF Tops
  <2>3. \A b \in S2 : f[b] = -q[b] /\ q[b] \in Int
    BY <1>1
  <2>. HIDE DEF f, S2
  <2>. QED
    BY <2>2, <2>3
<1>. DEFINE S3 == {b \in S2 : q[b] = q[y]}
<1>4. PICK c \in S3 : \A b \in S3 : d[c] <= d[b]
  <2>. DEFINE f == [b \in Blk |-> -d[b]]
  <2>1. f \in [Blk -> Int] /\ S3 \in SUBSET I /\ S3 # {}
    BY <1>3, ConstantTypes
  <2>2. PICK c \in S3 : \A b \in S3 : f[b] <= f[c]
    <3>. HIDE DEF f, S3
    <3>. QED
      BY <2>1 DEF Tops
  <2>3. \A b \in S3 : f[b] = -d[b] /\ d[b] \in Int
    BY <1>1
  <2>. HIDE DEF f, S3
  <2>. QED
    BY <2>2, <2>3
<1>5. ASSUME NEW e \in S, e # c PROVE Below(e, c, q, d)
  <2>1. c \in S /\ Work[c] = Work[x] /\ q[c] = q[y] /\ Work[e] <= Work[c] /\ d[e] # d[c]
    BY <1>1, <1>2, <1>3, <1>4, <1>5
  <2>2. Work[e] = Work[c] => q[c] <= q[e]
    BY <1>3, <2>1
  <2>3. Work[e] = Work[c] /\ q[e] = q[c] => d[c] <= d[e]
    BY <1>4, <2>1
  <2>4. Work[e] \in Int /\ Work[c] \in Int /\ q[e] \in Int /\ q[c] \in Int
        /\ d[e] \in Int /\ d[c] \in Int
    BY <1>1, <2>1
  <2>. QED
    BY <2>1, <2>2, <2>3, <2>4 DEF Below
<1>. QED
  BY <1>4, <1>5

\* The blocks of a chain up to some block: what pprev does not leave and holds
\* the genesis block.
LEMMA ClosedInChain ==
  \A m \in Blk : \A S \in SUBSET Anc[m] :
    Genesis \in S /\ Closed(S) => \E x \in S : S = Anc[x]
<1>. DEFINE P == {m \in Blk : \A S \in SUBSET Anc[m] :
                     Genesis \in S /\ Closed(S) => \E x \in S : S = Anc[x]}
<1>1. Genesis \in P
  BY AncGenesis, TreeTypes
<1>2. ASSUME NEW m \in Blk \ {Genesis}, Parent[m] \in P PROVE m \in P
  <2>1. SUFFICES ASSUME NEW S \in SUBSET Anc[m], Genesis \in S, Closed(S)
                 PROVE  \E x \in S : S = Anc[x]
    OBVIOUS
  <2>2. CASE m \in S
    <3>1. S \in SUBSET Blk
      BY TreeTypes
    <3>2. Anc[m] \subseteq S
      BY <2>1, <2>2, <3>1, AncLeast
    <3>. QED
      BY <2>2, <3>2
  <2>3. CASE m \notin S
    <3>1. S \in SUBSET Anc[Parent[m]]
      BY <2>3, AncStep
    <3>. QED
      BY <1>2, <2>1, <3>1
  <2>. QED
    BY <2>2, <2>3
<1>3. P = Blk
  <2>. HIDE DEF P
  <2>1. P \in SUBSET Blk
    BY DEF P
  <2>. QED
    BY <1>1, <1>2, <2>1, BlockTreeAssumption
<1>. QED
  BY <1>3

\* What is between an ancestor and a block descends from the ancestor.
LEMMA Between ==
  ASSUME NEW b \in Blk, NEW f \in Anc[b], NEW x \in Anc[b], x \notin Anc[f]
  PROVE  f \in Anc[x]
BY AncLinear

-----------------------------------------------------------------------------
(* The general invariant, action by action.                                 *)
USE DEF received, flags, rank, activation, Failed, Chain, Sound

\* A node with the genesis block only satisfies the general invariant.
LEMMA InvInit == Init => Inv
<1>. SUFFICES ASSUME Init PROVE Inv
  OBVIOUS
<1>0. Genesis \in Blk /\ Genesis \notin Malformed \cup Rejected \cup Snatchable
  BY TreeTypes, TreeAssumption
<1>1. TypeOK
  <2>1. inv \in [block : index \cup {None}, toMark : index \cup {None}, byWork : SUBSET linked]
    BY DEF Init, NoInv
  <2>2. snatch \in [block : index \cup {None}, step : {"idle", "picked", "invalidate", "reset"}]
    BY DEF Init, NoSnatch
  <2>3. seq \in [Blk -> Int]
    BY DEF Init
  <2>4. pending \in BOOLEAN
    BY Zenon DEF Init
  <2>. QED
    BY <1>0, <2>1, <2>2, <2>3, <2>4 DEF Init, TypeOK
<1>2. Placed
  BY <1>0, TopsOfOne DEF Init, Placed, Closed
<1>3. Ranked
  BY <1>0 DEF Init, Ranked
<1>4. ChainSound
  BY <1>0 DEF Init, ChainSound, Closed
<1>5. LocalsOf
  BY DEF Init, LocalsOf, NoSnatch
<1>. QED
  BY <1>1, <1>2, <1>3, <1>4, <1>5 DEF Inv

\* A header that descends from a failed block (AcceptBlockHeader) only adds flags.
LEMMA RejectHeaderInv ==
  ASSUME Inv, NEW b \in Blk \ {Genesis}, RejectHeader(b)
  PROVE  Inv'
<1>1. index \subseteq Blk /\ Parent[b] \in index /\ Closed(index)
  BY DEF Inv, TypeOK, Placed, RejectHeader
<1>2. Anc[Parent[b]] \subseteq index
  BY <1>1, AncLeast
<1>3. TypeOK'
  BY <1>2 DEF Inv, TypeOK, RejectHeader
<1>4. Placed' /\ Ranked' /\ ChainSound' /\ LocalsOf'
  BY DEF Inv, Placed, Ranked, ChainSound, LocalsOf, RejectHeader
<1>. QED
  BY <1>3, <1>4 DEF Inv

\* A header joins the index on top of a block that is there.
LEMMA IndexGrows ==
  ASSUME Inv, NEW b \in Blk \ {Genesis}, HeaderAccepted(b)
  PROVE  index \cup {b} \subseteq Blk /\ Closed(index \cup {b}) /\ Tops(index \cup {b})
<1>1. index \in SUBSET Blk /\ Tops(index) /\ Closed(index) /\ (b \in index \/ Parent[b] \in index)
  BY DEF Inv, TypeOK, Placed, HeaderAccepted
<1>2. Tops(index \cup {b})
  BY <1>1, TopsGrow
<1>. QED
  BY <1>1, <1>2 DEF Closed

\* A header that is accepted (AcceptBlockHeader) has its parent in the index.
LEMMA AcceptHeaderInv ==
  ASSUME Inv, NEW b \in Blk \ {Genesis}, AcceptHeader(b)
  PROVE  Inv'
<1>1. index' = index \cup {b} /\ index' \subseteq Blk /\ Closed(index') /\ Tops(index')
  BY IndexGrows DEF AcceptHeader
<1>2. TypeOK'
  BY <1>1, Zenon DEF Inv, TypeOK, AcceptHeader
<1>3. Placed'
  BY <1>1 DEF Inv, Placed, AcceptHeader
<1>4. Ranked'
  BY <1>1 DEF Inv, Ranked, AcceptHeader
<1>5. ChainSound' /\ LocalsOf'
  BY <1>1 DEF Inv, ChainSound, LocalsOf, AcceptHeader
<1>. QED
  BY <1>2, <1>3, <1>4, <1>5 DEF Inv

\* A block that fails ContextualCheckBlock in AcceptBlock is marked and not stored.
LEMMA RejectBlockInv ==
  ASSUME Inv, NEW b \in Blk \ {Genesis}, RejectBlock(b)
  PROVE  Inv'
<1>1. index' = index \cup {b} /\ index' \subseteq Blk /\ Closed(index') /\ Tops(index')
  BY IndexGrows, Zenon DEF RejectBlock
<1>2. b \notin linked /\ linked \subseteq Blk /\ scripts \subseteq linked
  BY DEF Inv, TypeOK, Placed, RejectBlock
<1>3. \A c \in linked : b \notin Anc[c]
  <2>1. \A c \in linked : Anc[c] \subseteq linked
    BY <1>2, AncLeast DEF Inv, Placed
  <2>. QED
    BY <1>2, <2>1
<1>4. TypeOK'
  BY <1>1 DEF Inv, TypeOK, RejectBlock
<1>5. Placed' /\ Ranked' /\ LocalsOf'
  BY <1>1 DEF Inv, Placed, Ranked, LocalsOf, RejectBlock
<1>6. ChainSound'
  <2>1. {tip, startingTip, mostWork} \subseteq linked \cup {None} /\ tip \in linked
    BY DEF Inv, TypeOK
  <2>2. pc # "locked"
    BY DEF RejectBlock, CsMainFree
  <2>. QED
    BY <1>2, <1>3, <2>1, <2>2 DEF Inv, ChainSound, RejectBlock
<1>. QED
  BY <1>4, <1>5, <1>6 DEF Inv

\* A block that AcceptBlock stores is queued for linking or waits for its parent.
LEMMA AcceptBlockInv ==
  ASSUME Inv, NEW b \in Blk \ {Genesis}, AcceptBlock(b)
  PROVE  Inv'
<1>1. index' = index \cup {b} /\ index' \subseteq Blk /\ Closed(index') /\ Tops(index')
  BY IndexGrows DEF AcceptBlock
<1>2. TypeOK'
  BY <1>1 DEF Inv, TypeOK, AcceptBlock, Waiting
<1>3. Placed'
  <2>1. queue = {} /\ pc # "locked" /\ data' = data \cup {b} /\ b \notin data
    BY DEF AcceptBlock, CsMainFree
  <2>2. Closed(linked') /\ Genesis \in linked' /\ data' \cap Malformed = {}
    BY DEF Inv, Placed, AcceptBlock
  <2>3. CASE Parent[b] \in linked
    BY <1>1, <2>1, <2>2, <2>3 DEF Inv, Placed, AcceptBlock
  <2>4. CASE Parent[b] \notin linked
    BY <1>1, <2>1, <2>2, <2>4 DEF Inv, Placed, AcceptBlock, Waiting
  <2>. QED
    BY <2>3, <2>4
<1>4. Ranked' /\ ChainSound' /\ LocalsOf'
  BY <1>1 DEF Inv, Ranked, ChainSound, LocalsOf, AcceptBlock
<1>. QED
  BY <1>2, <1>3, <1>4 DEF Inv

\* A round of ReceivedBlockTransactions links a block whose ancestors are linked.
LEMMA LinkInv ==
  ASSUME Inv, NEW b \in Blk, Link(b)
  PROVE  Inv'
<1>1. b \in queue /\ b \in data \ linked /\ b # Genesis /\ Parent[b] \in linked
  BY DEF Inv, Placed, Link
<1>2. TypeOK'
  <2>1. seq' \in [Blk -> Int] /\ nextSeq' \in Nat
    BY DEF Inv, TypeOK, Link
  <2>2. linked' \subseteq data' /\ linked \subseteq linked'
    BY <1>1 DEF Inv, TypeOK, Link
  <2>3. candidates' \cup unlinked' \cup queue' \subseteq index'
    BY <1>1 DEF Inv, TypeOK, Link, WaitingFor
  <2>. QED
    BY <2>1, <2>2, <2>3 DEF Inv, TypeOK, Link
<1>3. Placed'
  <2>1. Closed(linked')
    BY <1>1 DEF Inv, Placed, Link, Closed
  <2>. QED
    BY <1>1, <2>1 DEF Inv, Placed, Link, WaitingFor
<1>4. Ranked'
  <2>1. seq \in [Blk -> Int] /\ nextSeq \in Nat
    BY DEF Inv, TypeOK
  <2>. QED
    BY <2>1 DEF Inv, Ranked, Link
<1>5. ChainSound'
  <2>1. candidates' \subseteq linked'
    BY DEF Inv, ChainSound, Link
  <2>. QED
    BY <2>1 DEF Inv, ChainSound, Link
<1>6. LocalsOf'
  BY DEF Inv, LocalsOf, Link
<1>. QED
  BY <1>2, <1>3, <1>4, <1>5, <1>6 DEF Inv

\* ActivateBestChain may begin, or go on, with any tip.
LEMMA ActivateInv ==
  ASSUME Inv, Activate
  PROVE  Inv'
<1>1. TypeOK'
  BY DEF Inv, TypeOK, Activate
<1>2. Placed' /\ Ranked'
  BY DEF Inv, Placed, Ranked, Activate, CsMainFree
<1>3. ChainSound'
  BY ConstantTypes DEF Inv, TypeOK, ChainSound, Activate
<1>4. LocalsOf'
  BY Zenon DEF Inv, LocalsOf, Activate
<1>. QED
  BY <1>1, <1>2, <1>3, <1>4 DEF Inv

\* setBlockIndexCandidates has a last element unless it is empty.
LEMMA BestFacts ==
  ASSUME Inv
  PROVE  IF candidates = {} THEN Best = None
         ELSE /\ Best \in candidates /\ Best \in linked /\ Best # None
              /\ \A e \in candidates : e # Best => Worse(e, Best)
<1>1. candidates \in SUBSET Blk /\ candidates \subseteq linked /\ linked \subseteq Blk
      /\ seq \in [Blk -> Int] /\ address \in Addresses
      /\ index \in SUBSET Blk /\ Tops(index) /\ candidates \in SUBSET index
  BY DEF Inv, TypeOK, ChainSound, Placed
<1>2. ASSUME candidates # {}
      PROVE  \E c \in candidates : \A e \in candidates : e # c => Worse(e, c)
  <2>1. PICK c \in candidates : \A e \in candidates : e # c => Below(e, c, seq, address)
    BY <1>1, <1>2, LastExists
  <2>. QED
    BY <2>1 DEF Below, Worse
<1>. QED
  BY <1>1, <1>2, ConstantTypes DEF Best

\* FindMostWorkChain drops a candidate whose path has a failed block.
LEMMA DropCandidateInv ==
  ASSUME Inv, DropCandidate
  PROVE  Inv'
<1>1. Best # None
  BY DEF DropCandidate, FailedOnPath
<1>2. Best \in linked /\ linked \subseteq index /\ index \in SUBSET Blk /\ Closed(index)
  BY <1>1, BestFacts DEF Inv, TypeOK, Placed
<1>3. Anc[Best] \subseteq index
  BY <1>2, AncLeast
<1>4. TypeOK'
  BY <1>3 DEF Inv, TypeOK, DropCandidate
<1>5. Placed' /\ Ranked' /\ ChainSound' /\ LocalsOf'
  BY DEF Inv, Placed, Ranked, ChainSound, LocalsOf, DropCandidate
<1>. QED
  BY <1>4, <1>5 DEF Inv

\* ActivateBestChain ends when pindexMostWork is null or the tip.
LEMMA ActivateDoneInv ==
  ASSUME Inv, ActivateDone
  PROVE  Inv'
BY DEF Inv, TypeOK, Placed, Ranked, ChainSound, LocalsOf, ActivateDone

\* Where ActivateBestChainStep towards m ends: at the last block of the path
\* that it connects, or at the fork; it connects no invalid block.
LEMMA StepFacts ==
  ASSUME NEW m \in Blk, tip \in Blk
  PROVE  /\ NewTip(m) \in Anc[m] /\ NewTip(m) \in Blk
         /\ Anc[NewTip(m)] = Connected(m) \cup (Anc[m] \cap Chain)
         /\ Connected(m) \subseteq Anc[m] \ Chain
         /\ Connected(m) \cap Rejected = {}
         /\ FoundInvalid(m) \subseteq Rejected \cap Anc[m]
         /\ FoundInvalid(m) \cap Anc[NewTip(m)] = {}
         /\ Closed(Connected(m) \cup Chain)
<1>. DEFINE S == Connected(m) \cup (Anc[m] \cap Chain)
<1>1. Connected(m) \subseteq Anc[m] \ Chain
  BY DEF Connected, Reached, Path
<1>2. Anc[m] \subseteq Blk /\ Anc[tip] \subseteq Blk
  BY TreeTypes
<1>3. Connected(m) \cap Rejected = {}
  BY <1>1, <1>2, AncSelf DEF Connected, Path
<1>4. ASSUME NEW b \in Connected(m) PROVE b # Genesis /\ Parent[b] \in S
  <2>1. b \in Blk /\ b \in Anc[m] /\ b \notin Chain
    BY <1>1, <1>2, <1>4
  <2>2. b # Genesis
    BY <2>1, GenesisIsAnc
  <2>3. Parent[b] \in Anc[m] /\ Parent[b] \in Blk
    BY <2>1, <2>2, AncClosed, TreeTypes
  <2>4. Anc[b] = {b} \cup Anc[Parent[b]] /\ b \notin Anc[Parent[b]] /\ Parent[b] \in Anc[Parent[b]]
    BY <2>1, <2>2, <2>3, AncStep, NotAncOfParent, AncSelf
  <2>5. ASSUME Parent[b] \notin Chain PROVE Parent[b] \in Connected(m)
    <3>1. Parent[b] \in Reached(m)
      BY <1>4, <2>3, <2>4, <2>5 DEF Connected, Reached, Path
    <3>. QED
      BY <1>4, <2>4, <3>1 DEF Connected
  <2>. QED
    BY <2>2, <2>3, <2>5
<1>5. Closed(Anc[tip]) /\ Closed(Anc[m])
  BY AncClosed DEF Closed
<1>6. Closed(S) /\ Genesis \in S /\ S \in SUBSET Anc[m]
  BY <1>1, <1>4, <1>5, GenesisIsAnc DEF Closed
<1>7. PICK x \in S : S = Anc[x]
  <2>. HIDE DEF S
  <2>. QED
    BY <1>6, ClosedInChain
<1>8. x \in Blk /\ NewTip(m) = x
  <2>1. x \in Blk
    BY <1>2, <1>6, <1>7
  <2>2. Highest(S) = x
    BY <1>7, <2>1, HighestOfChain
  <2>. QED
    BY <2>1, <2>2 DEF NewTip
<1>9. FoundInvalid(m) \subseteq Rejected \cap Anc[m] /\ FoundInvalid(m) \cap S = {}
  BY <1>3 DEF FoundInvalid, Reached, Path
<1>10. Closed(Connected(m) \cup Chain)
  BY <1>4, <1>5 DEF Closed
<1>. QED
  BY <1>1, <1>3, <1>6, <1>7, <1>8, <1>9, <1>10

\* What ActivateBestChain goes to is downloaded and not invalid.
LEMMA TargetFacts ==
  ASSUME Inv, mostWork = None => FailedOnPath = {}, Target # None
  PROVE  Target \in linked /\ Target \in Blk /\ Sound(Target)
<1>1. mostWork \in linked \cup {None} /\ linked \subseteq Blk
  BY DEF Inv, TypeOK
<1>2. CASE mostWork # None
  BY <1>1, <1>2 DEF Target, Inv, ChainSound
<1>3. CASE mostWork = None
  <2>1. Best \in linked /\ Best # None /\ Target = Best
    BY <1>3, BestFacts DEF Target
  <2>2. Anc[Best] \cap failedValid = {}
    BY <1>3, <2>1 DEF FailedOnPath, Inv, ChainSound
  <2>. QED
    BY <1>1, <2>1, <2>2
<1>. QED
  BY <1>2, <1>3

\* A round of ActivateBestChainStep connects blocks without flags, or marks the first bad one.
LEMMA ActivateStepInv ==
  ASSUME Inv, ActivateStep
  PROVE  Inv'
<1>. DEFINE m == Target
            t == NewTip(m)
            C == Connected(m)
            F == FoundInvalid(m)
<1>1. m \in linked /\ m \in Blk /\ Anc[m] \cap failedValid = {} /\ m # None
  BY TargetFacts DEF ActivateStep
<1>2. tip \in Blk /\ linked \in SUBSET Blk /\ Closed(linked) /\ index \subseteq Blk
      /\ linked \subseteq data /\ data \subseteq index /\ Anc[tip] \subseteq scripts
      /\ scripts \subseteq linked
  <2>1. scripts \in SUBSET Blk /\ Closed(scripts) /\ tip \in scripts
    BY DEF Inv, TypeOK, ChainSound
  <2>. QED
    BY <2>1, AncLeast DEF Inv, TypeOK, Placed
<1>3. /\ t \in Anc[m] /\ t \in Blk
      /\ Anc[t] = C \cup (Anc[m] \cap Chain)
      /\ C \subseteq Anc[m] \ Chain
      /\ C \cap Rejected = {}
      /\ F \subseteq Rejected \cap Anc[m]
      /\ F \cap Anc[t] = {}
      /\ Closed(C \cup Chain)
  BY <1>1, <1>2, StepFacts, ZenonT(60)
<1>4. Anc[m] \subseteq linked
  BY <1>1, <1>2, AncLeast
<1>5. /\ pc = "locked" /\ tip' = t /\ scripts' = scripts \cup C
      /\ failedValid' = failedValid \cup F /\ failedBlocks' = failedBlocks \cup F
      /\ candidates' \subseteq candidates
      /\ UNCHANGED <<index, received, failedChild, rank, inv, pending, snatch>>
      /\ \/ pc' = pc /\ startingTip' = startingTip /\ mostWork' \in {m, None}
         \/ pc' = "idle" /\ startingTip' = None /\ mostWork' = None
         \/ pc' = "unlocked" /\ startingTip' = None /\ mostWork' \in {m, None}
      /\ F # {} => mostWork' = None
  BY <1>1 DEF ActivateStep, Prune
<1>. HIDE DEF m, t, C, F
<1>6. TypeOK'
  BY <1>1, <1>2, <1>3, <1>4, <1>5 DEF Inv, TypeOK
<1>7. Placed' /\ Ranked' /\ LocalsOf'
  <2>1. Placed'
    BY <1>5 DEF Inv, Placed
  <2>2. Ranked'
    BY <1>5 DEF Inv, Ranked
  <2>3. LocalsOf'
    BY <1>5 DEF Inv, LocalsOf
  <2>. QED
    BY <2>1, <2>2, <2>3
<1>8. ChainSound'
  <2>1. Closed(scripts')
    BY <1>2, <1>3, <1>5 DEF Inv, ChainSound, Closed
  <2>2. scripts' \cap Rejected = {}
    BY <1>3, <1>5 DEF Inv, ChainSound
  <2>3. tip' \in scripts' /\ Anc[tip'] \cap failedValid' = {}
    <3>1. t \in Anc[t]
      BY <1>3, AncSelf
    <3>2. t \in scripts \cup C
      BY <1>2, <1>3, <3>1
    <3>. QED
      BY <1>1, <1>3, <1>5, <3>2
  <2>4. candidates' \subseteq linked' /\ failedBlocks' \subseteq failedValid'
    BY <1>5 DEF Inv, ChainSound
  <2>5. startingTip \in scripts /\ Anc[startingTip] \cap failedValid' = {}
    <3>1. startingTip \in scripts /\ Anc[startingTip] \cap failedValid = {}
      BY <1>5 DEF Inv, ChainSound
    <3>2. Anc[startingTip] \subseteq scripts
      BY <1>2, <3>1, AncLeast DEF Inv, ChainSound
    <3>3. scripts \cap F = {}
      BY <1>3 DEF Inv, ChainSound
    <3>. QED
      BY <1>5, <3>1, <3>2, <3>3
  <2>6. mostWork' # None => Anc[mostWork'] \cap failedValid' = {}
    BY <1>1, <1>5
  <2>. QED
    BY <1>5, <2>1, <2>2, <2>3, <2>4, <2>5, <2>6 DEF ChainSound
<1>. QED
  BY <1>6, <1>7, <1>8 DEF Inv

\* PreciousBlock changes the order of candidates and adds a linked one.
LEMMA PreciousBlockInv ==
  ASSUME Inv, NEW b \in Precious, PreciousBlock(b)
  PROVE  Inv'
<1>. DEFINE n == IF Work[tip] > lastPrecious THEN -1 ELSE reverseSeq
<1>1. /\ lastPrecious' = Work[tip]
      /\ seq' = [seq EXCEPT ![b] = n] /\ reverseSeq' = n - 1
      /\ candidates' \subseteq candidates \cup Usable
      /\ pending' = TRUE
      /\ UNCHANGED <<index, received, scripts, flags, address, tip, activation, inv, snatch>>
      /\ pc # "locked"
  BY DEF PreciousBlock, CsMainFree
<1>2. n \in Int /\ n <= -1
  BY DEF Inv, TypeOK, Ranked
<1>. HIDE DEF n
<1>3. seq \in [Blk -> Int] /\ tip \in Blk /\ Usable \subseteq linked /\ Precious \subseteq Blk
  BY TreeAssumption DEF Inv, TypeOK, Usable
<1>4. seq' \in [Blk -> Int] /\ lastPrecious' \in Nat /\ reverseSeq' \in Int
  BY <1>1, <1>2, <1>3, ConstantTypes
<1>5. TypeOK'
  <2>1. candidates' \subseteq index
    <3>1. candidates \subseteq index /\ linked \subseteq index
      BY DEF Inv, TypeOK
    <3>. QED
      BY <1>1, <1>3, <3>1
  <2>. QED
    BY <1>1, <1>4, <2>1, ZenonT(60) DEF Inv, TypeOK
<1>6. Placed' /\ LocalsOf'
  BY <1>1 DEF Inv, Placed, LocalsOf
<1>7. Ranked'
  BY <1>1, <1>2, <1>3 DEF Inv, Ranked
<1>8. ChainSound'
  BY <1>1, <1>3 DEF Inv, ChainSound
<1>. QED
  BY <1>5, <1>6, <1>7, <1>8 DEF Inv

\* Resetting the flags of a block, by reconsiderblock or by the forging thread.
LEMMA ResetInv ==
  ASSUME Inv, NEW b, CsMainFree, ResetBlockFailureFlags(b), pending' = TRUE,
         snatch' \in {snatch, NoSnatch}
  PROVE  Inv'
<1>1. /\ failedValid' \subseteq failedValid /\ failedChild' \subseteq failedChild
      /\ failedBlocks' = failedBlocks \ Cleared(b) /\ failedValid' = failedValid \ Cleared(b)
      /\ candidates' \subseteq candidates \cup linked
      /\ UNCHANGED <<index, received, scripts, rank, tip, activation, inv>>
  BY DEF ResetBlockFailureFlags, Reinstated
<1>2. TypeOK'
  <2>1. snatch' \in [block : index' \cup {None}, step : {"idle", "picked", "invalidate", "reset"}]
    BY <1>1 DEF Inv, TypeOK, NoSnatch
  <2>. QED
    BY <1>1, <2>1 DEF Inv, TypeOK
<1>3. Placed' /\ Ranked' /\ ChainSound'
  BY <1>1, Zenon DEF Inv, Placed, Ranked, ChainSound
<1>4. LocalsOf'
  BY <1>1 DEF Inv, LocalsOf, NoSnatch
<1>. QED
  BY <1>2, <1>3, <1>4 DEF Inv

\* InvalidateBlock collects its candidates; nothing else changes.
LEMMA InvalidateStartInv ==
  ASSUME Inv, NEW b \in Blk \ {Genesis}, InvalidateStart(b),
         \/ UNCHANGED snatch
         \/ snatch.step = "picked" /\ snatch' = [snatch EXCEPT !.step = "invalidate"]
  PROVE  Inv'
<1>1. /\ b \in index /\ pc = "idle" /\ pc' = "invalidate"
      /\ inv' = [block |-> b, toMark |-> b, byWork |-> {c \in Usable \ Chain : ~Worse(c, Parent[b])}]
      /\ UNCHANGED <<index, received, scripts, flags, candidates, rank, tip, mostWork,
                     startingTip, pending>>
  BY DEF InvalidateStart
<1>2. inv'.block = b /\ inv'.toMark = b
      /\ inv' \in [block : index \cup {None}, toMark : index \cup {None}, byWork : SUBSET linked]
  BY <1>1 DEF Usable
<1>3. snatch' \in [block : index \cup {None}, step : {"idle", "picked", "invalidate", "reset"}]
  BY DEF Inv, TypeOK
<1>4. TypeOK'
  BY <1>1, <1>2, <1>3 DEF Inv, TypeOK
<1>5. Placed' /\ Ranked' /\ ChainSound'
  BY <1>1 DEF Inv, Placed, Ranked, ChainSound
<1>6. LocalsOf'
  <2>1. snatch \in [block : index \cup {None}, step : {"idle", "picked", "invalidate", "reset"}]
    BY DEF Inv, TypeOK
  <2>2. /\ snatch'.step = "idle" => snatch' = NoSnatch
        /\ snatch'.step # "idle" => snatch'.block \in scripts \cap Snatchable
    BY <2>1 DEF Inv, LocalsOf
  <2>3. b \in Anc[b]
    BY AncSelf
  <2>. QED
    BY <1>1, <1>2, <2>2, <2>3 DEF LocalsOf
<1>. QED
  BY <1>4, <1>5, <1>6 DEF Inv

\* InvalidateBlock disconnects the tip and marks it.
LEMMA InvalidateStepInv ==
  ASSUME Inv, InvalidateStep
  PROVE  Inv'
<1>. DEFINE up == Parent[tip]
            found == {c \in inv.byWork : ~Worse(c, up)}
<1>1. inv.block \in Anc[tip] /\ inv.block \in index \ {Genesis} /\ tip \in Blk /\ tip \in linked
  BY DEF Inv, TypeOK, LocalsOf, InvalidateStep
<1>2. tip # Genesis /\ Anc[tip] = {tip} \cup Anc[up] /\ tip \notin Anc[up] /\ up \in Blk
      /\ up \in Anc[up]
  BY <1>1, AncGenesis, AncStep, NotAncOfParent, TreeTypes, AncSelf
<1>3. up \in linked /\ up \in scripts /\ tip \in index
  BY <1>1, <1>2 DEF Inv, TypeOK, Placed, ChainSound, Closed
<1>4. up \notin failedValid
  BY <1>2 DEF Inv, ChainSound
<1>5. /\ tip' = up /\ failedValid' = failedValid \cup {tip} /\ failedChild' = failedChild
      /\ candidates' = (candidates \ {tip}) \cup {up} \cup found
      /\ inv' = [inv EXCEPT !.byWork = @ \ found, !.toMark = tip]
      /\ pc = "invalidate" /\ queue = {}
      /\ UNCHANGED <<index, received, scripts, failedBlocks, rank, activation, pending, snatch>>
  BY <1>4 DEF InvalidateStep, CsMainFree
<1>6. found \subseteq linked
  BY DEF Inv, TypeOK
<1>. HIDE DEF up, found
<1>7. inv' \in [block : index \cup {None}, toMark : index \cup {None}, byWork : SUBSET linked]
      /\ inv'.block = inv.block /\ inv'.toMark = tip
  BY <1>3, <1>5, Zenon DEF Inv, TypeOK
<1>8. TypeOK'
  BY <1>3, <1>5, <1>6, <1>7 DEF Inv, TypeOK
<1>9. Placed' /\ Ranked'
  BY <1>5 DEF Inv, Placed, Ranked
<1>10. ChainSound'
  BY <1>2, <1>3, <1>5, <1>6 DEF Inv, ChainSound
<1>11. LocalsOf'
  BY <1>1, <1>2, <1>3, <1>5, <1>7 DEF Inv, LocalsOf
<1>. QED
  BY <1>8, <1>9, <1>10, <1>11 DEF Inv

\* InvalidateBlock marks its block and adds the candidates that are as good as the tip.
LEMMA InvalidateFinishInv ==
  ASSUME Inv, InvalidateFinish
  PROVE  Inv'
<1>. DEFINE b == inv.toMark
<1>1. /\ failedValid' = failedValid \cup {b} /\ failedBlocks' = failedBlocks \cup {b}
      /\ candidates' \subseteq candidates \cup linked /\ pc' = "idle" /\ inv' = NoInv
      /\ pc = "invalidate" /\ inv.block \notin Anc[tip]
      /\ snatch' \in {snatch, [snatch EXCEPT !.step = "reset"]}
      /\ snatch.step # "invalidate" => snatch' = snatch
      /\ pending' \in {pending, TRUE}
      /\ UNCHANGED <<index, received, scripts, failedChild, rank, tip, mostWork, startingTip>>
  BY Zenon DEF InvalidateFinish, Missed, Usable
<1>2. b \in index /\ b \in Blk /\ inv.block \in Anc[b]
  BY <1>1 DEF Inv, TypeOK, LocalsOf
<1>3. b \notin Anc[tip]
  <2>1. tip \in Blk
    BY DEF Inv, TypeOK
  <2>. QED
    BY <1>1, <1>2, <2>1, AncTransitive
<1>. HIDE DEF b
<1>4. inv' \in [block : index \cup {None}, toMark : index \cup {None}, byWork : SUBSET linked]
  BY <1>1 DEF NoInv
<1>5. snatch' \in [block : index \cup {None}, step : {"idle", "picked", "invalidate", "reset"}]
  BY <1>1 DEF Inv, TypeOK
<1>6. TypeOK'
  <2>1. pending' \in BOOLEAN
    BY <1>1, Zenon DEF Inv, TypeOK
  <2>. QED
    BY <1>1, <1>2, <1>4, <1>5, <2>1 DEF Inv, TypeOK
<1>7. Placed' /\ Ranked'
  BY <1>1 DEF Inv, Placed, Ranked
<1>8. ChainSound'
  BY <1>1, <1>2, <1>3 DEF Inv, ChainSound
<1>9. LocalsOf'
  <2>1. snatch \in [block : index \cup {None}, step : {"idle", "picked", "invalidate", "reset"}]
    BY DEF Inv, TypeOK
  <2>. QED
    BY <1>1, <2>1 DEF Inv, LocalsOf
<1>. QED
  BY <1>6, <1>7, <1>8, <1>9 DEF Inv

\* CheckDeadlineThread picks the tip it will replace.
LEMMA SnatchPickInv ==
  ASSUME Inv, SnatchPick
  PROVE  Inv'
<1>1. /\ snatch' = [block |-> tip, step |-> "picked"] /\ tip \in Snatchable
      /\ UNCHANGED <<index, received, scripts, flags, candidates, rank, tip, activation, inv, pending>>
  BY DEF SnatchPick
<1>2. tip \in index /\ tip \in scripts
  BY DEF Inv, TypeOK, ChainSound
<1>3. TypeOK'
  BY <1>1, <1>2 DEF Inv, TypeOK
<1>4. Placed' /\ Ranked' /\ ChainSound' /\ LocalsOf'
  BY <1>1, <1>2 DEF Inv, Placed, Ranked, ChainSound, LocalsOf
<1>. QED
  BY <1>3, <1>4 DEF Inv

\* A start takes the flags and the data that are on disk and makes the rest anew.
LEMMA RestartInv ==
  ASSUME Inv, Restart
  PROVE  Inv'
<1>1. /\ queue = {} /\ pc = "idle" /\ snatch = NoSnatch
      /\ address' \in Addresses /\ seq' = [b \in Blk |-> 0]
      /\ nextSeq' = 1 /\ reverseSeq' = -1 /\ lastPrecious' = 0
      /\ UNCHANGED <<index, data, scripts, failedValid, tip, queue, pc, mostWork, startingTip,
                     inv, snatch>>
      /\ linked' = {b \in index : Anc[b] \subseteq data}
      /\ unlinked' = {b \in data \ {Genesis} : Parent[b] \notin linked'}
      /\ forgotten' = {} /\ failedBlocks' = {}
      /\ failedChild' \subseteq index
      /\ candidates' \subseteq data \cap linked'
      /\ pending' = TRUE
  BY ZenonT(60) DEF Inv, TypeOK, Restart, CsMainFree
<1>2. /\ index \in SUBSET Blk /\ data \subseteq index /\ linked \subseteq data
      /\ linked \in SUBSET Blk /\ Closed(linked) /\ Closed(index) /\ Genesis \in linked
  BY ConstantTypes, ZenonT(60) DEF Inv, TypeOK, Placed
<1>3. linked \subseteq linked'
  BY <1>1, <1>2, AncLeast, ZenonT(60)
<1>4. linked' \subseteq data
  BY <1>1, <1>2, AncSelf
<1>5. Closed(linked')
  <2>1. ASSUME NEW b \in linked' \ {Genesis} PROVE Parent[b] \in linked'
    <3>1. b \in Blk \ {Genesis} /\ b \in index
      BY <1>1, <1>2, <2>1
    <3>2. Parent[b] \in index /\ Anc[Parent[b]] \subseteq Anc[b]
      BY <1>2, <3>1, AncStep DEF Closed
    <3>. QED
      BY <1>1, <2>1, <3>2
  <2>. QED
    BY <2>1 DEF Closed
<1>6. \A b \in data : b \notin linked' => b # Genesis /\ Parent[b] \notin linked'
  <2>1. SUFFICES ASSUME NEW b \in data, b \notin linked', b # Genesis, Parent[b] \in linked'
                 PROVE  FALSE
    BY <1>2, <1>3
  <2>2. Anc[b] = {b} \cup Anc[Parent[b]]
    BY <1>2, <2>1, AncStep
  <2>. QED
    BY <1>1, <1>2, <2>1, <2>2
<1>7. TypeOK'
  <2>1. seq' \in [Blk -> Int]
    BY <1>1
  <2>2. nextSeq' \in Nat /\ reverseSeq' \in Int /\ lastPrecious' \in Nat
    BY <1>1
  <2>3. /\ index' = index /\ data' = data /\ scripts' = scripts /\ tip' = tip /\ queue' = queue
        /\ pc' = pc /\ mostWork' = mostWork /\ startingTip' = startingTip /\ inv' = inv /\ snatch' = snatch
    BY <1>1, Zenon
  <2>4. /\ index' \subseteq Blk /\ data' \subseteq index' /\ linked' \subseteq data'
        /\ scripts' \subseteq linked' /\ tip' \in linked'
    BY <1>2, <1>3, <1>4, <2>3, ZenonT(60) DEF Inv, TypeOK
  <2>5. Failed' \cup failedBlocks' \cup candidates' \cup unlinked' \cup forgotten' \cup queue' \subseteq index'
    <3>1. failedValid' = failedValid /\ failedBlocks' = {} /\ forgotten' = {} /\ failedChild' \subseteq index
          /\ candidates' \subseteq data /\ unlinked' \subseteq data /\ queue = {}
      BY <1>1, ZenonT(60)
    <3>2. failedValid \subseteq index /\ data \subseteq index
      BY ZenonT(60) DEF Inv, TypeOK
    <3>. QED
      BY <2>3, <3>1, <3>2, ZenonT(60)
  <2>6. inv' \in [block : index' \cup {None}, toMark : index' \cup {None}, byWork : SUBSET linked']
    <3>1. inv \in [block : index \cup {None}, toMark : index \cup {None}, byWork : SUBSET linked]
      BY Zenon DEF Inv, TypeOK
    <3>. QED
      BY <1>3, <2>3, <3>1
  <2>7. /\ pc' \in {"idle", "locked", "unlocked", "invalidate"}
        /\ {mostWork', startingTip'} \subseteq linked' \cup {None}
        /\ snatch' \in [block : index' \cup {None}, step : {"idle", "picked", "invalidate", "reset"}]
    BY <1>3, <2>3, ZenonT(60) DEF Inv, TypeOK
  <2>8. address' \in Addresses /\ pending' \in BOOLEAN
    BY <1>1, Zenon
  <2>. QED
    BY <2>1, <2>2, <2>4, <2>5, <2>6, <2>7, <2>8, ZenonT(60) DEF TypeOK
<1>8. Placed'
  <2>1. \A b \in linked' : b # Genesis => Parent[b] \in linked'
    BY <1>5 DEF Closed
  <2>2. data = linked' \cup unlinked' /\ linked' \cap unlinked' = {}
    BY <1>1, <1>4, <1>6, <2>1
  <2>. QED
    <3>1. index' = index /\ data' = data /\ queue' = {} /\ forgotten' = {}
      BY <1>1, Zenon
    <3>2. Tops(index) /\ data \cap Malformed = {}
      BY Zenon DEF Inv, Placed
    <3>3. \A b \in unlinked' : Parent[b] \notin linked'
      BY <1>1
    <3>. QED
      BY <1>2, <1>3, <1>5, <2>2, <3>1, <3>2, <3>3 DEF Placed
<1>9. Ranked'
  BY <1>1, <1>2 DEF Ranked
<1>10. ChainSound'
  BY <1>1, ZenonT(60) DEF Inv, ChainSound
<1>11. LocalsOf'
  BY <1>1 DEF Inv, LocalsOf
<1>. QED
  BY <1>7, <1>8, <1>9, <1>10, <1>11 DEF Inv

\* Every step of the node preserves the general invariant.
LEMMA InvNext == Inv /\ [Next]_vars => Inv'
<1>. SUFFICES ASSUME Inv, [Next]_vars PROVE Inv'
  OBVIOUS
<1>0. Invalidable \subseteq Blk \ {Genesis} /\ Snatchable \subseteq Blk \ {Genesis}
  BY TreeAssumption
<1>1. CASE \E b \in Blk \ {Genesis} : RejectHeader(b) \/ AcceptHeader(b) \/ RejectBlock(b) \/ AcceptBlock(b)
  BY <1>1, RejectHeaderInv, AcceptHeaderInv, RejectBlockInv, AcceptBlockInv
<1>2. CASE \E b \in Precious : PreciousBlock(b)
  BY <1>2, PreciousBlockInv
<1>3. CASE \E b \in Reconsidered : ReconsiderBlock(b)
  BY <1>3, ResetInv DEF ReconsiderBlock
<1>4. CASE \E b \in Invalidable : InvalidateBlock(b)
  BY <1>0, <1>4, InvalidateStartInv DEF InvalidateBlock
<1>5. CASE SnatchPick
  BY <1>5, SnatchPickInv
<1>6. CASE SnatchInvalidate
  <2>1. snatch.block \in Blk \ {Genesis}
    BY <1>0, <1>6 DEF Inv, LocalsOf, SnatchInvalidate
  <2>. QED
    BY <1>6, <2>1, InvalidateStartInv DEF SnatchInvalidate
<1>7. CASE SnatchReset
  BY <1>7, ResetInv DEF SnatchReset
<1>8. CASE Restart
  BY <1>8, RestartInv
<1>9. CASE Running
  BY <1>9, ActivateInv, DropCandidateInv, ActivateStepInv, ActivateDoneInv, InvalidateStepInv,
     InvalidateFinishInv, LinkInv DEF Running
<1>10. CASE UNCHANGED vars
  <2>1. TypeOK'
    BY <1>10 DEF Inv, TypeOK, vars
  <2>2. Placed' /\ Ranked'
    BY <1>10 DEF Inv, Placed, Ranked, vars
  <2>3. ChainSound' /\ LocalsOf'
    BY <1>10 DEF Inv, ChainSound, LocalsOf, vars
  <2>. QED
    BY <2>1, <2>2, <2>3 DEF Inv
<1>. QED
  BY <1>1, <1>2, <1>3, <1>4, <1>5, <1>6, <1>7, <1>8, <1>9, <1>10 DEF Next

\* Whatever arrives and whatever the operator asks for, the bookkeeping of the
\* block index is in order.
THEOREM InvHolds == Spec => []Inv
BY InvInit, InvNext, PTL DEF Spec

-----------------------------------------------------------------------------
(* What follows from the general invariant.                                 *)

\* Once ReceivedBlockTransactions is through, the linked blocks are those of
\* which nothing is missing, and the other received blocks wait in
\* m_blocks_unlinked, but for the ones that came in on top of a failed block.
THEOREM LinkedOrWaitingTheorem == Spec => []LinkedOrWaiting
<1>1. Inv => LinkedOrWaiting
  <2>. SUFFICES ASSUME Inv, CsMainFree
                PROVE  /\ linked = {b \in index : Anc[b] \subseteq data \ forgotten}
                       /\ \A b \in index \ linked : seq[b] <= 0
                       /\ unlinked = data \ (linked \cup forgotten)
    BY DEF LinkedOrWaiting
  <2>1. /\ queue = {} /\ Closed(linked) /\ linked \in SUBSET Blk /\ linked \subseteq index
        /\ index \subseteq Blk /\ Genesis \in linked
        /\ data = linked \cup unlinked \cup forgotten
        /\ linked \cap (unlinked \cup forgotten) = {} /\ unlinked \cap forgotten = {}
        /\ \A b \in unlinked : Parent[b] \notin linked
    BY DEF Inv, TypeOK, Placed, CsMainFree
  <2>2. \A b \in linked : Anc[b] \subseteq data \ forgotten
    BY <2>1, AncLeast
  <2>3. \A b \in Blk : Anc[b] \subseteq data \ forgotten => b \in linked
    <3>. DEFINE P == {b \in Blk : Anc[b] \subseteq data \ forgotten => b \in linked}
    <3>1. Genesis \in P
      BY <2>1, TreeTypes
    <3>2. ASSUME NEW b \in Blk \ {Genesis}, Parent[b] \in P PROVE b \in P
      <4>1. Anc[b] = {b} \cup Anc[Parent[b]]
        BY AncStep
      <4>. QED
        BY <2>1, <3>2, <4>1
    <3>3. P = Blk
      <4>. HIDE DEF P
      <4>1. P \in SUBSET Blk
        BY DEF P
      <4>. QED
        BY <3>1, <3>2, <4>1, BlockTreeAssumption
    <3>. QED
      BY <3>3, Zenon
  <2>4. \A b \in index \ linked : seq[b] <= 0
    BY <2>1 DEF Inv, Ranked
  <2>. QED
    BY <2>1, <2>2, <2>3, <2>4, Zenon
<1>. QED
  BY <1>1, InvHolds, PTL

\* Whatever invalidateblock, reconsiderblock and preciousblock are called for,
\* and at whatever point of ActivateBestChain: no block of the active chain has
\* BLOCK_FAILED_VALID, FindMostWorkChain only meets downloaded blocks, and the
\* assertion of AcceptBlockHeader on m_failed_blocks holds.
THEOREM ChainIsValid ==
  Spec => [](/\ Sound(tip)
             /\ \A b \in candidates : Anc[b] \subseteq linked
             /\ failedBlocks \subseteq failedValid)
<1>1. Inv => /\ Sound(tip)
             /\ \A b \in candidates : Anc[b] \subseteq linked
             /\ failedBlocks \subseteq failedValid
  <2>. SUFFICES ASSUME Inv
                PROVE  /\ Sound(tip)
                       /\ \A b \in candidates : Anc[b] \subseteq linked
                       /\ failedBlocks \subseteq failedValid
    OBVIOUS
  <2>1. linked \in SUBSET Blk /\ Closed(linked) /\ candidates \subseteq linked
    BY DEF Inv, TypeOK, Placed, ChainSound
  <2>2. \A b \in candidates : Anc[b] \subseteq linked
    BY <2>1, AncLeast
  <2>. QED
    BY <2>2 DEF Inv, ChainSound
<1>. QED
  BY <1>1, InvHolds, PTL

-----------------------------------------------------------------------------
(* The invariant of ordinary use, action by action.                         *)

\* A node with the genesis block only satisfies the invariant of ordinary use.
LEMMA OInvInit == Init => OInv
<1>. SUFFICES ASSUME Init PROVE OInv
  OBVIOUS
<1>0. seq \in [Blk -> Int] /\ address \in Addresses /\ Genesis \in Blk
  BY TreeTypes DEF Init
<1>1. ~Below(Genesis, Genesis, seq, address)
  BY <1>0, BelowOrder
<1>2. Caused /\ OwnFailures
  BY DEF Init, Caused, OwnFailures
<1>3. Complete
  BY <1>1 DEF Init, Complete, Standard
<1>4. Chosen
  BY <1>1 DEF Init, Chosen, BestOf
<1>. QED
  BY <1>2, <1>3, <1>4 DEF OInv

\* The tip, and the tip that a call of ActivateBestChain started from, have no
\* flag and are candidates.
LEMMA StandardFacts ==
  ASSUME Inv, OInv
  PROVE  /\ seq \in [Blk -> Int] /\ address \in Addresses
         /\ linked \in SUBSET Blk /\ candidates \subseteq linked
         /\ tip \in linked \ Failed /\ tip \in Blk
         /\ Standard \in linked \ Failed /\ Standard \in Blk
         /\ pc # "invalidate" => Standard \in candidates
         /\ candidates # {}
<1>1. /\ seq \in [Blk -> Int] /\ address \in Addresses
      /\ linked \in SUBSET Blk /\ candidates \subseteq linked
      /\ tip \in linked /\ tip \in Blk
  BY DEF Inv, TypeOK, ChainSound
<1>2. tip \notin Failed
  BY DEF Inv, ChainSound, OInv, Caused
<1>3. pc = "locked" => startingTip \in linked \ Failed
  BY DEF Inv, TypeOK, ChainSound, OInv, Caused
<1>4. Standard \in linked \ Failed /\ Standard \in Blk
  BY <1>1, <1>2, <1>3 DEF Standard
<1>5. ~Below(Standard, Standard, seq, address)
  BY <1>1, <1>4, BelowOrder
<1>6. pc # "invalidate" => Standard \in candidates
  BY <1>4, <1>5 DEF OInv, Complete
<1>. QED
  BY <1>1, <1>2, <1>4, <1>6 DEF OInv, Complete

\* Flags are added, and nothing else of the invariant changes.
LEMMA MoreFailed ==
  ASSUME OInv, Failed \subseteq Failed', Caused', OwnFailures',
         UNCHANGED <<linked, candidates, queue, rank, tip, activation, snatch>>,
         pending => pending'
  PROVE  OInv'
<1>1. Complete'
  BY DEF OInv, Complete, Standard
<1>2. Chosen'
  BY Zenon DEF OInv, Chosen, BestOf
<1>. QED
  BY <1>1, <1>2 DEF OInv

\* AcceptBlockHeader on a header below a failed block: every flag it sets has a cause.
LEMMA RejectHeaderOInv ==
  ASSUME Inv, OInv, NEW b \in Blk \ {Genesis}, RejectHeader(b)
  PROVE  OInv'
<1>1. PICK f \in FailedAncestors(Parent[b]) :
        failedChild' = failedChild \cup (Anc[Parent[b]] \ Anc[f])
  BY DEF RejectHeader
<1>2. f \in failedValid /\ f \in Anc[Parent[b]] /\ Parent[b] \in Blk
  BY <1>1, TreeTypes DEF FailedAncestors, Inv, ChainSound
<1>3. \A x \in Anc[Parent[b]] \ Anc[f] : f \in Anc[x]
  BY <1>2, Between
<1>4. Caused'
  BY <1>1, <1>2, <1>3 DEF OInv, Caused, RejectHeader
<1>5. OwnFailures'
  BY DEF OInv, OwnFailures, RejectHeader
<1>. QED
  BY <1>1, <1>4, <1>5, MoreFailed DEF RejectHeader

\* AcceptBlockHeader on a good header leaves flags and candidates alone.
LEMMA AcceptHeaderOInv ==
  ASSUME Inv, OInv, NEW b \in Blk \ {Genesis}, AcceptHeader(b)
  PROVE  OInv'
<1>1. Caused' /\ OwnFailures'
  BY DEF OInv, Caused, OwnFailures, AcceptHeader
<1>2. pending => pending'
  BY Zenon DEF AcceptHeader
<1>3. UNCHANGED <<linked, candidates, queue, rank, tip, activation, snatch>> /\ Failed \subseteq Failed'
  BY DEF AcceptHeader
<1>. QED
  BY <1>1, <1>2, <1>3, MoreFailed

\* AcceptBlock on a bad block marks that block, which is invalid itself.
LEMMA RejectBlockOInv ==
  ASSUME Inv, OInv, NEW b \in Blk \ {Genesis}, RejectBlock(b)
  PROVE  OInv'
<1>1. b \notin scripts /\ b \in Anc[b]
  BY AncSelf, ZenonT(60) DEF Inv, TypeOK, Placed, RejectBlock
<1>2. Caused' /\ OwnFailures'
  BY <1>1 DEF OInv, Caused, OwnFailures, RejectBlock
<1>. QED
  BY <1>2, MoreFailed DEF RejectBlock

\* AcceptBlock on a good block leaves the candidates to ReceivedBlockTransactions.
LEMMA AcceptBlockOInv ==
  ASSUME Inv, OInv, NEW b \in Blk \ {Genesis}, AcceptBlock(b)
  PROVE  OInv'
<1>1. Caused' /\ OwnFailures' /\ Complete'
  BY ZenonT(60) DEF OInv, Caused, OwnFailures, Complete, Standard, AcceptBlock
<1>2. Chosen'
  BY Zenon DEF OInv, Chosen, BestOf, AcceptBlock
<1>. QED
  BY <1>1, <1>2 DEF OInv

\* Linking a block gives it a new sequence number and no other block.
LEMMA LinkOInv ==
  ASSUME Inv, OInv, NEW b \in Blk, Link(b)
  PROVE  OInv'
<1>1. /\ seq \in [Blk -> Int] /\ linked \in SUBSET Blk /\ candidates \subseteq linked
      /\ tip \in linked
  BY StandardFacts
<1>2. b \notin linked /\ queue # {} /\ pc # "locked"
  BY ZenonT(60) DEF Inv, Placed, Link
<1>3. \A c, e \in linked : Below(c, e, seq', address') = Below(c, e, seq, address)
  <2>1. \A c \in linked : seq'[c] = seq[c]
    BY <1>1, <1>2 DEF Link
  <2>. QED
    BY <2>1, Zenon DEF Below, Link
<1>4. /\ candidates \subseteq candidates' /\ candidates' \subseteq candidates \cup {b}
      /\ (b \in candidates') = (~Below(b, tip, seq', address'))
  <2>1. b \notin candidates
    BY <1>1, <1>2
  <2>2. Worse(b, tip)' = Below(b, tip, seq', address')
    BY DEF Worse, Below, Link
  <2>. QED
    BY <2>1, <2>2 DEF Link
<1>5. Caused' /\ OwnFailures'
  BY Zenon DEF OInv, Caused, OwnFailures, Link
<1>6. Complete'
  <2>1. Standard = tip /\ Standard' = tip /\ tip' = tip /\ pc' = pc /\ linked' = linked \cup {b}
        /\ Failed' = Failed
    BY <1>2 DEF Standard, Link
  <2>. QED
    BY <1>1, <1>2, <1>3, <1>4, <2>1 DEF OInv, Complete
<1>7. Chosen'
  BY <1>2, Zenon DEF OInv, Chosen, Link
<1>. QED
  BY <1>5, <1>6, <1>7 DEF OInv

\* ActivateBestChain begins: the candidates are still complete.
LEMMA ActivateOInv ==
  ASSUME Inv, OInv, Activate
  PROVE  OInv'
<1>1. Caused' /\ OwnFailures'
  BY DEF OInv, Caused, OwnFailures, Activate
<1>2. seq \in [Blk -> Int] /\ address \in Addresses /\ tip \in Blk
  BY StandardFacts
<1>3. ~Below(tip, tip, seq, address)
  BY <1>2, BelowOrder
<1>4. Standard' = Standard
  BY DEF Activate, Standard
<1>5. Complete'
  BY <1>3, <1>4 DEF OInv, Complete, Activate
<1>6. mostWork # None => ~Below(mostWork, tip, seq, address)
  <2>1. mostWork # None => mostWork \in Blk /\ tip \in Anc[mostWork]
    BY ZenonT(60) DEF Inv, TypeOK, OInv, Chosen
  <2>. QED
    BY <1>2, <2>1, AncestorBelow
<1>7. mostWork # None => pc = "unlocked"
  BY ZenonT(60) DEF Activate, Inv, ChainSound
<1>8. Chosen'
  BY <1>6, <1>7, Zenon DEF OInv, Chosen, BestOf, Activate, CsMainFree
<1>. QED
  BY <1>1, <1>5, <1>8 DEF OInv

\* FindMostWorkChain drops only candidates with a failed ancestor.
LEMMA DropCandidateOInv ==
  ASSUME Inv, OInv, DropCandidate
  PROVE  OInv'
<1>1. PICK f \in FailedOnPath :
        /\ failedChild' = failedChild \cup (Anc[Best] \ Anc[f])
        /\ candidates' = candidates \ ((Anc[Best] \ Anc[f]) \cup {f})
  BY Zenon DEF DropCandidate
<1>2. f \in Failed /\ f \in Anc[Best] /\ Best # None
  BY <1>1 DEF FailedOnPath
<1>3. Best \in Blk
  BY <1>2, BestFacts DEF Inv, TypeOK
<1>. DEFINE t == Best
<1>. HIDE DEF t
<1>4. \A x \in Anc[t] \ Anc[f] : f \in Anc[x] /\ Anc[f] \subseteq Anc[x]
  <2>1. t \in Blk /\ f \in Anc[t] /\ Anc[t] \subseteq Blk
    BY <1>2, <1>3, TreeTypes DEF t
  <2>. QED
    BY <2>1, Between, AncTransitive, Zenon
<1>5. Caused'
  <2>1. \A x \in Anc[t] \ Anc[f] : ~(Anc[x] \cap failedValid = {})
    BY <1>2, <1>4 DEF OInv, Caused
  <2>. QED
    BY <1>1, <2>1 DEF OInv, Caused, DropCandidate, t
<1>6. OwnFailures'
  BY DEF OInv, OwnFailures, DropCandidate
<1>7. Complete'
  BY <1>1, <1>2, ZenonT(60) DEF OInv, Complete, Standard, DropCandidate
<1>8. Chosen'
  BY ZenonT(60) DEF OInv, Chosen, DropCandidate
<1>. QED
  BY <1>5, <1>6, <1>7, <1>8 DEF OInv

\* ActivateBestChain ends only when no candidate is better than the tip.
LEMMA ActivateDoneOInv ==
  ASSUME Inv, OInv, ActivateDone
  PROVE  OInv'
<1>1. /\ seq \in [Blk -> Int] /\ address \in Addresses /\ linked \in SUBSET Blk
      /\ tip \in Blk /\ startingTip \in candidates /\ startingTip \in Blk /\ candidates # {}
  BY StandardFacts DEF Standard, ActivateDone
<1>2. Best \in candidates /\ Best # None /\ \A e \in candidates : e # Best => Below(e, Best, seq, address)
  BY <1>1, BestFacts DEF Worse, Below
<1>3. mostWork = None /\ Best = tip
  BY <1>2 DEF ActivateDone, Target, OInv, Chosen
<1>4. startingTip = tip
  <2>1. ~Below(startingTip, tip, seq, address)
    BY DEF ActivateDone, OInv, Complete
  <2>. QED
    BY <1>1, <1>2, <1>3, <2>1
<1>5. Caused' /\ OwnFailures'
  BY DEF OInv, Caused, OwnFailures, ActivateDone
<1>6. Standard' = Standard
  BY <1>4 DEF Standard, ActivateDone
<1>7. Complete'
  BY <1>6 DEF OInv, Complete, ActivateDone
<1>8. BestOf(tip)
  <2>1. SUFFICES ASSUME NEW b \in linked, Anc[b] \cap Failed = {}, Below(tip, b, seq, address)
                 PROVE  FALSE
    BY DEF BestOf
  <2>2. b \in Blk /\ b \notin Failed /\ ~Below(b, tip, seq, address) /\ b # tip
    BY <1>1, <2>1, AncSelf, BelowOrder
  <2>3. b \in candidates
    BY <1>4, <2>2 DEF OInv, Complete, Standard, ActivateDone
  <2>. QED
    BY <1>2, <1>3, <2>2, <2>3
<1>9. Chosen'
  BY <1>8, Zenon DEF OInv, Chosen, BestOf, ActivateDone
<1>. QED
  BY <1>5, <1>7, <1>9 DEF OInv

\* The block that ActivateBestChain goes to is as good as the tip it started
\* from, and the best there is unless something arrived in the meantime.
LEMMA TargetIsBest ==
  ASSUME Inv, OInv, pc = "locked", mostWork = None => FailedOnPath = {}, Target # None
  PROVE  /\ ~Below(Target, startingTip, seq, address)
         /\ pending \/ BestOf(Target)
<1>1. /\ seq \in [Blk -> Int] /\ address \in Addresses /\ linked \in SUBSET Blk
      /\ startingTip \in candidates /\ startingTip \in Blk /\ candidates # {}
  BY StandardFacts DEF Standard
<1>2. CASE mostWork # None
  BY <1>2 DEF Target, OInv, Chosen
<1>3. CASE mostWork = None
  <2>. DEFINE m == Best
  <2>1. m \in candidates /\ m \in Blk /\ \A e \in candidates : e # m => Below(e, m, seq, address)
    BY <1>1, BestFacts DEF Worse, Below
  <2>2. Target = m
    BY <1>3 DEF Target
  <2>. HIDE DEF m
  <2>3. ~Below(m, startingTip, seq, address)
    BY <1>1, <2>1, BelowOrder
  <2>4. BestOf(m)
    <3>1. SUFFICES ASSUME NEW b \in linked, Anc[b] \cap Failed = {}, Below(m, b, seq, address)
                   PROVE  FALSE
      BY DEF BestOf
    <3>2. b \in Blk /\ b \notin Failed /\ ~Below(b, m, seq, address) /\ b # m
      BY <1>1, <2>1, <3>1, AncSelf, BelowOrder, ZenonT(60)
    <3>3. ~Below(b, startingTip, seq, address)
      BY <1>1, <2>1, <2>3, <3>2, NotBelowTransitive
    <3>4. b \in candidates
      BY <3>2, <3>3 DEF OInv, Complete, Standard
    <3>. QED
      BY <2>1, <3>2, <3>4
  <2>. QED
    BY <2>2, <2>3, <2>4
<1>. QED
  BY <1>2, <1>3

\* ActivateBestChainStep prunes only candidates that are worse than the new tip.
LEMMA ActivateStepOInv ==
  ASSUME Inv, OInv, ActivateStep, Inv'
  PROVE  OInv'
<1>. DEFINE m == Target
            t == NewTip(m)
            C == Connected(m)
            F == FoundInvalid(m)
            st == startingTip
<1>1. m \in linked /\ m \in Blk /\ Anc[m] \cap failedValid = {} /\ m # None
  BY TargetFacts, ZenonT(60) DEF ActivateStep
<1>2. /\ seq \in [Blk -> Int] /\ address \in Addresses /\ linked \in SUBSET Blk
      /\ tip \in Blk /\ st \in Blk
  BY StandardFacts DEF Standard, ActivateStep
<1>3. /\ t \in Anc[m] /\ t \in Blk /\ Anc[t] = C \cup (Anc[m] \cap Chain)
      /\ C \subseteq Anc[m] \ Chain /\ F \subseteq Rejected \cap Anc[m]
  BY <1>1, <1>2, StepFacts, ZenonT(60)
<1>4. ~Below(m, st, seq, address) /\ (pending \/ BestOf(m))
  BY <1>1, TargetIsBest, ZenonT(60) DEF ActivateStep
<1>5. /\ pc = "locked" /\ tip' = t /\ scripts' = scripts \cup C
      /\ failedValid' = failedValid \cup F
      /\ candidates' = {c \in candidates : C = {} \/ ~Below(c, t, seq, address)} \ F
      /\ UNCHANGED <<index, received, failedChild, rank, inv, pending, snatch>>
  BY ZenonT(60) DEF ActivateStep, Prune, Worse, Below
<1>6. \/ /\ Below(t, st, seq, address) /\ pc' = "locked" /\ startingTip' = st
         /\ mostWork' = IF F = {} THEN m ELSE None
      \/ /\ ~Below(t, st, seq, address) /\ startingTip' = None
         /\ IF F = {} /\ m = t
            THEN pc' = "idle" /\ mostWork' = None
            ELSE pc' = "unlocked" /\ mostWork' = IF F = {} THEN m ELSE None
  <2>1. Worse(t, st) = Below(t, st, seq, address)
    BY DEF Worse, Below
  <2>2. t # None
    BY <1>3, ConstantTypes
  <2>. QED
    BY <1>1, <2>1, <2>2, ZenonT(60) DEF ActivateStep
<1>7. ~Below(st, tip, seq, address) /\ \A c \in candidates : ~Below(c, st, seq, address)
  BY <1>5 DEF OInv, Complete, Standard
<1>8. \A b \in linked \ Failed : ~Below(b, st, seq, address) => b \in candidates
  BY <1>5 DEF OInv, Complete, Standard
<1>9. candidates \subseteq Blk
  BY <1>2, StandardFacts
<1>. HIDE DEF m, t, C, F, st
<1>10. Caused'
  <2>1. \A b \in F : b \in Anc[b]
    BY <1>1, <1>3, AncSelf, TreeTypes
  <2>. QED
    BY <1>5, <2>1 DEF OInv, Caused
<1>11. OwnFailures'
  <2>1. scripts' \cap Rejected = {}
    BY ZenonT(60) DEF Inv, ChainSound
  <2>2. failedValid' \cap scripts' \subseteq failedValid \cap scripts
    BY <1>1, <1>3, <1>5, <2>1, ZenonT(60)
  <2>. QED
    BY <1>5, <1>6, <2>2, ZenonT(60) DEF OInv, OwnFailures
<1>12. Complete'
  <2>1. CASE Below(t, st, seq, address) /\ pc' = "locked" /\ startingTip' = st
    <3>1. Standard' = st
      BY <2>1 DEF Standard
    <3>2. ~Below(st, t, seq, address)
      BY <1>2, <1>3, <2>1, BelowOrder, ZenonT(60)
    <3>3. ASSUME NEW b \in linked \ Failed', ~Below(b, st, seq, address)
          PROVE  b \in candidates'
      <4>1. b \in candidates /\ b \notin F /\ b \in Blk
        BY <1>2, <1>5, <1>8, <3>3
      <4>2. ~Below(b, t, seq, address)
        BY <1>2, <1>3, <3>2, <3>3, <4>1, NotBelowTransitive, ZenonT(60)
      <4>. QED
        BY <1>5, <4>1, <4>2
    <3>. QED
      BY <1>5, <1>7, <2>1, <3>1, <3>2, <3>3 DEF Complete
  <2>2. CASE ~Below(t, st, seq, address) /\ pc' # "locked" /\ pc' # "invalidate"
    <3>1. Standard' = t
      BY <1>5, <2>2 DEF Standard
    <3>2. ASSUME NEW b \in linked \ Failed', ~Below(b, t, seq, address)
          PROVE  b \in candidates'
      <4>1. b \in Blk /\ ~Below(b, st, seq, address)
        BY <1>2, <1>3, <2>2, <3>2, NotBelowTransitive
      <4>. QED
        BY <1>5, <1>8, <3>2, <4>1
    <3>3. ASSUME NEW b \in candidates', Below(b, t, seq, address) PROVE FALSE
      <4>1. C = {} /\ b \in candidates
        BY <1>5, <3>3
      <4>2. t \in Anc[tip]
        BY <1>3, <4>1, AncSelf
      <4>3. ~Below(tip, t, seq, address)
        BY <1>2, <4>2, AncestorBelow
      <4>4. ~Below(st, t, seq, address)
        BY <1>2, <1>3, <1>7, <4>3, NotBelowTransitive
      <4>5. t = st
        BY <1>2, <1>3, <2>2, <4>4, BelowOrder, ZenonT(60)
      <4>. QED
        BY <1>7, <3>3, <4>1, <4>5
    <3>. QED
      BY <1>5, <2>2, <3>1, <3>2, <3>3 DEF Complete
  <2>. QED
    BY <1>6, <2>1, <2>2
<1>13. Chosen'
  <2>1. queue' = {}
    BY <1>5, Zenon DEF Inv, Placed
  <2>2. F = {} => Failed' = Failed
    BY <1>5
  <2>3. F = {} => (BestOf(m) => (\A b \in linked' : Anc[b] \cap Failed' = {} => ~Below(m, b, seq', address')))
    BY <1>5, <2>2, Zenon DEF BestOf
  <2>4. ASSUME mostWork' # None
        PROVE  /\ mostWork' = m /\ F = {} /\ t # m
               /\ pc' = "locked" => startingTip' = st
    BY <1>4, <1>6, <2>4
  <2>5. pc' = "idle" => F = {} /\ t = m
    BY <1>6
  <2>6. mostWork' # None => /\ tip' \in Anc[mostWork'] /\ tip' # mostWork'
                            /\ pending' \/ BestOf(mostWork)'
                            /\ pc' = "locked" => ~Below(mostWork', startingTip', seq', address')
    BY <1>3, <1>4, <1>5, <2>3, <2>4, ZenonT(60) DEF BestOf
  <2>7. pc' = "idle" /\ ~pending' => BestOf(tip)'
    BY <1>4, <1>5, <2>3, <2>5, Zenon DEF BestOf
  <2>. QED
    BY <2>1, <2>6, <2>7 DEF Chosen
<1>. QED
  BY <1>10, <1>11, <1>12, <1>13 DEF OInv

\* InvalidateBlock begins: what it collects are usable blocks off the chain.
LEMMA InvalidateStartOInv ==
  ASSUME Inv, OInv, NEW b, InvalidateStart(b), OwnFailures'
  PROVE  OInv'
<1>1. Caused'
  BY ZenonT(60) DEF OInv, Caused, InvalidateStart
<1>2. tip \in candidates
  BY StandardFacts, ZenonT(60) DEF Standard, InvalidateStart
<1>3. Standard' = Standard
  BY ZenonT(60) DEF Standard, InvalidateStart
<1>4. Complete'
  BY <1>2, <1>3, ZenonT(60) DEF OInv, Complete, InvalidateStart
<1>5. mostWork' = None
  BY ZenonT(60) DEF Inv, ChainSound, InvalidateStart
<1>6. Chosen'
  BY <1>5, Zenon DEF OInv, Chosen, InvalidateStart, CsMainFree
<1>. QED
  BY <1>1, <1>4, <1>6 DEF OInv

\* invalidateblock begins like any InvalidateBlock.
LEMMA InvalidateBlockOInv ==
  ASSUME Inv, OInv, NEW b \in Invalidable, InvalidateBlock(b)
  PROVE  OInv'
<1>1. OwnFailures'
  BY Zenon DEF OInv, OwnFailures, InvalidateBlock, InvalidateStart
<1>. QED
  BY <1>1, InvalidateStartOInv DEF InvalidateBlock

\* CheckDeadlineThread calls InvalidateBlock for the tip it picked.
LEMMA SnatchInvalidateOInv ==
  ASSUME Inv, OInv, SnatchInvalidate
  PROVE  OInv'
<1>1. /\ snatch.step = "picked" /\ snatch'.step = "invalidate" /\ snatch'.block = snatch.block
      /\ inv'.block = snatch.block /\ UNCHANGED <<failedValid, scripts>>
  BY DEF SnatchInvalidate, InvalidateStart, Inv, TypeOK
<1>2. Snatchable # {}
  BY <1>1 DEF OInv, OwnFailures, NoSnatch
<1>3. OwnFailures'
  BY <1>1, <1>2, Zenon DEF OInv, OwnFailures
<1>. QED
  BY <1>3, InvalidateStartOInv DEF SnatchInvalidate

\* InvalidateBlock, one block down: what is as good as the new tip becomes a candidate.
LEMMA InvalidateStepOInv ==
  ASSUME Inv, OInv, InvalidateStep
  PROVE  OInv'
<1>. DEFINE up == Parent[tip]
            found == {c \in inv.byWork : ~Worse(c, up)}
<1>1. inv.block \in Anc[tip] /\ inv.block \in index \ {Genesis}
  BY DEF Inv, LocalsOf, InvalidateStep
<1>2. /\ seq \in [Blk -> Int] /\ address \in Addresses /\ linked \in SUBSET Blk
      /\ tip \in Blk /\ candidates \subseteq Blk
  BY StandardFacts
<1>3. tip # Genesis /\ up \in Blk /\ up \in Anc[tip] /\ up # tip /\ tip \in Anc[tip]
  BY <1>1, <1>2, AncGenesis, AncStep, NotAncOfParent, TreeTypes, AncSelf
<1>4. up \notin failedValid
  BY <1>3 DEF Inv, ChainSound
<1>5. /\ tip' = up /\ failedValid' = failedValid \cup {tip} /\ failedChild' = failedChild
      /\ candidates' = (candidates \ {tip}) \cup {up} \cup found
      /\ pc = "invalidate" /\ queue = {} /\ inv'.block = inv.block
      /\ UNCHANGED <<index, received, scripts, failedBlocks, rank, activation, pending, snatch>>
  BY <1>4 DEF InvalidateStep, CsMainFree, Inv, TypeOK
<1>6. \A c \in found : ~Below(c, up, seq, address)
  BY DEF Worse, Below
<1>. HIDE DEF up, found
<1>7. ~Below(tip, up, seq, address) /\ ~Below(up, up, seq, address)
  BY <1>2, <1>3, AncestorBelow, BelowOrder, ZenonT(60)
<1>8. \A c \in candidates : ~Below(c, up, seq, address)
  <2>1. \A c \in candidates : ~Below(c, tip, seq, address)
    BY <1>5, ZenonT(60) DEF OInv, Complete, Standard
  <2>. QED
    BY <1>2, <1>3, <1>7, <2>1, NotBelowTransitive
<1>9. Caused'
  BY <1>3, <1>5 DEF OInv, Caused
<1>10. OwnFailures'
  BY <1>1, <1>5 DEF OInv, OwnFailures
<1>11. Complete'
  <2>1. Standard' = up /\ pc' = "invalidate" /\ tip' = up
    BY <1>5 DEF Standard
  <2>. QED
    BY <1>5, <1>6, <1>7, <1>8, <2>1, ZenonT(60) DEF Complete
<1>12. mostWork' = None /\ queue' = {} /\ pc' = "invalidate"
  BY <1>5, ZenonT(60) DEF Inv, ChainSound
<1>13. Chosen'
  BY <1>12 DEF Chosen
<1>. QED
  BY <1>9, <1>10, <1>11, <1>13 DEF OInv

\* InvalidateBlock ends: blocks that arrived in the meantime are candidates too.
LEMMA InvalidateFinishOInv ==
  ASSUME Inv, OInv, InvalidateFinish
  PROVE  OInv'
<1>. DEFINE b == inv.toMark
<1>1. /\ failedValid' = failedValid \cup {b} /\ failedChild' = failedChild
      /\ candidates' = (candidates \ {b}) \cup {c \in Usable \ {b} : ~Below(c, tip, seq, address)}
      /\ pc = "invalidate" /\ pc' = "idle" /\ queue = {}
      /\ UNCHANGED <<index, received, scripts, rank, tip, mostWork, startingTip>>
  BY DEF InvalidateFinish, Missed, Worse, Below, CsMainFree
<1>2. \/ snatch.step = "invalidate" /\ snatch'.step = "reset" /\ snatch'.block = snatch.block
      \/ snatch.step # "invalidate" /\ snatch' = snatch /\ pending' = TRUE
  BY DEF InvalidateFinish, Inv, TypeOK
<1>3. b \in Blk /\ inv.block \in Anc[b]
  BY <1>1, Zenon DEF Inv, TypeOK, LocalsOf
<1>. HIDE DEF b
<1>4. b \in Anc[b]
  BY <1>3, AncSelf
<1>5. Caused'
  BY <1>1, <1>4, ZenonT(60) DEF OInv, Caused
<1>6. OwnFailures'
  <2>1. Snatchable = {} => snatch'= NoSnatch
    BY <1>2 DEF OInv, OwnFailures, NoSnatch
  <2>2. ASSUME Invalidable = {}
        PROVE  \A c \in failedValid' \cap scripts' :
                 snatch'.step \in {"invalidate", "reset"} /\ snatch'.block \in Anc[c]
    BY <1>1, <1>2, <1>3, <2>2, ZenonT(60) DEF OInv, OwnFailures
  <2>. QED
    BY <1>1, <2>1, <2>2 DEF OwnFailures
<1>7. Complete'
  <2>1. Standard' = tip /\ Standard = tip
    BY <1>1 DEF Standard
  <2>2. linked \subseteq data
    BY DEF Inv, TypeOK
  <2>3. \A c \in candidates' : ~Below(c, tip, seq, address)
    BY <1>1, <2>1 DEF OInv, Complete
  <2>4. \A c \in linked \ Failed' : ~Below(c, tip, seq, address) => c \in candidates'
    BY <1>1, <2>2 DEF Usable
  <2>. QED
    BY <1>1, <2>1, <2>3, <2>4 DEF Complete
<1>8. mostWork' = None /\ queue' = {}
  BY <1>1, ZenonT(60) DEF Inv, ChainSound
<1>9. Chosen'
  BY <1>2, <1>8 DEF Chosen
<1>. QED
  BY <1>5, <1>6, <1>7, <1>9 DEF OInv

\* CheckDeadlineThread picks the tip; flags and candidates stay as they are.
LEMMA SnatchPickOInv ==
  ASSUME Inv, OInv, SnatchPick
  PROVE  OInv'
<1>1. /\ snatch = NoSnatch /\ tip \in Snatchable /\ snatch'.step = "picked"
      /\ UNCHANGED <<index, received, scripts, flags, candidates, rank, tip, activation, inv, pending>>
  BY DEF SnatchPick
<1>2. Caused' /\ Complete'
  BY <1>1, ZenonT(60) DEF OInv, Caused, Complete, Standard
<1>3. OwnFailures'
  BY <1>1 DEF OInv, OwnFailures, NoSnatch
<1>4. Chosen'
  BY <1>1, Zenon DEF OInv, Chosen, BestOf, NoSnatch
<1>. QED
  BY <1>2, <1>3, <1>4 DEF OInv

\* The forging thread takes back the flags that it has set, and those that were
\* set because of them; what had one and is better than the tip is a candidate
\* again.
LEMMA SnatchResetOInv ==
  ASSUME OrdinaryUse, Inv, OInv, SnatchReset
  PROVE  OInv'
<1>. DEFINE s == snatch.block
<1>1. /\ snatch.step = "reset" /\ snatch' = NoSnatch /\ pending' = TRUE
      /\ queue = {} /\ pc # "locked"
      /\ failedValid' = failedValid \ Cleared(s) /\ failedChild' = failedChild \ Cleared(s)
      /\ candidates' = candidates \cup {c \in Descendants(s) \cap Failed \cap data \cap linked :
                                          Below(tip, c, seq, address)}
      /\ UNCHANGED <<index, received, scripts, rank, tip, activation, inv>>
  BY ZenonT(60) DEF SnatchReset, ResetBlockFailureFlags, Reinstated, Worse, Below, CsMainFree
<1>2. s \in scripts /\ scripts \in SUBSET Blk /\ Closed(scripts) /\ s \in Blk
      /\ index \subseteq Blk /\ linked \subseteq index /\ linked \subseteq data
      /\ Failed \subseteq index
  BY <1>1, ZenonT(60) DEF Inv, TypeOK, ChainSound, LocalsOf
<1>3. Invalidable = {}
  <2>1. NoSnatch.step = "idle"
    BY DEF NoSnatch
  <2>2. snatch # NoSnatch
    BY <1>1, <2>1, Zenon
  <2>. QED
    BY <2>2, Zenon DEF OrdinaryUse, OInv, OwnFailures
<1>4. /\ pc # "invalidate"
      /\ \A b \in failedValid \cap scripts : s \in Anc[b]
  BY <1>1, <1>3, ZenonT(60) DEF OInv, OwnFailures
<1>. HIDE DEF s
<1>5. \A a \in Anc[s] \cap failedValid : a = s
  BY <1>2, <1>4, AncLeast, AncAntisymmetric
<1>6. \A b \in index : (b \in Descendants(s)) = (s \in Anc[b])
  BY DEF Descendants
\* An invalid ancestor whose flag is taken back makes a descendant of s
<1>7. ASSUME NEW b \in index, NEW a \in Anc[b], a \in failedValid, a \in Cleared(s)
      PROVE  b \in Descendants(s)
  <2>1. a \in Blk /\ Anc[a] \subseteq Anc[b]
    BY <1>2, TreeTypes, AncTransitive
  <2>2. CASE a \in Anc[s]
    BY <1>5, <1>6, <1>7, <2>2
  <2>3. CASE a \in Descendants(s)
    BY <1>6, <2>1, <2>3 DEF Descendants
  <2>. QED
    BY <1>7, <2>2, <2>3 DEF Cleared
<1>8. Caused'
  <2>1. ASSUME NEW b \in Failed' PROVE ~(Anc[b] \cap failedValid' = {})
    <3>1. b \in Failed /\ b \in index /\ b \notin Cleared(s)
      BY <1>1, <1>2, <2>1
    <3>2. PICK a \in Anc[b] : a \in failedValid
      BY <3>1 DEF OInv, Caused
    <3>3. a \notin Cleared(s)
      BY <1>7, <3>1, <3>2 DEF Cleared
    <3>. QED
      BY <1>1, <3>2, <3>3, Zenon
  <2>. QED
    BY <2>1 DEF Caused
<1>9. OwnFailures'
  <2>1. failedValid' \cap scripts' = {}
    BY <1>1, <1>2, <1>4, <1>6, ZenonT(60) DEF Cleared
  <2>. QED
    BY <1>1, <1>4, <2>1, ZenonT(60) DEF OwnFailures
<1>10. Complete'
  <2>1. Standard = tip /\ Standard' = tip
    BY <1>1 DEF Standard
  <2>2. seq \in [Blk -> Int] /\ address \in Addresses /\ tip \in Blk /\ tip \notin Failed
    BY StandardFacts
  <2>3. \A c \in candidates' : ~Below(c, tip, seq, address)
    <3>1. \A c \in linked : Below(tip, c, seq, address) => ~Below(c, tip, seq, address)
      BY <1>2, <2>2, BelowOrder
    <3>. QED
      BY <1>1, <2>1, <3>1 DEF OInv, Complete
  <2>4. ASSUME NEW c \in linked \ Failed', ~Below(c, tip, seq, address)
        PROVE  c \in candidates'
    <3>1. CASE c \notin Failed
      BY <1>1, <1>4, <2>1, <2>4, <3>1, ZenonT(60) DEF OInv, Complete
    <3>2. CASE c \in Failed
      <4>1. c \in Cleared(s) /\ c \in index /\ c \in Blk /\ c # tip
        BY <1>1, <1>2, <2>2, <2>4, <3>2
      <4>2. c \in Descendants(s)
        <5>1. PICK a \in Anc[c] : a \in failedValid
          BY <3>2 DEF OInv, Caused
        <5>2. CASE c \in Anc[s]
          <6>1. a \in Anc[s]
            BY <1>2, <5>1, <5>2, AncTransitive
          <6>. QED
            BY <1>7, <4>1, <5>1, <6>1 DEF Cleared
        <5>. QED
          BY <4>1, <5>2 DEF Cleared
      <4>3. Below(tip, c, seq, address)
        BY <2>2, <2>4, <4>1, BelowOrder
      <4>. QED
        BY <1>1, <1>2, <3>2, <4>2, <4>3
    <3>. QED
      BY <3>1, <3>2
  <2>. QED
    BY <1>1, <1>4, <2>1, <2>3, <2>4, ZenonT(60) DEF Complete
<1>11. Chosen'
  BY <1>1, ZenonT(60) DEF OInv, Chosen
<1>. QED
  BY <1>8, <1>9, <1>10, <1>11 DEF OInv

\* LoadBlockIndex computes candidates and m_blocks_unlinked from the status bits.
LEMMA RestartOInv ==
  ASSUME Inv, OInv, Restart, Inv'
  PROVE  OInv'
<1>1. /\ queue' = {} /\ pc = "idle" /\ snatch = NoSnatch
      /\ UNCHANGED <<index, data, scripts, failedValid, tip, pc, mostWork, startingTip, inv, snatch>>
      /\ failedChild' = failedChild \cup {b \in index \ Failed : Anc[b] \cap Failed # {}}
      /\ candidates' = {b \in data \cap linked' : b \notin Failed' /\ ~Below(b, tip, seq', address')}
      /\ pending' = TRUE
  BY ZenonT(60) DEF Restart, CsMainFree, Worse, Below
<1>2. Caused'
  <2>1. ASSUME NEW b \in index, NEW x \in Anc[b], x \in Failed PROVE ~(Anc[b] \cap failedValid = {})
    <3>1. b \in Blk
      BY DEF Inv, TypeOK
    <3>2. Anc[x] \subseteq Anc[b]
      BY <3>1, AncTransitive
    <3>. QED
      BY <2>1, <3>2 DEF OInv, Caused
  <2>. QED
    BY <1>1, <2>1, Zenon DEF OInv, Caused
<1>3. OwnFailures'
  BY <1>1, ZenonT(60) DEF OInv, OwnFailures, NoSnatch
<1>4. linked' \subseteq data'
  BY DEF Inv, TypeOK
<1>5. Complete'
  BY <1>1, <1>4, ZenonT(60) DEF Complete, Standard
<1>6. mostWork' = None
  BY <1>1, ZenonT(60) DEF Inv, ChainSound
<1>7. Chosen'
  BY <1>1, <1>6 DEF Chosen
<1>. QED
  BY <1>2, <1>3, <1>5, <1>7 DEF OInv

\* Every step of ordinary use preserves its invariant.
LEMMA OInvNext ==
  ASSUME OrdinaryUse
  PROVE  Inv /\ OInv /\ Inv' /\ [Next]_vars => OInv'
<1>. SUFFICES ASSUME Inv, OInv, Inv', [Next]_vars PROVE OInv'
  OBVIOUS
<1>1. CASE \E b \in Blk \ {Genesis} : RejectHeader(b) \/ AcceptHeader(b) \/ RejectBlock(b) \/ AcceptBlock(b)
  BY <1>1, RejectHeaderOInv, AcceptHeaderOInv, RejectBlockOInv, AcceptBlockOInv
<1>2. CASE \E b \in Precious : PreciousBlock(b)
  BY <1>2 DEF OrdinaryUse
<1>3. CASE \E b \in Reconsidered : ReconsiderBlock(b)
  BY <1>3 DEF OrdinaryUse
<1>4. CASE \E b \in Invalidable : InvalidateBlock(b)
  BY <1>4, InvalidateBlockOInv
<1>5. CASE SnatchPick
  BY <1>5, SnatchPickOInv
<1>6. CASE SnatchInvalidate
  BY <1>6, SnatchInvalidateOInv
<1>7. CASE SnatchReset
  BY <1>7, SnatchResetOInv
<1>8. CASE Restart
  BY <1>8, RestartOInv
<1>9. CASE Running
  BY <1>9, ActivateOInv, DropCandidateOInv, ActivateStepOInv, ActivateDoneOInv,
     InvalidateStepOInv, InvalidateFinishOInv, LinkOInv DEF Running
<1>10. CASE UNCHANGED vars
  BY <1>10, Zenon DEF OInv, Caused, OwnFailures, Complete, Standard, Chosen, BestOf, vars
<1>. QED
  BY <1>1, <1>2, <1>3, <1>4, <1>5, <1>6, <1>7, <1>8, <1>9, <1>10 DEF Next

\* In ordinary use the candidates and the failure flags are in order.
THEOREM OInvHolds ==
  ASSUME OrdinaryUse
  PROVE  Spec => []OInv
<1>1. Init => OInv
  BY OInvInit
<1>2. Inv /\ OInv /\ Inv' /\ [Next]_vars => OInv'
  BY OInvNext
<1>. QED
  BY <1>1, <1>2, InvHolds, PTL DEF Spec

-----------------------------------------------------------------------------
(* What the runs check, in ordinary use.                                    *)

\* In ordinary use, a block has BLOCK_FAILED_VALID or BLOCK_FAILED_CHILD only if
\* it or an ancestor has BLOCK_FAILED_VALID, as CheckBlockIndex asserts.
THEOREM FailureHasCauseTheorem ==
  ASSUME OrdinaryUse
  PROVE  Spec => []FailureHasCause
<1>1. Inv /\ OInv => FailureHasCause
  BY DEF Inv, ChainSound, OInv, Caused, FailureHasCause
<1>. QED
  BY <1>1, InvHolds, OInvHolds, PTL

\* In ordinary use, whenever no call is in the middle of its work,
\* setBlockIndexCandidates holds every downloaded block without an invalid
\* ancestor that is as good as the tip, and no block that is worse.
THEOREM CandidatesCompleteTheorem ==
  ASSUME OrdinaryUse
  PROVE  Spec => []CandidatesComplete
<1>1. Inv /\ OInv => CandidatesComplete
  <2>. SUFFICES ASSUME Inv, OInv, Checked
                PROVE  /\ {b \in linked : Sound(b) /\ ~Worse(b, tip)} \subseteq candidates
                       /\ \A b \in candidates : b \in linked /\ ~Worse(b, tip)
    BY DEF CandidatesComplete
  <2>1. Standard = tip /\ pc # "invalidate"
    BY DEF Standard, Checked, CsMainFree
  <2>2. \A b : Worse(b, tip) = Below(b, tip, seq, address)
    BY DEF Worse, Below
  <2>3. \A b \in candidates : b \in linked /\ ~Below(b, tip, seq, address)
    BY <2>1, StandardFacts DEF OInv, Complete
  <2>4. \A b \in linked : Sound(b) /\ ~Below(b, tip, seq, address) => b \in candidates
    BY <2>1, ZenonT(60) DEF OInv, Caused, Complete
  <2>. QED
    BY <2>2, <2>3, <2>4
<1>. QED
  BY <1>1, InvHolds, OInvHolds, PTL

\* In ordinary use, the assertion of PruneBlockIndexCandidates holds, and
\* FindMostWorkChain always finds a candidate whose blocks are all there.
THEOREM NeverOutOfCandidatesTheorem ==
  ASSUME OrdinaryUse
  PROVE  Spec => []NeverOutOfCandidates
<1>1. Inv /\ OInv => NeverOutOfCandidates
  <2>. SUFFICES ASSUME Inv, OInv PROVE NeverOutOfCandidates
    OBVIOUS
  <2>1. candidates # {} /\ candidates \subseteq linked /\ linked \in SUBSET Blk
    BY StandardFacts
  <2>2. \A b \in candidates : Anc[b] \subseteq linked
    BY <2>1, AncLeast DEF Inv, Placed
  <2>. QED
    BY <2>1, <2>2, Zenon DEF NeverOutOfCandidates
<1>. QED
  BY <1>1, InvHolds, OInvHolds, PTL

\* In ordinary use, the node is on the best chain whenever no call of
\* ActivateBestChain is running or due: no downloaded block without a failed
\* ancestor is better than the tip.  This is for any number of blocks that arrive
\* in any order, while cs_main is released as well as between calls, for any
\* blocks that turn out to be invalid, and across restarts.
THEOREM TipIsBestTheorem ==
  ASSUME OrdinaryUse
  PROVE  Spec => []TipIsBest
<1>1. Inv /\ OInv => TipIsBest
  <2>. SUFFICES ASSUME Inv, OInv, pc = "idle", ~pending, snatch.step # "reset"
                PROVE  /\ Sound(tip)
                       /\ \A b \in linked : Anc[b] \cap Failed = {} => ~Worse(tip, b)
    BY DEF TipIsBest
  <2>1. BestOf(tip)
    BY ZenonT(60) DEF OInv, Chosen
  <2>2. \A b : Worse(tip, b) = Below(tip, b, seq, address)
    BY DEF Worse, Below
  <2>. QED
    BY <2>1, <2>2, ZenonT(60) DEF BestOf, Inv, ChainSound
<1>. QED
  BY <1>1, InvHolds, OInvHolds, PTL
=============================================================================
