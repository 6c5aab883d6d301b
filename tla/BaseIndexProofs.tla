-------------------------- MODULE BaseIndexProofs --------------------------
(***************************************************************************)
(* Proofs about the transaction index: whenever it says that it has caught *)
(* up it is right, its locator names nothing that is not in it, and the    *)
(* queue never drops an announcement the index needs.                      *)
(***************************************************************************)
EXTENDS BaseIndex, Lemmas

\* The provers every step below is tried with, unless it names one.
USE SMT, Zenon, SMTT(20), ZenonT(40), SMTT(40)

\* The transactions of the blocks of S are where the database f says
Indexed(f, S) == \A a \in S : \A t \in Txs[a] : f[t] = a

\* ThreadSync has indexed the chain of pindex, pindex itself when it is written
SyncInv ==
  ~synced =>
    /\ tip # None /\ writing = None
    /\ pc = "next" /\ pindex # None /\ right => Indexed(txindex, Anc[pindex])
    /\ pc = "write" => pindex # None /\ (right => Indexed(txindex, Anc[pindex] \ {pindex}))

\* From then on the chain of the best block is indexed, and a block that is
\* about to be written is the announcement at the head, on top of the best block
SyncedInv ==
  synced =>
    /\ pc \in {"done", "failed"}
    /\ best # None => tip # None /\ (right => Indexed(txindex, Anc[best]))
    /\ writing # None => /\ queue # << >>
                         /\ Event = [event |-> "connected", block |-> writing]
                         /\ best = PrevOf(writing)

\* The block up to which the thread that writes has come
Front == IF synced THEN best ELSE pindex

\* The locator is never ahead of the thread that writes
LocatorInv ==
  ~lapse =>
    /\ right
    /\ LocatorIsIndexed
    /\ locator # None /\ (synced \/ pc \in {"next", "write"}) => Front # None /\ locator \in Anc[Front]

\* The announcement e is of a block on top of a block on the chain of b
OnTop(e, b) == e.event = "connected" /\ e.block # Genesis /\ Parent[e.block] \in Anc[b]

\* The chain leads from b to the tip t: t is below b, or an announcement of q
\* after position i connects to the chain of b
Reaches(q, t, b, i) ==
  \/ t \in Anc[b]
  \/ \E j \in (i + 1)..Len(q) : OnTop(q[j], b)

\* From every announced block the chain leads to the tip
Linked(q, t) ==
  \A i \in 1..Len(q) : q[i].event = "connected" => Reaches(q, t, q[i].block, i)

QueueInv ==
  /\ Linked(queue, tip)
  /\ synced /\ best # None /\ pc # "failed" => Reaches(queue, tip, best, 0)

GenesisAnnounced == [event |-> "connected", block |-> Genesis]

NoGenesisFrom(q, k) == \A i \in k..Len(q) : q[i] # GenesisAnnounced

\* Only an index that started on an empty chain has no best block once it is
\* synced, and only until it has dealt with the genesis block, which then is
\* first in the queue and never announced again
EmptyInv ==
  /\ tip = None => synced /\ best = None /\ queue = << >>
  /\ synced /\ best = None /\ tip # None => queue # << >> /\ Event = GenesisAnnounced
  /\ NoGenesisFrom(queue, 2)
  /\ ~synced \/ best # None => NoGenesisFrom(queue, 1)

Inv == TypeOK /\ SyncInv /\ SyncedInv /\ LocatorInv /\ QueueInv /\ EmptyInv

Announcement == [event : {"connected", "flushed"}, block : Blk]

-----------------------------------------------------------------------------
(* The tree and the index.                                                  *)

\* What TypeOK says, one variable at a time.
LEMMA Types ==
  TypeOK => /\ tip \in Blk \cup {None} /\ diskTip \in Blk \cup {None}
            /\ locator \in Blk \cup {None} /\ best \in Blk \cup {None}
            /\ pindex \in Blk \cup {None} /\ writing \in Blk \cup {None}
            /\ queue \in Seq(Announcement) /\ Len(queue) <= MaxQueue
            /\ txindex \in [Tx -> Blk \cup {None}]
            /\ pc \in {"next", "write", "done", "failed"}
            /\ synced \in BOOLEAN /\ interrupt \in BOOLEAN /\ right \in BOOLEAN /\ lapse \in BOOLEAN
            /\ restarts \in 0..MaxRestarts
            /\ (synced => pc \in {"done", "failed"})
  BY DEF TypeOK, Announcement

\* None is not a block.
LEMMA NoneIsNoBlock == None \notin Blk /\ Genesis # None
  BY IndexTreeAssumption, TreeTypes

\* What is indexed for a chain is indexed for the chain of each of its blocks.
LEMMA IndexedBelow ==
  ASSUME NEW f, NEW b \in Blk, NEW a \in Anc[b], Indexed(f, Anc[b])
  PROVE  Indexed(f, Anc[a])
  BY AncTransitive DEF Indexed

\* TxIndex::WriteBlock completes the chain of the block it writes: the
\* transactions of the blocks below are others.
LEMMA WriteCompletes ==
  ASSUME TypeOK, NEW b \in Blk, WriteBlock(b), Indexed(txindex, Anc[b] \ {b})
  PROVE  Indexed(txindex', Anc[b])
<1>1. txindex' = [t \in Tx |-> IF t \in Txs[b] THEN b ELSE txindex[t]]
  BY DEF WriteBlock
<1>2. ASSUME NEW a \in Anc[b], NEW t \in Txs[a] PROVE txindex'[t] = a
  <2>0. a \in Blk /\ t \in Tx
    BY TreeTypes, IndexTreeAssumption
  <2>1. CASE a = b
    BY <1>1, <2>0, <2>1
  <2>2. CASE a # b
    <3>1. t \notin Txs[b]
      BY <2>2, IndexTreeAssumption
    <3>2. txindex[t] = a
      BY <2>2 DEF Indexed
    <3>. QED
      BY <1>1, <2>0, <3>1, <3>2
  <2>. QED
    BY <2>1, <2>2
<1>. QED
  BY <1>2 DEF Indexed

\* The blocks below a block are the chain of the block before it.
LEMMA BelowIsParentChain ==
  ASSUME NEW b \in Blk \ {Genesis}
  PROVE  Anc[b] \ {b} = Anc[Parent[b]]
  BY AncStep, NotAncOfParent

\* NextSyncBlock finds the first block, or one on top of the last block in
\* common with the active chain, or nothing when the whole chain is below.
LEMMA NextSyncFacts ==
  ASSUME TypeOK, tip # None
  PROVE  /\ pindex = None => NextSyncBlock(pindex) = Genesis
         /\ pindex # None /\ NextSyncBlock(pindex) = None => tip \in Anc[pindex]
         /\ pindex # None /\ NextSyncBlock(pindex) # None =>
              /\ NextSyncBlock(pindex) \in Blk \ {Genesis}
              /\ Parent[NextSyncBlock(pindex)] \in Anc[pindex]
<1>1. pindex = None => NextSyncBlock(pindex) = Genesis
  BY DEF NextSyncBlock
<1>2. ASSUME pindex # None
      PROVE  /\ NextSyncBlock(pindex) = None => tip \in Anc[pindex]
             /\ NextSyncBlock(pindex) # None =>
                  /\ NextSyncBlock(pindex) \in Blk \ {Genesis}
                  /\ Parent[NextSyncBlock(pindex)] \in Anc[pindex]
  <2>. DEFINE fork == Fork(tip, pindex)
              next == {c \in Anc[tip] \ {Genesis} : Parent[c] = fork}
  <2>1. tip \in Blk /\ pindex \in Blk
    BY <1>2, Types
  <2>2. fork \in Anc[tip] /\ fork \in Anc[pindex]
    BY <2>1, ForkFacts
  <2>3. NextSyncBlock(pindex) = IF next = {} THEN None ELSE CHOOSE c \in next : TRUE
    BY <1>2 DEF NextSyncBlock
  <2>4. next = {} => fork = tip
    BY <2>1, <2>2, ChildOnChain
  <2>5. next # {} => NextSyncBlock(pindex) \in next
    BY <2>3
  <2>6. next \subseteq Blk
    BY <2>1, TreeTypes
  <2>. QED
    BY <2>2, <2>3, <2>4, <2>5, <2>6, NoneIsNoBlock
<1>. QED
  BY <1>1, <1>2

\* ActivateBestChain connects the blocks above the fork from below: at least
\* one, the first on top of the fork or the genesis block if the chain was empty,
\* each on the one before, the new tip last.
LEMMA AscendingFacts ==
  ASSUME TypeOK, NEW b \in Blk, tip # None => Height(b) > Height(tip)
  PROVE  LET new == Ascending(b)
         IN  /\ new \in Seq(Blk)
             /\ Len(new) > 0 /\ new[Len(new)] = b
             /\ tip = None => new[1] = Genesis
             /\ tip # None => new[1] # Genesis /\ Parent[new[1]] \in Anc[tip]
             /\ \A i \in 1..(Len(new) - 1) : new[i + 1] # Genesis /\ Parent[new[i + 1]] = new[i]
<1>. DEFINE fork == ForkHeight(b)
            n == Height(b) - fork
            new == Ascending(b)
<1>1. tip \in Blk \cup {None} /\ Height(b) \in Nat
  BY Types, HeightType
<1>2. ASSUME tip # None
      PROVE  /\ Fork(tip, b) \in Blk /\ Fork(tip, b) \in Anc[tip] /\ Fork(tip, b) \in Anc[b]
             /\ fork = Height(Fork(tip, b)) /\ fork \in Nat /\ fork < Height(b)
  <2>1. tip \in Blk
    BY <1>1, <1>2
  <2>2. Fork(tip, b) \in Blk /\ Fork(tip, b) \in Anc[tip] /\ Fork(tip, b) \in Anc[b]
    BY <2>1, ForkFacts
  <2>3. fork = Height(Fork(tip, b))
    BY <1>2 DEF ForkHeight
  <2>4. Height(Fork(tip, b)) \in Nat /\ Height(Fork(tip, b)) <= Height(tip) /\ Height(tip) \in Nat
    BY <2>1, <2>2, HeightMonotone, HeightType
  <2>. QED
    BY <1>1, <1>2, <2>2, <2>3, <2>4
<1>3. fork \in Int /\ fork >= -1 /\ fork < Height(b) /\ (tip = None => fork = -1)
  <2>1. tip = None => fork = -1
    BY DEF ForkHeight
  <2>. QED
    BY <1>1, <1>2, <2>1
<1>4. n \in Nat /\ n > 0 /\ fork + n = Height(b)
  BY <1>1, <1>3
<1>5. new = [i \in 1..n |-> AtHeight(b, fork + i)]
  BY DEF Ascending
<1>6. \A i \in 1..n : AtHeight(b, fork + i) \in Blk
  <2>1. \A i \in 1..n : fork + i \in 0..Height(b)
    BY <1>1, <1>3, <1>4
  <2>. QED
    BY <2>1, AtHeightFacts
<1>7. \A h \in 1..Height(b) : AtHeight(b, h) # Genesis /\ Parent[AtHeight(b, h)] = AtHeight(b, h - 1)
  BY AtHeightStep
<1>8. AtHeight(b, fork + n) = b
  BY <1>4, AtHeightStep
<1>9. tip = None => AtHeight(b, fork + 1) = Genesis
  <2>1. 0 \in 0..Height(b) /\ Genesis \in Anc[b] /\ Height(Genesis) = 0
    BY <1>1, GenesisIsAnc, HeightType
  <2>2. Genesis = AtHeight(b, 0)
    BY <2>1, AtHeightFacts
  <2>3. tip = None => fork + 1 = 0
    BY <1>3
  <2>. QED
    BY <2>2, <2>3
<1>10. tip # None => AtHeight(b, fork) = Fork(tip, b)
  <2>1. tip # None => fork \in 0..Height(b)
    BY <1>1, <1>2
  <2>. QED
    BY <1>2, <2>1, AtHeightFacts
<1>. HIDE DEF fork, n, new
<1>11. new \in Seq(Blk) /\ Len(new) = n
  BY <1>4, <1>5, <1>6
<1>12. new[n] = b
  BY <1>4, <1>5, <1>8
<1>13. new[1] = AtHeight(b, fork + 1)
  BY <1>4, <1>5
<1>14. tip # None => new[1] # Genesis /\ Parent[new[1]] \in Anc[tip]
  <2>. SUFFICES ASSUME tip # None PROVE new[1] # Genesis /\ Parent[new[1]] \in Anc[tip]
    OBVIOUS
  <2>. DEFINE h == fork + 1
  <2>1. h \in 1..Height(b) /\ h - 1 = fork
    BY <1>1, <1>2
  <2>. HIDE DEF h
  <2>2. AtHeight(b, h) # Genesis /\ Parent[AtHeight(b, h)] = AtHeight(b, fork)
    BY <1>7, <2>1
  <2>. QED
    BY <1>2, <1>10, <1>13, <2>2 DEF h
<1>15. ASSUME NEW i \in 1..(n - 1) PROVE new[i + 1] # Genesis /\ Parent[new[i + 1]] = new[i]
  <2>. DEFINE h == fork + (i + 1)
  <2>1. i \in 1..n /\ i + 1 \in 1..n /\ h \in 1..Height(b) /\ h - 1 = fork + i
    BY <1>1, <1>3, <1>4
  <2>2. new[i + 1] = AtHeight(b, h) /\ new[i] = AtHeight(b, fork + i)
    BY <1>5, <2>1
  <2>. HIDE DEF h
  <2>. QED
    BY <1>7, <2>1, <2>2
<1>16. /\ Len(new) > 0 /\ new[Len(new)] = b
       /\ tip = None => new[1] = Genesis
       /\ \A i \in 1..(Len(new) - 1) : new[i + 1] # Genesis /\ Parent[new[i + 1]] = new[i]
  BY <1>4, <1>9, <1>11, <1>12, <1>13, <1>15
<1>. QED
  BY <1>11, <1>14, <1>16 DEF new

-----------------------------------------------------------------------------
(* The queue.                                                               *)

\* An announcement that is taken off the queue is one that is not needed from
\* a position after it.
LEMMA TailReaches ==
  ASSUME NEW q \in Seq(Announcement), q # << >>, NEW t, NEW b, NEW i \in Nat, Reaches(q, t, b, i + 1)
  PROVE  Reaches(Tail(q), t, b, i)
<1>1. Len(Tail(q)) = Len(q) - 1 /\ \A j \in 1..(Len(q) - 1) : Tail(q)[j] = q[j + 1]
  OBVIOUS
<1>2. CASE t \in Anc[b]
  BY <1>2 DEF Reaches
<1>3. ASSUME NEW j \in (i + 2)..Len(q), OnTop(q[j], b)
      PROVE  Reaches(Tail(q), t, b, i)
  <2>1. j - 1 \in (i + 1)..Len(Tail(q)) /\ Tail(q)[j - 1] = q[j]
    BY <1>1
  <2>. QED
    BY <1>3, <2>1, Zenon DEF Reaches
<1>4. (i + 1) + 1 = i + 2
  OBVIOUS
<1>. QED
  BY <1>2, <1>3, <1>4 DEF Reaches

\* An announcement at the head that does not connect to b is not the one that
\* b needs.
LEMMA HeadNotNeeded ==
  ASSUME NEW q \in Seq(Announcement), q # << >>, NEW t, NEW b, Reaches(q, t, b, 0),
         ~OnTop(Head(q), b)
  PROVE  Reaches(q, t, b, 1)
  BY DEF Reaches

\* The rest of the queue is linked.
LEMMA TailLinked ==
  ASSUME NEW q \in Seq(Announcement), q # << >>, NEW t, Linked(q, t)
  PROVE  Linked(Tail(q), t)
<1>1. Len(Tail(q)) = Len(q) - 1 /\ \A j \in 1..(Len(q) - 1) : Tail(q)[j] = q[j + 1]
  OBVIOUS
<1>. SUFFICES ASSUME NEW i \in 1..Len(Tail(q)), Tail(q)[i].event = "connected"
              PROVE  Reaches(Tail(q), t, Tail(q)[i].block, i)
  BY DEF Linked
<1>2. i + 1 \in 1..Len(q) /\ Tail(q)[i] = q[i + 1] /\ i \in Nat
  BY <1>1
<1>. DEFINE b == q[i + 1].block
<1>3. Reaches(q, t, b, i + 1)
  BY <1>2 DEF Linked
<1>. HIDE DEF b
<1>4. Reaches(Tail(q), t, b, i)
  BY <1>2, <1>3, TailReaches
<1>. QED
  BY <1>2, <1>3, <1>4 DEF b

\* A lower tip is reached as well.
LEMMA LowerTip ==
  ASSUME NEW q \in Seq(Announcement), NEW t \in Blk, NEW s \in Anc[t]
  PROVE  /\ \A b \in Blk : \A i \in Nat : Reaches(q, t, b, i) => Reaches(q, s, b, i)
         /\ Linked(q, t) => Linked(q, s)
<1>1. ASSUME NEW b \in Blk, NEW i \in Nat, Reaches(q, t, b, i) PROVE Reaches(q, s, b, i)
  BY <1>1, AncTransitive DEF Reaches
<1>2. ASSUME Linked(q, t), NEW i \in 1..Len(q), q[i].event = "connected"
      PROVE  Reaches(q, s, q[i].block, i)
  <2>1. q[i].block \in Blk /\ i \in Nat
    <3>1. q[i] \in Announcement /\ i \in Nat
      OBVIOUS
    <3>. QED
      BY <3>1 DEF Announcement
  <2>2. Reaches(q, t, q[i].block, i)
    BY <1>2 DEF Linked
  <2>. QED
    BY <1>1, <2>1, <2>2
<1>. QED
  BY <1>1, <1>2 DEF Linked

\* A longer queue with the same beginning still leads to the tip.
LEMMA LongerQueue ==
  ASSUME NEW q \in Seq(Announcement), NEW r \in Seq(Announcement), NEW t, NEW b, NEW i \in Nat,
         Len(q) <= Len(r), \A j \in 1..Len(q) : r[j] = q[j], Reaches(q, t, b, i)
  PROVE  Reaches(r, t, b, i)
<1>1. CASE t \in Anc[b]
  BY <1>1 DEF Reaches
<1>2. ASSUME NEW j \in (i + 1)..Len(q), OnTop(q[j], b)
      PROVE  Reaches(r, t, b, i)
  <2>1. j \in (i + 1)..Len(r) /\ r[j] = q[j]
    OBVIOUS
  <2>. QED
    BY <1>2, <2>1 DEF Reaches
<1>. QED
  BY <1>1, <1>2 DEF Reaches

\* FlushStateToDisk announces a flush, which connects nothing.
LEMMA FlushLinked ==
  ASSUME NEW q \in Seq(Announcement), NEW t \in Blk, NEW u \in Blk
  PROVE  LET r == Append(q, [event |-> "flushed", block |-> u])
         IN  /\ r \in Seq(Announcement)
             /\ Linked(q, t) => Linked(r, t)
             /\ \A b : Reaches(q, t, b, 0) => Reaches(r, t, b, 0)
             /\ \A k \in {1, 2} : NoGenesisFrom(q, k) => NoGenesisFrom(r, k)
<1>. DEFINE e == [event |-> "flushed", block |-> u]
            r == Append(q, e)
<1>1. e \in Announcement /\ e.event # "connected"
  BY DEF Announcement
<1>. HIDE DEF e
<1>2. r \in Seq(Announcement) /\ Len(r) = Len(q) + 1 /\ r[Len(q) + 1] = e
      /\ \A j \in 1..Len(q) : r[j] = q[j]
  BY <1>1
<1>. HIDE DEF r
<1>3. ASSUME NEW b, NEW i \in Nat, Reaches(q, t, b, i) PROVE Reaches(r, t, b, i)
  <2>1. Len(q) <= Len(r)
    BY <1>2
  <2>. QED
    BY <1>2, <1>3, <2>1, LongerQueue
<1>4. ASSUME Linked(q, t), NEW i \in 1..Len(r), r[i].event = "connected"
      PROVE  Reaches(r, t, r[i].block, i)
  <2>1. i \in 1..Len(q) /\ r[i] = q[i] /\ i \in Nat
    BY <1>1, <1>2, <1>4
  <2>2. Reaches(q, t, q[i].block, i)
    BY <1>4, <2>1 DEF Linked
  <2>. QED
    BY <1>3, <2>1, <2>2
<1>5. Linked(q, t) => Linked(r, t)
  BY <1>4 DEF Linked
<1>6. e # GenesisAnnounced
  BY <1>1 DEF GenesisAnnounced
<1>7. ASSUME NEW k \in {1, 2}, NoGenesisFrom(q, k) PROVE NoGenesisFrom(r, k)
  <2>. DEFINE m == Len(q)
  <2>0. m \in Nat /\ Len(r) = m + 1
    BY <1>2
  <2>. HIDE DEF m
  <2>1. \A i \in k..Len(r) : i = m + 1 \/ (i \in k..m /\ i \in 1..m)
    BY <2>0
  <2>. QED
    BY <1>2, <1>6, <1>7, <2>1 DEF NoGenesisFrom, m
<1>. QED
  BY <1>2, <1>3, <1>5, <1>7 DEF r, e

\* The announcements of a list of blocks
Announce(new) == [i \in DOMAIN new |-> [event |-> "connected", block |-> new[i]]]

\* A concatenation of announcements.
LEMMA ConcatQueue ==
  ASSUME NEW q \in Seq(Announcement), NEW e \in Seq(Announcement)
  PROVE  /\ q \o e \in Seq(Announcement) /\ Len(q \o e) = Len(q) + Len(e)
         /\ \A j \in 1..Len(q) : (q \o e)[j] = q[j]
         /\ \A i \in 1..Len(e) : (q \o e)[Len(q) + i] = e[i]
  OBVIOUS

\* ActivateBestChain announces blocks that lead from a block below the old tip
\* to the new one, so what led to the old tip leads to the new tip; on an empty
\* chain nothing is in the queue before.
LEMMA ActivateLinked ==
  ASSUME NEW q \in Seq(Announcement), NEW t, NEW s \in Blk,
         NEW new \in Seq(Blk), Len(new) > 0, new[Len(new)] = s,
         q = << >> \/ (t \in Blk /\ new[1] # Genesis /\ Parent[new[1]] \in Anc[t]),
         \A i \in 1..(Len(new) - 1) : new[i + 1] # Genesis /\ Parent[new[i + 1]] = new[i]
  PROVE  LET r == q \o Announce(new)
         IN  /\ r \in Seq(Announcement) /\ Len(r) = Len(q) + Len(new)
             /\ q # << >> => r # << >> /\ Head(r) = Head(q)
             /\ q = << >> => r # << >> /\ Head(r) = [event |-> "connected", block |-> new[1]]
             /\ Linked(q, t) => Linked(r, s)
             /\ t \in Blk /\ new[1] # Genesis /\ Parent[new[1]] \in Anc[t] =>
                  \A b \in Blk : Reaches(q, t, b, 0) => Reaches(r, s, b, 0)
             /\ q = << >> => NoGenesisFrom(r, 2)
             /\ new[1] # Genesis =>
                  \A k \in {1, 2} : NoGenesisFrom(q, k) => NoGenesisFrom(r, k)
<1>. DEFINE n == Len(new)
            e == Announce(new)
            r == q \o e
<1>1. n \in Nat /\ n > 0 /\ DOMAIN new = 1..n /\ \A i \in 1..n : new[i] \in Blk
  OBVIOUS
<1>2. e = [i \in 1..n |-> [event |-> "connected", block |-> new[i]]]
  BY <1>1 DEF Announce
<1>3. e \in Seq(Announcement) /\ Len(e) = n
      /\ \A i \in 1..n : e[i].event = "connected" /\ e[i].block = new[i]
  <2>1. \A i \in 1..n : [event |-> "connected", block |-> new[i]] \in Announcement
    BY <1>1 DEF Announcement
  <2>. HIDE DEF e, n
  <2>. QED
    BY <1>1, <1>2, <2>1
<1>. HIDE DEF e
<1>4. r \in Seq(Announcement) /\ Len(r) = Len(q) + n
      /\ (\A j \in 1..Len(q) : r[j] = q[j]) /\ (\A i \in 1..n : r[Len(q) + i] = e[i])
  <2>1. r \in Seq(Announcement) /\ Len(r) = Len(q) + Len(e)
        /\ (\A j \in 1..Len(q) : r[j] = q[j]) /\ (\A i \in 1..Len(e) : r[Len(q) + i] = e[i])
    <3>1. e \in Seq(Announcement)
      BY <1>3
    <3>. QED
      BY <3>1, ConcatQueue
  <2>2. Len(e) = n
    BY <1>3
  <2>. HIDE DEF r, n
  <2>. QED
    BY <2>1, <2>2
<1>. HIDE DEF r, n
<1>5. ASSUME t \in Blk, new[1] # Genesis, Parent[new[1]] \in Anc[t],
             NEW b \in Blk, NEW i \in 0..Len(q), Reaches(q, t, b, i)
      PROVE  Reaches(r, s, b, i)
  <2>1. CASE t \in Anc[b]
    <3>1. Parent[new[1]] \in Anc[b]
      BY <1>5, <2>1, AncTransitive
    <3>2. Len(q) + 1 \in (i + 1)..Len(r) /\ 1 \in 1..n
      BY <1>1, <1>4
    <3>3. r[Len(q) + 1].event = "connected" /\ r[Len(q) + 1].block = new[1]
      BY <1>3, <1>4, <3>2
    <3>. QED
      BY <1>5, <3>1, <3>2, <3>3 DEF Reaches, OnTop
  <2>2. ASSUME NEW j \in (i + 1)..Len(q), OnTop(q[j], b)
        PROVE  Reaches(r, s, b, i)
    <3>1. j \in (i + 1)..Len(r) /\ r[j] = q[j]
      BY <1>1, <1>4
    <3>. QED
      BY <2>2, <3>1 DEF Reaches
  <2>. QED
    BY <1>5, <2>1, <2>2 DEF Reaches
<1>6. ASSUME Linked(q, t), NEW i \in 1..Len(r), r[i].event = "connected"
      PROVE  Reaches(r, s, r[i].block, i)
  <2>1. CASE i \in 1..Len(q)
    <3>1. q[i] \in Announcement /\ r[i] = q[i] /\ i \in 0..Len(q)
      BY <1>4, <2>1
    <3>2. Reaches(q, t, q[i].block, i)
      BY <1>6, <2>1, <3>1 DEF Linked
    <3>3. q[i].block \in Blk
      BY <3>1 DEF Announcement
    <3>4. q # << >>
      BY <2>1
    <3>. QED
      BY <1>5, <3>1, <3>2, <3>3, <3>4
  <2>2. CASE i \notin 1..Len(q)
    <3>. DEFINE k == i - Len(q)
    <3>1. k \in 1..n /\ i = Len(q) + k
      BY <1>1, <1>4, <2>2
    <3>. HIDE DEF k
    <3>2. r[i].block = new[k] /\ new[k] \in Blk /\ new[k] \in Anc[new[k]]
      BY <1>1, <1>3, <1>4, <3>1, AncSelf
    <3>3. CASE k = n
      BY <3>2, <3>3 DEF Reaches, n
    <3>4. CASE k # n
      <4>1. k \in 1..(n - 1) /\ k + 1 \in 1..n /\ i + 1 = Len(q) + (k + 1) /\ i + 1 \in (i + 1)..Len(r)
        <5>1. Len(q) \in Nat /\ Len(r) \in Nat /\ i \in Nat /\ k \in Nat
          BY <1>4, <3>1
        <5>2. Len(r) = Len(q) + n
          BY <1>4
        <5>. QED
          BY <1>1, <3>1, <3>4, <5>1, <5>2
      <4>2. new[k + 1] # Genesis /\ Parent[new[k + 1]] = new[k]
        BY <4>1 DEF n
      <4>3. r[i + 1].event = "connected" /\ r[i + 1].block = new[k + 1]
        <5>. DEFINE l == k + 1
        <5>1. l \in 1..n /\ i + 1 = Len(q) + l
          BY <4>1
        <5>. HIDE DEF l
        <5>2. r[Len(q) + l] = e[l] /\ e[l].event = "connected" /\ e[l].block = new[l]
          BY <1>3, <1>4, <5>1
        <5>. QED
          BY <5>1, <5>2 DEF l
      <4>. QED
        BY <3>2, <4>1, <4>2, <4>3 DEF Reaches, OnTop
    <3>. QED
      BY <3>3, <3>4
  <2>. QED
    BY <2>1, <2>2
<1>7. Linked(q, t) => Linked(r, s)
  BY <1>6, Zenon DEF Linked
<1>8. t \in Blk /\ new[1] # Genesis /\ Parent[new[1]] \in Anc[t] =>
        \A b \in Blk : Reaches(q, t, b, 0) => Reaches(r, s, b, 0)
  <2>1. 0 \in 0..Len(q)
    OBVIOUS
  <2>. QED
    BY <1>5, <2>1
<1>9. q # << >> => r # << >> /\ Head(r) = Head(q)
  BY <1>1, <1>4
<1>10. q = << >> => r # << >> /\ Head(r) = [event |-> "connected", block |-> new[1]]
  <2>1. 1 \in 1..n /\ e[1] = [event |-> "connected", block |-> new[1]]
    BY <1>1, <1>2
  <2>2. q = << >> => Len(q) = 0 /\ Len(q) + 1 = 1
    OBVIOUS
  <2>3. r[Len(q) + 1] = e[1]
    BY <1>4, <2>1
  <2>4. Len(r) > 0
    BY <1>1, <1>4
  <2>. QED
    BY <1>4, <2>1, <2>2, <2>3, <2>4
<1>11. \A i \in 1..n : i # 1 \/ new[1] # Genesis => e[i] # GenesisAnnounced
  <2>1. \A i \in 1..n : i # 1 => i - 1 \in 1..(n - 1) /\ (i - 1) + 1 = i
    BY <1>1
  <2>2. \A i \in 1..n : i # 1 => new[i] # Genesis
    BY <2>1 DEF n
  <2>. QED
    BY <1>3, <2>2 DEF GenesisAnnounced
<1>12. \A i \in 1..Len(r) : \/ i \in 1..Len(q) /\ r[i] = q[i]
                            \/ i - Len(q) \in 1..n /\ r[i] = e[i - Len(q)]
  <2>1. ASSUME NEW i \in 1..Len(r), i \notin 1..Len(q)
        PROVE  i - Len(q) \in 1..n /\ r[i] = e[i - Len(q)]
    <3>. DEFINE l == i - Len(q)
    <3>1. l \in 1..n /\ Len(q) + l = i
      BY <1>1, <1>4, <2>1
    <3>. HIDE DEF l
    <3>2. r[Len(q) + l] = e[l]
      BY <1>4, <3>1
    <3>. QED
      BY <3>1, <3>2 DEF l
  <2>2. \A i \in 1..Len(q) : r[i] = q[i]
    BY <1>4
  <2>. QED
    BY <2>1, <2>2, Zenon
<1>13. q = << >> => NoGenesisFrom(r, 2)
  <2>. SUFFICES ASSUME q = << >>, NEW i \in 2..Len(r) PROVE r[i] # GenesisAnnounced
    BY DEF NoGenesisFrom
  <2>1. i \in 1..Len(r) /\ Len(q) = 0 /\ i - Len(q) = i /\ i # 1 /\ i \notin 1..Len(q)
    BY <1>4
  <2>. QED
    BY <1>11, <1>12, <2>1
<1>14. ASSUME new[1] # Genesis, NEW k \in {1, 2}, NoGenesisFrom(q, k) PROVE NoGenesisFrom(r, k)
  <2>. SUFFICES ASSUME NEW i \in k..Len(r) PROVE r[i] # GenesisAnnounced
    BY DEF NoGenesisFrom
  <2>1. i \in 1..Len(r) /\ (i \in 1..Len(q) => i \in k..Len(q))
    BY <1>4
  <2>. QED
    BY <1>11, <1>12, <1>14, <2>1 DEF NoGenesisFrom
<1>. QED
  BY <1>4, <1>7, <1>8, <1>9, <1>10, <1>13, <1>14 DEF r, e, n

\* What is taken off the queue leaves no announcement of the genesis block behind.
LEMMA TailNoGenesis ==
  ASSUME NEW q \in Seq(Announcement), q # << >>, NoGenesisFrom(q, 2)
  PROVE  NoGenesisFrom(Tail(q), 1) /\ NoGenesisFrom(Tail(q), 2)
<1>1. Len(Tail(q)) = Len(q) - 1 /\ \A j \in 1..(Len(q) - 1) : Tail(q)[j] = q[j + 1] /\ j + 1 \in 2..Len(q)
  OBVIOUS
<1>. QED
  BY <1>1 DEF NoGenesisFrom

-----------------------------------------------------------------------------
(* The chain moves; the index does not.                                     *)

\* What only reads the index keeps what is said of the index alone.
LEMMA IndexUntouched ==
  ASSUME SyncInv, LocatorInv, tip' # None, UNCHANGED <<disk, best, synced, sync, writing, history>>
  PROVE  SyncInv' /\ LocatorInv'
  BY DEF SyncInv, LocatorInv, LocatorIsIndexed, SavedEarly, Front, Indexed, disk, sync, history

\* ActivateBestChain announces what it connects and never loses the index.
LEMMA ActivateInv ==
  ASSUME Inv, NEW b \in Blk, Activate(b)
  PROVE  Inv'
<1>. DEFINE new == Ascending(b)
<1>0. TypeOK /\ SyncInv /\ SyncedInv /\ LocatorInv /\ QueueInv /\ EmptyInv
  BY DEF Inv
<1>1. (tip # None => Height(b) > Height(tip)) /\ Len(queue) + Len(new) <= MaxQueue /\ tip' = b
      /\ queue' = queue \o Announce(new)
      /\ UNCHANGED <<diskTip, disk, best, synced, sync, writing, history>>
  BY DEF Activate, Announce
<1>2. /\ new \in Seq(Blk)
      /\ Len(new) > 0 /\ new[Len(new)] = b
      /\ tip = None => new[1] = Genesis
      /\ tip # None => new[1] # Genesis /\ Parent[new[1]] \in Anc[tip]
      /\ \A i \in 1..(Len(new) - 1) : new[i + 1] # Genesis /\ Parent[new[i + 1]] = new[i]
  BY <1>0, <1>1, AscendingFacts
<1>. HIDE DEF new
<1>3. tip \in Blk \cup {None} /\ queue \in Seq(Announcement) /\ best \in Blk \cup {None} /\ b # None
  BY <1>0, Types, NoneIsNoBlock
<1>4. queue = << >> \/ (tip \in Blk /\ new[1] # Genesis /\ Parent[new[1]] \in Anc[tip])
  BY <1>0, <1>2, <1>3 DEF EmptyInv
<1>5. /\ queue' \in Seq(Announcement) /\ Len(queue') = Len(queue) + Len(new)
      /\ queue # << >> => queue' # << >> /\ Head(queue') = Head(queue)
      /\ queue = << >> => queue' # << >> /\ Head(queue') = [event |-> "connected", block |-> new[1]]
      /\ Linked(queue, tip) => Linked(queue', tip')
      /\ tip \in Blk /\ new[1] # Genesis /\ Parent[new[1]] \in Anc[tip] =>
           \A a \in Blk : Reaches(queue, tip, a, 0) => Reaches(queue', tip', a, 0)
      /\ queue = << >> => NoGenesisFrom(queue', 2)
      /\ new[1] # Genesis => \A k \in {1, 2} : NoGenesisFrom(queue, k) => NoGenesisFrom(queue', k)
  <2>. DEFINE r == queue \o Announce(new)
  <2>1. /\ r \in Seq(Announcement) /\ Len(r) = Len(queue) + Len(new)
        /\ queue # << >> => r # << >> /\ Head(r) = Head(queue)
        /\ queue = << >> => r # << >> /\ Head(r) = [event |-> "connected", block |-> new[1]]
        /\ Linked(queue, tip) => Linked(r, b)
        /\ tip \in Blk /\ new[1] # Genesis /\ Parent[new[1]] \in Anc[tip] =>
             \A a \in Blk : Reaches(queue, tip, a, 0) => Reaches(r, b, a, 0)
        /\ queue = << >> => NoGenesisFrom(r, 2)
        /\ new[1] # Genesis => \A k \in {1, 2} : NoGenesisFrom(queue, k) => NoGenesisFrom(r, k)
    BY <1>2, <1>3, <1>4, ActivateLinked, ZenonT(60)
  <2>2. queue' = r /\ tip' = b
    BY <1>1
  <2>. HIDE DEF r
  <2>. QED
    BY <2>1, <2>2
<1>6. TypeOK'
  BY <1>0, <1>1, <1>5 DEF TypeOK, Announcement, disk, sync, history
<1>7. SyncInv' /\ LocatorInv'
  BY <1>0, <1>1, <1>3, IndexUntouched
<1>8. SyncedInv'
  BY <1>0, <1>1, <1>3, <1>5 DEF SyncedInv, Event, disk, sync, history
<1>9. QueueInv'
  <2>1. synced /\ best # None => tip \in Blk /\ best \in Blk
    BY <1>0, <1>3 DEF SyncedInv
  <2>. QED
    BY <1>0, <1>1, <1>2, <1>5, <2>1, NoneIsNoBlock DEF QueueInv, sync
<1>10. EmptyInv'
  <2>1. CASE tip = None
    <3>1. synced /\ best = None /\ queue = << >> /\ new[1] = Genesis
      BY <1>0, <1>2, <2>1 DEF EmptyInv
    <3>. QED
      BY <1>1, <1>3, <1>5, <3>1 DEF EmptyInv, Event, GenesisAnnounced
  <2>2. CASE tip # None
    <3>1. \A k \in {1, 2} : NoGenesisFrom(queue, k) => NoGenesisFrom(queue', k)
      BY <1>2, <1>5, <2>2
    <3>2. NoGenesisFrom(queue', 2) /\ (~synced' \/ best' # None => NoGenesisFrom(queue', 1))
      BY <1>0, <1>1, <3>1 DEF EmptyInv
    <3>3. synced' /\ best' = None => queue' # << >> /\ Head(queue') = GenesisAnnounced
      BY <1>0, <1>1, <1>5, <2>2 DEF EmptyInv, Event
    <3>. QED
      BY <1>1, <1>3, <3>2, <3>3 DEF EmptyInv, Event
  <2>. QED
    BY <2>1, <2>2
<1>. QED
  BY <1>6, <1>7, <1>8, <1>9, <1>10 DEF Inv

\* InvalidateBlock moves the tip down, where it is still reached.
LEMMA DisconnectInv ==
  ASSUME Inv, Disconnect
  PROVE  Inv'
<1>0. TypeOK /\ SyncInv /\ SyncedInv /\ LocatorInv /\ QueueInv /\ EmptyInv
  BY DEF Inv
<1>1. tip # Genesis /\ tip # None /\ tip' = Parent[tip]
      /\ UNCHANGED <<diskTip, queue, disk, best, synced, sync, writing, history>>
  BY DEF Disconnect
<1>2. tip \in Blk /\ queue \in Seq(Announcement) /\ best \in Blk \cup {None}
  BY <1>0, <1>1, Types
<1>3. tip' \in Blk /\ tip' \in Anc[tip] /\ tip' # None
  BY <1>1, <1>2, TreeTypes, AncSelf, AncClosed, NoneIsNoBlock
<1>4. TypeOK'
  BY <1>0, <1>1, <1>3 DEF TypeOK, disk, sync, history
<1>5. SyncInv' /\ LocatorInv'
  BY <1>0, <1>1, <1>3, IndexUntouched
<1>6. SyncedInv' /\ EmptyInv'
  BY <1>0, <1>1, <1>3 DEF SyncedInv, EmptyInv, Event, disk, sync, history
<1>7. QueueInv'
  <2>1. \A b \in Blk : Reaches(queue, tip, b, 0) => Reaches(queue, tip', b, 0)
    BY <1>2, <1>3, LowerTip
  <2>2. Linked(queue, tip) => Linked(queue, tip')
    BY <1>2, <1>3, LowerTip
  <2>. QED
    BY <1>0, <1>1, <1>2, <2>1, <2>2 DEF QueueInv, sync
<1>. QED
  BY <1>4, <1>5, <1>6, <1>7 DEF Inv

\* FlushStateToDisk announces the flush.
LEMMA FlushInv ==
  ASSUME Inv, Flush
  PROVE  Inv'
<1>0. TypeOK /\ SyncInv /\ SyncedInv /\ LocatorInv /\ QueueInv /\ EmptyInv
  BY DEF Inv
<1>1. tip # None /\ Len(queue) < MaxQueue /\ diskTip' = tip
      /\ queue' = Append(queue, [event |-> "flushed", block |-> tip])
      /\ UNCHANGED <<tip, disk, best, synced, sync, writing, history>>
  BY DEF Flush
<1>2. tip \in Blk /\ queue \in Seq(Announcement) /\ best \in Blk \cup {None}
  BY <1>0, <1>1, Types
<1>3. /\ queue' \in Seq(Announcement)
      /\ Linked(queue, tip) => Linked(queue', tip)
      /\ \A b : Reaches(queue, tip, b, 0) => Reaches(queue', tip, b, 0)
      /\ \A k \in {1, 2} : NoGenesisFrom(queue, k) => NoGenesisFrom(queue', k)
  BY <1>1, <1>2, FlushLinked
<1>4. Len(queue') = Len(queue) + 1 /\ (queue # << >> => queue' # << >> /\ Head(queue') = Head(queue))
  <2>. DEFINE e == [event |-> "flushed", block |-> tip]
  <2>1. e \in Announcement
    BY <1>2 DEF Announcement
  <2>. HIDE DEF e
  <2>2. queue' = Append(queue, e)
    BY <1>1 DEF e
  <2>. QED
    BY <1>2, <2>1, <2>2
<1>5. TypeOK'
  <2>1. Len(queue') <= MaxQueue
    BY <1>1, <1>2, <1>4, IndexTreeAssumption
  <2>. QED
    BY <1>0, <1>1, <1>3, <2>1 DEF TypeOK, Announcement, disk, sync, history
<1>6. SyncInv' /\ LocatorInv'
  BY <1>0, <1>1, IndexUntouched
<1>7. SyncedInv'
  BY <1>0, <1>1, <1>4 DEF SyncedInv, Event, disk, sync, history
<1>8. QueueInv'
  BY <1>0, <1>1, <1>3 DEF QueueInv, sync
<1>9. EmptyInv'
  BY <1>0, <1>1, <1>3, <1>4 DEF EmptyInv, Event
<1>. QED
  BY <1>5, <1>6, <1>7, <1>8, <1>9 DEF Inv

-----------------------------------------------------------------------------
(* ThreadSync.                                                              *)

\* Interrupted, ThreadSync commits the block it has indexed, or lapses.
LEMMA SyncInterruptedInv ==
  ASSUME Inv, SyncInterrupted
  PROVE  Inv'
<1>0. TypeOK /\ SyncInv /\ SyncedInv /\ LocatorInv /\ QueueInv /\ EmptyInv
  BY DEF Inv
<1>1. /\ pc = "next" /\ best' = pindex /\ locator' \in {locator, LocatorOf(pindex)}
      /\ lapse' = (lapse \/ (pindex = None /\ locator' # locator)) /\ pc' = "done"
      /\ UNCHANGED <<tip, diskTip, queue, txindex, synced, pindex, interrupt, writing, restarts, right>>
  BY DEF SyncInterrupted, Commit, chain
<1>2. ~synced /\ tip \in Blk \cup {None} /\ pindex \in Blk \cup {None} /\ lapse \in BOOLEAN
  BY <1>0, <1>1, Types
<1>3. TypeOK'
  BY <1>0, <1>1, <1>2 DEF TypeOK, LocatorOf
<1>4. SyncInv' /\ SyncedInv' /\ QueueInv' /\ EmptyInv'
  BY <1>0, <1>1, <1>2 DEF SyncInv, SyncedInv, QueueInv, EmptyInv
<1>5. LocatorInv'
  <2>1. SUFFICES ASSUME ~lapse'
                 PROVE  right' /\ LocatorIsIndexed'
    BY <1>1, <1>2 DEF LocatorInv
  <2>2. ~lapse /\ right /\ LocatorIsIndexed
    BY <1>0, <1>1, <2>1, Zenon DEF LocatorInv
  <2>3. CASE locator' = locator
    <3>1. ~SavedEarly /\ ~SavedEarly'
      BY <1>1 DEF SavedEarly
    <3>. QED
      BY <1>1, <2>2, <2>3, <3>1 DEF LocatorIsIndexed
  <2>4. CASE locator' # locator
    <3>1. pindex # None /\ locator' = pindex
      BY <1>1, <2>1, <2>4 DEF LocatorOf
    <3>2. Indexed(txindex, Anc[pindex])
      BY <1>0, <1>1, <1>2, <2>2, <3>1 DEF SyncInv
    <3>. QED
      BY <1>1, <2>2, <3>1, <3>2 DEF LocatorIsIndexed, Indexed
  <2>. QED
    BY <2>3, <2>4
<1>. QED
  BY <1>3, <1>4, <1>5 DEF Inv

\* When ThreadSync sets m_synced, the chain is below the block it indexed.
LEMMA SyncDoneInv ==
  ASSUME Inv, SyncDone
  PROVE  Inv'
<1>0. TypeOK /\ SyncInv /\ SyncedInv /\ LocatorInv /\ QueueInv /\ EmptyInv
  BY DEF Inv
<1>1. /\ pc = "next" /\ NextSyncBlock(pindex) = None /\ best' = pindex /\ synced' = TRUE
      /\ locator' \in {locator, LocatorOf(pindex)} /\ pc' = "done"
      /\ UNCHANGED <<tip, diskTip, queue, txindex, pindex, interrupt, writing, restarts, right, lapse>>
  BY DEF SyncDone, Commit, chain, history
<1>2. ~synced /\ tip # None /\ pindex \in Blk \cup {None} /\ locator \in Blk \cup {None}
  BY <1>0, <1>1, Types DEF SyncInv
<1>3. pindex # None /\ tip \in Anc[pindex]
  BY <1>0, <1>1, <1>2, NextSyncFacts, NoneIsNoBlock
<1>4. locator' \in {locator, pindex} /\ pindex \in Blk
  BY <1>1, <1>2, <1>3 DEF LocatorOf
<1>5. TypeOK'
  BY <1>0, <1>1, <1>2, <1>4 DEF TypeOK
<1>6. writing = None /\ (right => Indexed(txindex, Anc[pindex]))
  BY <1>0, <1>1, <1>2, <1>3 DEF SyncInv
<1>7. SyncInv' /\ SyncedInv' /\ EmptyInv'
  BY <1>0, <1>1, <1>2, <1>3, <1>6 DEF SyncInv, SyncedInv, EmptyInv
<1>8. QueueInv'
  BY <1>0, <1>1, <1>3 DEF QueueInv, Reaches
<1>9. LocatorInv'
  <2>1. SUFFICES ASSUME ~lapse
                 PROVE  /\ right /\ LocatorIsIndexed'
                        /\ locator' # None => Front' # None /\ locator' \in Anc[Front']
    BY <1>1 DEF LocatorInv
  <2>2. right /\ (locator # None => locator \in Anc[pindex])
    BY <1>0, <1>1, <1>2, <2>1 DEF LocatorInv, Front
  <2>3. Front' = pindex
    BY <1>1 DEF Front
  <2>4. locator' # None => locator' \in Anc[pindex]
    BY <1>4, <2>2, AncSelf
  <2>5. locator' # None => Indexed(txindex, Anc[locator'])
    BY <1>4, <1>6, <2>2, <2>4, IndexedBelow
  <2>6. LocatorIsIndexed'
    BY <1>1, <2>5 DEF LocatorIsIndexed, Indexed
  <2>. QED
    BY <1>3, <2>2, <2>3, <2>4, <2>6
<1>. QED
  BY <1>5, <1>7, <1>8, <1>9 DEF Inv

\* ThreadSync moves on to a block whose chain below is indexed; the locator
\* it saves is that block or one below.
LEMMA SyncNextInv ==
  ASSUME Inv, SyncNext
  PROVE  Inv'
<1>. DEFINE n == NextSyncBlock(pindex)
<1>0. TypeOK /\ SyncInv /\ SyncedInv /\ LocatorInv /\ QueueInv /\ EmptyInv
  BY DEF Inv
<1>1. /\ pc = "next" /\ n # None
      /\ UNCHANGED <<tip, diskTip, queue, txindex, synced, interrupt, writing, restarts, right, lapse>>
      /\ \/ /\ PrevOf(n) = pindex /\ pindex' = n /\ pc' = "write"
            /\ best' \in {best, n} /\ locator' \in {locator, n}
         \/ /\ PrevOf(n) # pindex /\ pindex' = n /\ pc' = "write"
            /\ best' \in {PrevOf(n), n} /\ locator' \in {PrevOf(n), n}
         \/ /\ pc' = "failed" /\ UNCHANGED <<best, locator, pindex>>
  BY DEF SyncNext, SaveLocator, Rewind, chain, history
<1>2. /\ ~synced /\ tip # None
      /\ pindex \in Blk \cup {None} /\ locator \in Blk \cup {None} /\ best \in Blk \cup {None}
  BY <1>0, <1>1, Types DEF SyncInv
<1>3. /\ n \in Blk /\ PrevOf(n) \in Blk \cup {None}
      /\ pindex = None => n = Genesis /\ PrevOf(n) = None
      /\ pindex # None => n # Genesis /\ PrevOf(n) = Parent[n] /\ Parent[n] \in Anc[pindex]
  BY <1>0, <1>1, <1>2, NextSyncFacts, NoneIsNoBlock, TreeTypes DEF PrevOf
<1>. HIDE DEF n
<1>4. right => Indexed(txindex, Anc[n] \ {n})
  <2>1. CASE pindex = None
    BY <2>1, <1>3, AncGenesis DEF Indexed
  <2>2. CASE pindex # None
    <3>1. right => Indexed(txindex, Anc[pindex])
      BY <1>0, <1>1, <1>2, <2>2 DEF SyncInv
    <3>2. right => Indexed(txindex, Anc[Parent[n]])
      BY <1>2, <1>3, <2>2, <3>1, IndexedBelow
    <3>. QED
      BY <1>3, <2>2, <3>2, BelowIsParentChain
  <2>. QED
    BY <2>1, <2>2
<1>5. TypeOK'
  BY <1>0, <1>1, <1>2, <1>3 DEF TypeOK
<1>6. SyncInv' /\ SyncedInv' /\ QueueInv' /\ EmptyInv'
  <2>1. writing = None
    BY <1>0, <1>2 DEF SyncInv
  <2>2. ~synced' /\ writing' = None /\ pc' \in {"write", "failed"} /\ (pc' = "write" => pindex' = n)
    BY <1>1, <1>2, <2>1
  <2>3. SyncInv'
    BY <1>1, <1>2, <1>3, <1>4, <2>2, NoneIsNoBlock DEF SyncInv
  <2>4. SyncedInv' /\ QueueInv' /\ EmptyInv'
    BY <1>0, <1>1, <1>2, <2>2 DEF SyncedInv, QueueInv, EmptyInv
  <2>. QED
    BY <2>3, <2>4
<1>7. LocatorInv'
  <2>1. SUFFICES ASSUME ~lapse PROVE LocatorInv'
    BY <1>1 DEF LocatorInv
  <2>2. /\ right /\ LocatorIsIndexed
        /\ locator # None => pindex # None /\ locator \in Anc[pindex]
    BY <1>0, <1>1, <1>2, <2>1 DEF LocatorInv, Front
  <2>3. locator # None => Indexed(txindex, Anc[locator])
    BY <1>1, <2>1, <2>2 DEF LocatorIsIndexed, SavedEarly, Indexed
  <2>4. CASE pc' = "failed" /\ UNCHANGED <<best, locator, pindex>>
    BY <1>1, <1>2, <2>2, <2>3, <2>4 DEF LocatorInv, LocatorIsIndexed, Indexed
  <2>5. CASE pindex' = n /\ pc' = "write"
    <3>1. locator' # None => locator' \in Anc[n] /\ Indexed(txindex, Anc[locator'] \ {n})
      <4>1. CASE locator' = n
        BY <1>3, <1>4, <2>2, <4>1, AncSelf
      <4>2. CASE PrevOf(n) = pindex /\ locator' = locator /\ locator # None
        <5>1. n \in Blk \ {Genesis} /\ Parent[n] = pindex /\ locator \in Anc[pindex]
          BY <1>3, <2>2, <4>2
        <5>2. locator \in Anc[n]
          BY <5>1, AncStep
        <5>. QED
          BY <2>3, <4>2, <5>2 DEF Indexed
      <4>3. CASE PrevOf(n) # pindex /\ locator' = PrevOf(n)
        <5>1. n \in Blk \ {Genesis} /\ locator' = Parent[n] /\ pindex # None
          BY <1>3, <4>3
        <5>2. locator' \in Anc[n]
          BY <5>1, AncSelf, AncClosed
        <5>3. Anc[locator'] = Anc[n] \ {n}
          BY <5>1, BelowIsParentChain
        <5>. QED
          BY <1>4, <2>2, <5>2, <5>3 DEF Indexed
      <4>4. CASE locator' = None
        BY <4>4
      <4>. QED
        BY <1>1, <2>5, <4>1, <4>2, <4>3, <4>4
    <3>2. locator' # None /\ locator' # n => Indexed(txindex, Anc[locator'])
      <4>1. SUFFICES ASSUME locator' # None, locator' # n PROVE n \notin Anc[locator']
        BY <3>1 DEF Indexed
      <4>2. locator' \in Anc[n]
        BY <3>1, <4>1
      <4>. QED
        BY <1>3, <4>1, <4>2, AncAntisymmetric
    <3>3. LocatorIsIndexed'
      BY <1>1, <2>5, <3>1, <3>2 DEF LocatorIsIndexed, SavedEarly, Indexed
    <3>4. Front' = n
      BY <1>1, <1>2, <2>5 DEF Front
    <3>. QED
      BY <1>1, <1>3, <2>2, <3>1, <3>3, <3>4, NoneIsNoBlock DEF LocatorInv
  <2>. QED
    BY <1>1, <2>4, <2>5
<1>. QED
  BY <1>5, <1>6, <1>7 DEF Inv

\* ThreadSync writes its block, or fails; if the locator was saved before, that
\* is a lapse.
LEMMA SyncWriteInv ==
  ASSUME Inv, SyncWrite
  PROVE  Inv'
<1>0. TypeOK /\ SyncInv /\ SyncedInv /\ LocatorInv /\ QueueInv /\ EmptyInv
  BY DEF Inv
<1>1. /\ pc = "write"
      /\ \/ WriteBlock(pindex) /\ pc' = "next" /\ lapse' = lapse
         \/ txindex' = txindex /\ pc' = "failed" /\ lapse' = (lapse \/ SavedEarly)
      /\ UNCHANGED <<tip, diskTip, queue, locator, best, synced, pindex, interrupt, writing, restarts, right>>
  BY DEF SyncWrite, chain
<1>2. ~synced /\ lapse \in BOOLEAN /\ txindex \in [Tx -> Blk \cup {None}] /\ pindex \in Blk \cup {None}
  BY <1>0, <1>1, Types
<1>3. writing = None /\ pindex \in Blk /\ (right => Indexed(txindex, Anc[pindex] \ {pindex}))
  BY <1>0, <1>1, <1>2 DEF SyncInv
<1>4. pc' = "next" /\ right => Indexed(txindex', Anc[pindex])
  BY <1>0, <1>1, <1>3, WriteCompletes
<1>5. TypeOK'
  <2>1. txindex' \in [Tx -> Blk \cup {None}]
    BY <1>1, <1>2, <1>3 DEF WriteBlock
  <2>2. lapse' \in BOOLEAN
    BY <1>1, <1>2, Zenon DEF SavedEarly
  <2>. QED
    BY <1>0, <1>1, <1>2, <2>1, <2>2 DEF TypeOK
<1>6. SyncInv' /\ SyncedInv' /\ QueueInv' /\ EmptyInv'
  <2>1. SyncInv' /\ SyncedInv' /\ QueueInv'
    BY <1>0, <1>1, <1>2, <1>3, <1>4, Zenon DEF SyncInv, SyncedInv, QueueInv
  <2>2. EmptyInv'
    BY <1>0, <1>1, <1>2 DEF EmptyInv, SyncInv
  <2>. QED
    BY <2>1, <2>2
<1>7. LocatorInv'
  <2>1. SUFFICES ASSUME ~lapse' PROVE LocatorInv'
    BY DEF LocatorInv
  <2>2. ~lapse
    BY <1>1, <1>2, <2>1
  <2>3. /\ right /\ LocatorIsIndexed
        /\ locator # None => locator \in Anc[pindex]
    BY <1>0, <1>1, <1>2, <2>2 DEF LocatorInv, Front
  <2>4. CASE pc' = "next"
    <3>1. locator # None => Indexed(txindex', Anc[locator])
      BY <1>3, <1>4, <2>3, <2>4, IndexedBelow
    <3>2. LocatorIsIndexed'
      BY <1>1, <3>1 DEF LocatorIsIndexed, Indexed
    <3>3. Front' = pindex
      BY <1>1, <1>2 DEF Front
    <3>. QED
      BY <1>1, <1>3, <2>3, <3>2, <3>3, NoneIsNoBlock DEF LocatorInv
  <2>5. CASE pc' # "next"
    <3>1. txindex' = txindex /\ pc' = "failed" /\ ~SavedEarly
      BY <1>1, <2>1, <2>5, ZenonT(60)
    <3>2. LocatorIsIndexed'
      BY <1>1, <2>2, <2>3, <3>1 DEF LocatorIsIndexed
    <3>. QED
      BY <1>1, <1>2, <2>3, <3>1, <3>2 DEF LocatorInv
  <2>. QED
    BY <2>4, <2>5
<1>. QED
  BY <1>5, <1>6, <1>7 DEF Inv

\* Interrupt sets a flag that no part of the invariant looks at.
LEMMA InterruptInv ==
  ASSUME Inv, Interrupt
  PROVE  Inv'
  BY DEF Inv, Interrupt, TypeOK, SyncInv, SyncedInv, LocatorInv, LocatorIsIndexed, SavedEarly, Front,
         QueueInv, EmptyInv, Event, Indexed, chain, disk, history

-----------------------------------------------------------------------------
(* The thread of the queue.                                                 *)

\* An announcement that is dropped is not the one the index needs: it does not
\* connect to the chain of the best block.
LEMMA DroppedInv ==
  ASSUME Inv, queue # << >>, writing = None, queue' = Tail(queue),
         synced => best # None /\ (pc' = "failed" \/ ~OnTop(Event, best)),
         UNCHANGED <<tip, best, synced>>, pc' \in {pc, "failed"}
  PROVE  QueueInv' /\ EmptyInv'
<1>0. TypeOK /\ SyncedInv /\ QueueInv /\ EmptyInv
  BY DEF Inv
<1>1. queue \in Seq(Announcement)
  BY <1>0, Types
<1>2. Linked(queue, tip) /\ (synced /\ best # None /\ pc # "failed" => Reaches(queue, tip, best, 0))
  BY <1>0 DEF QueueInv
<1>3. Linked(queue', tip')
  BY <1>1, <1>2, TailLinked
<1>4. ASSUME synced', pc' # "failed" PROVE Reaches(queue', tip', best', 0)
  <2>1. synced /\ pc # "failed" /\ best # None
    BY <1>4
  <2>2. Reaches(queue, tip, best, 1)
    BY <1>1, <1>2, <1>4, <2>1, HeadNotNeeded DEF Event
  <2>. DEFINE b == best
  <2>3. Reaches(queue, tip, b, 0 + 1)
    BY <2>2
  <2>. HIDE DEF b
  <2>4. Reaches(Tail(queue), tip, b, 0)
    BY <1>1, <2>3, TailReaches
  <2>. QED
    BY <2>4 DEF b
<1>5. EmptyInv'
  <2>1. NoGenesisFrom(Tail(queue), 1) /\ NoGenesisFrom(Tail(queue), 2)
    BY <1>0, <1>1, TailNoGenesis DEF EmptyInv
  <2>2. tip # None
    BY <1>0 DEF EmptyInv
  <2>. QED
    BY <2>1, <2>2 DEF EmptyInv
<1>. QED
  BY <1>3, <1>4, <1>5 DEF QueueInv

\* The rest of the queue has the type of the queue.
LEMMA RestType ==
  ASSUME TypeOK, queue # << >>
  PROVE  Tail(queue) \in Seq(Announcement) /\ Len(Tail(queue)) <= MaxQueue /\ Event \in Announcement
<1>1. queue \in Seq(Announcement) /\ Len(queue) <= MaxQueue /\ MaxQueue \in Nat
  BY Types, IndexTreeAssumption
<1>. QED
  BY <1>1 DEF Event

\* BlockConnected drops an announcement, fails, or gets ready to write its
\* block on top of the best block.
LEMMA BlockConnectedInv ==
  ASSUME Inv, BlockConnected
  PROVE  Inv'
<1>. DEFINE b == Event.block
<1>0. TypeOK /\ SyncInv /\ SyncedInv /\ LocatorInv /\ QueueInv /\ EmptyInv
  BY DEF Inv
<1>1. /\ queue # << >> /\ writing = None /\ Event.event = "connected"
      /\ UNCHANGED <<tip, diskTip, txindex, synced, pindex, interrupt, restarts, right, lapse>>
  BY DEF BlockConnected, chain, history
<1>2. /\ Tail(queue) \in Seq(Announcement) /\ Len(Tail(queue)) <= MaxQueue
      /\ Event \in Announcement /\ b \in Blk /\ Event = [event |-> "connected", block |-> b]
  <2>1. Event \in Announcement
    BY <1>0, <1>1, RestType
  <2>. QED
    BY <1>0, <1>1, <2>1, RestType DEF Announcement
<1>3. queue \in Seq(Announcement) /\ best \in Blk \cup {None} /\ locator \in Blk \cup {None}
  BY <1>0, Types
<1>4. /\ synced /\ best = None => b = Genesis
      /\ ~synced \/ best # None => b # Genesis
      /\ tip # None
  <2>1. tip # None
    BY <1>0, <1>1 DEF EmptyInv
  <2>2. synced /\ best = None => b = Genesis
    BY <1>0, <2>1 DEF EmptyInv, GenesisAnnounced
  <2>3. ~synced \/ best # None => Event # GenesisAnnounced
    <3>1. 1 \in 1..Len(queue) /\ queue[1] = Event
      BY <1>1, <1>3 DEF Event
    <3>. QED
      BY <1>0, <3>1 DEF EmptyInv, NoGenesisFrom
  <2>. QED
    BY <1>2, <2>1, <2>2, <2>3 DEF GenesisAnnounced
<1>5. \/ /\ ~synced \/ ~Connects(b)
         /\ queue' = Tail(queue)
         /\ pc' \in {pc, "failed"} /\ (~synced => pc' = pc)
         /\ UNCHANGED <<best, locator, writing>>
      \/ /\ synced /\ Connects(b) /\ best # PrevOf(b) /\ queue' = Tail(queue) /\ pc' = "failed"
         /\ UNCHANGED <<best, locator, writing>>
      \/ /\ synced /\ Connects(b) /\ best # PrevOf(b) /\ best' = Parent[b] /\ writing' = b
         /\ locator' = Parent[b]
         /\ UNCHANGED <<queue, pc>>
      \/ /\ synced /\ Connects(b) /\ best = PrevOf(b) /\ writing' = b
         /\ UNCHANGED <<queue, pc, best, locator>>
  BY DEF BlockConnected, Rewind
<1>6. CASE /\ queue' = Tail(queue) /\ UNCHANGED <<best, locator, writing>>
           /\ \/ (~synced \/ ~Connects(b)) /\ pc' \in {pc, "failed"} /\ (~synced => pc' = pc)
              \/ synced /\ Connects(b) /\ best # PrevOf(b) /\ pc' = "failed"
  <2>0. synced => best # None /\ (pc' = "failed" \/ ~OnTop(Event, best))
    BY <1>4, <1>6 DEF Connects, Below, ChainOf, OnTop, PrevOf
  <2>1. TypeOK'
    BY <1>0, <1>1, <1>2, <1>6 DEF TypeOK, Announcement
  <2>2. SyncInv' /\ SyncedInv'
    BY <1>0, <1>1, <1>6, ZenonT(60) DEF SyncInv, SyncedInv
  <2>3. LocatorInv'
    BY <1>0, <1>1, <1>6 DEF LocatorInv, LocatorIsIndexed, SavedEarly, Front, TypeOK
  <2>4. QueueInv' /\ EmptyInv'
    BY <1>1, <1>6, <2>0, DroppedInv, ZenonT(60)
  <2>. QED
    BY <2>1, <2>2, <2>3, <2>4 DEF Inv
<1>7. CASE /\ best # None /\ synced /\ Connects(b) /\ best' = Parent[b] /\ writing' = b
           /\ locator' = Parent[b] \/ (best = Parent[b] /\ locator' = locator)
           /\ UNCHANGED <<queue, pc>>
  <2>0. b # Genesis /\ PrevOf(b) = Parent[b] /\ Parent[b] \in Blk /\ best \in Blk /\ Parent[b] \in Anc[best]
    BY <1>2, <1>3, <1>4, <1>7, TreeTypes DEF Connects, Below, ChainOf, PrevOf
  <2>1. TypeOK'
    BY <1>0, <1>1, <1>2, <1>3, <1>7, <2>0 DEF TypeOK
  <2>2. right => Indexed(txindex, Anc[Parent[b]])
    BY <1>0, <1>7, <2>0, NoneIsNoBlock, IndexedBelow DEF SyncedInv
  <2>3. SyncInv'
    BY <1>1, <1>7 DEF SyncInv
  <2>4. SyncedInv'
    <3>1. pc' \in {"done", "failed"} /\ best' # None
      BY <1>0, <1>7, <2>0, NoneIsNoBlock DEF SyncedInv
    <3>2. queue' # << >> /\ Event' = [event |-> "connected", block |-> writing']
      BY <1>1, <1>2, <1>7 DEF Event
    <3>. QED
      BY <1>1, <1>4, <1>7, <2>0, <2>2, <3>1, <3>2 DEF SyncedInv
  <2>5. LocatorInv'
    <3>1. SUFFICES ASSUME ~lapse PROVE LocatorInv'
      BY <1>1 DEF LocatorInv
    <3>2. right /\ (locator # None => locator \in Anc[best])
      BY <1>0, <1>7, <3>1 DEF LocatorInv, Front
    <3>3. locator' # None => locator' \in Anc[Parent[b]]
      BY <1>7, <2>0, <3>2, AncSelf
    <3>4. locator' # None => Indexed(txindex, Anc[locator'])
      BY <2>0, <2>2, <3>2, <3>3, IndexedBelow
    <3>5. LocatorIsIndexed'
      BY <1>1, <3>4 DEF LocatorIsIndexed, Indexed
    <3>6. Front' = Parent[b]
      BY <1>1, <1>7 DEF Front
    <3>. QED
      BY <1>1, <2>0, <3>2, <3>3, <3>5, <3>6, NoneIsNoBlock DEF LocatorInv
  <2>6. QueueInv'
    <3>1. 1 \in 1..Len(queue) /\ queue[1] = Event
      BY <1>1, <1>3 DEF Event
    <3>2. Parent[b] \in Anc[Parent[b]]
      BY <2>0, AncSelf
    <3>3. Reaches(queue, tip, Parent[b], 0)
      BY <1>1, <2>0, <3>1, <3>2 DEF Reaches, OnTop
    <3>. QED
      BY <1>0, <1>1, <1>7, <3>3 DEF QueueInv
  <2>7. EmptyInv'
    BY <1>0, <1>1, <1>4, <1>7, <2>0, NoneIsNoBlock DEF EmptyInv
  <2>. QED
    BY <2>1, <2>3, <2>4, <2>5, <2>6, <2>7 DEF Inv
<1>8. CASE synced /\ best = None /\ writing' = b /\ UNCHANGED <<queue, pc, best, locator>>
  <2>0. b = Genesis /\ PrevOf(b) = None
    BY <1>4, <1>8 DEF PrevOf
  <2>1. TypeOK'
    BY <1>0, <1>1, <1>2, <1>8 DEF TypeOK
  <2>2. queue' # << >> /\ Event' = [event |-> "connected", block |-> writing']
    BY <1>1, <1>2, <1>8 DEF Event
  <2>3. SyncInv' /\ SyncedInv'
    BY <1>0, <1>1, <1>8, <2>0, <2>2 DEF SyncInv, SyncedInv
  <2>4. LocatorInv' /\ QueueInv' /\ EmptyInv'
    BY <1>0, <1>1, <1>8 DEF LocatorInv, LocatorIsIndexed, SavedEarly, Front, QueueInv, EmptyInv, Event
  <2>. QED
    BY <2>1, <2>3, <2>4 DEF Inv
<1>9. Connects(b) /\ best # None /\ synced => PrevOf(b) = Parent[b]
  BY <1>4 DEF PrevOf
<1>10. Connects(b) /\ best = None => PrevOf(b) = None
  BY DEF Connects, PrevOf
<1>. QED
  BY <1>5, <1>6, <1>7, <1>8, <1>9, <1>10

\* BlockConnected writes its block, which becomes the best block; the next
\* announcement connects to it, or the tip is below it.
LEMMA BlockWrittenInv ==
  ASSUME Inv, BlockWritten
  PROVE  Inv'
<1>0. TypeOK /\ SyncInv /\ SyncedInv /\ LocatorInv /\ QueueInv /\ EmptyInv
  BY DEF Inv
<1>1. /\ writing # None /\ writing' = None /\ queue' = Tail(queue)
      /\ \/ WriteBlock(writing) /\ best' = writing /\ pc' = pc
         \/ writing # Genesis /\ pc' = "failed" /\ UNCHANGED <<txindex, best>>
      /\ UNCHANGED <<tip, diskTip, locator, synced, pindex, interrupt, restarts, right, lapse>>
  BY DEF BlockWritten, chain, history
<1>2. synced
  BY <1>0, <1>1 DEF SyncInv, TypeOK
<1>3. /\ pc \in {"done", "failed"} /\ (best # None /\ right => Indexed(txindex, Anc[best]))
      /\ queue # << >> /\ Event = [event |-> "connected", block |-> writing]
      /\ best = PrevOf(writing) /\ tip # None
  BY <1>0, <1>1, <1>2 DEF SyncedInv, EmptyInv
<1>4. /\ queue \in Seq(Announcement) /\ best \in Blk \cup {None} /\ locator \in Blk \cup {None}
      /\ writing \in Blk /\ txindex \in [Tx -> Blk \cup {None}]
  BY <1>0, <1>1, Types
<1>a. /\ writing = Genesis => best = None
      /\ writing # Genesis => best = Parent[writing] /\ best \in Blk /\ best # None
  BY <1>3, <1>4, TreeTypes, NoneIsNoBlock DEF PrevOf
<1>b. NoGenesisFrom(Tail(queue), 1) /\ NoGenesisFrom(Tail(queue), 2)
  BY <1>0, <1>3, <1>4, TailNoGenesis DEF EmptyInv
<1>5. TypeOK'
  <2>1. txindex' \in [Tx -> Blk \cup {None}]
    BY <1>1, <1>4 DEF WriteBlock
  <2>2. Tail(queue) \in Seq(Announcement) /\ Len(Tail(queue)) <= MaxQueue
    BY <1>0, <1>3, RestType
  <2>. QED
    BY <1>0, <1>1, <1>2, <1>4, <2>1, <2>2 DEF TypeOK, Announcement
<1>6. CASE writing # Genesis /\ pc' = "failed" /\ UNCHANGED <<txindex, best>>
  <2>1. SyncInv' /\ SyncedInv' /\ LocatorInv'
    BY <1>0, <1>1, <1>2, <1>3, <1>6
       DEF SyncInv, SyncedInv, LocatorInv, LocatorIsIndexed, SavedEarly, Front
  <2>2. QueueInv'
    BY <1>0, <1>1, <1>3, <1>4, <1>6, TailLinked, ZenonT(60) DEF QueueInv
  <2>3. EmptyInv'
    BY <1>1, <1>3, <1>6, <1>a, <1>b DEF EmptyInv
  <2>. QED
    BY <1>5, <2>1, <2>2, <2>3 DEF Inv
<1>7. CASE WriteBlock(writing) /\ best' = writing /\ pc' = pc
  <2>1. right => Indexed(txindex', Anc[writing])
    <3>1. right => Indexed(txindex, Anc[writing] \ {writing})
      <4>1. CASE writing = Genesis
        BY <4>1, AncGenesis DEF Indexed
      <4>2. CASE writing # Genesis
        BY <1>3, <1>4, <1>a, <4>2, BelowIsParentChain
      <4>. QED
        BY <4>1, <4>2
    <3>. QED
      BY <1>0, <1>4, <1>7, <3>1, WriteCompletes
  <2>2. SyncInv' /\ SyncedInv' /\ EmptyInv'
    BY <1>1, <1>2, <1>3, <1>4, <1>7, <1>b, <2>1, NoneIsNoBlock DEF SyncInv, SyncedInv, EmptyInv
  <2>3. LocatorInv'
    <3>1. SUFFICES ASSUME ~lapse PROVE LocatorInv'
      BY <1>1 DEF LocatorInv
    <3>2. right /\ (locator # None => best # None /\ locator \in Anc[best])
      BY <1>0, <1>2, <3>1 DEF LocatorInv, Front
    <3>3. locator # None => locator \in Anc[writing]
      BY <1>4, <1>a, <3>2, AncStep
    <3>4. locator # None => Indexed(txindex', Anc[locator])
      BY <1>4, <2>1, <3>2, <3>3, IndexedBelow, Zenon
    <3>5. LocatorIsIndexed'
      BY <1>1, <3>4 DEF LocatorIsIndexed, Indexed
    <3>6. Front' = writing
      BY <1>1, <1>2, <1>7 DEF Front
    <3>. QED
      BY <1>1, <1>4, <3>2, <3>3, <3>5, <3>6, NoneIsNoBlock DEF LocatorInv
  <2>4. QueueInv'
    <3>1. 1 \in 1..Len(queue) /\ queue[1] = Event
      BY <1>3, <1>4 DEF Event
    <3>2. Reaches(queue, tip, writing, 1)
      BY <1>0, <1>3, <3>1 DEF QueueInv, Linked
    <3>. DEFINE w == writing
    <3>3. Reaches(queue, tip, w, 0 + 1)
      BY <3>2
    <3>. HIDE DEF w
    <3>4. Reaches(Tail(queue), tip, w, 0)
      BY <1>3, <1>4, <3>3, TailReaches
    <3>5. Linked(Tail(queue), tip)
      BY <1>0, <1>3, <1>4, TailLinked DEF QueueInv
    <3>. QED
      BY <1>1, <1>7, <3>4, <3>5 DEF QueueInv, w
  <2>. QED
    BY <1>5, <2>2, <2>3, <2>4 DEF Inv
<1>. QED
  BY <1>1, <1>6, <1>7

\* ChainStateFlushed commits the best block.
LEMMA ChainStateFlushedInv ==
  ASSUME Inv, ChainStateFlushed
  PROVE  Inv'
<1>0. TypeOK /\ SyncInv /\ SyncedInv /\ LocatorInv /\ QueueInv /\ EmptyInv
  BY DEF Inv
<1>1. /\ queue # << >> /\ writing = None /\ Event.event = "flushed" /\ queue' = Tail(queue)
      /\ locator' = locator \/ (synced /\ locator' \in {locator, LocatorOf(best)})
      /\ UNCHANGED <<tip, diskTip, txindex, best, synced, pc, pindex, interrupt, writing, restarts, right, lapse>>
  BY DEF ChainStateFlushed, Commit, chain, sync, history
<1>2. best \in Blk \cup {None} /\ locator \in Blk \cup {None}
  BY <1>0, Types
<1>a. synced => best # None
  BY <1>0, <1>1 DEF EmptyInv, GenesisAnnounced
<1>3. locator' = locator \/ (synced /\ best \in Blk /\ locator' = best)
  BY <1>1, <1>2, <1>a DEF LocatorOf
<1>4. TypeOK'
  <2>1. Tail(queue) \in Seq(Announcement) /\ Len(Tail(queue)) <= MaxQueue
    BY <1>0, <1>1, RestType
  <2>. QED
    BY <1>0, <1>1, <1>2, <1>3, <2>1 DEF TypeOK, Announcement
<1>5. SyncInv' /\ SyncedInv'
  BY <1>0, <1>1 DEF SyncInv, SyncedInv
<1>6. QueueInv' /\ EmptyInv'
  <2>1. ~OnTop(Event, best)
    BY <1>1 DEF OnTop
  <2>. QED
    BY <1>1, <1>a, <2>1, DroppedInv
<1>7. LocatorInv'
  <2>1. CASE locator' = locator
    BY <1>0, <1>1, <2>1 DEF LocatorInv, LocatorIsIndexed, SavedEarly, Front
  <2>2. CASE synced /\ best \in Blk /\ locator' = best
    <3>1. right => Indexed(txindex, Anc[best])
      BY <1>0, <1>a, <2>2 DEF SyncedInv
    <3>2. right => LocatorIsIndexed'
      BY <1>1, <2>2, <3>1 DEF LocatorIsIndexed, Indexed
    <3>3. Front' = best /\ best \in Anc[best]
      BY <1>1, <2>2, AncSelf DEF Front
    <3>. QED
      BY <1>0, <1>1, <2>2, <3>2, <3>3, NoneIsNoBlock DEF LocatorInv
  <2>. QED
    BY <1>3, <2>1, <2>2
<1>. QED
  BY <1>4, <1>5, <1>6, <1>7 DEF Inv

-----------------------------------------------------------------------------
(* The start.                                                               *)

\* A start takes the last block of the active chain that the locator knows; with
\* no lapse that is the locator, and what it names is indexed.  -reindex starts
\* with an empty index.
LEMMA StartAgainInv ==
  ASSUME Inv, NEW t \in Blk \cup {None}, StartAgain(t), restarts' \in 0..MaxRestarts,
         UNCHANGED disk \/ (txindex' = EmptyIndex /\ locator' = None)
  PROVE  Inv'
<1>0. TypeOK /\ LocatorInv
  BY DEF Inv
<1>1. /\ tip' = t /\ diskTip' = t /\ queue' = << >> /\ writing' = None
      /\ best' = InitialBest(locator', t)
      /\ synced' = (best' = t) /\ pc' = (IF synced' THEN "done" ELSE "next")
      /\ pindex' = best' /\ interrupt' = FALSE
      /\ right' = Right(best')
      /\ lapse' = (lapse \/ SavedEarly \/ (locator' # None /\ ~Below(locator', t)))
  BY DEF StartAgain
<1>2. locator' \in Blk \cup {None} /\ lapse \in BOOLEAN /\ txindex' \in [Tx -> Blk \cup {None}]
  BY <1>0, Types DEF disk, EmptyIndex
<1>3. best' \in Blk \cup {None} /\ (locator' = None \/ t = None => best' = None)
  BY <1>1, <1>2, ForkFacts DEF InitialBest
<1>4. right' \in BOOLEAN /\ (right' /\ best' # None => Indexed(txindex', Anc[best']))
  <2>1. right' \in BOOLEAN
    BY <1>1 DEF Right
  <2>2. ASSUME right', best' # None PROVE Indexed(txindex', Anc[best'])
    <3>1. UNCHANGED txindex
      BY <1>3, <2>2 DEF disk
    <3>2. \A a \in Anc[best'] : \A u \in Txs[a] : txindex[u] = a
      BY <1>1, <2>2 DEF Right, ChainOf
    <3>. QED
      BY <3>1, <3>2 DEF Indexed
  <2>. QED
    BY <2>1, <2>2
<1>5. TypeOK'
  <2>1. lapse' \in BOOLEAN /\ synced' \in BOOLEAN
    <3>1. lapse' \in BOOLEAN
      BY <1>1, <1>2, Zenon
    <3>. QED
      BY <1>1, <3>1
  <2>2. << >> \in Seq([event : {"connected", "flushed"}, block : Blk]) /\ Len(<< >>) <= MaxQueue
    BY IndexTreeAssumption
  <2>. QED
    BY <1>1, <1>2, <1>3, <1>4, <2>1, <2>2, ZenonT(60) DEF TypeOK
<1>6. SyncInv' /\ SyncedInv' /\ EmptyInv'
  <2>1. SyncInv'
    BY <1>1, <1>3, <1>4, ZenonT(60) DEF SyncInv
  <2>2. SyncedInv'
    BY <1>1, <1>4, ZenonT(60) DEF SyncedInv
  <2>3. Len(queue') = 0
    BY <1>1
  <2>4. EmptyInv'
    <3>1. NoGenesisFrom(queue', 1) /\ NoGenesisFrom(queue', 2)
      BY <2>3 DEF NoGenesisFrom
    <3>2. best' = None /\ synced' => tip' = None
      BY <1>1, Zenon
    <3>3. tip' = None => synced' /\ best' = None /\ queue' = << >>
      BY <1>1, <1>3, Zenon
    <3>. QED
      BY <3>1, <3>2, <3>3, Zenon DEF EmptyInv
  <2>. QED
    BY <2>1, <2>2, <2>4
<1>7. QueueInv'
  <2>1. Linked(queue', tip')
    <3>1. Len(queue') = 0
      BY <1>1
    <3>. QED
      BY <3>1 DEF Linked
  <2>2. synced' /\ best' # None => tip' \in Anc[best']
    BY <1>1, <1>3, AncSelf, Zenon
  <2>. QED
    BY <2>1, <2>2 DEF QueueInv, Reaches
<1>8. LocatorInv'
  <2>1. SUFFICES ASSUME ~lapse' PROVE LocatorInv'
    BY DEF LocatorInv
  <2>2. ~lapse /\ ~SavedEarly /\ (locator' # None => t # None /\ locator' \in Anc[t])
    BY <1>1, <2>1, ZenonT(60) DEF Below, ChainOf
  <2>3. LocatorIsIndexed
    BY <1>0, <2>2 DEF LocatorInv
  <2>4. locator' # None => Indexed(txindex', Anc[locator'])
    <3>1. locator # None => Indexed(txindex, Anc[locator])
      BY <2>2, <2>3, Zenon DEF LocatorIsIndexed, Indexed
    <3>2. locator' # None => UNCHANGED <<txindex, locator>>
      BY DEF disk
    <3>. QED
      BY <3>1, <3>2
  <2>5. best' = locator'
    BY <1>1, <1>2, <1>3, <2>2, ForkOfAncestor DEF InitialBest
  <2>6. right'
    <3>1. CASE locator' = None
      BY <1>1, <2>5, <3>1 DEF Right, ChainOf
    <3>2. CASE locator' # None
      <4>1. \A a \in Anc[best'] : \A u \in Txs[a] : txindex[u] = a
        BY <2>4, <2>5, <3>2 DEF Indexed, disk
      <4>. QED
        BY <1>1, <2>5, <3>2, <4>1 DEF Right, ChainOf
    <3>. QED
      BY <3>1, <3>2
  <2>7. LocatorIsIndexed'
    BY <1>1, <2>4 DEF LocatorIsIndexed, Indexed
  <2>8. Front' = locator' /\ (locator' # None => locator' \in Anc[locator'])
    BY <1>1, <1>2, <2>5, AncSelf DEF Front
  <2>. QED
    BY <1>1, <2>6, <2>7, <2>8, Zenon DEF LocatorInv
<1>. QED
  BY <1>5, <1>6, <1>7, <1>8 DEF Inv

-----------------------------------------------------------------------------
(* The theorems.                                                            *)

\* The empty index of a first start.
LEMMA InitInv == Init => Inv
<1>. SUFFICES ASSUME Init PROVE Inv
  OBVIOUS
<1>1. TypeOK
  <2>1. txindex \in [Tx -> Blk \cup {None}] /\ restarts \in 0..MaxRestarts
    BY IndexTreeAssumption DEF Init, EmptyIndex
  <2>2. queue \in Seq([event : {"connected", "flushed"}, block : Blk]) /\ Len(queue) <= MaxQueue
    BY IndexTreeAssumption DEF Init
  <2>. QED
    BY <2>1, <2>2, Zenon DEF Init, TypeOK
<1>2. SyncInv /\ SyncedInv /\ LocatorInv /\ QueueInv /\ EmptyInv
  <2>1. Len(queue) = 0
    BY DEF Init
  <2>2. NoGenesisFrom(queue, 1) /\ NoGenesisFrom(queue, 2) /\ Linked(queue, tip)
    BY <2>1 DEF NoGenesisFrom, Linked
  <2>3. SyncInv /\ SyncedInv /\ LocatorInv
    BY DEF Init, SyncInv, SyncedInv, LocatorInv, LocatorIsIndexed
  <2>4. QueueInv /\ EmptyInv
    BY <2>2, Zenon DEF Init, QueueInv, EmptyInv
  <2>. QED
    BY <2>3, <2>4
<1>. QED
  BY <1>1, <1>2 DEF Inv

\* Every step of every thread keeps the invariant.
LEMMA NextInv == Inv /\ [Next]_vars => Inv'
<1>. SUFFICES ASSUME Inv, [Next]_vars PROVE Inv'
  OBVIOUS
<1>1. CASE \E b \in Blk : Activate(b)
  BY <1>1, ActivateInv
<1>2. CASE Disconnect \/ Flush
  BY <1>2, DisconnectInv, FlushInv
<1>3. CASE SyncInterrupted \/ SyncDone \/ SyncNext \/ SyncWrite
  BY <1>3, SyncInterruptedInv, SyncDoneInv, SyncNextInv, SyncWriteInv
<1>4. CASE QueueThread
  BY <1>4, BlockConnectedInv, BlockWrittenInv, ChainStateFlushedInv DEF QueueThread
<1>5. CASE Interrupt
  BY <1>5, InterruptInv
<1>6. CASE Restart \/ SyncAborts
  <2>1. restarts \in 0..MaxRestarts /\ MaxRestarts \in Nat /\ diskTip \in Blk \cup {None}
    BY Types, IndexTreeAssumption DEF Inv
  <2>2. restarts' \in 0..MaxRestarts
    BY <1>6, <2>1 DEF Restart, SyncAborts
  <2>3. \E t \in {diskTip, None} : /\ StartAgain(t)
                                  /\ (UNCHANGED disk \/ (txindex' = EmptyIndex /\ locator' = None))
    BY <1>6 DEF Restart, SyncAborts
  <2>4. PICK t \in {diskTip, None} : /\ StartAgain(t)
                                    /\ (UNCHANGED disk \/ (txindex' = EmptyIndex /\ locator' = None))
    BY <2>3
  <2>5. t \in Blk \cup {None}
    BY <2>1
  <2>. QED
    BY <2>2, <2>4, <2>5, StartAgainInv
<1>7. CASE UNCHANGED vars
  BY <1>7, Zenon DEF Inv, TypeOK, SyncInv, SyncedInv, LocatorInv, LocatorIsIndexed, SavedEarly, Front, QueueInv, EmptyInv,
              Event, Indexed, vars, chain, disk, sync, history
<1>. QED
  BY <1>1, <1>2, <1>3, <1>4, <1>5, <1>6, <1>7 DEF Next, SyncThread

\* The invariant holds in every reachable state of the index, its two threads
\* and its database.
THEOREM InvHolds == Spec => []Inv
  BY InitInv, NextInv, PTL DEF Spec

\* BlockUntilSyncedToCurrentChain: when the index answers that it has caught up,
\* every transaction of the active chain is found in its block, except that an
\* index without a best block answers so while the genesis block waits in the
\* queue.
THEOREM AnswersAreCurrentTheorem == Spec => []AnswersAreCurrent
<1>1. Inv => AnswersAreCurrent
  <2>. SUFFICES ASSUME Inv, right, AnswersNow, ~GenesisWaits PROVE Right(tip)
    BY DEF AnswersAreCurrent
  <2>. SUFFICES ASSUME tip # None PROVE Right(tip)
    BY DEF Right, ChainOf
  <2>0. synced /\ best # None
    BY DEF Inv, EmptyInv, AnswersNow, GenesisWaits, GenesisAnnounced
  <2>1. synced /\ best \in Blk /\ tip \in Anc[best]
    BY <2>0, Types DEF Inv, AnswersNow, Below, ChainOf
  <2>2. Indexed(txindex, Anc[best])
    BY <2>0 DEF Inv, SyncedInv
  <2>3. Indexed(txindex, Anc[tip])
    BY <2>1, <2>2, IndexedBelow
  <2>. QED
    BY <2>3 DEF Right, ChainOf, Indexed
<1>. QED
  BY <1>1, InvHolds, PTL

\* Commit and Rewind: the saved locator names only blocks that are indexed,
\* unless one of the recorded lapses happened.
THEOREM LocatorIsIndexedTheorem == Spec => []LocatorIsIndexed
<1>1. Inv => LocatorIsIndexed
  BY DEF Inv, LocatorInv, LocatorIsIndexed
<1>. QED
  BY <1>1, InvHolds, PTL

\* BlockConnected: a synced index whose queue is empty has followed the chain,
\* unless a write failed.
THEOREM FollowsChainTheorem == Spec => []FollowsChain
<1>1. Inv => FollowsChain
  <2>. SUFFICES ASSUME Inv, synced, queue = << >>, pc # "failed", tip # None PROVE Below(tip, best)
    BY DEF FollowsChain
  <2>1. best # None /\ Reaches(queue, tip, best, 0)
    BY DEF Inv, EmptyInv, QueueInv
  <2>2. Len(queue) = 0
    OBVIOUS
  <2>3. tip \in Anc[best]
    BY <2>1, <2>2 DEF Reaches
  <2>. QED
    BY <2>1, <2>3 DEF Below, ChainOf
<1>. QED
  BY <1>1, InvHolds, PTL

\* A synced index has a best block for every announcement but that of the
\* genesis block
BestIsThere == synced /\ queue # << >> /\ Event # GenesisAnnounced => best # None

\* ChainStateFlushed follows m_best_block_index without looking whether it is
\* null, and BlockConnected gives up on a null one unless the block is the
\* genesis block: neither ever finds it null.
THEOREM BestIsThereTheorem == Spec => []BestIsThere
<1>1. Inv => BestIsThere
  BY DEF Inv, EmptyInv, BestIsThere
<1>. QED
  BY <1>1, InvHolds, PTL
=============================================================================
