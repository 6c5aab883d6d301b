-------------------------- MODULE ChainStateProofs --------------------------
(***************************************************************************)
(* The chainstate keeps its coins, for every set of outpoints, every       *)
(* height bound and any number of crashes: the inductive invariant, the    *)
(* safety properties of ChainState and the refinement of DurableChain.     *)
(***************************************************************************)
EXTENDS ChainState, Lemmas

\* The provers every step below is tried with, unless it names one.
USE SMT, Zenon, SMTT(20), ZenonT(40), SMTT(40)

\* A chain of blocks that ConnectBlock accepted one after the other: an outpoint
\* is created once and spent once, not before it is created, and the undo data of
\* the block that spends it hold the coin it was created with.
ValidChain(ch) ==
  /\ ch \in Seq(Block) /\ Len(ch) <= MaxHeight
  /\ \A i, j \in DOMAIN ch : \A o \in ch[i].add \cap ch[j].add : i = j
  /\ \A i, j \in DOMAIN ch : \A o \in ch[i].spend \cap ch[j].spend : i = j
  /\ \A i \in DOMAIN ch : \A o \in ch[i].spend :
       \E j \in 1..i : o \in ch[j].add /\ ch[i].undo[o] \in UndoRead(o, NewCoin(o, j))

-----------------------------------------------------------------------------
(* Chains                                                                   *)

\* The fields of a block.
LEMMA BlockFields ==
  ASSUME NEW b \in Block
  PROVE  b.add \in SUBSET Outpoints /\ b.spend \in SUBSET Outpoints /\ b.undo \in [b.spend -> Coin]
<1>1. PICK spend \in SUBSET Outpoints :
        b \in [add: SUBSET Outpoints, spend: {spend}, undo: [spend -> Coin]]
  BY DEF Block
<1>2. b.add \in SUBSET Outpoints /\ b.spend = spend /\ b.undo \in [spend -> Coin]
  BY <1>1
<1>3. QED
  BY <1>2

\* A record with these fields is a block.
LEMMA BlockIntro ==
  ASSUME NEW add \in SUBSET Outpoints, NEW spend \in SUBSET Outpoints, NEW undo \in [spend -> Coin]
  PROVE  [add |-> add, spend |-> spend, undo |-> undo] \in Block
<1>1. [add |-> add, spend |-> spend, undo |-> undo] \in [add: SUBSET Outpoints, spend: {spend}, undo: [spend -> Coin]]
  OBVIOUS
<1>2. QED
  BY <1>1 DEF Block

\* AddCoins makes a coin of the block's height.
LEMMA NewCoinIsCoin ==
  ASSUME NEW o, NEW h \in 1..MaxHeight
  PROVE  NewCoin(o, h) \in Coin /\ NewCoin(o, h).height = h /\ NewCoin(o, h) # NoCoin
<1>1. NewCoin(o, h) \in Coin
  BY ChainStateAssumption, PointAssumption DEF NewCoin
<1>2. QED
  BY <1>1, CoinsAssumption DEF NewCoin

\* The undo data give back a coin of the same height, and the very coin except for
\* a retarget payload, which no bind coin has.
LEMMA UndoReadFacts ==
  ASSUME NEW o \in Outpoints, NEW c \in Coin, NEW d \in UndoRead(o, c)
  PROVE  /\ d \in Coin /\ d # NoCoin /\ d.height = c.height
         /\ BindCoin(o, d) \/ BindCoin(o, c) => d = c
         /\ o \notin Retarget => d = c
         /\ c \in UndoRead(o, c)
         /\ UndoRead(o, d) = UndoRead(o, c)
<1>1. CASE o \notin Retarget
  BY <1>1, CoinsAssumption DEF UndoRead
<1>2. CASE o \in Retarget
  <2>1. PICK p \in Point : d = [c EXCEPT !.point = p]
    BY <1>2 DEF UndoRead
  <2>2. c = [height |-> c.height, point |-> c.point] /\ c.height \in 1..MaxHeight /\ c.point \in Point
    BY ChainStateAssumption
  <2>3. d = [height |-> c.height, point |-> p]
    BY <2>1, <2>2
  <2>4. d \in Coin /\ d.height = c.height
    BY <2>2, <2>3, ChainStateAssumption
  <2>5. ~BindCoin(o, d) /\ ~BindCoin(o, c)
    BY <1>2, <2>4, ChainStateAssumption
  <2>6. \A q \in Point : [d EXCEPT !.point = q] = [c EXCEPT !.point = q]
    BY <2>2, <2>3
  <2>7. UndoRead(o, d) = UndoRead(o, c)
    BY <1>2, <2>6 DEF UndoRead
  <2>8. c \in UndoRead(o, c)
    <3>1. c = [c EXCEPT !.point = c.point]
      BY <2>2
    <3>2. QED
      BY <1>2, <2>2, <3>1 DEF UndoRead
  <2>9. QED
    BY <1>2, <2>4, <2>5, <2>7, <2>8, CoinsAssumption
<1>3. QED
  BY <1>1, <1>2

\* The undo data may give back the coin that was written.
LEMMA UndoReadSelf ==
  ASSUME NEW o \in Outpoints, NEW c \in Coin
  PROVE  c \in UndoRead(o, c)
<1>1. \E d : d \in UndoRead(o, c)
  BY PointAssumption, Zenon DEF UndoRead
<1>2. QED
  BY <1>1, UndoReadFacts

\* A block of a valid chain that adds an outpoint is the one the chain has it from.
LEMMA CreatedAt ==
  ASSUME NEW ch, ValidChain(ch), NEW i \in DOMAIN ch, NEW o \in ch[i].add
  PROVE  Created(ch, o) /\ CreatedCoin(ch, o) = NewCoin(o, i)
<1>1. Created(ch, o)
  BY DEF Created
<1>2. (CHOOSE j \in DOMAIN ch : o \in ch[j].add) = i
  <2> DEFINE k == CHOOSE j \in DOMAIN ch : o \in ch[j].add
  <2>1. k \in DOMAIN ch /\ o \in ch[k].add
    OBVIOUS
  <2>2. QED
    BY <2>1 DEF ValidChain
<1>3. QED
  BY <1>1, <1>2, Zenon DEF CreatedCoin

\* The prefixes of a valid chain are valid.
LEMMA PrefixValid ==
  ASSUME NEW ch, ValidChain(ch), NEW n \in 0..Len(ch)
  PROVE  /\ ValidChain(SubSeq(ch, 1, n))
         /\ Len(SubSeq(ch, 1, n)) = n
         /\ \A i \in 1..n : SubSeq(ch, 1, n)[i] = ch[i]
<1> DEFINE p == SubSeq(ch, 1, n)
<1>1. ch \in Seq(Block) /\ Len(ch) \in Nat /\ DOMAIN ch = 1..Len(ch)
  BY DEF ValidChain
<1>2. \A i \in 1..n : ch[i] \in Block
  BY <1>1
<1>3. p \in Seq(Block) /\ Len(p) = n /\ \A i \in 1..n : p[i] = ch[i]
  BY <1>1, <1>2
<1>4. DOMAIN p = 1..n
  BY <1>3
<1> HIDE DEF p
<1>5. Len(p) <= MaxHeight
  BY <1>1, <1>3, ChainStateAssumption DEF ValidChain
<1>6. \A i, j \in DOMAIN p : /\ \A o \in p[i].add \cap p[j].add : i = j
                             /\ \A o \in p[i].spend \cap p[j].spend : i = j
  BY <1>1, <1>3, <1>4 DEF ValidChain
<1>7. ASSUME NEW i \in DOMAIN p, NEW o \in p[i].spend
      PROVE  \E j \in 1..i : o \in p[j].add /\ p[i].undo[o] \in UndoRead(o, NewCoin(o, j))
  <2>1. PICK j \in 1..i : o \in ch[j].add /\ ch[i].undo[o] \in UndoRead(o, NewCoin(o, j))
    BY <1>1, <1>3, <1>4 DEF ValidChain
  <2>2. p[j] = ch[j] /\ p[i] = ch[i]
    BY <1>1, <1>3, <1>4
  <2>3. QED
    BY <2>1, <2>2
<1>8. QED
  BY <1>3, <1>5, <1>6, <1>7 DEF ValidChain, p

\* The last block of a chain, and the chain without it.
LEMMA LastBlock ==
  ASSUME NEW ch, ValidChain(ch), ch # << >>
  PROVE  /\ Len(ch) \in Nat \ {0}
         /\ ch[Len(ch)] \in Block
         /\ ValidChain(SubSeq(ch, 1, Len(ch) - 1))
         /\ Len(SubSeq(ch, 1, Len(ch) - 1)) = Len(ch) - 1
         /\ ch = Append(SubSeq(ch, 1, Len(ch) - 1), ch[Len(ch)])
<1>1. ch \in Seq(Block) /\ Len(ch) \in Nat \ {0}
  BY DEF ValidChain
<1>2. ch[Len(ch)] \in Block
  BY <1>1
<1> DEFINE p == SubSeq(ch, 1, Len(ch) - 1)
<1>3. Len(ch) - 1 \in 0..Len(ch)
  BY <1>1
<1>4. ValidChain(p) /\ Len(p) = Len(ch) - 1 /\ \A i \in 1..Len(ch) - 1 : p[i] = ch[i]
  BY <1>3, PrefixValid, Zenon
<1> HIDE DEF p
<1>5. p \in Seq(Block)
  BY <1>4 DEF ValidChain
<1>6. /\ Append(p, ch[Len(ch)]) \in Seq(Block) /\ Len(Append(p, ch[Len(ch)])) = Len(ch)
      /\ \A i \in 1..Len(ch) : Append(p, ch[Len(ch)])[i] = ch[i]
  BY <1>1, <1>2, <1>4, <1>5
<1>7. ch = Append(p, ch[Len(ch)])
  BY <1>1, <1>6
<1>8. QED
  BY <1>1, <1>2, <1>4, <1>7 DEF p

\* The bind record of a coin while it is unspent, and after it was spent
LiveBind(o, c) == IF BindCoin(o, c) THEN [coin |-> c, valid |-> TRUE] ELSE NoBind
SpentBind(o, c) ==
  IF BindCoin(o, c) /\ c.height >= BHDIP007Height THEN [coin |-> c, valid |-> FALSE] ELSE NoBind

\* The coin a block that touches outpoint o is about: the one it adds, or the
\* chain's.
BlockCoin(o, ch, b) == IF o \in b.add THEN NewCoin(o, Len(ch) + 1) ELSE ChainCoin(ch, o)

\* An outpoint a valid chain has spent was created on it, and the coin it was
\* created with is a coin.
LEMMA CreatedFacts ==
  ASSUME NEW ch, ValidChain(ch), NEW o
  PROVE  /\ SpentOn(ch, o) => Created(ch, o)
         /\ Created(ch, o) => CreatedCoin(ch, o) \in Coin /\ CreatedCoin(ch, o) # NoCoin
<1>1. ch \in Seq(Block) /\ Len(ch) \in Nat /\ DOMAIN ch = 1..Len(ch) /\ Len(ch) <= MaxHeight
  BY DEF ValidChain
<1>2. ASSUME SpentOn(ch, o) PROVE Created(ch, o)
  <2>1. PICK i \in DOMAIN ch : o \in ch[i].spend
    BY <1>2 DEF SpentOn
  <2>2. PICK j \in 1..i : o \in ch[j].add
    BY <2>1 DEF ValidChain
  <2>3. j \in DOMAIN ch
    BY <1>1
  <2>4. QED
    BY <2>2, <2>3 DEF Created
<1>3. ASSUME Created(ch, o) PROVE CreatedCoin(ch, o) \in Coin /\ CreatedCoin(ch, o) # NoCoin
  <2>1. PICK i \in DOMAIN ch : o \in ch[i].add
    BY <1>3 DEF Created
  <2>2. CreatedCoin(ch, o) = NewCoin(o, i)
    BY <2>1, CreatedAt
  <2>3. i \in 1..MaxHeight
    BY <1>1, ChainStateAssumption
  <2>4. QED
    BY <2>2, <2>3, NewCoinIsCoin
<1>4. QED
  BY <1>2, <1>3

\* What a chain says of an outpoint, by cases.
LEMMA ChainFacts ==
  ASSUME NEW ch, ValidChain(ch), NEW o
  PROVE  /\ ChainCoin(ch, o) \in CoinOrNone /\ ChainBind(ch, o) \in BindOrNone
         /\ ~Created(ch, o) => ChainCoin(ch, o) = NoCoin /\ ChainBind(ch, o) = NoBind
         /\ SpentOn(ch, o) => /\ ChainCoin(ch, o) = NoCoin
                              /\ ChainBind(ch, o) = SpentBind(o, CreatedCoin(ch, o))
         /\ Created(ch, o) /\ ~SpentOn(ch, o) => /\ ChainCoin(ch, o) = CreatedCoin(ch, o)
                                                 /\ ChainBind(ch, o) = LiveBind(o, CreatedCoin(ch, o))
<1>1. CASE ~Created(ch, o)
  BY <1>1, CreatedFacts DEF ChainCoin, ChainBind, CoinOrNone, BindOrNone
<1>2. CASE Created(ch, o)
  <2> DEFINE c == CreatedCoin(ch, o)
  <2>1. c \in Coin
    BY <1>2, CreatedFacts
  <2>2. ChainCoin(ch, o) = IF SpentOn(ch, o) THEN NoCoin ELSE c
    BY <1>2 DEF ChainCoin
  <2>3. ChainBind(ch, o) = IF SpentOn(ch, o) THEN SpentBind(o, c) ELSE LiveBind(o, c)
    BY <1>2, Zenon DEF ChainBind, SpentBind, LiveBind
  <2> HIDE DEF c
  <2>4. SpentBind(o, c) \in BindOrNone /\ LiveBind(o, c) \in BindOrNone
    BY <2>1 DEF SpentBind, LiveBind, BindOrNone, BindInfo
  <2>5. QED
    BY <1>2, <2>1, <2>2, <2>3, <2>4 DEF c, CoinOrNone
<1>3. QED
  BY <1>1, <1>2

\* A coin and a record that match a chain have their types, and they agree with
\* one another: what GetLastBindPlotterCoin asserts.
LEMMA MatchesFacts ==
  ASSUME NEW ch, ValidChain(ch), NEW o \in Outpoints, NEW coin, NEW bind, Matches(o, coin, bind, ch)
  PROVE  /\ coin \in CoinOrNone /\ bind \in BindOrNone
         /\ coin = NoCoin <=> ChainCoin(ch, o) = NoCoin
         /\ coin # NoCoin => coin \in UndoRead(o, ChainCoin(ch, o)) /\ bind = LiveBind(o, coin)
         /\ BindAgrees(o, coin, bind)
<1>1. bind = ChainBind(ch, o) /\ bind \in BindOrNone
  BY ChainFacts DEF Matches
<1>2. CASE ChainCoin(ch, o) = NoCoin
  <2>1. coin = NoCoin
    BY <1>2 DEF Matches
  <2>2. bind # NoBind => ~bind.valid /\ BindCoin(o, bind.coin) /\ bind.coin.height >= BHDIP007Height
    <3>1. CASE SpentOn(ch, o)
      BY <1>1, <3>1, ChainFacts DEF SpentBind
    <3>2. CASE ~SpentOn(ch, o)
      BY <1>1, <1>2, <3>2, ChainFacts, CreatedFacts
    <3>3. QED
      BY <3>1, <3>2
  <2>3. QED
    BY <1>1, <1>2, <2>1, <2>2 DEF BindAgrees, CoinOrNone
<1>3. CASE ChainCoin(ch, o) # NoCoin
  <2> DEFINE c == ChainCoin(ch, o)
  <2>1. c \in Coin /\ bind = LiveBind(o, c)
    BY <1>1, <1>3, ChainFacts DEF CoinOrNone
  <2>2. coin \in UndoRead(o, c)
    BY <1>3 DEF Matches
  <2> HIDE DEF c
  <2>3. coin \in Coin /\ coin # NoCoin /\ (BindCoin(o, coin) \/ BindCoin(o, c) => coin = c)
    BY <2>1, <2>2, UndoReadFacts
  <2>4. bind = LiveBind(o, coin)
    BY <2>1, <2>3, Zenon DEF LiveBind
  <2>5. QED
    BY <1>1, <1>3, <2>2, <2>3, <2>4 DEF c, BindAgrees, LiveBind, CoinOrNone
<1>4. QED
  BY <1>2, <1>3

\* What a chain and the same chain with one more block have created and spent.
LEMMA AppendFacts ==
  ASSUME NEW ch \in Seq(Block), NEW b \in Block, NEW o
  PROVE  /\ Created(Append(ch, b), o) <=> Created(ch, o) \/ o \in b.add
         /\ SpentOn(Append(ch, b), o) <=> SpentOn(ch, o) \/ o \in b.spend
<1> DEFINE n == Append(ch, b)
<1>1. Len(ch) \in Nat /\ DOMAIN ch = 1..Len(ch)
  OBVIOUS
<1>2. n \in Seq(Block) /\ Len(n) = Len(ch) + 1 /\ n[Len(ch) + 1] = b /\ \A i \in 1..Len(ch) : n[i] = ch[i]
  OBVIOUS
<1>3. DOMAIN n = 1..Len(ch) + 1
  BY <1>2
<1> HIDE DEF n
<1>4. Created(n, o) <=> Created(ch, o) \/ o \in b.add
  BY <1>1, <1>2, <1>3 DEF Created
<1>5. SpentOn(n, o) <=> SpentOn(ch, o) \/ o \in b.spend
  BY <1>1, <1>2, <1>3 DEF SpentOn
<1>6. QED
  BY <1>4, <1>5 DEF n

\* A block may follow a valid chain when it adds only new outpoints and spends
\* only coins of the chain or of its own, with their undo data.
LEMMA AppendValid ==
  ASSUME NEW ch, ValidChain(ch), Len(ch) < MaxHeight, NEW b \in Block,
         \A o \in b.add : ~Created(ch, o),
         \A o \in b.spend : BlockCoin(o, ch, b) # NoCoin /\ b.undo[o] \in UndoRead(o, BlockCoin(o, ch, b))
  PROVE  ValidChain(Append(ch, b))
<1> DEFINE n == Append(ch, b)
           h == Len(ch) + 1
<1>1. ch \in Seq(Block) /\ Len(ch) \in Nat /\ DOMAIN ch = 1..Len(ch) /\ h \in Nat
  BY DEF ValidChain
<1>2. n \in Seq(Block) /\ Len(n) = h /\ n[h] = b /\ \A i \in 1..Len(ch) : n[i] = ch[i]
  BY <1>1
<1>3. DOMAIN n = 1..h
  BY <1>2
<1>4. Len(n) <= MaxHeight
  BY <1>1, <1>2, ChainStateAssumption
<1>5. \A o \in b.spend : ~SpentOn(ch, o)
  <2> SUFFICES ASSUME NEW o \in b.spend, SpentOn(ch, o) PROVE FALSE
    OBVIOUS
  <2>1. Created(ch, o) /\ ChainCoin(ch, o) = NoCoin
    BY CreatedFacts, ChainFacts
  <2>2. QED
    BY <2>1 DEF BlockCoin
<1> HIDE DEF n
<1>6. ASSUME NEW i \in DOMAIN n, NEW j \in DOMAIN n, NEW o \in n[i].add \cap n[j].add PROVE i = j
  <2>1. CASE i \in 1..Len(ch) /\ j \in 1..Len(ch)
    BY <1>1, <1>2, <1>6, <2>1 DEF ValidChain
  <2>2. CASE i = h /\ j # h
    BY <1>1, <1>2, <1>3, <1>6, <2>2 DEF Created
  <2>3. CASE i # h /\ j = h
    BY <1>1, <1>2, <1>3, <1>6, <2>3 DEF Created
  <2>4. QED
    BY <1>1, <1>3, <2>1, <2>2, <2>3
<1>7. ASSUME NEW i \in DOMAIN n, NEW j \in DOMAIN n, NEW o \in n[i].spend \cap n[j].spend PROVE i = j
  <2>1. CASE i \in 1..Len(ch) /\ j \in 1..Len(ch)
    BY <1>1, <1>2, <1>7, <2>1 DEF ValidChain
  <2>2. CASE i = h /\ j # h
    BY <1>1, <1>2, <1>3, <1>5, <1>7, <2>2 DEF SpentOn
  <2>3. CASE i # h /\ j = h
    BY <1>1, <1>2, <1>3, <1>5, <1>7, <2>3 DEF SpentOn
  <2>4. QED
    BY <1>1, <1>3, <2>1, <2>2, <2>3
<1>8. ASSUME NEW i \in DOMAIN n, NEW o \in n[i].spend
      PROVE  \E j \in 1..i : o \in n[j].add /\ n[i].undo[o] \in UndoRead(o, NewCoin(o, j))
  <2>1. CASE i \in 1..Len(ch)
    <3>1. PICK j \in 1..i : o \in ch[j].add /\ ch[i].undo[o] \in UndoRead(o, NewCoin(o, j))
      BY <1>1, <1>2, <2>1 DEF ValidChain
    <3>2. n[j] = ch[j] /\ n[i] = ch[i]
      BY <1>1, <1>2, <2>1
    <3>3. QED
      BY <3>1, <3>2
  <2>2. CASE i = h /\ o \in b.add
    <3>1. b.undo[o] \in UndoRead(o, NewCoin(o, h))
      BY <1>2, <1>8, <2>2 DEF BlockCoin
    <3>2. QED
      BY <1>1, <1>2, <2>2, <3>1
  <2>3. CASE i = h /\ o \notin b.add
    <3>1. b.undo[o] \in UndoRead(o, ChainCoin(ch, o)) /\ ChainCoin(ch, o) # NoCoin
      BY <1>2, <1>8, <2>3 DEF BlockCoin
    <3>2. Created(ch, o) /\ ChainCoin(ch, o) = CreatedCoin(ch, o)
      BY <3>1 DEF ChainCoin
    <3>3. PICK j \in DOMAIN ch : o \in ch[j].add
      BY <3>2 DEF Created
    <3>4. CreatedCoin(ch, o) = NewCoin(o, j)
      BY <3>3, CreatedAt
    <3>5. j \in 1..i /\ n[j] = ch[j]
      BY <1>1, <1>2, <2>3
    <3>6. QED
      BY <1>2, <2>3, <3>1, <3>2, <3>3, <3>4, <3>5
  <2>4. QED
    BY <1>1, <1>3, <2>1, <2>2, <2>3
<1>9. QED
  BY <1>2, <1>4, <1>6, <1>7, <1>8 DEF ValidChain, n

\* How a block changes what its chain says of an outpoint.
LEMMA ChainStep ==
  ASSUME NEW ch, ValidChain(ch), NEW b \in Block, ValidChain(Append(ch, b)), NEW o \in Outpoints
  PROVE  LET n == Append(ch, b)
             c == BlockCoin(o, ch, b)
         IN  /\ o \in b.add => ChainCoin(ch, o) = NoCoin /\ ChainBind(ch, o) = NoBind
             /\ o \in Touches(b) => c \in Coin /\ c # NoCoin /\ Created(n, o) /\ CreatedCoin(n, o) = c
             /\ o \in b.spend => /\ b.undo[o] \in UndoRead(o, c) /\ SpentOn(n, o)
                                 /\ ChainCoin(n, o) = NoCoin /\ ChainBind(n, o) = SpentBind(o, c)
             /\ o \in b.spend \ b.add => ChainCoin(ch, o) = c /\ ChainBind(ch, o) = LiveBind(o, c)
             /\ o \in b.add \ b.spend => ChainCoin(n, o) = c /\ ChainBind(n, o) = LiveBind(o, c)
             /\ o \notin Touches(b) => ChainCoin(n, o) = ChainCoin(ch, o) /\ ChainBind(n, o) = ChainBind(ch, o)
<1> DEFINE n == Append(ch, b)
           c == BlockCoin(o, ch, b)
           h == Len(ch) + 1
<1>1. ch \in Seq(Block) /\ Len(ch) \in Nat /\ DOMAIN ch = 1..Len(ch)
  BY DEF ValidChain
<1>2. n \in Seq(Block) /\ Len(n) = h /\ n[h] = b /\ \A i \in 1..Len(ch) : n[i] = ch[i]
  BY <1>1
<1>3. DOMAIN n = 1..h /\ h \in 1..h /\ h \in 1..MaxHeight
  BY <1>1, <1>2, ChainStateAssumption DEF ValidChain
<1>4. /\ Created(n, o) <=> Created(ch, o) \/ o \in b.add
      /\ SpentOn(n, o) <=> SpentOn(ch, o) \/ o \in b.spend
  BY <1>1, AppendFacts
<1> HIDE DEF n
<1>5. Created(ch, o) => CreatedCoin(n, o) = CreatedCoin(ch, o) /\ o \notin b.add
  <2> SUFFICES ASSUME Created(ch, o) PROVE CreatedCoin(n, o) = CreatedCoin(ch, o) /\ o \notin b.add
    OBVIOUS
  <2>1. PICK i \in DOMAIN ch : o \in ch[i].add
    BY DEF Created
  <2>2. CreatedCoin(ch, o) = NewCoin(o, i)
    BY <2>1, CreatedAt
  <2>3. i \in DOMAIN n /\ o \in n[i].add /\ ValidChain(n)
    BY <1>1, <1>2, <1>3, <2>1 DEF n
  <2>4. CreatedCoin(n, o) = NewCoin(o, i)
    BY <2>3, CreatedAt
  <2>5. o \notin b.add
    <3>1. SUFFICES ASSUME o \in b.add PROVE FALSE
      OBVIOUS
    <3>2. o \in n[i].add \cap n[h].add /\ i \in DOMAIN n /\ h \in DOMAIN n /\ i # h
      BY <1>1, <1>2, <1>3, <2>3, <3>1
    <3>3. QED
      BY <2>3, <3>2 DEF ValidChain
  <2>6. QED
    BY <2>2, <2>4, <2>5
<1>6. o \in b.add => CreatedCoin(n, o) = c /\ c \in Coin /\ c # NoCoin
  <2> SUFFICES ASSUME o \in b.add PROVE CreatedCoin(n, o) = c /\ c \in Coin /\ c # NoCoin
    OBVIOUS
  <2>1. c = NewCoin(o, h)
    BY DEF BlockCoin
  <2>2. ValidChain(n) /\ h \in DOMAIN n /\ o \in n[h].add
    BY <1>2, <1>3 DEF n
  <2>3. CreatedCoin(n, o) = NewCoin(o, h)
    BY <2>2, CreatedAt
  <2>4. QED
    BY <1>3, <2>1, <2>3, NewCoinIsCoin
<1>7. o \in b.spend => ~SpentOn(ch, o)
  <2> SUFFICES ASSUME o \in b.spend, SpentOn(ch, o) PROVE FALSE
    OBVIOUS
  <2>1. PICK i \in DOMAIN ch : o \in ch[i].spend
    BY DEF SpentOn
  <2>2. o \in n[i].spend \cap n[h].spend /\ i \in DOMAIN n /\ h \in DOMAIN n /\ i # h
    BY <1>1, <1>2, <1>3, <2>1
  <2>3. ValidChain(n)
    BY DEF n
  <2>4. QED
    BY <2>2, <2>3 DEF ValidChain
<1>8. o \in b.spend => Created(n, o) /\ b.undo[o] \in UndoRead(o, CreatedCoin(n, o))
  <2> SUFFICES ASSUME o \in b.spend PROVE Created(n, o) /\ b.undo[o] \in UndoRead(o, CreatedCoin(n, o))
    OBVIOUS
  <2>1. ValidChain(n) /\ h \in DOMAIN n /\ o \in n[h].spend
    BY <1>2, <1>3 DEF n
  <2>2. PICK j \in 1..h : o \in n[j].add /\ n[h].undo[o] \in UndoRead(o, NewCoin(o, j))
    BY <2>1 DEF ValidChain
  <2>3. j \in DOMAIN n
    BY <1>3
  <2>4. Created(n, o) /\ CreatedCoin(n, o) = NewCoin(o, j)
    BY <2>1, <2>2, <2>3, CreatedAt
  <2>5. QED
    BY <1>2, <2>2, <2>4
<1>9. o \in b.spend \ b.add => Created(ch, o) /\ ChainCoin(ch, o) = c /\ CreatedCoin(n, o) = c
                               /\ c \in Coin /\ c # NoCoin /\ ChainBind(ch, o) = LiveBind(o, c)
  BY <1>4, <1>5, <1>7, <1>8, ChainFacts, CreatedFacts DEF BlockCoin
<1>10. o \in b.add => ~Created(ch, o) /\ ~SpentOn(ch, o) /\ ChainCoin(ch, o) = NoCoin /\ ChainBind(ch, o) = NoBind
  BY <1>5, ChainFacts, CreatedFacts
<1>11. ValidChain(n)
  BY DEF n
<1> HIDE DEF c
<1>12. o \in b.spend => ChainCoin(n, o) = NoCoin /\ ChainBind(n, o) = SpentBind(o, c)
  BY <1>4, <1>6, <1>9, <1>11, ChainFacts
<1>13. o \in b.add \ b.spend => ChainCoin(n, o) = c /\ ChainBind(n, o) = LiveBind(o, c)
  BY <1>4, <1>6, <1>10, <1>11, ChainFacts
<1>14. o \notin Touches(b) => ChainCoin(n, o) = ChainCoin(ch, o) /\ ChainBind(n, o) = ChainBind(ch, o)
  BY <1>4, <1>5, CreatedFacts DEF Touches, ChainCoin, ChainBind
<1>15. QED
  BY <1>4, <1>6, <1>8, <1>9, <1>10, <1>12, <1>13, <1>14 DEF n, c, Touches

\* The same by cases.  An outpoint the block touches has a coin on the chain.
LEMMA StepTouched ==
  ASSUME NEW ch, ValidChain(ch), NEW b \in Block, ValidChain(Append(ch, b)), NEW o \in Outpoints, o \in Touches(b)
  PROVE  /\ BlockCoin(o, ch, b) \in Coin /\ BlockCoin(o, ch, b) # NoCoin
         /\ Created(Append(ch, b), o) /\ CreatedCoin(Append(ch, b), o) = BlockCoin(o, ch, b)
BY ChainStep

\* An outpoint the block does not touch stays as it was.
LEMMA StepUntouched ==
  ASSUME NEW ch, ValidChain(ch), NEW b \in Block, ValidChain(Append(ch, b)), NEW o \in Outpoints, o \notin Touches(b)
  PROVE  ChainCoin(Append(ch, b), o) = ChainCoin(ch, o) /\ ChainBind(Append(ch, b), o) = ChainBind(ch, o)
BY ChainStep

\* An outpoint the block adds was not there.
LEMMA StepAdded ==
  ASSUME NEW ch, ValidChain(ch), NEW b \in Block, ValidChain(Append(ch, b)), NEW o \in Outpoints, o \in b.add
  PROVE  /\ ChainCoin(ch, o) = NoCoin /\ ChainBind(ch, o) = NoBind
         /\ BlockCoin(o, ch, b) = NewCoin(o, Len(ch) + 1)
BY ChainStep DEF BlockCoin

\* An outpoint the block spends is in its undo data and has no coin any more.
LEMMA StepSpent ==
  ASSUME NEW ch, ValidChain(ch), NEW b \in Block, ValidChain(Append(ch, b)), NEW o \in Outpoints, o \in b.spend
  PROVE  /\ b.undo[o] \in UndoRead(o, BlockCoin(o, ch, b)) /\ SpentOn(Append(ch, b), o)
         /\ ChainCoin(Append(ch, b), o) = NoCoin
         /\ ChainBind(Append(ch, b), o) = SpentBind(o, BlockCoin(o, ch, b))
BY ChainStep

\* An outpoint the block spends and does not add had its coin before.
LEMMA StepRead ==
  ASSUME NEW ch, ValidChain(ch), NEW b \in Block, ValidChain(Append(ch, b)), NEW o \in Outpoints, 
         o \in b.spend, o \notin b.add
  PROVE  ChainCoin(ch, o) = BlockCoin(o, ch, b) /\ ChainBind(ch, o) = LiveBind(o, BlockCoin(o, ch, b))
BY ChainStep

\* An outpoint the block adds and does not spend has its coin now.
LEMMA StepKept ==
  ASSUME NEW ch, ValidChain(ch), NEW b \in Block, ValidChain(Append(ch, b)), NEW o \in Outpoints, 
         o \in b.add, o \notin b.spend
  PROVE  /\ ChainCoin(Append(ch, b), o) = BlockCoin(o, ch, b)
         /\ ChainBind(Append(ch, b), o) = LiveBind(o, BlockCoin(o, ch, b))
BY ChainStep

\* A chain is its own ancestor, and the empty chain is everyone's.
LEMMA AncestorBase ==
  ASSUME NEW z, ValidChain(z)
  PROVE  IsAncestor(z, z) /\ IsAncestor(<< >>, z) /\ ValidChain(<< >>)
<1>1. z \in Seq(Block) /\ Len(z) \in Nat /\ Len(z) <= Len(z) /\ 0 <= Len(z)
  BY DEF ValidChain
<1>2. IsAncestor(z, z)
  BY <1>1 DEF IsAncestor
<1>3. SubSeq(z, 1, 0) = << >> /\ Len(<< >>) = 0
  OBVIOUS
<1>4. ValidChain(<< >>)
  <2>1. 0 \in 0..Len(z)
    BY <1>1
  <2>2. ValidChain(SubSeq(z, 1, 0))
    BY <2>1, PrefixValid
  <2>3. QED
    BY <1>3, <2>2, Zenon
<1>5. QED
  BY <1>1, <1>2, <1>3, <1>4 DEF IsAncestor

\* What a chain has created and spent, its extensions have.
LEMMA AncestorFacts ==
  ASSUME NEW a, ValidChain(a), NEW z, ValidChain(z), IsAncestor(a, z), NEW o
  PROVE  /\ Created(a, o) => Created(z, o) /\ CreatedCoin(z, o) = CreatedCoin(a, o)
         /\ SpentOn(a, o) => SpentOn(z, o)
<1>1. /\ Len(a) \in Nat /\ Len(z) \in Nat /\ Len(a) <= Len(z)
      /\ DOMAIN a = 1..Len(a) /\ DOMAIN z = 1..Len(z)
  BY DEF ValidChain, IsAncestor
<1>2. \A i \in DOMAIN a : i \in DOMAIN z /\ a[i] = z[i]
  <2>1. Len(a) \in 0..Len(z)
    BY <1>1
  <2>2. \A i \in 1..Len(a) : SubSeq(z, 1, Len(a))[i] = z[i]
    BY <2>1, PrefixValid
  <2>3. QED
    BY <1>1, <2>2 DEF IsAncestor
<1>3. ASSUME Created(a, o) PROVE Created(z, o) /\ CreatedCoin(z, o) = CreatedCoin(a, o)
  <2>1. PICK i \in DOMAIN a : o \in a[i].add
    BY <1>3 DEF Created
  <2>2. i \in DOMAIN z /\ o \in z[i].add
    BY <1>2, <2>1
  <2>3. QED
    BY <2>1, <2>2, CreatedAt
<1>4. ASSUME SpentOn(a, o) PROVE SpentOn(z, o)
  BY <1>2, <1>4 DEF SpentOn
<1>5. QED
  BY <1>3, <1>4

\* The next block towards a descendant.
LEMMA AncestorStep ==
  ASSUME NEW a, ValidChain(a), NEW z, ValidChain(z), IsAncestor(a, z), a # z
  PROVE  LET n == Append(a, z[Len(a) + 1])
         IN  z[Len(a) + 1] \in Block /\ ValidChain(n) /\ IsAncestor(n, z)
<1> DEFINE h == Len(a) + 1
           n == Append(a, z[h])
<1>1. /\ a \in Seq(Block) /\ z \in Seq(Block) /\ Len(a) \in Nat /\ Len(z) \in Nat /\ Len(a) <= Len(z)
      /\ a = SubSeq(z, 1, Len(a))
  BY DEF ValidChain, IsAncestor
<1>2. Len(a) # Len(z)
  BY <1>1
<1>3. Len(a) \in 0..Len(z) /\ h \in 0..Len(z) /\ h \in 1..Len(z)
  BY <1>1, <1>2
<1>4. \A i \in 1..Len(a) : a[i] = z[i]
  BY <1>1, <1>3, PrefixValid
<1>5. ValidChain(SubSeq(z, 1, h)) /\ Len(SubSeq(z, 1, h)) = h /\ \A i \in 1..h : SubSeq(z, 1, h)[i] = z[i]
  BY <1>3, PrefixValid
<1>6. z[h] \in Block
  BY <1>1, <1>3
<1>7. n \in Seq(Block) /\ Len(n) = h /\ n[h] = z[h] /\ \A i \in 1..Len(a) : n[i] = z[i]
  BY <1>1, <1>4, <1>6
<1> HIDE DEF n
<1>8. SubSeq(z, 1, h) \in Seq(Block)
  BY <1>5 DEF ValidChain
<1>9. ASSUME NEW i \in 1..h PROVE n[i] = SubSeq(z, 1, h)[i]
  <2>1. i = h \/ i \in 1..Len(a)
    BY <1>1
  <2>2. n[i] = z[i]
    BY <1>7, <2>1
  <2>3. QED
    BY <1>5, <2>2
<1> HIDE DEF h
<1>10. n = SubSeq(z, 1, h)
  BY <1>5, <1>7, <1>8, <1>9
<1>11. QED
  BY <1>3, <1>5, <1>6, <1>7, <1>10 DEF IsAncestor, n, h

\* The chain without its last block is an ancestor of what the chain is one of.
LEMMA AncestorShorten ==
  ASSUME NEW a, ValidChain(a), a # << >>, NEW z, ValidChain(z), IsAncestor(a, z)
  PROVE  IsAncestor(SubSeq(a, 1, Len(a) - 1), z)
<1> DEFINE p == SubSeq(a, 1, Len(a) - 1)
           q == SubSeq(z, 1, Len(a) - 1)
<1>1. /\ a \in Seq(Block) /\ z \in Seq(Block) /\ Len(a) \in Nat \ {0} /\ Len(z) \in Nat /\ Len(a) <= Len(z)
      /\ a = SubSeq(z, 1, Len(a))
  BY DEF ValidChain, IsAncestor
<1>2. Len(a) \in 0..Len(z) /\ Len(a) - 1 \in 0..Len(z) /\ Len(a) - 1 \in 0..Len(a)
  BY <1>1
<1>3. \A i \in 1..Len(a) : a[i] = z[i]
  BY <1>1, <1>2, PrefixValid
<1>4. ValidChain(p) /\ Len(p) = Len(a) - 1 /\ \A i \in 1..Len(a) - 1 : p[i] = a[i]
  BY <1>2, PrefixValid, Zenon
<1>5. ValidChain(q) /\ Len(q) = Len(a) - 1 /\ \A i \in 1..Len(a) - 1 : q[i] = z[i]
  BY <1>2, PrefixValid, Zenon
<1> HIDE DEF p, q
<1>6. p \in Seq(Block) /\ q \in Seq(Block)
  BY <1>4, <1>5 DEF ValidChain
<1>7. \A i \in 1..Len(p) : p[i] = q[i]
  BY <1>1, <1>3, <1>4, <1>5
<1>8. p = q
  BY <1>4, <1>5, <1>6, <1>7
<1>9. QED
  BY <1>1, <1>4, <1>8 DEF IsAncestor, p, q

-----------------------------------------------------------------------------
(* One entry of the cache of ReplayBlocks                                   *)

\* What a clean entry says of the coin below it.
CleanCopy(e, coin) == e # NoEntry /\ "DIRTY" \notin e.flags => coin # NoCoin /\ e = CleanEntry(coin)

\* What a FRESH entry says of the database in the middle of a replay: it may lie
\* over a bind record that the interrupted flush wrote, which is the new tip's.
FreshOver(o, e, coin, bind, new) ==
  e # NoEntry /\ "FRESH" \in e.flags =>
    /\ ~e.spent /\ ~BindCoin(o, e.coin)
    /\ coin = NoCoin /\ (bind = NoBind \/ Matches(o, coin, bind, new))

\* An outpoint in a replay that has come to chain ch: the answers are that chain's,
\* or the interrupted flush wrote the outpoint already and the replay has not
\* changed it.
Replayed(o, e, coin, bind, ch, new) ==
  /\ CleanCopy(e, coin) /\ FreshOver(o, e, coin, bind, new)
  /\ \/ Matches(o, GetCoin(e, coin), GetBindPlotterEntry(o, e, bind), ch)
     \/ ~IsDirty(e) /\ Matches(o, coin, bind, new)

\* Without a dirty entry the database answers.
LEMMA CleanAnswers ==
  ASSUME NEW o, NEW e, NEW coin, NEW bind, CleanCopy(e, coin), ~IsDirty(e)
  PROVE  GetCoin(e, coin) = coin /\ GetBindPlotterEntry(o, e, bind) = bind
<1>1. e # NoEntry => coin # NoCoin /\ e = CleanEntry(coin)
  BY DEF CleanCopy, IsDirty
<1>2. FetchCoin(e, coin) = IF coin = NoCoin THEN NoEntry ELSE CleanEntry(coin)
  BY <1>1 DEF FetchCoin
<1>3. GetCoin(e, coin) = coin
  BY <1>2, CleanEntryFacts, ZenonT(60) DEF GetCoin
<1>4. QED
  BY <1>3 DEF GetBindPlotterEntry

\* An entry for coin c that a replay may leave
Restored(o, f, c, coin, bind, new) ==
  /\ f \in Entry /\ f # NoEntry /\ f.coin = c /\ "DIRTY" \in f.flags
  /\ FreshOver(o, f, coin, bind, new)
  /\ GetCoin(f, coin) = c /\ GetBindPlotterEntry(o, f, bind) = LiveBind(o, c)

\* AddCoin in a replay, by a caller that says whether it saw a coin.
LEMMA ReplayAdd ==
  ASSUME NEW o \in Outpoints, NEW e \in CacheEntry, NEW coin \in CoinOrNone, NEW bind, NEW new,
         NEW c \in Coin, CleanCopy(e, coin), FreshOver(o, e, coin, bind, new),
         coin = NoCoin /\ ~IsDirty(e) /\ ~BindCoin(o, c) => bind = NoBind \/ Matches(o, coin, bind, new),
         NEW f, f = AddCoin(o, FetchCoin(e, coin), c, GetCoin(e, coin) # NoCoin)
  PROVE  Restored(o, f, c, coin, bind, new)
<1> DEFINE g == FetchCoin(e, coin)
<1>1. f \in Entry /\ ~f.spent /\ f.coin = c /\ "DIRTY" \in f.flags
  BY Zenon DEF AddCoin, AddedFlags, Entry, Flags
<1>2. "FRESH" \in f.flags => /\ ~BindCoin(o, c)
                             /\ \/ AddedFresh(o, g, GetCoin(e, coin) # NoCoin)
                                \/ g # NoEntry /\ "FRESH" \in g.flags
  BY DEF AddCoin, AddedFlags, Flags
<1>3. f # NoEntry
  BY <1>1, NoneDistinct
<1>4. ASSUME g # NoEntry, "FRESH" \in g.flags PROVE coin = NoCoin /\ (bind = NoBind \/ Matches(o, coin, bind, new))
  BY <1>4, CleanEntryFacts, Zenon DEF FetchCoin, FreshOver
<1>5. ASSUME AddedFresh(o, g, GetCoin(e, coin) # NoCoin), ~BindCoin(o, c)
      PROVE  coin = NoCoin /\ (bind = NoBind \/ Matches(o, coin, bind, new))
  <2>1. GetCoin(e, coin) = NoCoin /\ (g # NoEntry => "DIRTY" \notin g.flags)
    BY <1>5 DEF AddedFresh
  <2>2. ~IsDirty(e)
    BY <2>1 DEF FetchCoin, IsDirty
  <2>3. coin = NoCoin
    BY <2>1, <2>2, CleanAnswers
  <2>4. QED
    BY <1>5, <2>2, <2>3
<1>6. FreshOver(o, f, coin, bind, new)
  BY <1>1, <1>2, <1>4, <1>5 DEF FreshOver
<1>7. GetCoin(f, coin) = c /\ GetBindPlotterEntry(o, f, bind) = LiveBind(o, c)
  BY <1>1, <1>3, Zenon DEF GetCoin, FetchCoin, GetBindPlotterEntry, IsDirty, LiveBind
<1>8. QED
  BY <1>1, <1>3, <1>6, <1>7, Zenon DEF Restored

\* SpendCoin in a replay, on an entry there is: the coin is gone and its record is
\* right, or the entry was FRESH and the new tip's record lies below it.
LEMMA ReplaySpend ==
  ASSUME NEW o \in Outpoints, NEW g \in Entry, NEW coin, NEW bind, NEW new,
         NEW rollback \in BOOLEAN, FreshOver(o, g, coin, bind, new)
  PROVE  LET f == SpendCoin(o, g, rollback)
         IN  /\ f \in CacheEntry /\ CleanCopy(f, coin) /\ FreshOver(o, f, coin, bind, new)
             /\ \/ /\ GetCoin(f, coin) = NoCoin
                   /\ GetBindPlotterEntry(o, f, bind) = IF rollback THEN NoBind ELSE SpentBind(o, g.coin)
                \/ ~IsDirty(f) /\ Matches(o, coin, bind, new)
<1> DEFINE f == SpendCoin(o, g, rollback)
           unbinds == ~rollback /\ BindCoin(o, g.coin) /\ g.coin.height >= BHDIP007Height
<1>1. g # NoEntry
  BY NoneDistinct
<1>2. CASE unbinds
  <2>1. f = [g EXCEPT !.spent = TRUE, !.flags = (@ \cup {"DIRTY", "UNBIND"}) \ {"FRESH"}]
    BY <1>1, <1>2 DEF SpendCoin
  <2>2. /\ f \in Entry /\ f.spent /\ f.coin = g.coin
        /\ "DIRTY" \in f.flags /\ "UNBIND" \in f.flags /\ "FRESH" \notin f.flags
    BY <2>1, Zenon DEF Entry, Flags
  <2> HIDE DEF f
  <2>3. f # NoEntry /\ f \in CacheEntry
    BY <2>2, NoneDistinct DEF CacheEntry
  <2>4. GetCoin(f, coin) = NoCoin
    BY <2>2, <2>3 DEF GetCoin, FetchCoin
  <2>5. GetBindPlotterEntry(o, f, bind) = SpentBind(o, g.coin)
    BY <1>2, <2>2, <2>3, Zenon DEF GetBindPlotterEntry, IsDirty, SpentBind
  <2>6. QED
    BY <1>2, <2>2, <2>3, <2>4, <2>5 DEF f, CleanCopy, FreshOver
<1>3. CASE ~unbinds /\ "FRESH" \in g.flags
  <2>1. f = NoEntry
    BY <1>1, <1>3 DEF SpendCoin
  <2>2. ~BindCoin(o, g.coin) /\ coin = NoCoin /\ (bind = NoBind \/ Matches(o, coin, bind, new))
    BY <1>1, <1>3 DEF FreshOver
  <2> HIDE DEF f
  <2>3. GetCoin(f, coin) = NoCoin /\ GetBindPlotterEntry(o, f, bind) = bind /\ ~IsDirty(f)
    BY <2>1, <2>2 DEF GetCoin, FetchCoin, GetBindPlotterEntry, IsDirty
  <2>4. SpentBind(o, g.coin) = NoBind
    BY <2>2 DEF SpentBind
  <2>5. QED
    BY <2>1, <2>2, <2>3, <2>4 DEF f, CacheEntry, CleanCopy, FreshOver
<1>4. CASE ~unbinds /\ "FRESH" \notin g.flags
  <2>1. f = [g EXCEPT !.spent = TRUE, !.flags = (@ \cup {"DIRTY"}) \ {"UNBIND"}]
    BY <1>1, <1>4 DEF SpendCoin
  <2>2. f \in Entry /\ f.spent /\ f.flags = (g.flags \cup {"DIRTY"}) \ {"UNBIND"}
    BY <2>1, ZenonT(60) DEF Entry, Flags
  <2> HIDE DEF f
  <2>3. f # NoEntry /\ f \in CacheEntry
    BY <2>2, NoneDistinct DEF CacheEntry
  <2>4. GetCoin(f, coin) = NoCoin /\ GetBindPlotterEntry(o, f, bind) = NoBind
    BY <2>2, <2>3 DEF GetCoin, FetchCoin, GetBindPlotterEntry, IsDirty
  <2>5. ~rollback => SpentBind(o, g.coin) = NoBind
    BY <1>4 DEF SpentBind
  <2>6. QED
    BY <1>4, <2>2, <2>3, <2>4, <2>5 DEF f, CleanCopy, FreshOver
<1>5. QED
  BY <1>2, <1>3, <1>4

\* Rolling a block of the old branch back: DisconnectBlock on an outpoint, whatever
\* the interrupted flush has written of it.
LEMMA RollbackEntry ==
  ASSUME NEW o \in Outpoints, NEW e \in CacheEntry, NEW coin \in CoinOrNone, NEW bind \in BindOrNone,
         NEW old, ValidChain(old), NEW new, ValidChain(new),
         NEW ch, ValidChain(ch), NEW b \in Block, ValidChain(Append(ch, b)), IsAncestor(Append(ch, b), old),
         Matches(o, coin, bind, old) \/ Matches(o, coin, bind, new),
         NEW u \in UndoReads(b),
         Replayed(o, e, coin, bind, Append(ch, b), new),
         NEW f, f = IF o \in Touches(b) THEN DisconnectBlock(o, b, u, e, coin) ELSE e
  PROVE  f \in CacheEntry /\ Replayed(o, f, coin, bind, ch, new)
<1> DEFINE n == Append(ch, b)
           c == BlockCoin(o, ch, b)
           restored == AddCoin(o, FetchCoin(e, coin), u[o], GetCoin(e, coin) # NoCoin)
<1>1. CleanCopy(e, coin) /\ FreshOver(o, e, coin, bind, new)
  BY DEF Replayed
<1>2. CASE o \notin Touches(b)
  <2>1. ChainCoin(n, o) = ChainCoin(ch, o) /\ ChainBind(n, o) = ChainBind(ch, o)
    BY <1>2, StepUntouched, Zenon
  <2>2. f = e
    BY <1>2, Zenon
  <2> HIDE DEF n
  <2>3. Replayed(o, e, coin, bind, ch, new)
    BY <2>1 DEF Replayed, Matches, n
  <2>4. QED
    BY <2>2, <2>3, Zenon
<1>3. ASSUME o \in Touches(b), coin = NoCoin, ~BindCoin(o, c)
      PROVE  bind = NoBind \/ Matches(o, coin, bind, new)
  <2>1. SUFFICES ASSUME Matches(o, coin, bind, old) PROVE bind = NoBind
    OBVIOUS
  <2>2. Created(n, o) /\ CreatedCoin(n, o) = c
    BY <1>3, StepTouched, Zenon
  <2>3. Created(old, o) /\ CreatedCoin(old, o) = c
    BY <2>2, AncestorFacts, Zenon
  <2>4. ChainBind(old, o) = NoBind
    BY <1>3, <2>3, Zenon DEF ChainBind
  <2>5. QED
    BY <2>1, <2>4, Zenon DEF Matches
<1>4. ASSUME o \in b.spend
      PROVE  u[o] \in Coin /\ u[o] \in UndoRead(o, c) /\ LiveBind(o, u[o]) = LiveBind(o, c)
             /\ (~BindCoin(o, u[o]) => ~BindCoin(o, c))
  <2>1. c \in Coin /\ b.undo[o] \in UndoRead(o, c)
    BY <1>4, StepTouched, StepSpent, Zenon DEF Touches
  <2>2. u[o] \in UndoRead(o, b.undo[o])
    BY <1>4 DEF UndoReads
  <2>3. u[o] \in UndoRead(o, c)
    BY <2>1, <2>2, UndoReadFacts
  <2> HIDE DEF c
  <2>4. QED
    BY <2>1, <2>3, UndoReadFacts, ZenonT(60) DEF LiveBind
<1>5. ASSUME o \in b.spend
      PROVE  /\ restored \in Entry /\ restored # NoEntry /\ "DIRTY" \in restored.flags
             /\ FreshOver(o, restored, coin, bind, new)
             /\ GetCoin(restored, coin) = u[o]
             /\ GetBindPlotterEntry(o, restored, bind) = LiveBind(o, c)
  <2> DEFINE uc == u[o]
  <2>1. uc \in Coin /\ LiveBind(o, uc) = LiveBind(o, c)
    BY <1>4, <1>5, Zenon
  <2>2. coin = NoCoin /\ ~IsDirty(e) /\ ~BindCoin(o, uc) => bind = NoBind \/ Matches(o, coin, bind, new)
    BY <1>3, <1>4, <1>5, Zenon DEF Touches
  <2>3. restored = AddCoin(o, FetchCoin(e, coin), uc, GetCoin(e, coin) # NoCoin)
    OBVIOUS
  <2> HIDE DEF c, uc, restored
  <2>4. Restored(o, restored, uc, coin, bind, new)
    BY <1>1, <2>1, <2>2, <2>3, ReplayAdd, Zenon
  <2>5. QED
    BY <2>1, <2>4, Zenon DEF Restored, uc
<1>6. CASE o \in b.spend /\ o \notin b.add
  <2> DEFINE r == restored
  <2>1. f = r
    BY <1>6 DEF DisconnectBlock, Touches
  <2>2. /\ r \in Entry /\ r # NoEntry /\ "DIRTY" \in r.flags
        /\ FreshOver(o, r, coin, bind, new)
        /\ GetCoin(r, coin) = u[o] /\ GetBindPlotterEntry(o, r, bind) = LiveBind(o, c)
    BY <1>5, <1>6, ZenonT(60)
  <2>3. ChainCoin(ch, o) = c /\ ChainBind(ch, o) = LiveBind(o, c) /\ c # NoCoin /\ u[o] \in UndoRead(o, c)
    BY <1>4, <1>6, StepTouched, StepRead, Zenon DEF Touches
  <2> HIDE DEF r, c
  <2>4. Matches(o, GetCoin(r, coin), GetBindPlotterEntry(o, r, bind), ch)
    BY <2>2, <2>3 DEF Matches
  <2>5. QED
    BY <2>1, <2>2, <2>4, ZenonT(60) DEF Replayed, CleanCopy, CacheEntry
<1>7. ASSUME NEW g \in Entry, FreshOver(o, g, coin, bind, new), o \in b.add, f = SpendCoin(o, g, TRUE)
      PROVE  f \in CacheEntry /\ Replayed(o, f, coin, bind, ch, new)
  <2>1. ChainCoin(ch, o) = NoCoin /\ ChainBind(ch, o) = NoBind
    BY <1>7, StepAdded, Zenon
  <2>2. /\ f \in CacheEntry /\ CleanCopy(f, coin) /\ FreshOver(o, f, coin, bind, new)
        /\ \/ GetCoin(f, coin) = NoCoin /\ GetBindPlotterEntry(o, f, bind) = NoBind
           \/ ~IsDirty(f) /\ Matches(o, coin, bind, new)
    BY <1>7, ReplaySpend, ZenonT(60)
  <2>3. QED
    BY <2>1, <2>2 DEF Replayed, Matches
<1>8. CASE o \in b.spend /\ o \in b.add
  <2> DEFINE r == restored
  <2>1. r \in Entry /\ r # NoEntry /\ FreshOver(o, r, coin, bind, new)
    BY <1>5, <1>8, ZenonT(60)
  <2>2. f = SpendCoin(o, r, TRUE)
    BY <1>8, <2>1, Zenon DEF DisconnectBlock, Touches, FetchCoin
  <2> HIDE DEF r
  <2>3. QED
    BY <1>7, <1>8, <2>1, <2>2, ZenonT(60)
<1>9. CASE o \notin b.spend /\ o \in b.add
  <2> DEFINE g == FetchCoin(e, coin)
  <2>1. f = SpendCoin(o, g, TRUE)
    BY <1>9, ZenonT(60) DEF DisconnectBlock, Touches
  <2>2. g \in CacheEntry
    BY FetchType
  <2>3. CASE g = NoEntry
    <3>1. e = NoEntry /\ coin = NoCoin
      BY <2>3, CleanEntryFacts, Zenon DEF FetchCoin
    <3>2. f = NoEntry
      BY <2>1, <2>3 DEF SpendCoin
    <3>3. ~Matches(o, GetCoin(e, coin), GetBindPlotterEntry(o, e, bind), n)
      <4>1. ChainCoin(n, o) = c /\ c # NoCoin /\ c \in Coin
        BY <1>9, StepTouched, StepKept, Zenon DEF Touches
      <4>2. GetCoin(e, coin) = NoCoin
        BY <3>1 DEF GetCoin, FetchCoin
      <4> HIDE DEF c, n
      <4>3. NoCoin \notin UndoRead(o, c)
        BY <4>1, UndoReadFacts
      <4>4. QED
        BY <4>1, <4>2, <4>3 DEF Matches
    <3>4. Matches(o, coin, bind, new)
      BY <3>3 DEF Replayed
    <3>5. QED
      BY <3>2, <3>4, Zenon DEF Replayed, CacheEntry, CleanCopy, FreshOver, IsDirty
  <2>4. CASE g # NoEntry
    <3>1. g \in Entry
      BY <2>2, <2>4 DEF CacheEntry
    <3>2. FreshOver(o, g, coin, bind, new)
      BY <1>1, CleanEntryFacts, ZenonT(60) DEF FreshOver, FetchCoin
    <3> HIDE DEF g
    <3>3. QED
      BY <1>7, <1>9, <2>1, <3>1, <3>2, Zenon
  <2>5. QED
    BY <2>3, <2>4
<1>10. QED
  BY <1>2, <1>6, <1>8, <1>9, Zenon DEF Touches

\* Rolling a block of the new branch forward: RollforwardBlock on an outpoint,
\* whatever the interrupted flush has written of it.
LEMMA ForwardEntry ==
  ASSUME NEW o \in Outpoints, NEW e \in CacheEntry, NEW coin \in CoinOrNone, NEW bind \in BindOrNone,
         NEW new, ValidChain(new),
         NEW ch, ValidChain(ch), NEW b \in Block, ValidChain(Append(ch, b)), IsAncestor(Append(ch, b), new),
         Replayed(o, e, coin, bind, ch, new)
  PROVE  LET overwrite == GetCoin(e, coin) # NoCoin
             added == IF o \in b.add THEN AddCoin(o, FetchCoin(e, coin), NewCoin(o, Len(ch) + 1), overwrite) ELSE e
             f == IF o \in b.spend THEN SpendCoin(o, FetchCoin(added, coin), FALSE) ELSE added
         IN  f \in CacheEntry /\ Replayed(o, f, coin, bind, Append(ch, b), new)
<1> DEFINE n == Append(ch, b)
           c == BlockCoin(o, ch, b)
           r == AddCoin(o, FetchCoin(e, coin), NewCoin(o, Len(ch) + 1), GetCoin(e, coin) # NoCoin)
           added == IF o \in b.add THEN r ELSE e
           f == IF o \in b.spend THEN SpendCoin(o, FetchCoin(added, coin), FALSE) ELSE added
<1> SUFFICES f \in CacheEntry /\ Replayed(o, f, coin, bind, n, new)
  BY Zenon
<1>1. CleanCopy(e, coin) /\ FreshOver(o, e, coin, bind, new)
  BY DEF Replayed
<1>2. CASE o \notin Touches(b)
  <2>1. f = e
    BY <1>2, ZenonT(60) DEF Touches
  <2>2. ChainCoin(n, o) = ChainCoin(ch, o) /\ ChainBind(n, o) = ChainBind(ch, o)
    BY <1>2, StepUntouched, Zenon
  <2> HIDE DEF f, n
  <2>3. QED
    BY <2>1, <2>2 DEF Replayed, Matches
<1>3. ASSUME o \in b.add
      PROVE  /\ r \in Entry /\ r # NoEntry /\ "DIRTY" \in r.flags /\ r.coin = c
             /\ FreshOver(o, r, coin, bind, new)
             /\ GetCoin(r, coin) = c /\ GetBindPlotterEntry(o, r, bind) = LiveBind(o, c)
  <2>1. c = NewCoin(o, Len(ch) + 1) /\ c \in Coin /\ ChainBind(ch, o) = NoBind
    BY <1>3, StepTouched, StepAdded, Zenon DEF Touches
  <2>2. coin = NoCoin /\ ~IsDirty(e) /\ ~BindCoin(o, c) => bind = NoBind \/ Matches(o, coin, bind, new)
    BY <1>1, <2>1, CleanAnswers DEF Replayed, Matches
  <2>3. r = AddCoin(o, FetchCoin(e, coin), c, GetCoin(e, coin) # NoCoin)
    BY <2>1, Zenon
  <2> HIDE DEF c, r, f, added, n
  <2>4. Restored(o, r, c, coin, bind, new)
    BY <1>1, <2>1, <2>2, <2>3, ReplayAdd, Zenon
  <2>5. QED
    BY <2>4, Zenon DEF Restored
<1>4. CASE o \in b.add /\ o \notin b.spend
  <2>1. f = r
    BY <1>4, ZenonT(60)
  <2>2. ChainCoin(n, o) = c /\ ChainBind(n, o) = LiveBind(o, c) /\ c \in Coin /\ c # NoCoin
    BY <1>4, StepTouched, StepKept, Zenon DEF Touches
  <2>3. /\ r \in Entry /\ r # NoEntry /\ "DIRTY" \in r.flags
        /\ FreshOver(o, r, coin, bind, new)
        /\ GetCoin(r, coin) = c /\ GetBindPlotterEntry(o, r, bind) = LiveBind(o, c)
    BY <1>3, <1>4, Zenon
  <2> HIDE DEF r, f, c, n
  <2>4. c \in UndoRead(o, c)
    BY <2>2, UndoReadSelf
  <2>5. Matches(o, GetCoin(r, coin), GetBindPlotterEntry(o, r, bind), n)
    BY <2>2, <2>3, <2>4 DEF Matches
  <2>6. QED
    BY <2>1, <2>3, <2>5, ZenonT(60) DEF Replayed, CleanCopy, CacheEntry
<1>5. ASSUME NEW g \in Entry, FreshOver(o, g, coin, bind, new), o \in b.spend, f = SpendCoin(o, g, FALSE),
             SpentBind(o, g.coin) = SpentBind(o, c)
      PROVE  f \in CacheEntry /\ Replayed(o, f, coin, bind, n, new)
  <2>1. ChainCoin(n, o) = NoCoin /\ ChainBind(n, o) = SpentBind(o, c)
    BY <1>5, StepSpent, Zenon
  <2> HIDE DEF f, c, n
  <2>2. /\ f \in CacheEntry /\ CleanCopy(f, coin) /\ FreshOver(o, f, coin, bind, new)
        /\ \/ GetCoin(f, coin) = NoCoin /\ GetBindPlotterEntry(o, f, bind) = SpentBind(o, g.coin)
           \/ ~IsDirty(f) /\ Matches(o, coin, bind, new)
    BY <1>5, ReplaySpend, ZenonT(60)
  <2>3. QED
    BY <1>5, <2>1, <2>2, ZenonT(60) DEF Replayed, Matches
<1>6. CASE o \in b.add /\ o \in b.spend
  <2>1. r \in Entry /\ r # NoEntry /\ FreshOver(o, r, coin, bind, new) /\ r.coin = c
    BY <1>3, <1>6, Zenon
  <2>2. f = SpendCoin(o, r, FALSE)
    BY <1>6, <2>1, ZenonT(60) DEF FetchCoin
  <2> HIDE DEF r, f, c
  <2>3. QED
    BY <1>5, <1>6, <2>1, <2>2, ZenonT(60)
<1>7. CASE o \notin b.add /\ o \in b.spend
  <2> DEFINE g == FetchCoin(e, coin)
  <2>1. f = SpendCoin(o, g, FALSE) /\ g \in CacheEntry
    BY <1>7, FetchType, ZenonT(60)
  <2>2. c = ChainCoin(ch, o) /\ c \in Coin /\ c # NoCoin /\ SpentOn(n, o)
    BY <1>7, StepTouched, StepSpent, StepRead, Zenon DEF Touches
  <2>3. ChainCoin(new, o) = NoCoin
    BY <2>2, AncestorFacts, ChainFacts
  <2>4. CASE g = NoEntry
    <3>1. e = NoEntry /\ coin = NoCoin
      BY <2>4, CleanEntryFacts, Zenon DEF FetchCoin
    <3>2. f = NoEntry
      BY <2>1, <2>4 DEF SpendCoin
    <3> HIDE DEF c
    <3>3. ~Matches(o, GetCoin(e, coin), GetBindPlotterEntry(o, e, bind), ch)
      <4>1. GetCoin(e, coin) = NoCoin
        BY <3>1 DEF GetCoin, FetchCoin
      <4>2. NoCoin \notin UndoRead(o, c)
        BY <2>2, UndoReadFacts
      <4>3. QED
        BY <2>2, <4>1, <4>2 DEF Matches
    <3>4. Matches(o, coin, bind, new)
      BY <3>3 DEF Replayed
    <3> HIDE DEF f
    <3>5. QED
      BY <3>2, <3>4, Zenon DEF Replayed, CacheEntry, CleanCopy, FreshOver, IsDirty
  <2>5. CASE g # NoEntry
    <3>1. g \in Entry /\ FreshOver(o, g, coin, bind, new)
      BY <1>1, <2>1, <2>5, CleanEntryFacts, Zenon DEF CacheEntry, FreshOver, FetchCoin
    <3>2. Matches(o, GetCoin(e, coin), GetBindPlotterEntry(o, e, bind), ch)
      <4>1. SUFFICES ASSUME ~IsDirty(e), Matches(o, coin, bind, new) PROVE FALSE
        BY DEF Replayed
      <4>2. coin = NoCoin
        BY <2>3, <4>1 DEF Matches
      <4>3. e = NoEntry
        BY <1>1, <4>1, <4>2 DEF CleanCopy, IsDirty
      <4>4. QED
        BY <2>5, <4>2, <4>3 DEF FetchCoin
    <3>3. g.coin \in UndoRead(o, c) /\ ~g.spent
      <4>1. GetCoin(e, coin) \in UndoRead(o, c)
        BY <2>2, <3>2 DEF Matches
      <4> HIDE DEF c
      <4>2. GetCoin(e, coin) # NoCoin
        BY <2>2, <4>1, UndoReadFacts
      <4>3. QED
        BY <4>1, <4>2 DEF GetCoin
    <3> HIDE DEF c, f, g
    <3>4. SpentBind(o, g.coin) = SpentBind(o, c)
      BY <2>2, <3>3, UndoReadFacts, ZenonT(60) DEF SpentBind
    <3>5. QED
      BY <1>5, <1>7, <2>1, <3>1, <3>4, Zenon
  <2>6. QED
    BY <2>4, <2>5, ZenonT(60)
<1>8. QED
  BY <1>2, <1>4, <1>6, <1>7, ZenonT(60) DEF Touches

-----------------------------------------------------------------------------
(* One entry of CoinsTip() when a block is connected or disconnected        *)

\* The empty entry is right about any layer and adds nothing to its answers.
LEMMA EmptyFits ==
  ASSUME NEW o, NEW coin, NEW bind
  PROVE  /\ NoEntry \in CacheEntry /\ EntryFits(o, NoEntry, coin, bind)
         /\ GetCoin(NoEntry, coin) = coin /\ GetBindPlotterEntry(o, NoEntry, bind) = bind
BY CleanEntryFacts, Zenon DEF CacheEntry, EntryFits, GetCoin, FetchCoin, GetBindPlotterEntry, IsDirty

\* SpendCoin of an input.
LEMMA SpendInput ==
  ASSUME NEW o \in Outpoints, NEW e \in CacheEntry, NEW c \in CoinOrNone, NEW b \in BindOrNone,
         EntryFits(o, e, c, b), BindAgrees(o, c, b), GetCoin(e, c) # NoCoin
  PROVE  LET f == SpendCoin(o, FetchCoin(e, c), FALSE)
         IN  /\ f \in CacheEntry /\ EntryFits(o, f, c, b) /\ GetCoin(f, c) = NoCoin
             /\ GetBindPlotterEntry(o, f, b) = SpentBind(o, GetCoin(e, c))
BY SpendFits, Zenon DEF SpentBind

\* SpendCoin of an output of a block that is disconnected.
LEMMA RemoveOutput ==
  ASSUME NEW o \in Outpoints, NEW e \in CacheEntry, NEW c \in CoinOrNone, NEW b \in BindOrNone,
         EntryFits(o, e, c, b), BindAgrees(o, c, b), GetCoin(e, c) # NoCoin
  PROVE  LET f == SpendCoin(o, FetchCoin(e, c), TRUE)
         IN  /\ f \in CacheEntry /\ EntryFits(o, f, c, b) /\ GetCoin(f, c) = NoCoin
             /\ GetBindPlotterEntry(o, f, b) = NoBind
BY SpendFits, ZenonT(60)

\* An entry that is right over coin c and record b and answers with n and m
FitsAndAnswers(o, f, c, b, n, m) ==
  /\ f \in CacheEntry /\ EntryFits(o, f, c, b)
  /\ GetCoin(f, c) = n /\ GetBindPlotterEntry(o, f, b) = m

\* AddCoin over an outpoint that has no coin, and at most the record of this one.
LEMMA AddInput ==
  ASSUME NEW o \in Outpoints, NEW e \in CacheEntry, NEW c \in CoinOrNone, NEW b \in BindOrNone,
         NEW n \in Coin, NEW overwrite \in BOOLEAN,
         EntryFits(o, e, c, b), BindAgrees(o, c, b), GetCoin(e, c) = NoCoin,
         GetBindPlotterEntry(o, e, b) # NoBind => GetBindPlotterEntry(o, e, b).coin = n,
         NEW f, f = AddCoin(o, e, n, overwrite)
  PROVE  f # NoEntry /\ FitsAndAnswers(o, f, c, b, n, LiveBind(o, n))
<1>1. f # NoEntry
  BY Zenon DEF AddCoin, NoEntry
<1>2. QED
  BY <1>1, AddFits DEF LiveBind, FitsAndAnswers

\* FetchCoin, with its result named.
LEMMA Fetched ==
  ASSUME NEW o \in Outpoints, NEW e \in CacheEntry, NEW c \in CoinOrNone, NEW b \in BindOrNone,
         EntryFits(o, e, c, b), NEW f, f = FetchCoin(e, c)
  PROVE  FitsAndAnswers(o, f, c, b, GetCoin(e, c), GetBindPlotterEntry(o, e, b))
BY FetchFits, FetchType, Zenon DEF FitsAndAnswers

\* The flush of an entry k of the view above, with its result named.
LEMMA Flushed ==
  ASSUME NEW o \in Outpoints, NEW e \in CacheEntry, NEW c \in CoinOrNone, NEW b \in BindOrNone,
         EntryFits(o, e, c, b), BindAgrees(o, c, b),
         NEW tc, tc = GetCoin(e, c), NEW tb, tb = GetBindPlotterEntry(o, e, b),
         NEW k \in CacheEntry, EntryFits(o, k, tc, tb), NEW f, f = BatchWrite(o, e, k)
  PROVE  ~BatchWriteThrows(o, e, k) /\ FitsAndAnswers(o, f, c, b, GetCoin(k, tc), GetBindPlotterEntry(o, k, tb))
<1>1. ~BatchWriteThrows(o, e, k)
  BY BatchWriteNoThrow, Zenon
<1>2. /\ BatchWrite(o, e, k) \in CacheEntry /\ EntryFits(o, BatchWrite(o, e, k), c, b)
      /\ GetCoin(BatchWrite(o, e, k), c) = GetCoin(k, GetCoin(e, c))
      /\ GetBindPlotterEntry(o, BatchWrite(o, e, k), b)
           = GetBindPlotterEntry(o, k, GetBindPlotterEntry(o, e, b))
  BY BatchWriteFits
<1>3. QED
  BY <1>1, <1>2, Zenon DEF FitsAndAnswers

\* An outpoint of a running node: the entry is right about the database, and the
\* answers are those of chain ch.
Sound(o, e, coin, bind, ch) ==
  /\ e \in CacheEntry /\ EntryFits(o, e, coin, bind)
  /\ Matches(o, GetCoin(e, coin), GetBindPlotterEntry(o, e, bind), ch)

\* ConnectBlock on an outpoint: UpdateCoins in its view, the flush of that view
\* into the one of ConnectTip and the flush of that one into CoinsTip().
LEMMA ConnectEntrySound ==
  ASSUME NEW o \in Outpoints, dbCoin[o] \in CoinOrNone, dbBind[o] \in BindOrNone,
         BindAgrees(o, dbCoin[o], dbBind[o]),
         ValidChain(chain), Sound(o, tip[o], dbCoin[o], dbBind[o], chain),
         NEW b \in Block, ValidChain(Append(chain, b))
  PROVE  LET h == Len(chain) + 1
         IN  /\ Sound(o, ConnectEntry(o, b, h), dbCoin[o], dbBind[o], Append(chain, b))
             /\ ~BatchWriteThrows(o, Looked(o, b, NoEntry, TipCoin(o)), UpdateCoins(o, b, h))
             /\ ~BatchWriteThrows(o, Looked(o, b, tip[o], dbCoin[o]), ConnectView(o, b, h))
<1> DEFINE h == Len(chain) + 1
           n == Append(chain, b)
           c == BlockCoin(o, chain, b)
           tc == TipCoin(o)
           tb == TipBind(o)
           l == Looked(o, b, NoEntry, tc)
           m == Looked(o, b, tip[o], dbCoin[o])
           a == IF o \in b.add THEN AddCoin(o, NoEntry, NewCoin(o, h), o \in Coinbase) ELSE l
           k == UpdateCoins(o, b, h)
           v == ConnectView(o, b, h)
           Settled(e) == /\ e \in CacheEntry /\ EntryFits(o, e, tc, tb)
                         /\ Matches(o, GetCoin(e, tc), GetBindPlotterEntry(o, e, tb), n)
<1>1. /\ tip[o] \in CacheEntry /\ EntryFits(o, tip[o], dbCoin[o], dbBind[o]) /\ Matches(o, tc, tb, chain)
      /\ tc = GetCoin(tip[o], dbCoin[o]) /\ tb = GetBindPlotterEntry(o, tip[o], dbBind[o])
  BY ZenonT(60) DEF Sound, TipCoin, TipBind
<1>2. k = IF o \in b.spend THEN SpendCoin(o, a, FALSE) ELSE a
  BY ZenonT(60) DEF UpdateCoins
<1>3. v = BatchWrite(o, l, k) /\ ConnectEntry(o, b, h) = BatchWrite(o, m, v)
  BY ZenonT(60) DEF ConnectView, ConnectEntry
<1>4. /\ o \in b.add => ChainCoin(chain, o) = NoCoin /\ ChainBind(chain, o) = NoBind /\ c = NewCoin(o, h)
      /\ o \in Touches(b) => c \in Coin /\ c # NoCoin
      /\ o \in b.spend => ChainCoin(n, o) = NoCoin /\ ChainBind(n, o) = SpentBind(o, c)
      /\ o \in b.spend \ b.add => ChainCoin(chain, o) = c
      /\ o \in b.add \ b.spend => ChainCoin(n, o) = c /\ ChainBind(n, o) = LiveBind(o, c)
      /\ o \notin Touches(b) => ChainCoin(n, o) = ChainCoin(chain, o) /\ ChainBind(n, o) = ChainBind(chain, o)
  <2>1. o \in b.add => ChainCoin(chain, o) = NoCoin /\ ChainBind(chain, o) = NoBind /\ c = NewCoin(o, h)
    BY StepAdded, Zenon
  <2>2. o \in Touches(b) => c \in Coin /\ c # NoCoin
    BY StepTouched, Zenon
  <2>3. o \in b.spend => ChainCoin(n, o) = NoCoin /\ ChainBind(n, o) = SpentBind(o, c)
    BY StepSpent, Zenon
  <2>4. o \in b.spend \ b.add => ChainCoin(chain, o) = c
    BY StepRead, Zenon
  <2>5. o \in b.add \ b.spend => ChainCoin(n, o) = c /\ ChainBind(n, o) = LiveBind(o, c)
    BY StepKept, Zenon
  <2>6. o \notin Touches(b) => ChainCoin(n, o) = ChainCoin(chain, o) /\ ChainBind(n, o) = ChainBind(chain, o)
    BY StepUntouched, Zenon
  <2> HIDE DEF n, c, h
  <2>7. QED
    BY <2>1, <2>2, <2>3, <2>4, <2>5, <2>6, Zenon
<1>5. tc \in CoinOrNone /\ tb \in BindOrNone /\ BindAgrees(o, tc, tb)
  BY <1>1, MatchesFacts, Zenon
<1>6. o \in b.spend \ b.add => tc \in UndoRead(o, c) /\ tc # NoCoin /\ SpentBind(o, tc) = SpentBind(o, c)
  <2> SUFFICES ASSUME o \in b.spend \ b.add
               PROVE  tc \in UndoRead(o, c) /\ tc # NoCoin /\ SpentBind(o, tc) = SpentBind(o, c)
    OBVIOUS
  <2>1. tc \in UndoRead(o, c) /\ c \in Coin
    BY <1>1, <1>4, ZenonT(60) DEF Matches, Touches
  <2> HIDE DEF tc, c
  <2>2. QED
    BY <2>1, UndoReadFacts, ZenonT(60) DEF SpentBind
<1> HIDE DEF tc, tb, c, n, k, v, h, Settled
<1>7. l \in CacheEntry /\ EntryFits(o, l, tc, tb) /\ GetCoin(l, tc) = tc /\ GetBindPlotterEntry(o, l, tb) = tb
  <2>1. /\ NoEntry \in CacheEntry /\ EntryFits(o, NoEntry, tc, tb)
        /\ GetCoin(NoEntry, tc) = tc /\ GetBindPlotterEntry(o, NoEntry, tb) = tb
    BY EmptyFits, Zenon
  <2>2. l \in {NoEntry, FetchCoin(NoEntry, tc)}
    BY Zenon DEF Looked
  <2> HIDE DEF l, m, a
  <2>3. CASE l = FetchCoin(NoEntry, tc)
    <3>1. FitsAndAnswers(o, l, tc, tb, GetCoin(NoEntry, tc), GetBindPlotterEntry(o, NoEntry, tb))
      BY <1>5, <2>1, <2>3, Fetched, Zenon
    <3>2. QED
      BY <2>1, <3>1, Zenon DEF FitsAndAnswers
  <2>4. QED
    BY <2>1, <2>2, <2>3, Zenon
<1>8. m \in CacheEntry /\ EntryFits(o, m, dbCoin[o], dbBind[o])
      /\ GetCoin(m, dbCoin[o]) = tc /\ GetBindPlotterEntry(o, m, dbBind[o]) = tb
  BY <1>1, FetchFits, FetchType, Zenon DEF Looked
<1>9. Settled(k)
  <2>1. CASE o \in b.add
    <3> DEFINE w == o \in Coinbase
    <3>1. tc = NoCoin /\ tb = NoBind /\ c \in Coin /\ NewCoin(o, h) = c /\ c # NoCoin /\ w \in BOOLEAN
      <4>1. w \in BOOLEAN
        OBVIOUS
      <4>2. tc = NoCoin /\ tb = NoBind
        BY <1>1, <1>4, <2>1, Zenon DEF Matches
      <4>3. QED
        BY <1>4, <2>1, <4>1, <4>2, Zenon DEF Touches
    <3>2. a = AddCoin(o, NoEntry, c, w)
      BY <2>1, <3>1, ZenonT(60)
    <3> HIDE DEF a, l, m, w
    <3>3. NoEntry \in CacheEntry /\ EntryFits(o, NoEntry, tc, tb)
          /\ GetCoin(NoEntry, tc) = NoCoin /\ GetBindPlotterEntry(o, NoEntry, tb) = NoBind
      BY <3>1, EmptyFits, ZenonT(60)
    <3>4. /\ a \in CacheEntry /\ a # NoEntry /\ EntryFits(o, a, tc, tb)
          /\ GetCoin(a, tc) = c /\ GetBindPlotterEntry(o, a, tb) = LiveBind(o, c)
      <4>1. GetBindPlotterEntry(o, NoEntry, tb) # NoBind => GetBindPlotterEntry(o, NoEntry, tb).coin = c
        BY <3>3, Zenon
      <4>2. a # NoEntry /\ FitsAndAnswers(o, a, tc, tb, c, LiveBind(o, c))
        BY <1>5, <3>1, <3>2, <3>3, <4>1, AddInput, Zenon
      <4>3. QED
        BY <4>2, Zenon DEF FitsAndAnswers
    <3>5. CASE o \in b.spend
      <4>1. FetchCoin(a, tc) = a /\ k = SpendCoin(o, a, FALSE)
        BY <1>2, <3>4, <3>5, ZenonT(60) DEF FetchCoin
      <4>2. /\ k \in CacheEntry /\ EntryFits(o, k, tc, tb)
            /\ GetCoin(k, tc) = NoCoin /\ GetBindPlotterEntry(o, k, tb) = SpentBind(o, c)
        <5>1. GetCoin(a, tc) # NoCoin
          BY <3>1, <3>4
        <5>2. /\ SpendCoin(o, FetchCoin(a, tc), FALSE) \in CacheEntry
              /\ EntryFits(o, SpendCoin(o, FetchCoin(a, tc), FALSE), tc, tb)
              /\ GetCoin(SpendCoin(o, FetchCoin(a, tc), FALSE), tc) = NoCoin
              /\ GetBindPlotterEntry(o, SpendCoin(o, FetchCoin(a, tc), FALSE), tb) = SpentBind(o, GetCoin(a, tc))
          BY <1>5, <3>4, <5>1, SpendInput, ZenonT(60)
        <5>3. QED
          BY <3>4, <4>1, <5>2, ZenonT(60)
      <4>3. QED
        BY <1>4, <3>5, <4>2, Zenon DEF Matches, Settled
    <3>6. CASE o \notin b.spend
      <4>1. k = a
        BY <1>2, <3>6, Zenon
      <4>2. c \in UndoRead(o, c)
        BY <3>1, UndoReadSelf
      <4>3. QED
        BY <1>4, <2>1, <3>1, <3>4, <3>6, <4>1, <4>2, ZenonT(60) DEF Matches, Settled
    <3>7. QED
      BY <3>5, <3>6, ZenonT(60)
  <2>2. CASE o \in b.spend /\ o \notin b.add
    <3>1. l = FetchCoin(NoEntry, tc) /\ k = SpendCoin(o, l, FALSE)
      BY <1>2, <2>2, ZenonT(60) DEF Looked, Reads
    <3> HIDE DEF l, m
    <3>2. tc # NoCoin /\ NoEntry \in CacheEntry /\ EntryFits(o, NoEntry, tc, tb) /\ GetCoin(NoEntry, tc) = tc
      BY <1>6, <2>2, EmptyFits
    <3>3. /\ k \in CacheEntry /\ EntryFits(o, k, tc, tb)
          /\ GetCoin(k, tc) = NoCoin /\ GetBindPlotterEntry(o, k, tb) = SpentBind(o, tc)
      <4>1. /\ SpendCoin(o, FetchCoin(NoEntry, tc), FALSE) \in CacheEntry
            /\ EntryFits(o, SpendCoin(o, FetchCoin(NoEntry, tc), FALSE), tc, tb)
            /\ GetCoin(SpendCoin(o, FetchCoin(NoEntry, tc), FALSE), tc) = NoCoin
            /\ GetBindPlotterEntry(o, SpendCoin(o, FetchCoin(NoEntry, tc), FALSE), tb)
                 = SpentBind(o, GetCoin(NoEntry, tc))
        BY <1>5, <3>2, SpendInput, ZenonT(60)
      <4>2. QED
        BY <3>1, <3>2, <4>1, ZenonT(60)
    <3>4. QED
      BY <1>4, <1>6, <2>2, <3>3, ZenonT(60) DEF Matches, Settled
  <2>3. CASE o \notin Touches(b)
    <3>1. k = NoEntry
      BY <1>2, <2>3, ZenonT(60) DEF Touches, Looked, Reads
    <3>2. QED
      BY <1>1, <1>4, <2>3, <3>1, EmptyFits, ZenonT(60) DEF Matches, Settled
  <2>4. QED
    BY <2>1, <2>2, <2>3, ZenonT(60) DEF Touches
<1>10. Settled(v) /\ ~BatchWriteThrows(o, l, k)
  <2> HIDE DEF l, m, a
  <2>1. k \in CacheEntry /\ EntryFits(o, k, tc, tb)
        /\ Matches(o, GetCoin(k, tc), GetBindPlotterEntry(o, k, tb), n)
    BY <1>9, Zenon DEF Settled
  <2>2. v \in CacheEntry /\ EntryFits(o, v, tc, tb) /\ ~BatchWriteThrows(o, l, k)
        /\ GetCoin(v, tc) = GetCoin(k, tc) /\ GetBindPlotterEntry(o, v, tb) = GetBindPlotterEntry(o, k, tb)
    <3>1. ~BatchWriteThrows(o, l, k) /\ FitsAndAnswers(o, v, tc, tb, GetCoin(k, tc), GetBindPlotterEntry(o, k, tb))
      BY <1>3, <1>5, <1>7, <2>1, Flushed, Zenon
    <3>2. QED
      BY <3>1, Zenon DEF FitsAndAnswers
  <2>3. QED
    BY <2>1, <2>2, Zenon DEF Settled
<1>11. Sound(o, BatchWrite(o, m, v), dbCoin[o], dbBind[o], n) /\ ~BatchWriteThrows(o, m, v)
  <2> DEFINE f == BatchWrite(o, m, v)
  <2>1. v \in CacheEntry /\ EntryFits(o, v, tc, tb)
        /\ Matches(o, GetCoin(v, tc), GetBindPlotterEntry(o, v, tb), n)
    BY <1>10, Zenon DEF Settled
  <2> HIDE DEF l, m, a, f
  <2>2. f \in CacheEntry /\ EntryFits(o, f, dbCoin[o], dbBind[o]) /\ ~BatchWriteThrows(o, m, v)
        /\ GetCoin(f, dbCoin[o]) = GetCoin(v, tc)
        /\ GetBindPlotterEntry(o, f, dbBind[o]) = GetBindPlotterEntry(o, v, tb)
    <3>1. f = BatchWrite(o, m, v)
      BY Zenon DEF f
    <3>2. QED
      <4>1. ~BatchWriteThrows(o, m, v)
            /\ FitsAndAnswers(o, f, dbCoin[o], dbBind[o], GetCoin(v, tc), GetBindPlotterEntry(o, v, tb))
        BY <1>8, <2>1, <3>1, Flushed, Zenon
      <4>2. QED
        BY <4>1, Zenon DEF FitsAndAnswers
  <2>3. Sound(o, f, dbCoin[o], dbBind[o], n)
    BY <2>1, <2>2, Zenon DEF Sound
  <2>4. QED
    BY <2>2, <2>3, Zenon DEF f
<1>12. QED
  BY <1>3, <1>10, <1>11, ZenonT(60) DEF h, n, l, m, k, v, tc

\* DisconnectTip on an outpoint of the last block: DisconnectBlock in its view, then
\* the flush of the view into CoinsTip().
LEMMA DisconnectEntrySound ==
  ASSUME NEW o \in Outpoints, NEW e, NEW coin \in CoinOrNone, NEW bind \in BindOrNone,
         BindAgrees(o, coin, bind),
         NEW ch, ValidChain(ch), NEW b \in Block, ValidChain(Append(ch, b)), o \in Touches(b),
         Sound(o, e, coin, bind, Append(ch, b)), NEW u \in UndoReads(b)
  PROVE  Sound(o, BatchWrite(o, FetchCoin(e, coin), DisconnectBlock(o, b, u, NoEntry, GetCoin(e, coin))),
               coin, bind, ch)
<1> DEFINE n == Append(ch, b)
           c == BlockCoin(o, ch, b)
           tc == GetCoin(e, coin)
           tb == GetBindPlotterEntry(o, e, bind)
           m == FetchCoin(e, coin)
           r == IF o \in b.spend THEN AddCoin(o, FetchCoin(NoEntry, tc), u[o], GetCoin(NoEntry, tc) # NoCoin) ELSE NoEntry
           k == DisconnectBlock(o, b, u, NoEntry, tc)
           Settled(x, y) == /\ x \in CacheEntry /\ EntryFits(o, x, tc, tb)
                            /\ Matches(o, GetCoin(x, tc), GetBindPlotterEntry(o, x, tb), y)
<1>1. e \in CacheEntry /\ EntryFits(o, e, coin, bind) /\ Matches(o, tc, tb, n)
  BY DEF Sound
<1>2. tc \in CoinOrNone /\ tb \in BindOrNone /\ BindAgrees(o, tc, tb)
  BY <1>1, MatchesFacts
<1>3. /\ o \in b.add => ChainCoin(ch, o) = NoCoin /\ ChainBind(ch, o) = NoBind
      /\ c \in Coin /\ c # NoCoin
      /\ o \in b.spend => b.undo[o] \in UndoRead(o, c) /\ ChainCoin(n, o) = NoCoin /\ ChainBind(n, o) = SpentBind(o, c)
      /\ o \in b.spend \ b.add => ChainCoin(ch, o) = c /\ ChainBind(ch, o) = LiveBind(o, c)
      /\ o \in b.add \ b.spend => ChainCoin(n, o) = c
  <2>1. o \in b.add => ChainCoin(ch, o) = NoCoin /\ ChainBind(ch, o) = NoBind
    BY StepAdded, Zenon
  <2>2. c \in Coin /\ c # NoCoin
    BY StepTouched, Zenon
  <2>3. o \in b.spend => b.undo[o] \in UndoRead(o, c) /\ ChainCoin(n, o) = NoCoin /\ ChainBind(n, o) = SpentBind(o, c)
    BY StepSpent, Zenon
  <2>4. o \in b.spend \ b.add => ChainCoin(ch, o) = c /\ ChainBind(ch, o) = LiveBind(o, c)
    BY StepRead, Zenon
  <2>5. o \in b.add \ b.spend => ChainCoin(n, o) = c
    BY StepKept, Zenon
  <2> HIDE DEF n, c
  <2>6. QED
    BY <2>1, <2>2, <2>3, <2>4, <2>5, Zenon
<1>4. k = IF o \in b.add THEN SpendCoin(o, FetchCoin(r, tc), TRUE) ELSE r
  BY Zenon DEF DisconnectBlock
<1> HIDE DEF n, c, k, Settled
<1>5. o \in b.spend => u[o] \in Coin /\ u[o] \in UndoRead(o, c) /\ u[o] # NoCoin
                       /\ LiveBind(o, u[o]) = LiveBind(o, c)
                       /\ (SpentBind(o, c) # NoBind => SpentBind(o, c).coin = u[o])
  <2> SUFFICES ASSUME o \in b.spend
               PROVE  u[o] \in Coin /\ u[o] \in UndoRead(o, c) /\ u[o] # NoCoin
                       /\ LiveBind(o, u[o]) = LiveBind(o, c)
                       /\ (SpentBind(o, c) # NoBind => SpentBind(o, c).coin = u[o])
    OBVIOUS
  <2>1. u[o] \in UndoRead(o, b.undo[o])
    BY DEF UndoReads
  <2>2. u[o] \in UndoRead(o, c)
    BY <1>3, <2>1, UndoReadFacts, ZenonT(60)
  <2>3. u[o] \in Coin /\ u[o] # NoCoin /\ (BindCoin(o, u[o]) \/ BindCoin(o, c) => u[o] = c)
    BY <1>3, <2>2, UndoReadFacts, ZenonT(60)
  <2>4. SpentBind(o, c) # NoBind => SpentBind(o, c).coin = c /\ BindCoin(o, c)
    BY DEF SpentBind
  <2>5. LiveBind(o, u[o]) = LiveBind(o, c)
    BY <2>3, ZenonT(60) DEF LiveBind
  <2>6. QED
    BY <2>2, <2>3, <2>4, <2>5, ZenonT(60)
<1>6. m \in CacheEntry /\ EntryFits(o, m, coin, bind)
      /\ GetCoin(m, coin) = tc /\ GetBindPlotterEntry(o, m, bind) = tb
  BY <1>1, FetchFits, FetchType, Zenon
<1>7. NoEntry \in CacheEntry /\ EntryFits(o, NoEntry, tc, tb)
      /\ GetCoin(NoEntry, tc) = tc /\ GetBindPlotterEntry(o, NoEntry, tb) = tb
  BY EmptyFits
<1> HIDE DEF tc, tb, m
<1>8. /\ r \in CacheEntry /\ EntryFits(o, r, tc, tb) /\ GetCoin(r, tc) # NoCoin
      /\ o \in b.spend => GetCoin(r, tc) = u[o] /\ GetBindPlotterEntry(o, r, tb) = LiveBind(o, c)
  <2>1. CASE o \in b.spend
    <3>1. tc = NoCoin /\ tb = SpentBind(o, c)
      BY <1>1, <1>3, <2>1, Zenon DEF Matches
    <3>2. FetchCoin(NoEntry, tc) = NoEntry /\ GetCoin(NoEntry, tc) = NoCoin
      BY <1>7, <3>1 DEF FetchCoin
    <3> DEFINE uc == u[o]
               w == FALSE
    <3>3. r = AddCoin(o, NoEntry, uc, w) /\ w \in BOOLEAN
      BY <2>1, <3>2, ZenonT(60)
    <3>4. uc \in Coin /\ (GetBindPlotterEntry(o, NoEntry, tb) # NoBind => GetBindPlotterEntry(o, NoEntry, tb).coin = uc)
      BY <1>5, <1>7, <2>1, <3>1, ZenonT(60)
    <3> HIDE DEF r, uc, w
    <3>5. /\ r \in CacheEntry /\ EntryFits(o, r, tc, tb)
          /\ GetCoin(r, tc) = uc /\ GetBindPlotterEntry(o, r, tb) = LiveBind(o, uc)
      <4>1. FitsAndAnswers(o, r, tc, tb, uc, LiveBind(o, uc))
        BY <1>2, <1>7, <3>2, <3>3, <3>4, AddInput, Zenon
      <4>2. QED
        BY <4>1, Zenon DEF FitsAndAnswers
    <3>6. QED
      BY <1>5, <2>1, <3>5, ZenonT(60) DEF uc
  <2>2. CASE o \notin b.spend
    <3>1. tc \in UndoRead(o, c)
      BY <1>1, <1>3, <2>2, ZenonT(60) DEF Matches, Touches
    <3>2. tc # NoCoin
      BY <1>3, <3>1, UndoReadFacts, Zenon
    <3>3. QED
      BY <1>7, <2>2, <3>2, ZenonT(60)
  <2>3. QED
    BY <2>1, <2>2, ZenonT(60)
<1> HIDE DEF r
<1>9. Settled(k, ch)
  <2>1. CASE o \in b.add
    <3>1. /\ SpendCoin(o, FetchCoin(r, tc), TRUE) \in CacheEntry
          /\ EntryFits(o, SpendCoin(o, FetchCoin(r, tc), TRUE), tc, tb)
          /\ GetCoin(SpendCoin(o, FetchCoin(r, tc), TRUE), tc) = NoCoin
          /\ GetBindPlotterEntry(o, SpendCoin(o, FetchCoin(r, tc), TRUE), tb) = NoBind
      BY <1>2, <1>8, RemoveOutput, ZenonT(60)
    <3>2. QED
      BY <1>3, <1>4, <2>1, <3>1, ZenonT(60) DEF Matches, Settled
  <2>2. CASE o \notin b.add
    BY <1>3, <1>4, <1>5, <1>8, <2>2, ZenonT(60) DEF Matches, Settled, Touches
  <2>3. QED
    BY <2>1, <2>2
<1>10. Sound(o, BatchWrite(o, m, k), coin, bind, ch)
  <2> DEFINE f == BatchWrite(o, m, k)
  <2>1. k \in CacheEntry /\ EntryFits(o, k, tc, tb)
        /\ Matches(o, GetCoin(k, tc), GetBindPlotterEntry(o, k, tb), ch)
    BY <1>9, Zenon DEF Settled
  <2>2. f = BatchWrite(o, m, k)
    OBVIOUS
  <2> HIDE DEF f
  <2>3. f \in CacheEntry /\ EntryFits(o, f, coin, bind)
        /\ GetCoin(f, coin) = GetCoin(k, tc) /\ GetBindPlotterEntry(o, f, bind) = GetBindPlotterEntry(o, k, tb)
    <3>1. FitsAndAnswers(o, f, coin, bind, GetCoin(k, tc), GetBindPlotterEntry(o, k, tb))
      BY <1>6, <2>1, <2>2, Flushed, Zenon
    <3>2. QED
      BY <3>1, Zenon DEF FitsAndAnswers
  <2>4. QED
    BY <2>1, <2>2, <2>3, Zenon DEF Sound
<1>11. QED
  BY <1>10, Zenon DEF m, k, tc

\* A dirty entry is written as it answers, and writing an entry changes no answer.
LEMMA WriteAnswers ==
  ASSUME NEW o, NEW e \in CacheEntry, NEW coin, NEW bind, CleanCopy(e, coin)
  PROVE  /\ WriteCoin(coin, e) = GetCoin(e, coin)
         /\ WriteBind(o, bind, e) = GetBindPlotterEntry(o, e, bind)
         /\ GetCoin(e, WriteCoin(coin, e)) = GetCoin(e, coin)
         /\ GetBindPlotterEntry(o, e, WriteBind(o, bind, e)) = GetBindPlotterEntry(o, e, bind)
         /\ CleanCopy(e, WriteCoin(coin, e))
<1>1. CASE ~IsDirty(e)
  BY <1>1, CleanAnswers, ZenonT(60) DEF WriteCoin, WriteBind
<1>2. CASE IsDirty(e)
  <2>1. e # NoEntry /\ e \in Entry /\ e.spent \in BOOLEAN /\ "DIRTY" \in e.flags
    BY <1>2 DEF IsDirty, CacheEntry, Entry
  <2>2. \A x : GetCoin(e, x) = IF e.spent THEN NoCoin ELSE e.coin
    BY <2>1 DEF GetCoin, FetchCoin
  <2>3. WriteCoin(coin, e) = IF e.spent THEN NoCoin ELSE e.coin
    BY <1>2 DEF WriteCoin
  <2>4. \A x : GetBindPlotterEntry(o, e, x) = GetBindPlotterEntry(o, e, bind)
    BY <1>2 DEF GetBindPlotterEntry
  <2>5. WriteBind(o, bind, e) = GetBindPlotterEntry(o, e, bind)
    BY <1>2, <2>1, ZenonT(60) DEF WriteBind, GetBindPlotterEntry
  <2>6. QED
    BY <2>1, <2>2, <2>3, <2>4, <2>5 DEF CleanCopy
<1>3. QED
  BY <1>1, <1>2

-----------------------------------------------------------------------------
(* The inductive invariant                                                  *)

DiskInv ==
  /\ dbCoin \in [Outpoints -> CoinOrNone] /\ dbBind \in [Outpoints -> BindOrNone]
  /\ IF heads = NoHeads
     THEN ValidChain(best)
     ELSE /\ best = NoChain
          /\ heads = [new |-> heads.new, old |-> heads.old]
          /\ ValidChain(heads.new) /\ ValidChain(heads.old)
  /\ DiskConsistent

RunInv ==
  mode = "run" =>
    /\ heads = NoHeads
    /\ \A o \in Outpoints : Sound(o, tip[o], dbCoin[o], dbBind[o], chain)

FlushInv ==
  mode \in {"flush", "reflush"} =>
    /\ heads # NoHeads => heads.new = chain
    /\ mode = "reflush" => heads # NoHeads
    /\ \A o \in Outpoints : CleanCopy(tip[o], dbCoin[o]) /\ AnswersMatch(o)
    /\ \A o \in Outpoints \ todo : DiskIs(chain, o)

DownInv == mode = "down" => chain = << >> /\ tip = EmptyCache

ReplayInv ==
  mode = "replay" =>
    /\ heads # NoHeads
    /\ IsAncestor(chain, heads.old) \/ IsAncestor(chain, heads.new)
    /\ \A o \in Outpoints : Replayed(o, tip[o], dbCoin[o], dbBind[o], chain, heads.new)

Inv ==
  /\ ValidChain(chain)
  /\ tip \in [Outpoints -> CacheEntry]
  /\ mode \in {"run", "flush", "down", "replay", "reflush"}
  /\ todo \subseteq Outpoints
  /\ DiskInv /\ RunInv /\ FlushInv /\ DownInv /\ ReplayInv

\* The database of one outpoint.
LEMMA DiskFacts ==
  ASSUME Inv, NEW o \in Outpoints
  PROVE  /\ dbCoin[o] \in CoinOrNone /\ dbBind[o] \in BindOrNone
         /\ BindAgrees(o, dbCoin[o], dbBind[o]) /\ tip[o] \in CacheEntry
<1>1. dbCoin[o] \in CoinOrNone /\ dbBind[o] \in BindOrNone /\ tip[o] \in CacheEntry
  BY DEF Inv, DiskInv
<1>2. \E ch : ValidChain(ch) /\ Matches(o, dbCoin[o], dbBind[o], ch)
  BY DEF Inv, DiskInv, DiskConsistent, DiskIs
<1>3. QED
  BY <1>1, <1>2, MatchesFacts

\* In the initial state the database is empty and so is the chain.
LEMMA InitInv == Init => Inv
<1> SUFFICES ASSUME Init PROVE Inv
  OBVIOUS
<1>1. ValidChain(<< >>)
  BY ChainStateAssumption DEF ValidChain
<1>2. ASSUME NEW o \in Outpoints PROVE ChainCoin(<< >>, o) = NoCoin /\ ChainBind(<< >>, o) = NoBind
  BY DEF ChainCoin, ChainBind, Created
<1>3. ASSUME NEW o \in Outpoints PROVE Matches(o, NoCoin, NoBind, << >>) /\ Sound(o, NoEntry, NoCoin, NoBind, << >>)
  BY <1>2, EmptyFits DEF Matches, Sound
<1>4. tip \in [Outpoints -> CacheEntry] /\ \A o \in Outpoints : tip[o] = NoEntry
  BY DEF Init, EmptyCache, CacheEntry
<1>5. DiskInv
  BY <1>1, <1>3 DEF Init, DiskInv, DiskConsistent, DiskIs, CoinOrNone, BindOrNone
<1>6. RunInv
  BY <1>3, <1>4 DEF Init, RunInv
<1>7. FlushInv /\ DownInv /\ ReplayInv
  BY Zenon DEF Init, FlushInv, DownInv, ReplayInv
<1>8. QED
  BY <1>1, <1>4, <1>5, <1>6, <1>7 DEF Init, Inv

\* As long as the database does not change, it stays consistent.
LEMMA SameDisk ==
  ASSUME Inv, UNCHANGED db PROVE DiskInv'
BY DEF Inv, DiskInv, DiskConsistent, DiskIs, db

\* A block that ConnectBlock accepts makes a valid chain.
LEMMA ConnectValid ==
  ASSUME Inv, mode = "run", Len(chain) < MaxHeight,
         NEW add \in SUBSET Outpoints, NEW spend \in SUBSET Outpoints, CanConnect(add, spend)
  PROVE  NewBlock(add, spend) \in Block /\ ValidChain(Append(chain, NewBlock(add, spend)))
<1> DEFINE b == NewBlock(add, spend)
           h == Len(chain) + 1
           und == [o \in spend |-> IF o \in add THEN NewCoin(o, h) ELSE TipCoin(o)]
<1>1. ValidChain(chain) /\ h \in 1..MaxHeight
  BY ChainStateAssumption DEF Inv, ValidChain
<1>2. b = [add |-> add, spend |-> spend, undo |-> und]
  BY DEF NewBlock
<1>3. ASSUME NEW o \in spend
      PROVE  /\ BlockCoin(o, chain, b) # NoCoin
             /\ und[o] \in Coin /\ und[o] \in UndoRead(o, BlockCoin(o, chain, b))
  <2>1. CASE o \in add
    <3>1. BlockCoin(o, chain, b) = NewCoin(o, h) /\ und[o] = NewCoin(o, h)
      BY <1>2, <2>1 DEF BlockCoin
    <3>2. QED
      BY <1>1, <3>1, NewCoinIsCoin, UndoReadSelf
  <2>2. CASE o \notin add
    <3>1. BlockCoin(o, chain, b) = ChainCoin(chain, o) /\ und[o] = TipCoin(o) /\ TipCoin(o) # NoCoin
      BY <1>2, <2>2 DEF BlockCoin, CanConnect
    <3>2. Matches(o, TipCoin(o), TipBind(o), chain)
      BY Zenon DEF Inv, RunInv, Sound, TipCoin, TipBind
    <3>3. QED
      BY <1>1, <3>1, <3>2, MatchesFacts DEF CoinOrNone
  <2>3. QED
    BY <2>1, <2>2
<1>4. und \in [spend -> Coin]
  BY <1>3
<1>5. b \in Block
  BY <1>2, <1>4, BlockIntro
<1>6. \A o \in b.add : ~Created(chain, o)
  BY <1>2 DEF CanConnect
<1>7. \A o \in b.spend : BlockCoin(o, chain, b) # NoCoin /\ b.undo[o] \in UndoRead(o, BlockCoin(o, chain, b))
  BY <1>2, <1>3
<1> HIDE DEF b
<1>8. ValidChain(Append(chain, b))
  BY <1>1, <1>5, <1>6, <1>7, AppendValid, Zenon
<1>9. QED
  BY <1>5, <1>8 DEF b

\* ConnectTip.
LEMMA ConnectStep ==
  ASSUME Inv, Connect PROVE Inv'
<1>1. PICK add \in SUBSET Outpoints, spend \in SUBSET Outpoints : ConnectTip(add, spend)
  BY DEF Connect
<1> DEFINE b == NewBlock(add, spend)
<1>2. /\ mode = "run" /\ mode' = mode /\ todo' = todo /\ UNCHANGED db /\ chain' = Append(chain, b)
      /\ tip' = [o \in Outpoints |-> ConnectEntry(o, b, Len(chain) + 1)]
      /\ Len(chain) < MaxHeight /\ CanConnect(add, spend)
  BY <1>1 DEF ConnectTip, db
<1>3. b \in Block /\ ValidChain(Append(chain, b))
  BY <1>2, ConnectValid
<1> HIDE DEF b
<1>4. ASSUME NEW o \in Outpoints PROVE Sound(o, tip'[o], dbCoin[o], dbBind[o], Append(chain, b))
  <2>1. Sound(o, tip[o], dbCoin[o], dbBind[o], chain) /\ ValidChain(chain)
    BY <1>2, ZenonT(60) DEF Inv, RunInv
  <2>2. QED
    BY <1>2, <1>3, <2>1, DiskFacts, ConnectEntrySound, ZenonT(60)
<1>5. tip' \in [Outpoints -> CacheEntry]
  BY <1>2, <1>4, Zenon DEF Sound
<1>6. DiskInv'
  BY <1>2, SameDisk
<1>7. RunInv'
  BY <1>2, <1>4 DEF Inv, RunInv, db
<1>8. FlushInv' /\ DownInv' /\ ReplayInv'
  BY <1>2 DEF FlushInv, DownInv, ReplayInv
<1>9. QED
  BY <1>2, <1>3, <1>5, <1>6, <1>7, <1>8 DEF Inv

\* DisconnectTip.
LEMMA DisconnectStep ==
  ASSUME Inv, Disconnect PROVE Inv'
<1> DEFINE b == chain[Len(chain)]
           ch == SubSeq(chain, 1, Len(chain) - 1)
<1>1. PICK u \in UndoReads(b) : DisconnectTip(u)
  BY DEF Disconnect
<1>2. /\ mode = "run" /\ mode' = mode /\ todo' = todo /\ UNCHANGED db /\ chain' = ch /\ chain # << >>
      /\ tip' = [o \in Outpoints |->
                   IF o \in Touches(b)
                   THEN BatchWrite(o, FetchCoin(tip[o], dbCoin[o]), DisconnectBlock(o, b, u, NoEntry, TipCoin(o)))
                   ELSE tip[o]]
  BY <1>1, Zenon DEF DisconnectTip, Disconnect, db
<1>3. b \in Block /\ ValidChain(ch) /\ chain = Append(ch, b) /\ ValidChain(chain)
  BY <1>2, LastBlock DEF Inv
<1> HIDE DEF b, ch
<1>4. ASSUME NEW o \in Outpoints PROVE Sound(o, tip'[o], dbCoin[o], dbBind[o], ch)
  <2>1. Sound(o, tip[o], dbCoin[o], dbBind[o], Append(ch, b))
    BY <1>2, <1>3, ZenonT(60) DEF Inv, RunInv
  <2>2. CASE o \in Touches(b)
    BY <1>2, <1>3, <2>1, <2>2, DiskFacts, DisconnectEntrySound, ZenonT(60) DEF TipCoin
  <2>3. CASE o \notin Touches(b)
    <3>1. ChainCoin(Append(ch, b), o) = ChainCoin(ch, o) /\ ChainBind(Append(ch, b), o) = ChainBind(ch, o)
      BY <1>3, <2>3, StepUntouched, Zenon
    <3>2. QED
      BY <1>2, <2>1, <2>3, <3>1, ZenonT(60) DEF Sound, Matches
  <2>4. QED
    BY <2>2, <2>3
<1>5. tip' \in [Outpoints -> CacheEntry]
  BY <1>2, <1>4, Zenon DEF Sound
<1>6. DiskInv'
  BY <1>2, SameDisk
<1>7. RunInv'
  BY <1>2, <1>4, ZenonT(60) DEF Inv, RunInv, db
<1>8. FlushInv' /\ DownInv' /\ ReplayInv'
  BY <1>2, ZenonT(60) DEF FlushInv, DownInv, ReplayInv
<1>9. QED
  BY <1>2, <1>3, <1>5, <1>6, <1>7, <1>8 DEF Inv

\* Lookups and evictions change no answer.
LEMMA LookupStep ==
  ASSUME Inv, NEW o \in Outpoints, Lookup(o) \/ Evict(o)
  PROVE  /\ Inv'
         /\ \A p \in Outpoints : TipCoin(p)' = TipCoin(p) /\ TipBind(p)' = TipBind(p)
<1>1. mode = "run" /\ UNCHANGED <<chain, db, mode, todo>>
  BY ZenonT(60) DEF Lookup, Evict
<1>2. ASSUME NEW p \in Outpoints
      PROVE  /\ Sound(p, tip'[p], dbCoin[p], dbBind[p], chain)
             /\ GetCoin(tip'[p], dbCoin[p]) = GetCoin(tip[p], dbCoin[p])
             /\ GetBindPlotterEntry(p, tip'[p], dbBind[p]) = GetBindPlotterEntry(p, tip[p], dbBind[p])
  <2>1. /\ Sound(p, tip[p], dbCoin[p], dbBind[p], chain)
        /\ tip \in [Outpoints -> CacheEntry]
    BY <1>1, ZenonT(60) DEF Inv, RunInv
  <2>2. \/ tip'[p] = tip[p]
        \/ tip'[p] = FetchCoin(tip[p], dbCoin[p])
        \/ tip'[p] = Uncache(tip[p], FALSE)
    BY <2>1, Zenon DEF Lookup, Evict
  <2>3. /\ FetchCoin(tip[p], dbCoin[p]) \in CacheEntry
        /\ EntryFits(p, FetchCoin(tip[p], dbCoin[p]), dbCoin[p], dbBind[p])
        /\ GetCoin(FetchCoin(tip[p], dbCoin[p]), dbCoin[p]) = GetCoin(tip[p], dbCoin[p])
        /\ GetBindPlotterEntry(p, FetchCoin(tip[p], dbCoin[p]), dbBind[p]) = GetBindPlotterEntry(p, tip[p], dbBind[p])
    BY <2>1, DiskFacts, FetchFits, FetchType, ZenonT(60) DEF Sound
  <2>4. /\ Uncache(tip[p], FALSE) \in CacheEntry
        /\ EntryFits(p, Uncache(tip[p], FALSE), dbCoin[p], dbBind[p])
        /\ GetCoin(Uncache(tip[p], FALSE), dbCoin[p]) = GetCoin(tip[p], dbCoin[p])
        /\ GetBindPlotterEntry(p, Uncache(tip[p], FALSE), dbBind[p]) = GetBindPlotterEntry(p, tip[p], dbBind[p])
    BY <2>1, DiskFacts, UncacheFits, ZenonT(60) DEF Sound
  <2>5. QED
    BY <2>1, <2>2, <2>3, <2>4, Zenon DEF Sound
<1>3. tip' \in [Outpoints -> CacheEntry]
  <2>1. tip \in [Outpoints -> CacheEntry] /\ \A p \in Outpoints : tip'[p] \in CacheEntry
    BY <1>2, Zenon DEF Inv, Sound
  <2>2. DOMAIN tip' = Outpoints /\ tip' = [p \in Outpoints |-> tip'[p]]
    BY <2>1, ZenonT(60) DEF Lookup, Evict
  <2>3. QED
    BY <2>1, <2>2
<1>4. DiskInv'
  BY <1>1, SameDisk
<1>5. RunInv'
  BY <1>1, <1>2 DEF Inv, RunInv, db
<1>6. FlushInv' /\ DownInv' /\ ReplayInv'
  BY <1>1, Zenon DEF FlushInv, DownInv, ReplayInv
<1>7. Inv'
  BY <1>1, <1>3, <1>4, <1>5, <1>6 DEF Inv
<1>8. QED
  BY <1>1, <1>2, <1>7, Zenon DEF TipCoin, TipBind, db

\* What a flush starts from: the answers of the chain, and the outpoints without an
\* entry have theirs on disk.
LEMMA FlushBegins ==
  ASSUME Inv, NEW o \in Outpoints, CleanCopy(tip[o], dbCoin[o]), AnswersMatch(o), tip[o] = NoEntry
  PROVE  DiskIs(chain, o)
BY EmptyFits DEF AnswersMatch, DiskIs, TipCoin, TipBind

\* FlushStateToDisk begins.
LEMMA FlushStartStep ==
  ASSUME Inv, FlushStart PROVE Inv'
<1>1. mode = "run" /\ mode' = "flush" /\ UNCHANGED <<chain, tip, db>> /\ todo' = {o \in Outpoints : tip[o] # NoEntry}
  BY DEF FlushStart
<1>2. ASSUME NEW o \in Outpoints PROVE CleanCopy(tip[o], dbCoin[o]) /\ AnswersMatch(o)
  BY <1>1, Zenon DEF Inv, RunInv, Sound, EntryFits, CleanCopy, AnswersMatch, TipCoin, TipBind
<1>3. \A o \in Outpoints \ todo' : DiskIs(chain, o)
  BY <1>1, <1>2, FlushBegins
<1>4. FlushInv'
  BY <1>1, <1>2, <1>3, Zenon DEF Inv, RunInv, FlushInv, AnswersMatch, TipCoin, TipBind, DiskIs, db
<1>5. DiskInv'
  BY <1>1, SameDisk
<1>6. RunInv' /\ DownInv' /\ ReplayInv'
  BY <1>1, Zenon DEF RunInv, DownInv, ReplayInv
<1>7. QED
  BY <1>1, <1>4, <1>5, <1>6 DEF Inv

\* NoChain is no chain, and a record of two heads is not NoHeads.
LEMMA NoneFacts ==
  /\ \A ch : ValidChain(ch) => ch # NoChain
  /\ \A x, y : [new |-> x, old |-> y] # NoHeads
<1>1. ASSUME NEW ch, ValidChain(ch), ch = NoChain PROVE FALSE
  <2>1. ch \in Seq(Block) /\ Len(ch) = 1 /\ ch[1] = [none |-> "chain"]
    BY <1>1 DEF ValidChain, NoChain
  <2>2. ch[1] \in Block
    BY <2>1
  <2>3. \E spend \in SUBSET Outpoints : ch[1] \in [add: SUBSET Outpoints, spend: {spend}, undo: [spend -> Coin]]
    BY <2>2 DEF Block
  <2>4. QED
    BY <2>1, <2>3
<1>2. \A x, y : [new |-> x, old |-> y] # NoHeads
  BY DEF NoHeads
<1>3. QED
  BY <1>1, <1>2

\* The outpoints in todo are written as they answer; the answers stay.
LEMMA WriteOne ==
  ASSUME Inv, mode \in {"flush", "reflush"}, NEW o \in Outpoints,
         NEW coin, NEW bind, coin = WriteCoin(dbCoin[o], tip[o]), bind = WriteBind(o, dbBind[o], tip[o])
  PROVE  /\ coin \in CoinOrNone /\ bind \in BindOrNone
         /\ Matches(o, coin, bind, chain)
         /\ CleanCopy(tip[o], coin)
         /\ GetCoin(tip[o], coin) = TipCoin(o) /\ GetBindPlotterEntry(o, tip[o], bind) = TipBind(o)
<1>1. CleanCopy(tip[o], dbCoin[o]) /\ AnswersMatch(o) /\ tip[o] \in CacheEntry /\ ValidChain(chain)
  BY ZenonT(60) DEF Inv, FlushInv
<1>2. /\ coin = TipCoin(o) /\ bind = TipBind(o) /\ CleanCopy(tip[o], coin)
      /\ GetCoin(tip[o], coin) = TipCoin(o) /\ GetBindPlotterEntry(o, tip[o], bind) = TipBind(o)
  <2>1. /\ WriteCoin(dbCoin[o], tip[o]) = GetCoin(tip[o], dbCoin[o])
        /\ WriteBind(o, dbBind[o], tip[o]) = GetBindPlotterEntry(o, tip[o], dbBind[o])
        /\ GetCoin(tip[o], WriteCoin(dbCoin[o], tip[o])) = GetCoin(tip[o], dbCoin[o])
        /\ GetBindPlotterEntry(o, tip[o], WriteBind(o, dbBind[o], tip[o])) = GetBindPlotterEntry(o, tip[o], dbBind[o])
        /\ CleanCopy(tip[o], WriteCoin(dbCoin[o], tip[o]))
    BY <1>1, WriteAnswers
  <2>. QED
    BY <2>1 DEF TipCoin, TipBind
<1>3. Matches(o, coin, bind, chain)
  BY <1>1, <1>2, Zenon DEF AnswersMatch
<1>4. QED
  BY <1>1, <1>2, <1>3, MatchesFacts, ZenonT(60)

\* A partial batch of a flush: the transition is marked, and one more outpoint has
\* on disk what the new tip says.
LEMMA FlushPartialStep ==
  ASSUME Inv, NEW o \in Outpoints, FlushPartial(o)
  PROVE  /\ Inv'
         /\ \A p \in Outpoints : TipCoin(p)' = TipCoin(p) /\ TipBind(p)' = TipBind(p)
<1>1. /\ mode \in {"flush", "reflush"} /\ o \in todo /\ UNCHANGED <<chain, tip, mode>>
      /\ dbCoin' = [dbCoin EXCEPT ![o] = WriteCoin(@, tip[o])]
      /\ dbBind' = [dbBind EXCEPT ![o] = WriteBind(o, @, tip[o])]
      /\ best' = NoChain /\ heads' = [new |-> chain, old |-> OldTip] /\ todo' = todo \ {o}
  BY Zenon DEF FlushPartial
<1>2. dbCoin \in [Outpoints -> CoinOrNone] /\ dbBind \in [Outpoints -> BindOrNone]
  BY DEF Inv, DiskInv
<1>3. ASSUME NEW p \in Outpoints
      PROVE  /\ dbCoin'[p] \in CoinOrNone /\ dbBind'[p] \in BindOrNone
             /\ CleanCopy(tip[p], dbCoin'[p])
             /\ GetCoin(tip[p], dbCoin'[p]) = TipCoin(p) /\ GetBindPlotterEntry(p, tip[p], dbBind'[p]) = TipBind(p)
             /\ p = o => Matches(p, dbCoin'[p], dbBind'[p], chain)
             /\ p # o => dbCoin'[p] = dbCoin[p] /\ dbBind'[p] = dbBind[p]
  <2>1. CASE p = o
    <3>1. dbCoin'[p] = WriteCoin(dbCoin[p], tip[p]) /\ dbBind'[p] = WriteBind(p, dbBind[p], tip[p])
      BY <1>1, <1>2, <2>1
    <3>2. QED
      BY <1>1, <2>1, <3>1, WriteOne
  <2>2. CASE p # o
    <3>1. dbCoin'[p] = dbCoin[p] /\ dbBind'[p] = dbBind[p]
      BY <1>1, <1>2, <2>2
    <3>2. CleanCopy(tip[p], dbCoin[p])
      BY <1>1 DEF Inv, FlushInv
    <3>3. QED
      BY <1>2, <2>2, <3>1, <3>2, Zenon DEF TipCoin, TipBind
  <2>3. QED
    BY <2>1, <2>2, ZenonT(60)
<1>4. dbCoin' \in [Outpoints -> CoinOrNone] /\ dbBind' \in [Outpoints -> BindOrNone]
  BY <1>1, <1>2, <1>3
<1>5. heads' # NoHeads /\ heads'.new = chain /\ heads'.old = OldTip /\ heads' = [new |-> heads'.new, old |-> heads'.old]
  BY <1>1, NoneFacts, Zenon
<1>6. ValidChain(chain) /\ ValidChain(OldTip)
        /\ \A p \in Outpoints : DiskIs(OldTip, p) \/ DiskIs(chain, p)
  <2>1. CASE heads = NoHeads
    <3>1. OldTip = best /\ ValidChain(best)
      BY <2>1, NoneFacts DEF Inv, DiskInv, OldTip
    <3>2. QED
      BY <2>1, <3>1 DEF Inv, DiskInv, DiskConsistent
  <2>2. CASE heads # NoHeads
    <3>1. OldTip = heads.old /\ heads.new = chain /\ ValidChain(heads.old)
      BY <1>1, <2>2 DEF Inv, DiskInv, FlushInv, OldTip
    <3>2. QED
      BY <2>2, <3>1 DEF Inv, DiskInv, DiskConsistent
  <2>3. QED
    BY <2>1, <2>2
<1>7. \A p \in Outpoints : DiskIs(OldTip, p)' \/ DiskIs(chain, p)'
  <2> SUFFICES ASSUME NEW p \in Outpoints
               PROVE  Matches(p, dbCoin'[p], dbBind'[p], OldTip') \/ Matches(p, dbCoin'[p], dbBind'[p], chain)
    BY <1>1 DEF DiskIs
  <2>1. OldTip' = OldTip
    BY <1>1, <1>5 DEF OldTip
  <2>2. QED
    BY <1>3, <1>6, <2>1, Zenon DEF DiskIs
<1>8. DiskInv'
  <2>1. OldTip' = OldTip
    BY <1>1, <1>5, ZenonT(60) DEF OldTip
  <2>2. \A p \in Outpoints : DiskIs(heads.old, p)' \/ DiskIs(heads.new, p)'
    BY <1>1, <1>5, <1>7, <2>1 DEF DiskIs
  <2>3. QED
    BY <1>1, <1>4, <1>5, <1>6, <2>2 DEF DiskInv, DiskConsistent
<1>9. FlushInv'
  <2>1. \A p \in Outpoints : CleanCopy(tip[p], dbCoin[p])' /\ AnswersMatch(p)'
    BY <1>1, <1>3 DEF Inv, FlushInv, AnswersMatch, TipCoin, TipBind
  <2>2. \A p \in Outpoints \ todo' : DiskIs(chain, p)'
    BY <1>1, <1>3 DEF Inv, FlushInv, DiskIs
  <2>3. QED
    BY <1>1, <1>5, <2>1, <2>2 DEF FlushInv
<1>10. RunInv' /\ DownInv' /\ ReplayInv'
  BY <1>1 DEF RunInv, DownInv, ReplayInv
<1>11. Inv'
  BY <1>1, <1>8, <1>9, <1>10 DEF Inv
<1>12. QED
  BY <1>1, <1>3, <1>11 DEF TipCoin, TipBind

\* The last batch of a flush: the database is that of the chain.
LEMMA FlushFinalStep ==
  ASSUME Inv, FlushFinal
  PROVE  /\ Inv' /\ \A p \in Outpoints : DiskIs(chain, p)'
         /\ mode = "flush" => \A p \in Outpoints : AnswersMatch(p)
<1>0. /\ dbCoin' = [o \in Outpoints |-> IF o \in todo THEN WriteCoin(dbCoin[o], tip[o]) ELSE dbCoin[o]]
      /\ dbBind' = [o \in Outpoints |-> IF o \in todo THEN WriteBind(o, dbBind[o], tip[o]) ELSE dbBind[o]]
  BY Zenon DEF FlushFinal
<1>1. /\ mode \in {"flush", "reflush"} /\ UNCHANGED chain
      /\ best' = chain /\ heads' = NoHeads /\ tip' = EmptyCache /\ mode' = "run" /\ todo' = {}
  BY Zenon DEF FlushFinal
<1>2. ASSUME NEW p \in Outpoints
      PROVE  dbCoin'[p] \in CoinOrNone /\ dbBind'[p] \in BindOrNone /\ Matches(p, dbCoin'[p], dbBind'[p], chain)
  <2>1. CASE p \in todo
    <3>1. dbCoin'[p] = WriteCoin(dbCoin[p], tip[p]) /\ dbBind'[p] = WriteBind(p, dbBind[p], tip[p])
      BY <1>0, <2>1, Zenon
    <3>2. QED
      BY <1>1, <3>1, WriteOne, ZenonT(60)
  <2>2. CASE p \notin todo
    <3>1. dbCoin'[p] = dbCoin[p] /\ dbBind'[p] = dbBind[p]
      BY <1>0, <2>2, Zenon
    <3>2. Matches(p, dbCoin[p], dbBind[p], chain)
      BY <1>1, <2>2, ZenonT(60) DEF Inv, FlushInv, DiskIs
    <3>3. QED
      BY <3>1, <3>2, DiskFacts, Zenon
  <2>3. QED
    BY <2>1, <2>2
<1>3. ValidChain(chain) /\ tip' \in [Outpoints -> CacheEntry] /\ \A p \in Outpoints : tip'[p] = NoEntry
  BY <1>1, ZenonT(60) DEF Inv, EmptyCache, CacheEntry
<1>4. \A p \in Outpoints : DiskIs(chain, p)'
  BY <1>1, <1>2, Zenon DEF DiskIs
<1>5. DiskInv'
  <2>1. dbCoin' \in [Outpoints -> CoinOrNone]
    <3>1. dbCoin' = [p \in Outpoints |-> dbCoin'[p]]
      BY <1>0, Zenon
    <3>2. QED
      BY <1>2, <3>1, Zenon
  <2>2. dbBind' \in [Outpoints -> BindOrNone]
    <3>1. dbBind' = [p \in Outpoints |-> dbBind'[p]]
      BY <1>0, Zenon
    <3>2. QED
      BY <1>2, <3>1, Zenon
  <2>3. DiskConsistent'
    BY <1>1, <1>4, Zenon DEF DiskConsistent, DiskIs
  <2>4. QED
    BY <1>1, <1>3, <2>1, <2>2, <2>3, Zenon DEF DiskInv
<1>6. RunInv'
  <2>1. ASSUME NEW p \in Outpoints PROVE Sound(p, tip[p], dbCoin[p], dbBind[p], chain)'
    <3>1. /\ NoEntry \in CacheEntry /\ EntryFits(p, NoEntry, dbCoin'[p], dbBind'[p])
          /\ GetCoin(NoEntry, dbCoin'[p]) = dbCoin'[p]
          /\ GetBindPlotterEntry(p, NoEntry, dbBind'[p]) = dbBind'[p]
      BY EmptyFits, Zenon
    <3>2. Matches(p, dbCoin'[p], dbBind'[p], chain) /\ tip'[p] = NoEntry /\ chain' = chain
      BY <1>1, <1>2, <1>3, Zenon
    <3>3. QED
      BY <3>1, <3>2, Zenon DEF Sound
  <2>2. QED
    BY <1>1, <2>1, Zenon DEF RunInv
<1>7. FlushInv' /\ DownInv' /\ ReplayInv'
  BY <1>1, Zenon DEF FlushInv, DownInv, ReplayInv
<1>8. Inv'
  BY <1>1, <1>3, <1>5, <1>6, <1>7 DEF Inv
<1>9. mode = "flush" => \A p \in Outpoints : AnswersMatch(p)
  BY DEF Inv, FlushInv
<1>10. QED
  BY <1>4, <1>8, <1>9

\* A crash loses the cache and leaves the database.
LEMMA CrashStep ==
  ASSUME Inv, Crash PROVE Inv'
<1>1. mode' = "down" /\ chain' = << >> /\ tip' = EmptyCache /\ todo' = {} /\ UNCHANGED db
  BY DEF Crash
<1>2. ValidChain(<< >>) /\ EmptyCache \in [Outpoints -> CacheEntry]
  BY AncestorBase DEF Inv, EmptyCache, CacheEntry
<1>3. DiskInv'
  BY <1>1, SameDisk
<1>4. RunInv' /\ FlushInv' /\ DownInv' /\ ReplayInv'
  BY <1>1, Zenon DEF RunInv, FlushInv, DownInv, ReplayInv, EmptyCache
<1>5. QED
  BY <1>1, <1>2, <1>3, <1>4 DEF Inv

\* A restart: the saved chain, or a replay from the old tip.
LEMMA RestartStep ==
  ASSUME Inv, Restart PROVE Inv'
<1>1. mode = "down" /\ UNCHANGED <<tip, db, todo>> /\ \A o \in Outpoints : tip'[o] = NoEntry
  BY DEF Restart, Inv, DownInv, EmptyCache
<1>2. DiskInv'
  BY <1>1, SameDisk
<1>3. CASE heads = NoHeads
  <2>1. mode' = "run" /\ chain' = best /\ ValidChain(best)
    BY <1>3 DEF Restart, Inv, DiskInv
  <2>2. RunInv'
    BY <1>1, <1>3, <2>1, EmptyFits DEF Inv, DiskInv, DiskConsistent, DiskIs, RunInv, Sound, db
  <2>3. FlushInv' /\ DownInv' /\ ReplayInv'
    BY <2>1, Zenon DEF FlushInv, DownInv, ReplayInv
  <2>4. QED
    BY <1>1, <1>2, <2>1, <2>2, <2>3 DEF Inv
<1>4. CASE heads # NoHeads
  <2>1. mode' = "replay" /\ chain' = heads.old /\ ValidChain(heads.old) /\ heads' = heads
    BY <1>1, <1>4 DEF Restart, Inv, DiskInv, db
  <2>2. ASSUME NEW o \in Outpoints PROVE Replayed(o, NoEntry, dbCoin[o], dbBind[o], heads.old, heads.new)
    <3>1. Matches(o, dbCoin[o], dbBind[o], heads.old) \/ Matches(o, dbCoin[o], dbBind[o], heads.new)
      BY <1>4 DEF Inv, DiskInv, DiskConsistent, DiskIs
    <3>2. QED
      BY <3>1, EmptyFits, ZenonT(60) DEF Replayed, CleanCopy, FreshOver, IsDirty
  <2>3. IsAncestor(heads.old, heads.old)
    BY <2>1, AncestorBase
  <2>4. ReplayInv'
    BY <1>1, <1>4, <2>1, <2>2, <2>3 DEF ReplayInv, db
  <2>5. RunInv' /\ FlushInv' /\ DownInv'
    BY <2>1 DEF RunInv, FlushInv, DownInv
  <2>6. QED
    BY <1>1, <1>2, <2>1, <2>4, <2>5 DEF Inv
<1>5. QED
  BY <1>3, <1>4

\* ReplayBlocks, one block back.
LEMMA RollbackStep ==
  ASSUME Inv, Rollback PROVE Inv'
<1> DEFINE b == chain[Len(chain)]
           ch == SubSeq(chain, 1, Len(chain) - 1)
<1>1. PICK u \in UndoReads(b) : ReplayRollback(u)
  BY DEF Rollback
<1>2. /\ mode = "replay" /\ UNCHANGED <<db, mode, todo>> /\ chain' = ch /\ ~IsAncestor(chain, heads.new)
      /\ tip' = [o \in Outpoints |->
                   IF o \in Touches(b) THEN DisconnectBlock(o, b, u, tip[o], dbCoin[o]) ELSE tip[o]]
  BY <1>1, ZenonT(60) DEF ReplayRollback, Rollback
<1>3. /\ heads # NoHeads /\ ValidChain(heads.new) /\ ValidChain(heads.old) /\ ValidChain(chain)
      /\ IsAncestor(chain, heads.old)
  BY <1>2 DEF Inv, DiskInv, ReplayInv
<1>4. chain # << >>
  BY <1>2, <1>3, AncestorBase
<1>5. b \in Block /\ ValidChain(ch) /\ chain = Append(ch, b) /\ IsAncestor(ch, heads.old)
  BY <1>3, <1>4, LastBlock, AncestorShorten
<1> HIDE DEF b, ch
<1>6. ASSUME NEW o \in Outpoints
      PROVE  tip'[o] \in CacheEntry /\ Replayed(o, tip'[o], dbCoin[o], dbBind[o], ch, heads.new)
  <2>1. /\ Replayed(o, tip[o], dbCoin[o], dbBind[o], Append(ch, b), heads.new)
        /\ Matches(o, dbCoin[o], dbBind[o], heads.old) \/ Matches(o, dbCoin[o], dbBind[o], heads.new)
        /\ ValidChain(Append(ch, b)) /\ IsAncestor(Append(ch, b), heads.old)
    BY <1>2, <1>3, <1>5 DEF Inv, DiskInv, DiskConsistent, DiskIs, ReplayInv
  <2>2. tip'[o] = IF o \in Touches(b) THEN DisconnectBlock(o, b, u, tip[o], dbCoin[o]) ELSE tip[o]
    BY <1>2, ZenonT(60)
  <2>3. QED
    BY <1>3, <1>5, <2>1, <2>2, DiskFacts, RollbackEntry
<1>7. tip' \in [Outpoints -> CacheEntry]
  BY <1>2, <1>6
<1>8. DiskInv'
  BY <1>2, SameDisk
<1>9. ReplayInv'
  BY <1>2, <1>3, <1>5, <1>6, ZenonT(60) DEF ReplayInv, db
<1>10. RunInv' /\ FlushInv' /\ DownInv'
  BY <1>2, Zenon DEF RunInv, FlushInv, DownInv
<1>11. QED
  BY <1>2, <1>5, <1>7, <1>8, <1>9, <1>10 DEF Inv

\* ReplayBlocks, one block forward.
LEMMA ForwardStep ==
  ASSUME Inv, ReplayForward PROVE Inv'
<1> DEFINE b == heads.new[Len(chain) + 1]
<1>1. /\ mode = "replay" /\ UNCHANGED <<db, mode, todo>> /\ chain' = Append(chain, b)
      /\ IsAncestor(chain, heads.new) /\ chain # heads.new
      /\ tip' = [o \in Outpoints |-> RollforwardBlock(o, b, Len(chain) + 1)]
  BY DEF ReplayForward
<1>2. heads # NoHeads /\ ValidChain(heads.new) /\ ValidChain(chain)
  BY <1>1 DEF Inv, DiskInv, ReplayInv
<1>3. b \in Block /\ ValidChain(Append(chain, b)) /\ IsAncestor(Append(chain, b), heads.new)
  BY <1>1, <1>2, AncestorStep
<1> HIDE DEF b
<1>4. ASSUME NEW o \in Outpoints
      PROVE  tip'[o] \in CacheEntry /\ Replayed(o, tip'[o], dbCoin[o], dbBind[o], Append(chain, b), heads.new)
  <2>1. Replayed(o, tip[o], dbCoin[o], dbBind[o], chain, heads.new)
    BY <1>1 DEF Inv, ReplayInv
  <2> DEFINE e == tip[o]
             coin == dbCoin[o]
             bind == dbBind[o]
             new == heads.new
             added == IF o \in b.add
                      THEN AddCoin(o, FetchCoin(e, coin), NewCoin(o, Len(chain) + 1), GetCoin(e, coin) # NoCoin)
                      ELSE e
             f == IF o \in b.spend THEN SpendCoin(o, FetchCoin(added, coin), FALSE) ELSE added
  <2>2. tip'[o] = f
    BY <1>1, Zenon DEF RollforwardBlock
  <2>3. e \in CacheEntry /\ coin \in CoinOrNone /\ bind \in BindOrNone
    BY DiskFacts
  <2>4. ValidChain(new) /\ IsAncestor(Append(chain, b), new) /\ Replayed(o, e, coin, bind, chain, new)
    BY <1>2, <1>3, <2>1
  <2> HIDE DEF e, coin, bind, new
  <2>5. f \in CacheEntry /\ Replayed(o, f, coin, bind, Append(chain, b), new)
    BY <1>2, <1>3, <2>3, <2>4, ForwardEntry, ZenonT(60)
  <2>6. tip'[o] \in CacheEntry /\ Replayed(o, tip'[o], coin, bind, Append(chain, b), new)
    BY <2>2, <2>5, ZenonT(60)
  <2>7. QED
    BY <2>6 DEF coin, bind, new
<1>5. tip' \in [Outpoints -> CacheEntry]
  BY <1>1, <1>4
<1>6. DiskInv'
  BY <1>1, SameDisk
<1>7. ReplayInv'
  BY <1>1, <1>2, <1>3, <1>4 DEF ReplayInv, db
<1>8. RunInv' /\ FlushInv' /\ DownInv'
  BY <1>1, Zenon DEF RunInv, FlushInv, DownInv
<1>9. QED
  BY <1>1, <1>3, <1>5, <1>6, <1>7, <1>8 DEF Inv

\* ReplayBlocks has come to the new tip: what its cache answers is that tip's.
LEMMA ReplayFlushStep ==
  ASSUME Inv, ReplayFlush PROVE Inv'
<1>1. /\ mode = "replay" /\ chain = heads.new /\ mode' = "reflush" /\ UNCHANGED <<chain, tip, db>>
      /\ todo' = {o \in Outpoints : tip[o] # NoEntry} /\ heads # NoHeads
  BY ZenonT(60) DEF ReplayFlush, Inv, ReplayInv
<1>2. ASSUME NEW o \in Outpoints PROVE CleanCopy(tip[o], dbCoin[o]) /\ AnswersMatch(o)
  <2>1. Replayed(o, tip[o], dbCoin[o], dbBind[o], chain, chain)
    BY <1>1, ZenonT(60) DEF Inv, ReplayInv
  <2>2. QED
    BY <2>1, CleanAnswers, ZenonT(60) DEF Replayed, AnswersMatch, TipCoin, TipBind
<1>3. \A o \in Outpoints \ todo' : DiskIs(chain, o)
  BY <1>1, <1>2, FlushBegins
<1>4. FlushInv'
  BY <1>1, <1>2, <1>3 DEF FlushInv, AnswersMatch, TipCoin, TipBind, DiskIs, db
<1>5. DiskInv'
  BY <1>1, SameDisk
<1>6. RunInv' /\ DownInv' /\ ReplayInv'
  BY <1>1 DEF RunInv, DownInv, ReplayInv
<1>7. QED
  BY <1>1, <1>4, <1>5, <1>6 DEF Inv

\* Every step keeps the invariant.
LEMMA NextInv == Inv /\ [Next]_vars => Inv'
<1> SUFFICES ASSUME Inv, [Next]_vars PROVE Inv'
  OBVIOUS
<1>1. CASE Connect
  BY <1>1, ConnectStep
<1>2. CASE Disconnect
  BY <1>2, DisconnectStep
<1>3. CASE \E o \in Outpoints : Lookup(o) \/ Evict(o)
  BY <1>3, LookupStep
<1>4. CASE FlushStart
  BY <1>4, FlushStartStep
<1>5. CASE \E o \in Outpoints : FlushPartial(o)
  BY <1>5, FlushPartialStep
<1>6. CASE FlushFinal
  BY <1>6, FlushFinalStep
<1>7. CASE Crash
  BY <1>7, CrashStep
<1>8. CASE Restart
  BY <1>8, RestartStep
<1>9. CASE Rollback
  BY <1>9, RollbackStep
<1>10. CASE ReplayForward
  BY <1>10, ForwardStep
<1>11. CASE ReplayFlush
  BY <1>11, ReplayFlushStep
<1>12. CASE UNCHANGED vars
  <2>1. DiskInv'
    BY <1>12, SameDisk DEF vars, db
  <2>2. RunInv' /\ FlushInv' /\ DownInv' /\ ReplayInv'
    BY <1>12, Zenon DEF vars, db, Inv, RunInv, FlushInv, DownInv, ReplayInv, AnswersMatch, TipCoin, TipBind, DiskIs
  <2>3. QED
    BY <1>12, <2>1, <2>2 DEF vars, Inv
<1>13. QED
  BY <1>1, <1>2, <1>3, <1>4, <1>5, <1>6, <1>7, <1>8, <1>9, <1>10, <1>11, <1>12 DEF Next

\* The inductive invariant holds in every reachable state of the chainstate.
THEOREM InvHolds == Spec => []Inv
<1>1. Init => Inv
  BY InitInv
<1>2. QED
  BY <1>1, NextInv, PTL DEF Spec

-----------------------------------------------------------------------------
(* The safety properties                                                    *)

\* Whatever the number of outpoints, of blocks and of crashes, in a flush, in a
\* replay or in the flush that ends one, the database is that of its best block or,
\* in a transition, has for each outpoint the old tip's record or the new tip's
\* (CCoinsViewDB::BatchWrite, ReplayBlocks).
THEOREM DiskConsistentTheorem == Spec => []DiskConsistent
<1>1. Inv => DiskConsistent
  BY DEF Inv, DiskInv
<1>2. QED
  BY <1>1, InvHolds, PTL

\* A running node answers with the coins and bind records of its active chain
\* (CCoinsViewCache::GetCoin, GetBindPlotterEntry over CoinsTip()).
THEOREM CoinsMatchChainTheorem == Spec => []CoinsMatchChain
<1>1. Inv => CoinsMatchChain
  BY ZenonT(60) DEF Inv, RunInv, FlushInv, Sound, CoinsMatchChain, AnswersMatch, TipCoin, TipBind
<1>2. QED
  BY <1>1, InvHolds, PTL

\* DisconnectBlock never finds an output of the tip missing, spent or of another
\* height, nor an input that is there already: DisconnectTip does not fail.
THEOREM DisconnectIsCleanTheorem == Spec => []DisconnectIsClean
<1>1. Inv => DisconnectIsClean
  <2> SUFFICES ASSUME Inv, mode = "run", chain # << >>
               PROVE  DisconnectClean(chain[Len(chain)], Len(chain))
    BY DEF DisconnectIsClean
  <2> DEFINE b == chain[Len(chain)]
             ch == SubSeq(chain, 1, Len(chain) - 1)
  <2>1. ValidChain(chain) /\ b \in Block /\ ValidChain(ch) /\ chain = Append(ch, b)
        /\ Len(chain) \in Nat /\ Len(ch) + 1 = Len(chain)
    BY LastBlock DEF Inv
  <2>2. b.spend \subseteq Outpoints /\ b.add \subseteq Outpoints
    BY <2>1, BlockFields
  <2> HIDE DEF b, ch
  <2>3. ASSUME NEW o \in Outpoints PROVE Matches(o, TipCoin(o), TipBind(o), Append(ch, b))
    BY <2>1 DEF Inv, RunInv, Sound, TipCoin, TipBind
  <2>4. ASSUME NEW o \in b.spend PROVE TipCoin(o) = NoCoin
    <3>1. o \in Outpoints /\ ChainCoin(Append(ch, b), o) = NoCoin
      BY <2>1, <2>2, StepSpent, Zenon
    <3>2. QED
      BY <2>3, <3>1 DEF Matches
  <2>5. ASSUME NEW o \in b.add \ b.spend PROVE TipCoin(o) # NoCoin /\ TipCoin(o).height = Len(chain)
    <3> DEFINE c == BlockCoin(o, ch, b)
               t == TipCoin(o)
    <3>1. o \in Outpoints /\ ChainCoin(Append(ch, b), o) = c /\ c \in Coin /\ c # NoCoin
      BY <2>1, <2>2, StepTouched, StepKept, Zenon DEF Touches
    <3>2. c = NewCoin(o, Len(chain)) /\ c.height = Len(chain)
      BY <2>1, ZenonT(60) DEF BlockCoin, NewCoin
    <3>3. t \in UndoRead(o, c)
      BY <2>3, <3>1 DEF Matches
    <3> HIDE DEF c, t
    <3>4. t # NoCoin /\ t.height = c.height
      BY <3>1, <3>3, UndoReadFacts
    <3>5. QED
      BY <3>2, <3>4 DEF t
  <2>6. QED
    BY <2>4, <2>5 DEF DisconnectClean, b
<1>2. QED
  BY <1>1, InvHolds, PTL

\* No flush fails: neither the two flushes of ConnectTip, for any block the chain
\* accepts, nor a flush to the database that starts in a transition (the logic_error
\* and the assertions of CCoinsViewCache::BatchWrite and CCoinsViewDB::BatchWrite).
THEOREM BatchWriteNeverFailsTheorem == Spec => []BatchWriteNeverFails
<1>1. Inv => BatchWriteNeverFails
  <2> SUFFICES ASSUME Inv PROVE BatchWriteNeverFails
    OBVIOUS
  <2>1. mode \in {"flush", "reflush"} /\ heads # NoHeads => heads.new = chain
    BY DEF Inv, FlushInv
  <2>2. ASSUME mode = "run", Len(chain) < MaxHeight,
               NEW add \in SUBSET Outpoints, NEW spend \in SUBSET Outpoints, CanConnect(add, spend),
               NEW o \in Outpoints
        PROVE  LET b == NewBlock(add, spend)
                   h == Len(chain) + 1
               IN  /\ ~BatchWriteThrows(o, Looked(o, b, NoEntry, TipCoin(o)), UpdateCoins(o, b, h))
                   /\ ~BatchWriteThrows(o, Looked(o, b, tip[o], dbCoin[o]), ConnectView(o, b, h))
    <3> DEFINE b == NewBlock(add, spend)
    <3>1. b \in Block /\ ValidChain(Append(chain, b))
      BY <2>2, ConnectValid
    <3>2. ValidChain(chain) /\ Sound(o, tip[o], dbCoin[o], dbBind[o], chain)
      BY <2>2 DEF Inv, RunInv
    <3> HIDE DEF b
    <3>3. /\ ~BatchWriteThrows(o, Looked(o, b, NoEntry, TipCoin(o)), UpdateCoins(o, b, Len(chain) + 1))
          /\ ~BatchWriteThrows(o, Looked(o, b, tip[o], dbCoin[o]), ConnectView(o, b, Len(chain) + 1))
      BY <3>1, <3>2, DiskFacts, ConnectEntrySound, Zenon
    <3>4. QED
      BY <3>3, Zenon DEF b
  <2>3. QED
    BY <2>1, <2>2 DEF BatchWriteNeverFails
<1>2. QED
  BY <1>1, InvHolds, PTL

-----------------------------------------------------------------------------
(* The refinement of DurableChain                                           *)

\* The refinement mapping of the chain, the answers and the saved chain.
ActiveChain == IF Running THEN chain ELSE << >>
AllAnswers == IF Running THEN Answers ELSE NoAnswers
SavedChain == IF heads = NoHeads THEN best ELSE heads.new

\* What the node answers is the abstract state of its chain.
LEMMA AnswersOfChain ==
  ASSUME Inv PROVE AllAnswers = StateOf(ActiveChain)
<1>1. CASE Running
  <2>1. ASSUME NEW o \in Exact PROVE TipCoin(o) = ChainCoin(chain, o) /\ TipBind(o) = ChainBind(chain, o)
    <3>1. o \in Outpoints /\ o \notin Retarget
      BY DEF Exact
    <3>2. Matches(o, TipCoin(o), TipBind(o), chain)
      BY <1>1, <3>1, Zenon DEF Running, Inv, RunInv, FlushInv, Sound, AnswersMatch, TipCoin, TipBind
    <3>3. QED
      BY <3>1, <3>2 DEF Matches, UndoRead
  <2>2. Answers = [o \in Exact |-> [coin |-> ChainCoin(chain, o), bind |-> ChainBind(chain, o)]]
    BY <2>1 DEF Answers
  <2>3. QED
    BY <1>1, <2>2 DEF AllAnswers, ActiveChain, StateOf
<1>2. CASE ~Running
  <2>1. ASSUME NEW o PROVE ChainCoin(<< >>, o) = NoCoin /\ ChainBind(<< >>, o) = NoBind
    BY DEF ChainCoin, ChainBind, Created
  <2>2. NoAnswers = [o \in Exact |-> [coin |-> ChainCoin(<< >>, o), bind |-> ChainBind(<< >>, o)]]
    BY <2>1 DEF NoAnswers
  <2>3. QED
    BY <1>2, <2>2 DEF AllAnswers, ActiveChain, StateOf
<1>3. QED
  BY <1>1, <1>2

\* Every step is a step of DurableChain or leaves its state as it is: the first batch
\* of a flush saves the chain, a restart or the flush after a replay recovers it.
LEMMA RefinementStep ==
  ASSUME Inv, AllAnswers = StateOf(ActiveChain), (AllAnswers = StateOf(ActiveChain))', [Next]_vars
  PROVE  [Durable!DNext]_(Durable!dvars)
<1> DEFINE dvars == <<ActiveChain, AllAnswers, SavedChain, Running>>
<1>1. Durable!dvars = dvars
  BY DEF Durable!dvars, ActiveChain, AllAnswers, SavedChain
<1>2. Durable!dvars' = dvars'
  BY DEF Durable!dvars, ActiveChain, AllAnswers, SavedChain
<1>3. AllAnswers' = StateOf(ActiveChain')
  OBVIOUS
<1>4. ASSUME UNCHANGED <<ActiveChain, SavedChain, Running>> PROVE UNCHANGED Durable!dvars
  <2>1. AllAnswers' = AllAnswers
    BY <1>3, <1>4
  <2>2. QED
    BY <1>1, <1>2, <1>4, <2>1
<1>5. CASE Connect
  <2>1. PICK add \in SUBSET Outpoints, spend \in SUBSET Outpoints : ConnectTip(add, spend)
    BY <1>5 DEF Connect
  <2> DEFINE b == NewBlock(add, spend)
  <2>2. mode = "run" /\ UNCHANGED <<db, mode>> /\ chain' = Append(chain, b)
    BY <2>1 DEF ConnectTip
  <2>3. Running /\ Running' /\ ActiveChain = chain /\ ActiveChain' = Append(chain, b) /\ SavedChain' = SavedChain
    BY <2>2 DEF Running, ActiveChain, SavedChain, db
  <2>4. chain \in Seq(Block) /\ b \in Block
    BY <2>1, ConnectValid, Zenon DEF ConnectTip, Inv, ValidChain
  <2> HIDE DEF b
  <2>5. Len(Append(chain, b)) = Len(chain) + 1 /\ SubSeq(Append(chain, b), 1, Len(chain)) = chain
    BY <2>4
  <2>6. Durable!DExtend
    BY <1>3, <2>3, <2>5 DEF Durable!DExtend, ActiveChain, AllAnswers, SavedChain
  <2>7. QED
    BY <2>6 DEF Durable!DNext
<1>6. CASE Disconnect
  <2>1. /\ mode = "run" /\ UNCHANGED <<db, mode>> /\ chain # << >>
        /\ chain' = SubSeq(chain, 1, Len(chain) - 1)
    BY <1>6, Zenon DEF Disconnect, DisconnectTip
  <2>2. Running /\ Running' /\ ActiveChain = chain /\ ActiveChain' = chain' /\ SavedChain' = SavedChain
    BY <2>1 DEF Running, ActiveChain, SavedChain, db
  <2>3. Durable!DShorten
    BY <1>3, <2>1, <2>2 DEF Durable!DShorten, ActiveChain, AllAnswers, SavedChain
  <2>4. QED
    BY <2>3 DEF Durable!DNext
<1>7. CASE \/ \E o \in Outpoints : Lookup(o) \/ Evict(o)
           \/ UNCHANGED vars
  <2>1. UNCHANGED <<chain, db, mode>>
    BY <1>7, Zenon DEF Lookup, Evict, vars
  <2>2. QED
    BY <1>4, <2>1 DEF ActiveChain, SavedChain, Running, db
<1>8. CASE FlushStart
  <2>1. UNCHANGED <<chain, db>> /\ Running /\ Running'
    BY <1>8 DEF FlushStart, Running
  <2>2. QED
    BY <1>4, <2>1 DEF ActiveChain, SavedChain, db
<1>9. CASE \E o \in Outpoints : FlushPartial(o)
  <2>1. PICK o \in Outpoints : FlushPartial(o)
    BY <1>9
  <2>2. /\ mode \in {"flush", "reflush"} /\ UNCHANGED <<chain, mode>>
        /\ heads' = [new |-> chain, old |-> OldTip]
    BY <2>1 DEF FlushPartial
  <2>3. SavedChain' = chain /\ Running' = Running /\ ActiveChain' = ActiveChain
    BY <2>2, NoneFacts DEF SavedChain, Running, ActiveChain
  <2>4. CASE Running
    <3>1. AllAnswers' = AllAnswers /\ ActiveChain = chain
      BY <1>3, <2>3, <2>4 DEF ActiveChain
    <3>2. Durable!DSave
      BY <2>3, <2>4, <3>1 DEF Durable!DSave, ActiveChain, AllAnswers, SavedChain
    <3>3. QED
      BY <3>2 DEF Durable!DNext
  <2>5. CASE ~Running
    <3>1. SavedChain = chain
      BY <2>2, <2>5 DEF Running, SavedChain, Inv, FlushInv
    <3>2. QED
      BY <1>4, <2>3, <3>1
  <2>6. QED
    BY <2>4, <2>5
<1>10. CASE FlushFinal
  <2>1. mode \in {"flush", "reflush"} /\ mode' = "run" /\ chain' = chain /\ best' = chain /\ heads' = NoHeads
    BY <1>10 DEF FlushFinal
  <2>2. SavedChain' = chain /\ Running' /\ ActiveChain' = chain
    BY <2>1 DEF SavedChain, Running, ActiveChain
  <2>3. CASE Running
    <3>1. AllAnswers' = AllAnswers /\ ActiveChain = chain
      BY <1>3, <2>2, <2>3 DEF ActiveChain
    <3>2. Durable!DSave
      BY <2>2, <2>3, <3>1 DEF Durable!DSave, ActiveChain, AllAnswers, SavedChain
    <3>3. QED
      BY <3>2 DEF Durable!DNext
  <2>4. CASE ~Running
    <3>1. SavedChain = chain
      BY <2>1, <2>4 DEF Running, SavedChain, Inv, FlushInv
    <3>2. Durable!DRecover
      BY <1>3, <2>2, <2>4, <3>1 DEF Durable!DRecover, ActiveChain, AllAnswers, SavedChain
    <3>3. QED
      BY <3>2 DEF Durable!DNext
  <2>5. QED
    BY <2>3, <2>4
<1>11. CASE Crash
  <2>1. ~Running' /\ ActiveChain' = << >> /\ SavedChain' = SavedChain
    BY <1>11 DEF Crash, Running, ActiveChain, SavedChain, db
  <2>2. Running' = FALSE /\ AllAnswers' = StateOf(<< >>)
    BY <1>3, <2>1 DEF Running
  <2>3. Durable!DCrash
    BY <2>1, <2>2 DEF Durable!DCrash, ActiveChain, AllAnswers, SavedChain
  <2>4. QED
    BY <2>3 DEF Durable!DNext
<1>12. CASE Restart
  <2>1. mode = "down" /\ UNCHANGED db /\ ~Running /\ SavedChain' = SavedChain
    BY <1>12 DEF Restart, Running, SavedChain, db
  <2>2. CASE heads = NoHeads
    <3>1. Running' /\ ActiveChain' = SavedChain
      BY <1>12, <2>2 DEF Restart, Running, ActiveChain, SavedChain
    <3>2. Durable!DRecover
      BY <1>3, <2>1, <3>1 DEF Durable!DRecover, ActiveChain, AllAnswers, SavedChain, Running
    <3>3. QED
      BY <3>2 DEF Durable!DNext
  <2>3. CASE heads # NoHeads
    <3>1. ~Running' /\ ActiveChain' = ActiveChain /\ Running' = Running
      BY <1>12, <2>1, <2>3 DEF Restart, Running, ActiveChain
    <3>2. QED
      BY <1>4, <2>1, <3>1
  <2>4. QED
    BY <2>2, <2>3
<1>13. CASE Rollback \/ ReplayForward \/ ReplayFlush
  <2>1. mode = "replay" /\ mode' \in {"replay", "reflush"} /\ UNCHANGED db
    BY <1>13 DEF Rollback, ReplayRollback, ReplayForward, ReplayFlush
  <2>2. Running' = Running /\ ActiveChain' = ActiveChain /\ SavedChain' = SavedChain
    BY <2>1 DEF Running, ActiveChain, SavedChain, db
  <2>3. QED
    BY <1>4, <2>2
<1>14. QED
  BY <1>5, <1>6, <1>7, <1>8, <1>9, <1>10, <1>11, <1>12, <1>13 DEF Next

\* The chainstate implements DurableChain: what it answers (retarget outpoints apart)
\* is a function of the active chain alone, and a node that comes back after a crash
\* is on the chain it saved last, with that chain's coins (FlushStateToDisk,
\* ReplayBlocks, LoadChainTip).
THEOREM Refinement == Spec => ImplementsDurableChain
<1>1. Init => Durable!DInit
  <2> SUFFICES ASSUME Init PROVE Durable!DInit
    OBVIOUS
  <2>1. Inv
    BY InitInv
  <2>2. Running = TRUE /\ chain = << >> /\ ActiveChain = << >> /\ SavedChain = << >>
    BY DEF Init, Running, ActiveChain, SavedChain
  <2>3. AllAnswers = StateOf(<< >>)
    BY <2>1, <2>2, AnswersOfChain
  <2>4. QED
    BY <2>2, <2>3 DEF Durable!DInit, ActiveChain, AllAnswers, SavedChain
<1>2. Inv => AllAnswers = StateOf(ActiveChain)
  BY AnswersOfChain
<1>3. Inv /\ AllAnswers = StateOf(ActiveChain) /\ (AllAnswers = StateOf(ActiveChain))' /\ [Next]_vars
        => [Durable!DNext]_(Durable!dvars)
  BY RefinementStep
<1>4. QED
  BY <1>1, <1>2, <1>3, InvHolds, PTL DEF Spec, ImplementsDurableChain, Durable!DSpec
=============================================================================
