------------------------------- MODULE Lemmas -------------------------------
(***************************************************************************)
(* What the theorems about several components rest on.                     *)
(*                                                                         *)
(* What the operations on one cache entry preserve: an entry that is right *)
(* about the layer below it (EntryFits) stays right, and what is answered  *)
(* through it changes as the operation says.                               *)
(*                                                                         *)
(* Trees of blocks: the ancestors of a block, their order and the steps    *)
(* from one to the next.                                                   *)
(*                                                                         *)
(* Sums of numbers over finite sets, as GetBalance adds up coins and the   *)
(* mortgage calculator adds up what was taken off.                         *)
(***************************************************************************)
EXTENDS Coins, BlockTree, Functions, TLAPS

\* The provers every step below is tried with, unless it names one.
USE SMT, Zenon, SMTT(20), ZenonT(40), SMTT(40)

-----------------------------------------------------------------------------
(* The operations on one cache entry.                                       *)

\* The values for "no entry" and "no record" are neither entries nor records.
LEMMA NoneDistinct ==
  /\ NoEntry \notin Entry
  /\ NoBind \notin BindInfo
  /\ NoEntry \notin BindInfo
BY DEF NoEntry, NoBind, Entry, Flags, BindInfo

\* The fields of the entry FetchCoin makes of a coin of the base.
LEMMA CleanEntryFacts ==
  ASSUME NEW c
  PROVE  /\ CleanEntry(c) # NoEntry
         /\ CleanEntry(c).coin = c
         /\ CleanEntry(c).spent = FALSE
         /\ CleanEntry(c).flags = {}
BY DEF CleanEntry, NoEntry

\* FetchCoin gives an entry or none.
LEMMA FetchType ==
  ASSUME NEW e \in CacheEntry, NEW c \in CoinOrNone
  PROVE  FetchCoin(e, c) \in CacheEntry
BY DEF FetchCoin, CacheEntry, CoinOrNone, Entry, Flags, CleanEntry

\* FetchCoin (a lookup that leaves a copy in the cache) keeps an entry right and
\* changes no answer.
LEMMA FetchFits ==
  ASSUME NEW o \in Outpoints, NEW e \in CacheEntry, NEW c \in CoinOrNone, NEW b \in BindOrNone,
         EntryFits(o, e, c, b)
  PROVE  /\ EntryFits(o, FetchCoin(e, c), c, b)
         /\ GetCoin(FetchCoin(e, c), c) = GetCoin(e, c)
         /\ GetBindPlotterEntry(o, FetchCoin(e, c), b) = GetBindPlotterEntry(o, e, b)
BY CoinsAssumption, NoneDistinct DEF FetchCoin, CacheEntry, CoinOrNone, Entry, Flags, CleanEntry, EntryFits, GetCoin, GetBindPlotterEntry, IsDirty

\* GetCoin and GetBindPlotterEntries answer with a coin and a record, or none.
LEMMA GetTypes ==
  ASSUME NEW o \in Outpoints, NEW e \in CacheEntry, NEW c \in CoinOrNone, NEW b \in BindOrNone
  PROVE  /\ GetCoin(e, c) \in CoinOrNone
         /\ GetBindPlotterEntry(o, e, b) \in BindOrNone
BY NoneDistinct DEF GetCoin, FetchCoin, CleanEntry, GetBindPlotterEntry, IsDirty,
   CacheEntry, CoinOrNone, BindOrNone, BindInfo, Entry

\* A right entry over a base whose bind record agrees with its coin gives answers
\* that agree: what GetLastBindPlotterCoin asserts, one layer up.
LEMMA FitsAgrees ==
  ASSUME NEW o \in Outpoints, NEW e \in CacheEntry, NEW c \in CoinOrNone, NEW b \in BindOrNone,
         EntryFits(o, e, c, b), BindAgrees(o, c, b)
  PROVE  BindAgrees(o, GetCoin(e, c), GetBindPlotterEntry(o, e, b))
<1>1. CASE ~IsDirty(e)
  <2>1. GetCoin(e, c) = c
    BY <1>1, CleanEntryFacts DEF GetCoin, FetchCoin, IsDirty, EntryFits
  <2>2. GetBindPlotterEntry(o, e, b) = b
    BY <1>1 DEF GetBindPlotterEntry
  <2>3. QED
    BY <2>1, <2>2
<1>2. CASE IsDirty(e) /\ ~e.spent
  <2>1. e \in Entry /\ e.coin \in Coin /\ e.coin # NoCoin
    BY <1>2, CoinsAssumption DEF IsDirty, CacheEntry, Entry
  <2>2. GetCoin(e, c) = e.coin
    BY <1>2 DEF IsDirty, GetCoin, FetchCoin
  <2>3. GetBindPlotterEntry(o, e, b) = IF BindCoin(o, e.coin) THEN [coin |-> e.coin, valid |-> TRUE] ELSE NoBind
    BY <1>2 DEF GetBindPlotterEntry
  <2>4. QED
    BY <2>1, <2>2, <2>3 DEF BindAgrees
<1>3. CASE IsDirty(e) /\ e.spent
  <2>1. GetCoin(e, c) = NoCoin
    BY <1>3 DEF IsDirty, GetCoin, FetchCoin
  <2>2. CASE "UNBIND" \notin e.flags
    BY <1>3, <2>1, <2>2 DEF BindAgrees, GetBindPlotterEntry
  <2>3. CASE "UNBIND" \in e.flags
    <3>1. BindCoin(o, e.coin) /\ e.coin.height >= BHDIP007Height
      BY <1>3, <2>3 DEF IsDirty, EntryFits
    <3>2. GetBindPlotterEntry(o, e, b) = [coin |-> e.coin, valid |-> FALSE]
      BY <1>3, <2>3, <3>1 DEF GetBindPlotterEntry
    <3>3. QED
      BY <2>1, <3>1, <3>2 DEF BindAgrees
  <2>4. QED
    BY <2>2, <2>3
<1>4. QED
  BY <1>1, <1>2, <1>3

\* AddCoin keeps an entry right for a caller that saw no unspent coin or says that
\* it may overwrite one, and the added coin and its bind record are the answers.
LEMMA AddFits ==
  ASSUME NEW o \in Outpoints, NEW e \in CacheEntry, NEW c \in CoinOrNone, NEW b \in BindOrNone,
         NEW n \in Coin, NEW overwrite \in BOOLEAN,
         EntryFits(o, e, c, b), BindAgrees(o, c, b),
         ~overwrite => /\ GetCoin(e, c) = NoCoin
                       /\ GetBindPlotterEntry(o, e, b) # NoBind => GetBindPlotterEntry(o, e, b).coin = n
  PROVE  LET f == AddCoin(o, e, n, overwrite)
         IN  /\ f \in CacheEntry
             /\ EntryFits(o, f, c, b)
             /\ GetCoin(f, c) = n
             /\ GetBindPlotterEntry(o, f, b) = IF BindCoin(o, n) THEN [coin |-> n, valid |-> TRUE] ELSE NoBind
<1> DEFINE f == AddCoin(o, e, n, overwrite)
<1>1. /\ f \in Entry /\ ~f.spent /\ f.coin = n
      /\ "DIRTY" \in f.flags /\ "UNBIND" \notin f.flags
  BY DEF AddCoin, AddedFlags, Entry, Flags
<1>2. "FRESH" \in f.flags => ~BindCoin(o, n) /\ (AddedFresh(o, e, overwrite) \/ (e # NoEntry /\ "FRESH" \in e.flags))
  BY DEF AddCoin, AddedFlags, Flags
<1>3. ASSUME e # NoEntry, "FRESH" \in e.flags PROVE c = NoCoin /\ b = NoBind
  BY <1>3 DEF EntryFits
<1>4. ASSUME AddedFresh(o, e, overwrite), ~BindCoin(o, n) PROVE c = NoCoin /\ b = NoBind
  <2>1. GetCoin(e, c) = NoCoin /\ (GetBindPlotterEntry(o, e, b) # NoBind => GetBindPlotterEntry(o, e, b).coin = n)
    BY <1>4 DEF AddedFresh
  <2>2. e = NoEntry
    <3>1. SUFFICES ASSUME e # NoEntry PROVE FALSE
      OBVIOUS
    <3>2. e = CleanEntry(c) /\ c \in Coin
      BY <1>4, <3>1 DEF AddedFresh, EntryFits, CoinOrNone
    <3>3. GetCoin(e, c) = c
      BY <3>1, <3>2 DEF GetCoin, FetchCoin, CleanEntry
    <3>4. QED
      BY <2>1, <3>2, <3>3, CoinsAssumption
  <2>3. c = NoCoin
    BY <2>1, <2>2, CleanEntryFacts DEF GetCoin, FetchCoin
  <2>4. GetBindPlotterEntry(o, e, b) = b
    BY <2>2 DEF GetBindPlotterEntry, IsDirty
  <2>5. QED
    BY <1>4, <2>1, <2>3, <2>4 DEF BindAgrees
<1>5. f # NoEntry
  BY <1>1, NoneDistinct
<1> HIDE DEF f
<1>6. EntryFits(o, f, c, b)
  BY <1>1, <1>2, <1>3, <1>4 DEF EntryFits
<1>7. GetCoin(f, c) = n
  BY <1>1, <1>5 DEF GetCoin, FetchCoin
<1>8. GetBindPlotterEntry(o, f, b) = IF BindCoin(o, n) THEN [coin |-> n, valid |-> TRUE] ELSE NoBind
  BY <1>1, <1>5 DEF GetBindPlotterEntry, IsDirty
<1>9. f \in CacheEntry
  BY <1>1 DEF CacheEntry
<1>10. QED
  BY <1>6, <1>7, <1>8, <1>9 DEF f

\* SpendCoin keeps an entry right; the coin is gone, and its bind record stays as
\* an unbind exactly when the spend is no rollback and the coin is BHDIP007's.
LEMMA SpendFits ==
  ASSUME NEW o \in Outpoints, NEW e \in CacheEntry, NEW c \in CoinOrNone, NEW b \in BindOrNone,
         NEW rollback \in BOOLEAN,
         EntryFits(o, e, c, b), BindAgrees(o, c, b), GetCoin(e, c) # NoCoin
  PROVE  LET f == SpendCoin(o, FetchCoin(e, c), rollback)
             g == GetCoin(e, c)
         IN  /\ f \in CacheEntry
             /\ EntryFits(o, f, c, b)
             /\ GetCoin(f, c) = NoCoin
             /\ GetBindPlotterEntry(o, f, b) =
                  IF ~rollback /\ BindCoin(o, g) /\ g.height >= BHDIP007Height
                  THEN [coin |-> g, valid |-> FALSE] ELSE NoBind
<1> DEFINE h == FetchCoin(e, c)
           f == SpendCoin(o, h, rollback)
           g == GetCoin(e, c)
           unbinds == ~rollback /\ BindCoin(o, g) /\ g.height >= BHDIP007Height
<1>1. h \in CacheEntry /\ EntryFits(o, h, c, b)
  BY FetchFits, FetchType
<1>2. h \in Entry /\ h # NoEntry /\ ~h.spent /\ h.coin = g /\ g \in Coin
  BY <1>1 DEF GetCoin, CacheEntry, Entry
<1> HIDE DEF h, g
<1>3. CASE unbinds
  <2>1. f = [h EXCEPT !.spent = TRUE, !.flags = (@ \cup {"DIRTY", "UNBIND"}) \ {"FRESH"}]
    BY <1>2, <1>3 DEF SpendCoin
  <2>2. /\ f \in Entry /\ f.spent /\ f.coin = g
        /\ "DIRTY" \in f.flags /\ "UNBIND" \in f.flags /\ "FRESH" \notin f.flags
    BY <1>2, <2>1 DEF Entry, Flags
  <2> HIDE DEF f
  <2>3. f # NoEntry /\ f \in CacheEntry
    BY <2>2, NoneDistinct DEF CacheEntry
  <2>4. EntryFits(o, f, c, b)
    BY <1>3, <2>2 DEF EntryFits
  <2>5. GetCoin(f, c) = NoCoin
    BY <2>2, <2>3 DEF GetCoin, FetchCoin
  <2>6. GetBindPlotterEntry(o, f, b) = [coin |-> g, valid |-> FALSE]
    BY <1>3, <2>2, <2>3 DEF GetBindPlotterEntry, IsDirty
  <2>7. QED
    BY <1>3, <2>3, <2>4, <2>5, <2>6 DEF f, h, g
<1>4. CASE ~unbinds /\ "FRESH" \in h.flags
  <2>1. f = NoEntry
    BY <1>2, <1>4 DEF SpendCoin
  <2>2. c = NoCoin /\ b = NoBind
    BY <1>1, <1>2, <1>4 DEF EntryFits
  <2> HIDE DEF f
  <2>3. f \in CacheEntry /\ EntryFits(o, f, c, b)
    BY <2>1 DEF CacheEntry, EntryFits
  <2>4. GetCoin(f, c) = NoCoin
    BY <2>1, <2>2 DEF GetCoin, FetchCoin
  <2>5. GetBindPlotterEntry(o, f, b) = NoBind
    BY <2>1, <2>2 DEF GetBindPlotterEntry, IsDirty
  <2>6. QED
    BY <1>4, <2>3, <2>4, <2>5 DEF f, h, g
<1>5. CASE ~unbinds /\ "FRESH" \notin h.flags
  <2>1. f = [h EXCEPT !.spent = TRUE, !.flags = (@ \cup {"DIRTY"}) \ {"UNBIND"}]
    BY <1>2, <1>5 DEF SpendCoin
  <2>2. f \in Entry /\ f.spent /\ f.flags = (h.flags \cup {"DIRTY"}) \ {"UNBIND"}
    BY <1>2, <2>1 DEF Entry, Flags
  <2> HIDE DEF f
  <2>3. f # NoEntry /\ f \in CacheEntry
    BY <2>2, NoneDistinct DEF CacheEntry
  <2>4. EntryFits(o, f, c, b)
    BY <1>5, <2>2 DEF EntryFits
  <2>5. GetCoin(f, c) = NoCoin
    BY <2>2, <2>3 DEF GetCoin, FetchCoin
  <2>6. GetBindPlotterEntry(o, f, b) = NoBind
    BY <2>2, <2>3 DEF GetBindPlotterEntry, IsDirty
  <2>7. QED
    BY <1>5, <2>3, <2>4, <2>5, <2>6 DEF f, h, g
<1>6. QED
  BY <1>3, <1>4, <1>5

\* CCoinsViewCache::BatchWrite keeps the parent's entry right and makes the
\* child's answers the parent's.
LEMMA BatchWriteFits ==
  ASSUME NEW o \in Outpoints, NEW e \in CacheEntry, NEW c \in CoinOrNone, NEW b \in BindOrNone,
         NEW k \in CacheEntry,
         EntryFits(o, e, c, b), BindAgrees(o, c, b),
         EntryFits(o, k, GetCoin(e, c), GetBindPlotterEntry(o, e, b))
  PROVE  LET f == BatchWrite(o, e, k)
         IN  /\ f \in CacheEntry
             /\ EntryFits(o, f, c, b)
             /\ GetCoin(f, c) = GetCoin(k, GetCoin(e, c))
             /\ GetBindPlotterEntry(o, f, b) = GetBindPlotterEntry(o, k, GetBindPlotterEntry(o, e, b))
<1> DEFINE f == BatchWrite(o, e, k)
           ec == GetCoin(e, c)
           eb == GetBindPlotterEntry(o, e, b)
<1>1. CASE ~IsDirty(k)
  <2>1. f = e
    BY <1>1 DEF BatchWrite
  <2>2. GetCoin(k, ec) = ec
    BY <1>1, CleanEntryFacts DEF EntryFits, IsDirty, GetCoin, FetchCoin
  <2>3. GetBindPlotterEntry(o, k, eb) = eb
    BY <1>1 DEF GetBindPlotterEntry
  <2>4. QED
    BY <2>1, <2>2, <2>3
<1>2. ASSUME IsDirty(k)
      PROVE  /\ GetCoin(k, ec) = IF k.spent THEN NoCoin ELSE k.coin
             /\ k # NoEntry /\ k \in Entry /\ k.coin \in Coin
  BY <1>2 DEF IsDirty, GetCoin, FetchCoin, CacheEntry, Entry
<1>3. CASE IsDirty(k) /\ e = NoEntry
  <2>1. ec = c /\ eb = b
    BY <1>3, CleanEntryFacts DEF GetCoin, FetchCoin, GetBindPlotterEntry, IsDirty
  <2>2. f = k
    BY <1>2, <1>3, <2>1 DEF BatchWrite, EntryFits
  <2>3. QED
    BY <2>1, <2>2
<1>4. CASE IsDirty(k) /\ e # NoEntry /\ "FRESH" \in e.flags /\ k.spent /\ ~BindCoin(o, k.coin)
  <2>1. f = NoEntry
    BY <1>4 DEF BatchWrite
  <2>2. c = NoCoin /\ b = NoBind
    BY <1>4 DEF EntryFits
  <2>3. GetCoin(f, c) = NoCoin /\ GetBindPlotterEntry(o, f, b) = NoBind
    BY <2>1, <2>2 DEF GetCoin, FetchCoin, GetBindPlotterEntry, IsDirty
  <2>4. GetBindPlotterEntry(o, k, eb) = NoBind
    BY <1>4 DEF GetBindPlotterEntry
  <2>5. QED
    BY <1>2, <1>4, <2>1, <2>3, <2>4 DEF CacheEntry, EntryFits
<1>5. CASE IsDirty(k) /\ e # NoEntry /\ ~("FRESH" \in e.flags /\ k.spent /\ ~BindCoin(o, k.coin))
  <2>1. f = [coin |-> k.coin, spent |-> k.spent, flags |-> MergedFlags(o, e, k)]
    BY <1>5 DEF BatchWrite
  <2>2. /\ MergedFlags(o, e, k) \in SUBSET Flags
        /\ "DIRTY" \in MergedFlags(o, e, k)
        /\ "UNBIND" \in MergedFlags(o, e, k) <=> "UNBIND" \in k.flags
        /\ "FRESH" \in MergedFlags(o, e, k) <=> "FRESH" \in e.flags /\ ~BindCoin(o, k.coin)
    BY DEF MergedFlags, Flags
  <2>3. f \in Entry /\ f # NoEntry /\ f.coin = k.coin /\ f.spent = k.spent /\ f.flags = MergedFlags(o, e, k)
    BY <1>2, <1>5, <2>1, <2>2, NoneDistinct DEF Entry
  <2> HIDE DEF f
  <2>4. EntryFits(o, f, c, b)
    <3>1. "FRESH" \in f.flags => ~f.spent /\ ~BindCoin(o, f.coin) /\ c = NoCoin /\ b = NoBind
      BY <1>2, <1>5, <2>2, <2>3 DEF EntryFits
    <3>2. "UNBIND" \in f.flags => f.spent /\ BindCoin(o, f.coin) /\ f.coin.height >= BHDIP007Height
      BY <1>2, <1>5, <2>2, <2>3 DEF EntryFits
    <3>3. QED
      BY <2>2, <2>3, <3>1, <3>2 DEF EntryFits
  <2>5. GetCoin(f, c) = GetCoin(k, ec)
    BY <1>2, <1>5, <2>3 DEF GetCoin, FetchCoin
  <2>6. GetBindPlotterEntry(o, f, b) = GetBindPlotterEntry(o, k, eb)
    BY <1>5, <2>2, <2>3 DEF GetBindPlotterEntry, IsDirty
  <2>7. QED
    BY <2>3, <2>4, <2>5, <2>6 DEF f, CacheEntry
<1>6. QED
  BY <1>1, <1>3, <1>4, <1>5

\* BatchWrite of an entry that is right about what the parent answers throws no
\* "FRESH flag misapplied" and fails no assertion.
LEMMA BatchWriteNoThrow ==
  ASSUME NEW o \in Outpoints, NEW e \in CacheEntry, NEW c \in CoinOrNone, NEW b, NEW k \in CacheEntry,
         EntryFits(o, k, GetCoin(e, c), b)
  PROVE  ~BatchWriteThrows(o, e, k)
<1> SUFFICES ASSUME BatchWriteThrows(o, e, k) PROVE FALSE
  OBVIOUS
<1>1. k # NoEntry /\ IsDirty(k)
  BY DEF BatchWriteThrows, IsDirty
<1>2. CASE e = NoEntry
  BY <1>1, <1>2 DEF BatchWriteThrows, EntryFits
<1>3. CASE e # NoEntry
  <2>1. "FRESH" \in k.flags /\ ~e.spent
    BY <1>1, <1>3 DEF BatchWriteThrows, EntryFits
  <2>2. GetCoin(e, c) = NoCoin
    BY <1>1, <2>1 DEF EntryFits
  <2>3. GetCoin(e, c) = e.coin /\ e.coin \in Coin
    BY <1>3, <2>1 DEF GetCoin, FetchCoin, CacheEntry, Entry
  <2>4. QED
    BY <2>2, <2>3, CoinsAssumption
<1>4. QED
  BY <1>2, <1>3

\* CCoinsViewDB::BatchWrite puts on disk what the cache answered.
LEMMA DiskWriteFits ==
  ASSUME NEW o \in Outpoints, NEW e \in CacheEntry, NEW c \in CoinOrNone, NEW b \in BindOrNone,
         EntryFits(o, e, c, b)
  PROVE  /\ WriteCoin(c, e) = GetCoin(e, c)
         /\ WriteBind(o, b, e) = GetBindPlotterEntry(o, e, b)
<1>1. CASE ~IsDirty(e)
  BY <1>1, CleanEntryFacts DEF EntryFits, IsDirty, GetCoin, FetchCoin, WriteCoin, WriteBind, GetBindPlotterEntry
<1>2. CASE IsDirty(e)
  <2>1. WriteCoin(c, e) = GetCoin(e, c)
    BY <1>2 DEF IsDirty, GetCoin, FetchCoin, WriteCoin
  <2>2. WriteBind(o, b, e) = GetBindPlotterEntry(o, e, b)
    BY <1>2 DEF WriteBind, GetBindPlotterEntry
  <2>3. QED
    BY <2>1, <2>2
<1>3. QED
  BY <1>1, <1>2

\* Uncache removes only what the base has: no answer changes.
LEMMA UncacheFits ==
  ASSUME NEW o \in Outpoints, NEW e \in CacheEntry, NEW c \in CoinOrNone, NEW b \in BindOrNone,
         NEW burn, EntryFits(o, e, c, b)
  PROVE  LET f == Uncache(e, burn)
         IN  /\ f \in CacheEntry
             /\ EntryFits(o, f, c, b)
             /\ GetCoin(f, c) = GetCoin(e, c)
             /\ GetBindPlotterEntry(o, f, b) = GetBindPlotterEntry(o, e, b)
<1>1. CASE Uncache(e, burn) = e
  BY <1>1
<1>2. CASE Uncache(e, burn) # e
  <2>1. Uncache(e, burn) = NoEntry /\ e # NoEntry /\ e.flags = {}
    BY <1>2 DEF Uncache
  <2>2. e = CleanEntry(c) /\ c # NoCoin
    BY <2>1 DEF EntryFits
  <2>3. GetCoin(NoEntry, c) = c /\ GetCoin(e, c) = c
    BY <2>1, <2>2, CleanEntryFacts DEF GetCoin, FetchCoin
  <2>4. GetBindPlotterEntry(o, e, b) = b /\ GetBindPlotterEntry(o, NoEntry, b) = b
    BY <2>1 DEF GetBindPlotterEntry, IsDirty
  <2>5. QED
    BY <2>1, <2>3, <2>4 DEF CacheEntry, EntryFits
<1>3. QED
  BY <1>1, <1>2

-----------------------------------------------------------------------------
(* Trees of blocks.                                                         *)

\* pprev of a block is a block, and the ancestors of a block are blocks.
LEMMA TreeTypes ==
  /\ Genesis \in Blk
  /\ \A b \in Blk \ {Genesis} : Parent[b] \in Blk
  /\ \A b \in Blk : Anc[b] \subseteq Blk
  BY BlockTreeAssumption DEF Anc

\* A block counts among its ancestors.
LEMMA AncSelf == \A b \in Blk : b \in Anc[b]
  BY DEF Anc

\* Following pprev does not leave the ancestors of a block.
LEMMA AncClosed ==
  ASSUME NEW b \in Blk, NEW a \in Anc[b], a # Genesis
  PROVE  Parent[a] \in Anc[b]
  BY TreeTypes DEF Anc, Closed

\* A set that pprev does not leave holds the ancestors of its blocks.
LEMMA AncLeast ==
  ASSUME NEW S \in SUBSET Blk, Closed(S), NEW b \in S
  PROVE  Anc[b] \subseteq S
  BY DEF Anc

\* An ancestor of an ancestor is one.
LEMMA AncTransitive ==
  ASSUME NEW b \in Blk, NEW a \in Anc[b]
  PROVE  Anc[a] \subseteq Anc[b]
<1>1. Anc[b] \in SUBSET Blk /\ Closed(Anc[b])
  BY TreeTypes, AncClosed DEF Closed
<1>. QED
  BY <1>1, AncLeast

\* The ancestors of a block are the block and those of the block before it.
LEMMA AncStep ==
  ASSUME NEW b \in Blk \ {Genesis}
  PROVE  Anc[b] = {b} \cup Anc[Parent[b]]
<1>. DEFINE p == Parent[b]
            S == {b} \cup Anc[p]
<1>1. p \in Blk
  BY TreeTypes
<1>2. S \in SUBSET Blk
  BY <1>1, TreeTypes
<1>3. Closed(S)
  <2>. SUFFICES ASSUME NEW c \in S \ {Genesis} PROVE Parent[c] \in S
    BY DEF Closed
  <2>1. CASE c = b
    BY <2>1, <1>1, AncSelf
  <2>2. CASE c \in Anc[p]
    BY <2>2, <1>1, AncClosed
  <2>. QED
    BY <2>1, <2>2
<1>4. Anc[b] \subseteq S
  BY <1>2, <1>3, AncLeast
<1>5. b \in Anc[b] /\ p \in Anc[b]
  BY AncSelf, AncClosed
<1>6. Anc[p] \subseteq Anc[b]
  BY <1>5, AncTransitive
<1>. QED
  BY <1>4, <1>5, <1>6

\* The genesis block is its only ancestor.
LEMMA AncGenesis == Anc[Genesis] = {Genesis}
<1>1. {Genesis} \in SUBSET Blk /\ Closed({Genesis})
  BY TreeTypes DEF Closed
<1>. QED
  BY <1>1, AncLeast, AncSelf, TreeTypes

\* Every chain starts with the genesis block.
LEMMA GenesisIsAnc == \A b \in Blk : Genesis \in Anc[b]
<1>. DEFINE S == {b \in Blk : Genesis \in Anc[b]}
<1>1. Genesis \in S
  BY TreeTypes, AncSelf
<1>2. ASSUME NEW b \in Blk \ {Genesis}, Parent[b] \in S PROVE b \in S
  BY <1>2, AncStep
<1>3. S = Blk
  <2>1. S \in SUBSET Blk
    OBVIOUS
  <2>. HIDE DEF S
  <2>. QED
    BY <1>1, <1>2, <2>1, BlockTreeAssumption
<1>. QED
  BY <1>3

\* No block is an ancestor of the block before it: pprev has no cycles.
LEMMA NotAncOfParent == \A b \in Blk \ {Genesis} : b \notin Anc[Parent[b]]
<1>. DEFINE S == {b \in Blk : b = Genesis \/ b \notin Anc[Parent[b]]}
<1>1. Genesis \in S
  BY TreeTypes
<1>2. ASSUME NEW b \in Blk \ {Genesis}, Parent[b] \in S PROVE b \in S
  <2>. DEFINE p == Parent[b]
  <2>1. SUFFICES ASSUME b \in Anc[p] PROVE FALSE
    OBVIOUS
  <2>2. p # Genesis
    BY <2>1, AncGenesis
  <2>3. p \in Blk \ {Genesis} /\ p \notin Anc[Parent[p]] /\ Parent[p] \in Blk
    BY <1>2, <2>2, TreeTypes
  <2>4. Anc[p] = {p} \cup Anc[Parent[p]]
    BY <2>3, AncStep
  <2>5. CASE b = p
    BY <2>5, <2>3, AncSelf
  <2>6. CASE b \in Anc[Parent[p]]
    <3>1. Parent[b] \in Anc[Parent[p]]
      BY <2>6, <2>3, AncClosed
    <3>. QED
      BY <3>1, <2>3
  <2>. QED
    BY <2>1, <2>4, <2>5, <2>6
<1>3. S = Blk
  <2>1. S \in SUBSET Blk
    OBVIOUS
  <2>. HIDE DEF S
  <2>. QED
    BY <1>1, <1>2, <2>1, BlockTreeAssumption
<1>. QED
  BY <1>3

\* A value for each block of a chain, that of a block made from that of the
\* block before it.
Follows(f, b, e, F) == \A a \in Anc[b] : f[a] = IF a = Genesis THEN e ELSE F[a][f[Parent[a]]]

\* The blocks of a chain have such values.
LEMMA FollowsExists ==
  ASSUME NEW e, NEW F
  PROVE  \A b \in Blk : \E f : Follows(f, b, e, F)
<1>. DEFINE S == {b \in Blk : \E f : Follows(f, b, e, F)}
<1>1. Genesis \in S
  <2>1. Follows([a \in Anc[Genesis] |-> e], Genesis, e, F)
    BY AncGenesis DEF Follows
  <2>. QED
    BY <2>1, TreeTypes
<1>2. ASSUME NEW b \in Blk \ {Genesis}, Parent[b] \in S PROVE b \in S
  <2>. DEFINE p == Parent[b]
  <2>1. PICK f : Follows(f, p, e, F)
    BY <1>2
  <2>2. p \in Blk /\ p \in Anc[p] /\ b \notin Anc[p] /\ Anc[b] = {b} \cup Anc[p]
    BY TreeTypes, AncSelf, NotAncOfParent, AncStep
  <2>. DEFINE g == [a \in Anc[b] |-> IF a = b THEN F[b][f[p]] ELSE f[a]]
  <2>3. ASSUME NEW a \in Anc[b] PROVE g[a] = IF a = Genesis THEN e ELSE F[a][g[Parent[a]]]
    <3>1. CASE a = b
      BY <2>2, <3>1
    <3>2. CASE a # b /\ a = Genesis
      BY <2>1, <2>2, <3>2 DEF Follows
    <3>3. CASE a # b /\ a # Genesis
      <4>1. a \in Anc[p] /\ Parent[a] \in Anc[p] /\ Parent[a] # b
        BY <2>2, <3>3, AncClosed
      <4>2. f[a] = F[a][f[Parent[a]]]
        BY <2>1, <3>3, <4>1 DEF Follows
      <4>. QED
        BY <2>2, <3>3, <4>1, <4>2
    <3>. QED
      BY <3>1, <3>2, <3>3
  <2>4. Follows(g, b, e, F)
    BY <2>3 DEF Follows
  <2>. QED
    BY <2>4
<1>3. S = Blk
  <2>1. S \in SUBSET Blk
    OBVIOUS
  <2>. HIDE DEF S
  <2>. QED
    BY <1>1, <1>2, <2>1, BlockTreeAssumption
<1>. QED
  BY <1>3

\* A block has the same value on every chain it is on.
LEMMA FollowsUnique ==
  ASSUME NEW e, NEW F
  PROVE  \A b \in Blk : \A c, d \in Blk : \A f, g :
           b \in Anc[c] /\ b \in Anc[d] /\ Follows(f, c, e, F) /\ Follows(g, d, e, F) => f[b] = g[b]
<1>. DEFINE P(b) == \A c, d \in Blk : \A f, g :
                      b \in Anc[c] /\ b \in Anc[d] /\ Follows(f, c, e, F) /\ Follows(g, d, e, F) => f[b] = g[b]
            S == {b \in Blk : P(b)}
<1>1. Genesis \in S
  BY TreeTypes DEF Follows
<1>2. ASSUME NEW b \in Blk \ {Genesis}, Parent[b] \in S PROVE b \in S
  <2>1. ASSUME NEW c \in Blk, NEW d \in Blk, NEW f, NEW g,
               b \in Anc[c], b \in Anc[d], Follows(f, c, e, F), Follows(g, d, e, F)
        PROVE  f[b] = g[b]
    <3>1. Parent[b] \in Anc[c] /\ Parent[b] \in Anc[d]
      BY <2>1, AncClosed
    <3>2. f[Parent[b]] = g[Parent[b]]
      BY <1>2, <2>1, <3>1
    <3>3. f[b] = F[b][f[Parent[b]]] /\ g[b] = F[b][g[Parent[b]]]
      BY <2>1 DEF Follows
    <3>. QED
      BY <3>2, <3>3
  <2>. QED
    BY <2>1
<1>3. S = Blk
  <2>1. S \in SUBSET Blk
    OBVIOUS
  <2>. HIDE DEF S
  <2>. QED
    BY <1>1, <1>2, <2>1, BlockTreeAssumption
<1>. QED
  BY <1>3

\* The values of all blocks.  What a block makes of the value before it is the
\* function F[b].
FollowsAll(h, e, F) == h = [b \in Blk |-> IF b = Genesis THEN e ELSE F[b][h[Parent[b]]]]

\* What is set by recursion along pprev is defined: the equation has a solution.
LEMMA TreeRecursion == ASSUME NEW e, NEW F PROVE \E h : FollowsAll(h, e, F)
<1>. DEFINE G(b) == CHOOSE f : Follows(f, b, e, F)
            h == [b \in Blk |-> G(b)[b]]
<1>1. \A b \in Blk : Follows(G(b), b, e, F)
  BY FollowsExists
<1>. HIDE DEF G
<1>2. ASSUME NEW b \in Blk PROVE h[b] = IF b = Genesis THEN e ELSE F[b][h[Parent[b]]]
  <2>1. G(b)[b] = IF b = Genesis THEN e ELSE F[b][G(b)[Parent[b]]]
    BY <1>1, AncSelf DEF Follows
  <2>2. ASSUME b # Genesis PROVE G(b)[Parent[b]] = G(Parent[b])[Parent[b]] /\ Parent[b] \in Blk
    <3>1. Parent[b] \in Blk /\ Parent[b] \in Anc[b] /\ Parent[b] \in Anc[Parent[b]]
      BY <2>2, TreeTypes, AncSelf, AncClosed
    <3>. QED
      BY <1>1, <3>1, FollowsUnique
  <2>. QED
    BY <2>1, <2>2
<1>3. h = [b \in Blk |-> IF b = Genesis THEN e ELSE F[b][h[Parent[b]]]]
  BY <1>2
<1>. QED
  BY <1>3 DEF FollowsAll

\* nHeight is defined: it satisfies the equation it is set by.
LEMMA HeightIsFix == nHeight = [b \in Blk |-> IF b = Genesis THEN 0 ELSE nHeight[Parent[b]] + 1]
<1>. DEFINE F == [b \in Blk |-> [n \in Nat |-> n + 1]]
<1>1. PICK h : FollowsAll(h, 0, F)
  BY TreeRecursion
<1>. DEFINE S == {b \in Blk : h[b] \in Nat}
<1>2. Genesis \in S
  BY <1>1, TreeTypes DEF FollowsAll
<1>3. ASSUME NEW b \in Blk \ {Genesis}, Parent[b] \in S PROVE b \in S /\ h[b] = h[Parent[b]] + 1
  BY <1>1, <1>3 DEF FollowsAll
<1>4. S = Blk
  <2>1. S \in SUBSET Blk
    OBVIOUS
  <2>. HIDE DEF S
  <2>. QED
    BY <1>2, <1>3, <2>1, BlockTreeAssumption
<1>5. ASSUME NEW b \in Blk PROVE h[b] = IF b = Genesis THEN 0 ELSE h[Parent[b]] + 1
  BY <1>2, <1>1, <1>3, <1>4, TreeTypes DEF FollowsAll
<1>6. h = [b \in Blk |-> IF b = Genesis THEN 0 ELSE h[Parent[b]] + 1]
  BY <1>1, <1>5 DEF FollowsAll
<1>. QED
  BY <1>6 DEF nHeight

\* The height is a natural number, and zero for the genesis block.
LEMMA HeightType ==
  /\ \A b \in Blk : Height(b) \in Nat
  /\ Height(Genesis) = 0
<1>. DEFINE S == {b \in Blk : Height(b) \in Nat}
<1>1. Genesis \in S /\ Height(Genesis) = 0
  BY TreeTypes, HeightIsFix DEF Height
<1>2. ASSUME NEW b \in Blk \ {Genesis}, Parent[b] \in S PROVE b \in S
  <2>1. nHeight[b] = nHeight[Parent[b]] + 1
    BY HeightIsFix
  <2>. QED
    BY <1>2, <2>1 DEF Height
<1>3. S = Blk
  <2>1. S \in SUBSET Blk
    OBVIOUS
  <2>. HIDE DEF S
  <2>. QED
    BY <1>1, <1>2, <2>1, BlockTreeAssumption
<1>. QED
  BY <1>1, <1>3

\* A block is one higher than the block before it.
LEMMA HeightStep ==
  ASSUME NEW b \in Blk \ {Genesis}
  PROVE  Height(b) = Height(Parent[b]) + 1
BY HeightIsFix DEF Height

\* Another ancestor of a block is one of the block before it.
LEMMA AncBelow ==
  ASSUME NEW b \in Blk, NEW a \in Anc[b], a # b
  PROVE  b # Genesis /\ a \in Anc[Parent[b]]
<1>1. b # Genesis
  BY AncGenesis
<1>. QED
  BY <1>1, AncStep

\* Two blocks are not ancestors of each other.
LEMMA AncAntisymmetric ==
  ASSUME NEW b \in Blk, NEW a \in Anc[b], b \in Anc[a]
  PROVE  a = b
<1>1. SUFFICES ASSUME a # b PROVE FALSE
  OBVIOUS
<1>2. b \in Blk \ {Genesis} /\ a \in Anc[Parent[b]] /\ Parent[b] \in Blk
  BY <1>1, AncBelow, TreeTypes
<1>3. b \in Anc[Parent[b]]
  BY <1>2, AncTransitive
<1>. QED
  BY <1>2, <1>3, NotAncOfParent

\* Another ancestor is strictly lower.
LEMMA HeightStrict ==
  ASSUME NEW b \in Blk, NEW a \in Anc[b], a # b
  PROVE  Height(a) < Height(b)
<1>. DEFINE S == {c \in Blk : \A d \in Anc[c] : d = c \/ Height(d) < Height(c)}
<1>1. Genesis \in S
  BY TreeTypes, AncGenesis
<1>2. ASSUME NEW c \in Blk \ {Genesis}, Parent[c] \in S PROVE c \in S
  <2>1. Anc[c] = {c} \cup Anc[Parent[c]] /\ Parent[c] \in Blk
    BY AncStep, TreeTypes
  <2>2. Height(c) = Height(Parent[c]) + 1
    BY HeightStep
  <2>3. ASSUME NEW d \in Anc[Parent[c]] PROVE Height(d) < Height(c)
    <3>1. d \in Blk /\ (d = Parent[c] \/ Height(d) < Height(Parent[c]))
      BY <1>2, <2>1, TreeTypes
    <3>2. Height(d) \in Nat /\ Height(c) \in Nat /\ Height(Parent[c]) \in Nat
      BY <2>1, <3>1, HeightType
    <3>. QED
      BY <2>2, <3>1, <3>2
  <2>. QED
    BY <2>1, <2>3
<1>3. S = Blk
  <2>1. S \in SUBSET Blk
    OBVIOUS
  <2>. HIDE DEF S
  <2>. QED
    BY <1>1, <1>2, <2>1, BlockTreeAssumption
<1>. QED
  BY <1>3

\* An ancestor is not higher, and as high only if it is the block itself.
LEMMA HeightMonotone ==
  ASSUME NEW b \in Blk, NEW a \in Anc[b]
  PROVE  Height(a) <= Height(b) /\ (Height(a) = Height(b) => Anc[a] = Anc[b])
<1>1. a \in Blk /\ Height(a) \in Nat /\ Height(b) \in Nat
  BY TreeTypes, HeightType
<1>2. a = b \/ Height(a) < Height(b)
  BY HeightStrict
<1>. QED
  BY <1>1, <1>2

\* A chain does not branch: of two ancestors of a block one is an ancestor of
\* the other.
LEMMA AncLinear ==
  \A b \in Blk : \A a, c \in Anc[b] : a \in Anc[c] \/ c \in Anc[a]
<1>. DEFINE S == {b \in Blk : \A a, c \in Anc[b] : a \in Anc[c] \/ c \in Anc[a]}
<1>1. Genesis \in S
  BY TreeTypes, AncGenesis, AncSelf
<1>2. ASSUME NEW b \in Blk \ {Genesis}, Parent[b] \in S PROVE b \in S
  <2>1. ASSUME NEW a \in Anc[b], NEW c \in Anc[b] PROVE a \in Anc[c] \/ c \in Anc[a]
    <3>1. CASE a = b \/ c = b
      BY <3>1
    <3>2. CASE a # b /\ c # b
      <4>1. a \in Anc[Parent[b]] /\ c \in Anc[Parent[b]]
        BY <3>2, AncStep
      <4>. QED
        BY <4>1, <1>2
    <3>. QED
      BY <3>1, <3>2
  <2>. QED
    BY <2>1
<1>3. S = Blk
  <2>1. S \in SUBSET Blk
    OBVIOUS
  <2>. HIDE DEF S
  <2>. QED
    BY <1>1, <1>2, <2>1, BlockTreeAssumption
<1>. QED
  BY <1>3

\* A chain has one block of a height.
LEMMA SameHeight ==
  ASSUME NEW b \in Blk, NEW a \in Anc[b], NEW c \in Anc[b], Height(a) = Height(c)
  PROVE  a = c
<1>1. a \in Blk /\ c \in Blk
  BY TreeTypes
<1>2. Height(a) \in Nat /\ Height(c) \in Nat
  BY <1>1, HeightType
<1>3. SUFFICES ASSUME a # c PROVE FALSE
  OBVIOUS
<1>4. CASE a \in Anc[c]
  BY <1>1, <1>2, <1>3, <1>4, HeightStrict
<1>5. CASE c \in Anc[a]
  BY <1>1, <1>2, <1>3, <1>5, HeightStrict
<1>. QED
  BY <1>4, <1>5, AncLinear

\* A chain has a block of every height up to that of its last block.
LEMMA EveryHeight ==
  \A b \in Blk : \A n \in 0..Height(b) : \E a \in Anc[b] : Height(a) = n
<1>. DEFINE S == {b \in Blk : \A n \in 0..Height(b) : \E a \in Anc[b] : Height(a) = n}
<1>1. Genesis \in S
  BY TreeTypes, AncSelf, HeightType
<1>2. ASSUME NEW b \in Blk \ {Genesis}, Parent[b] \in S PROVE b \in S
  <2>1. Height(b) = Height(Parent[b]) + 1 /\ Height(b) \in Nat /\ Height(Parent[b]) \in Nat
    BY HeightStep, HeightType, TreeTypes
  <2>2. ASSUME NEW n \in 0..Height(b) PROVE \E a \in Anc[b] : Height(a) = n
    <3>1. CASE n = Height(b)
      BY <3>1, AncSelf
    <3>2. CASE n # Height(b)
      <4>1. n \in 0..Height(Parent[b])
        BY <3>2, <2>1
      <4>2. PICK a \in Anc[Parent[b]] : Height(a) = n
        BY <4>1, <1>2
      <4>. QED
        BY <4>2, AncStep
    <3>. QED
      BY <3>1, <3>2
  <2>. QED
    BY <2>2
<1>3. S = Blk
  <2>1. S \in SUBSET Blk
    OBVIOUS
  <2>. HIDE DEF S
  <2>. QED
    BY <1>1, <1>2, <2>1, BlockTreeAssumption
<1>. QED
  BY <1>3

\* GetAncestor finds the block of a height on a chain, the only one there.
LEMMA AtHeightFacts ==
  ASSUME NEW b \in Blk, NEW n \in 0..Height(b)
  PROVE  /\ AtHeight(b, n) \in Anc[b]
         /\ AtHeight(b, n) \in Blk
         /\ Height(AtHeight(b, n)) = n
         /\ \A a \in Anc[b] : Height(a) = n => a = AtHeight(b, n)
<1>1. AtHeight(b, n) \in Anc[b] /\ Height(AtHeight(b, n)) = n
  BY EveryHeight DEF AtHeight
<1>. QED
  BY <1>1, SameHeight, TreeTypes

\* GetAncestor of the block's own height is the block, and of two heights one
\* apart it gives a block and the block before it.
LEMMA AtHeightStep ==
  ASSUME NEW b \in Blk
  PROVE  /\ AtHeight(b, Height(b)) = b
         /\ \A n \in 1..Height(b) : /\ AtHeight(b, n) # Genesis
                                    /\ Parent[AtHeight(b, n)] = AtHeight(b, n - 1)
<1>1. AtHeight(b, Height(b)) = b
  BY AtHeightFacts, AncSelf, HeightType
<1>2. ASSUME NEW n \in 1..Height(b)
      PROVE  AtHeight(b, n) # Genesis /\ Parent[AtHeight(b, n)] = AtHeight(b, n - 1)
  <2>. DEFINE a == AtHeight(b, n)
  <2>0. n \in 0..Height(b) /\ n - 1 \in 0..Height(b) /\ n # 0
    BY HeightType
  <2>1. a \in Anc[b] /\ a \in Blk /\ Height(a) = n
    BY <2>0, AtHeightFacts
  <2>2. a # Genesis
    BY <2>0, <2>1, HeightType
  <2>3. Parent[a] \in Anc[b] /\ Height(a) = Height(Parent[a]) + 1 /\ Height(Parent[a]) \in Nat
    BY <2>1, <2>2, AncClosed, HeightStep, HeightType, TreeTypes
  <2>4. Height(Parent[a]) = n - 1
    BY <2>1, <2>3
  <2>. QED
    BY <2>0, <2>2, <2>3, <2>4, AtHeightFacts
<1>. QED
  BY <1>1, <1>2

\* Two chains have the chain of one block in common.
LEMMA CommonChain ==
  \A t \in Blk : \A b \in Blk : \E m \in Blk : Anc[t] \cap Anc[b] = Anc[m]
<1>. SUFFICES ASSUME NEW b \in Blk
              PROVE  \A t \in Blk : \E m \in Blk : Anc[t] \cap Anc[b] = Anc[m]
  OBVIOUS
<1>. DEFINE S == {t \in Blk : \E m \in Blk : Anc[t] \cap Anc[b] = Anc[m]}
<1>1. Genesis \in S
  BY TreeTypes, AncGenesis, GenesisIsAnc
<1>2. ASSUME NEW t \in Blk \ {Genesis}, Parent[t] \in S PROVE t \in S
  <2>1. CASE t \in Anc[b]
    <3>1. Anc[t] \cap Anc[b] = Anc[t]
      BY <2>1, AncTransitive
    <3>. QED
      BY <3>1
  <2>2. CASE t \notin Anc[b]
    <3>1. Anc[t] \cap Anc[b] = Anc[Parent[t]] \cap Anc[b]
      BY <2>2, AncStep
    <3>. QED
      BY <3>1, <1>2
  <2>. QED
    BY <2>1, <2>2
<1>3. S = Blk
  <2>1. S \in SUBSET Blk
    OBVIOUS
  <2>. HIDE DEF S
  <2>. QED
    BY <1>1, <1>2, <2>1, BlockTreeAssumption
<1>. QED
  BY <1>3

\* The highest block of a chain is its last block.
LEMMA HighestOfChain ==
  ASSUME NEW m \in Blk
  PROVE  Highest(Anc[m]) = m
<1>. DEFINE Top(f) == f \in Anc[m] /\ \A c \in Anc[m] : Height(c) <= Height(f)
<1>1. Top(m)
  BY AncSelf, HeightMonotone
<1>2. ASSUME NEW f, Top(f) PROVE f = m
  <2>1. f \in Blk /\ Height(m) <= Height(f)
    BY <1>2, AncSelf, TreeTypes
  <2>. QED
    BY <1>2, <2>1, HeightStrict, HeightType
<1>. QED
  BY <1>1, <1>2 DEF Highest

\* FindFork gives the last block that two chains have in common: they share
\* exactly its chain.
LEMMA ForkFacts ==
  ASSUME NEW t \in Blk, NEW b \in Blk
  PROVE  /\ Fork(t, b) \in Blk
         /\ Fork(t, b) \in Anc[t]
         /\ Fork(t, b) \in Anc[b]
         /\ Anc[Fork(t, b)] = Anc[t] \cap Anc[b]
<1>1. PICK m \in Blk : Anc[t] \cap Anc[b] = Anc[m]
  BY CommonChain
<1>2. Fork(t, b) = m
  BY <1>1, HighestOfChain DEF Fork
<1>3. m \in Anc[m]
  BY AncSelf
<1>. QED
  BY <1>1, <1>2, <1>3

\* The fork with an ancestor is the ancestor.
LEMMA ForkOfAncestor ==
  ASSUME NEW t \in Blk, NEW b \in Anc[t]
  PROVE  Fork(t, b) = b
<1>1. b \in Blk /\ Anc[t] \cap Anc[b] = Anc[b]
  BY TreeTypes, AncTransitive
<1>. QED
  BY <1>1, HighestOfChain DEF Fork

\* CChain::Next: an ancestor of the tip other than the tip has exactly one
\* block of the chain on top of it.
LEMMA ChildOnChain ==
  ASSUME NEW t \in Blk, NEW a \in Anc[t]
  PROVE  /\ a # t => \E c \in Anc[t] \ {Genesis} : Parent[c] = a
         /\ \A c, d \in Anc[t] \ {Genesis} : Parent[c] = a /\ Parent[d] = a => c = d
         /\ a = t => \A c \in Anc[t] \ {Genesis} : Parent[c] # a
<1>0. a \in Blk
  BY TreeTypes
<1>1. ASSUME a # t PROVE \E c \in Anc[t] \ {Genesis} : Parent[c] = a
  <2>. DEFINE n == Height(a) + 1
  <2>1. n \in 1..Height(t) /\ n \in 0..Height(t) /\ n - 1 = Height(a) /\ Height(a) \in 0..Height(t)
    BY <1>0, <1>1, HeightStrict, HeightType
  <2>2. AtHeight(t, n) \in Anc[t] /\ AtHeight(t, n) # Genesis
        /\ Parent[AtHeight(t, n)] = AtHeight(t, n - 1)
    BY <2>1, AtHeightFacts, AtHeightStep
  <2>3. AtHeight(t, n - 1) = a
    BY <2>1, AtHeightFacts
  <2>. QED
    BY <2>2, <2>3
<1>2. ASSUME NEW c \in Anc[t] \ {Genesis}, NEW d \in Anc[t] \ {Genesis}, Parent[c] = a, Parent[d] = a
      PROVE  c = d
  <2>1. c \in Blk \ {Genesis} /\ d \in Blk \ {Genesis}
    BY TreeTypes
  <2>2. Height(c) = Height(d)
    BY <1>2, <2>1, HeightStep
  <2>. QED
    BY <2>2, SameHeight
<1>3. ASSUME a = t, NEW c \in Anc[t] \ {Genesis}, Parent[c] = a PROVE FALSE
  <2>1. c \in Blk \ {Genesis}
    BY TreeTypes
  <2>2. Height(c) = Height(t) + 1 /\ Height(c) <= Height(t)
    BY <1>3, <2>1, HeightStep, HeightMonotone
  <2>. QED
    BY <2>2, HeightType
<1>. QED
  BY <1>1, <1>2, <1>3

-----------------------------------------------------------------------------
(* Finite sets, by the induction that holds for them.                       *)

\* What holds of the empty set, and of a part of S with one more element when it
\* holds of the part, holds of S.
Finite(S) ==
  \A Z \in SUBSET SUBSET S :
    {} \in Z /\ (\A s \in Z : \A x \in S : s \cup {x} \in Z) => S \in Z

\* A set of subsets of D that holds the empty set and a set with one more
\* element when it holds a set holds them all.
LEMMA FiniteGrowth ==
  ASSUME NEW D, Finite(D), NEW Z, {} \in Z,
         \A s \in SUBSET D : \A x \in D \ s : s \in Z => s \cup {x} \in Z
  PROVE  D \in Z
<1>. DEFINE W == {s \in SUBSET D : s \in Z}
<1>1. W \in SUBSET SUBSET D /\ {} \in W
  OBVIOUS
<1>2. ASSUME NEW s \in W, NEW x \in D
      PROVE  s \cup {x} \in W
  <2>1. CASE x \in s
    <3>1. s \cup {x} = s
      BY <2>1
    <3>. QED
      BY <3>1
  <2>2. CASE x \notin s
    BY <2>2
  <2>. QED
    BY <2>1, <2>2
<1>3. D \in W
  <2>. HIDE DEF W
  <2>. QED
    BY <1>1, <1>2 DEF Finite
<1>. QED
  BY <1>3

\* Part of a finite set is finite.
LEMMA FiniteSubset ==
  ASSUME NEW D, Finite(D), NEW E \in SUBSET D
  PROVE  Finite(E)
<1>. SUFFICES ASSUME NEW Z \in SUBSET SUBSET E, {} \in Z, \A s \in Z : \A x \in E : s \cup {x} \in Z
              PROVE  E \in Z
  BY DEF Finite
<1>. DEFINE W == {s \in SUBSET D : s \cap E \in Z}
<1>1. {} \in W
  <2>1. {} \cap E = {}
    OBVIOUS
  <2>. QED
    BY <2>1
<1>2. ASSUME NEW s \in SUBSET D, NEW x \in D \ s, s \in W
      PROVE  s \cup {x} \in W
  <2>1. CASE x \in E
    <3>1. (s \cup {x}) \cap E = (s \cap E) \cup {x}
      BY <2>1
    <3>. QED
      BY <1>2, <2>1, <3>1
  <2>2. CASE x \notin E
    <3>1. (s \cup {x}) \cap E = s \cap E
      BY <2>2
    <3>. QED
      BY <1>2, <3>1
  <2>. QED
    BY <2>1, <2>2
<1>3. D \in W
  <2>. HIDE DEF W
  <2>. QED
    BY <1>1, <1>2, FiniteGrowth
<1>4. D \cap E = E
  OBVIOUS
<1>. QED
  BY <1>3, <1>4

\* A set of subsets of D that holds a subset when it holds all smaller ones
\* holds them all.
LEMMA FiniteInduction ==
  ASSUME NEW D, Finite(D), NEW Z,
         \A s \in SUBSET D :
           (\A t \in SUBSET D : t \subseteq s /\ t # s => t \in Z) => s \in Z
  PROVE  SUBSET D \subseteq Z
<1>. DEFINE Inductive(Y) == \A s \in SUBSET D : (\A t \in SUBSET D : t \subseteq s /\ t # s => t \in Y) => s \in Y
            W == {s \in SUBSET D : \A Y \in SUBSET SUBSET D : Inductive(Y) => SUBSET s \subseteq Y}
<1>1. {} \in W
  <2>. SUFFICES ASSUME NEW Y \in SUBSET SUBSET D, Inductive(Y)
                PROVE  {} \in Y
    OBVIOUS
  <2>1. \A t \in SUBSET D : t \subseteq {} /\ t # {} => t \in Y
    OBVIOUS
  <2>. QED
    BY <2>1
<1>2. ASSUME NEW s \in SUBSET D, NEW x \in D \ s, s \in W
      PROVE  s \cup {x} \in W
  <2>. SUFFICES ASSUME NEW Y \in SUBSET SUBSET D, Inductive(Y)
                PROVE  SUBSET (s \cup {x}) \subseteq Y
    OBVIOUS
  <2>1. SUBSET s \subseteq Y
    BY <1>2
  <2>. DEFINE Q == {u \in SUBSET D : u \subseteq s => u \cup {x} \in Y}
  <2>2. ASSUME NEW u \in SUBSET D, \A t \in SUBSET D : t \subseteq u /\ t # u => t \in Q
        PROVE  u \in Q
    <3>. SUFFICES ASSUME u \subseteq s
                  PROVE  u \cup {x} \in Y
      OBVIOUS
    <3>1. ASSUME NEW t \in SUBSET D, t \subseteq u \cup {x}, t # u \cup {x}
          PROVE  t \in Y
      <4>1. CASE x \notin t
        <5>1. t \in SUBSET s
          BY <3>1, <4>1
        <5>. QED
          BY <2>1, <5>1
      <4>2. CASE x \in t
        <5>. DEFINE w == t \ {x}
        <5>1. w \in SUBSET D /\ w \subseteq u /\ w \cup {x} = t
          BY <3>1, <4>2
        <5>2. w # u
          BY <3>1, <5>1
        <5>. HIDE DEF w
        <5>3. w \in Q /\ w \subseteq s
          BY <2>2, <5>1, <5>2
        <5>. QED
          BY <5>1, <5>3
      <4>. QED
        BY <4>1, <4>2
    <3>2. u \cup {x} \in SUBSET D
      OBVIOUS
    <3>. QED
      BY <3>1, <3>2
  <2>3. Q \in SUBSET SUBSET D /\ Inductive(Q)
    <3>. HIDE DEF Q
    <3>1. Inductive(Q)
      BY <2>2
    <3>. QED
      BY <3>1 DEF Q
  <2>4. SUBSET s \subseteq Q
    <3>. HIDE DEF Q, Inductive
    <3>. QED
      BY <1>2, <2>3
  <2>5. ASSUME NEW t \in SUBSET (s \cup {x})
        PROVE  t \in Y
    <3>1. CASE x \notin t
      <4>1. t \in SUBSET s
        BY <3>1
      <4>. QED
        BY <2>1, <4>1
    <3>2. CASE x \in t
      <4>1. t \ {x} \in SUBSET s /\ (t \ {x}) \cup {x} = t
        BY <3>2
      <4>2. t \ {x} \in Q
        BY <2>4, <4>1
      <4>3. (t \ {x}) \cup {x} \in Y
        BY <4>2
      <4>. QED
        BY <4>1, <4>3
    <3>. QED
      BY <3>1, <3>2
  <2>. QED
    BY <2>5
<1>3. D \in W
  <2>. HIDE DEF W
  <2>. QED
    BY <1>1, <1>2, FiniteGrowth
<1>. DEFINE Y == {s \in SUBSET D : s \in Z}
<1>4. Y \in SUBSET SUBSET D /\ Inductive(Y)
  OBVIOUS
<1>5. SUBSET D \subseteq Y
  <2>. HIDE DEF Y, Inductive
  <2>. QED
    BY <1>3, <1>4
<1>. QED
  BY <1>5

-----------------------------------------------------------------------------
(* The sum of a function over a finite set.                                 *)

Pick(s) == CHOOSE x \in s : TRUE

\* One step of the recursion that SumFunctionOnSet is defined by
Step(f, D, g) == [s \in SUBSET D |-> IF s = {} THEN 0 ELSE f[Pick(s)] + g[s \ {Pick(s)}]]
Fix(f, D) == CHOOSE g : g = Step(f, D, g)

\* The sum is the value of that recursion.
LEMMA SumIsFix ==
  ASSUME NEW f, NEW D
  PROVE  SumFunctionOnSet(f, D) = Fix(f, D)[D]
BY DEF SumFunctionOnSet, FoldFunctionOnSet, MapThenFoldSet, Fix, Step, Pick

\* The element that the recursion takes next is one of the set.
LEMMA PickFacts ==
  ASSUME NEW s, s # {}
  PROVE  Pick(s) \in s /\ s \ {Pick(s)} \subseteq s /\ s \ {Pick(s)} # s
BY DEF Pick

\* The function g follows the recursion on the parts of D.
Solves(f, D, g) ==
  \A s \in SUBSET D : g[s] = IF s = {} THEN 0 ELSE f[Pick(s)] + g[s \ {Pick(s)}]

\* Two solutions of the recursion agree where both are defined.
LEMMA StepAgrees ==
  ASSUME NEW f, NEW D, Finite(D), NEW g, Solves(f, D, g), NEW h, Solves(f, D, h)
  PROVE  \A s \in SUBSET D : g[s] = h[s]
<1>. DEFINE Z == {s \in SUBSET D : g[s] = h[s]}
<1>1. ASSUME NEW s \in SUBSET D, \A t \in SUBSET D : t \subseteq s /\ t # s => t \in Z
      PROVE  s \in Z
  <2>1. CASE s = {}
    BY <2>1 DEF Solves
  <2>2. CASE s # {}
    <3>1. s \ {Pick(s)} \in Z
      BY <1>1, <2>2, PickFacts
    <3>2. g[s \ {Pick(s)}] = h[s \ {Pick(s)}]
      BY <3>1
    <3>3. g[s] = f[Pick(s)] + g[s \ {Pick(s)}] /\ h[s] = f[Pick(s)] + h[s \ {Pick(s)}]
      BY <2>2 DEF Solves
    <3>4. g[s] = h[s]
      BY <3>2, <3>3
    <3>. QED
      BY <3>4
  <2>. QED
    BY <2>1, <2>2
<1>. HIDE DEF Z
<1>2. SUBSET D \subseteq Z
  BY <1>1, FiniteInduction
<1>. QED
  BY <1>2 DEF Z

\* The recursion has a solution: it is built up from smaller sets.
LEMMA FixExists ==
  ASSUME NEW f, NEW D, Finite(D)
  PROVE  Fix(f, D) = Step(f, D, Fix(f, D))
<1>. DEFINE v == [s \in SUBSET D |-> (CHOOSE g : Solves(f, s, g))[s]]
            Z == {s \in SUBSET D : Solves(f, s, v)}
<1>1. ASSUME NEW s \in SUBSET D, NEW g, Solves(f, s, g)
      PROVE  v[s] = g[s]
  <2>. DEFINE h == CHOOSE i : Solves(f, s, i)
  <2>1. Solves(f, s, h)
    BY <1>1
  <2>2. Finite(s)
    BY FiniteSubset
  <2>3. v[s] = h[s]
    OBVIOUS
  <2>. HIDE DEF h, v
  <2>4. \A t \in SUBSET s : g[t] = h[t]
    BY <1>1, <2>1, <2>2, StepAgrees
  <2>. QED
    BY <2>3, <2>4
<1>. HIDE DEF v
<1>2. ASSUME NEW s \in SUBSET D, \A t \in SUBSET D : t \subseteq s /\ t # s => t \in Z
      PROVE  s \in Z
  <2>. DEFINE g == [t \in SUBSET D |-> IF t = s THEN (IF s = {} THEN 0 ELSE f[Pick(s)] + v[s \ {Pick(s)}]) ELSE v[t]]
  <2>1. \A t \in SUBSET s : t # s => Solves(f, t, v)
    BY <1>2
  <2>2. ASSUME NEW t \in SUBSET s
        PROVE  g[t] = IF t = {} THEN 0 ELSE f[Pick(t)] + g[t \ {Pick(t)}]
    <3>1. t \in SUBSET D /\ (t # {} => t \ {Pick(t)} \in SUBSET D /\ t \ {Pick(t)} # t /\ t \ {Pick(t)} # s)
      BY PickFacts
    <3>2. CASE t = s
      BY <3>1, <3>2
    <3>3. CASE t # s
      <4>1. v[t] = IF t = {} THEN 0 ELSE f[Pick(t)] + v[t \ {Pick(t)}]
        <5>1. Solves(f, t, v)
          BY <2>1, <3>3
        <5>. QED
          BY <5>1 DEF Solves
      <4>2. g[t] = v[t] /\ (t # {} => g[t \ {Pick(t)}] = v[t \ {Pick(t)}])
        BY <3>1, <3>3
      <4>. HIDE DEF g
      <4>. QED
        BY <4>1, <4>2
    <3>. QED
      BY <3>2, <3>3
  <2>3. g[s] = IF s = {} THEN 0 ELSE f[Pick(s)] + v[s \ {Pick(s)}]
    OBVIOUS
  <2>. HIDE DEF g
  <2>4. Solves(f, s, g)
    BY <2>2 DEF Solves
  <2>5. v[s] = g[s]
    BY <1>1, <2>4
  <2>6. v[s] = IF s = {} THEN 0 ELSE f[Pick(s)] + v[s \ {Pick(s)}]
    BY <2>3, <2>5
  <2>7. ASSUME NEW t \in SUBSET s
        PROVE  v[t] = IF t = {} THEN 0 ELSE f[Pick(t)] + v[t \ {Pick(t)}]
    <3>1. CASE t = s
      BY <2>6, <3>1
    <3>2. CASE t # s
      <4>1. Solves(f, t, v)
        BY <2>1, <3>2
      <4>. QED
        BY <4>1 DEF Solves
    <3>. QED
      BY <3>1, <3>2
  <2>8. Solves(f, s, v)
    BY <2>7 DEF Solves
  <2>. QED
    BY <2>8
<1>3. SUBSET D \subseteq Z
  <2>. HIDE DEF Z
  <2>. QED
    BY <1>2, FiniteInduction
<1>4. Solves(f, D, v)
  BY <1>3
<1>. DEFINE w == [s \in SUBSET D |-> v[s]]
<1>5. w = Step(f, D, w)
  <2>1. \A s \in SUBSET D : w[s] = Step(f, D, w)[s]
    <3>. SUFFICES ASSUME NEW s \in SUBSET D
                  PROVE  w[s] = IF s = {} THEN 0 ELSE f[Pick(s)] + w[s \ {Pick(s)}]
      BY DEF Step
    <3>. QED
      BY <1>4 DEF Solves
  <2>. QED
    BY <2>1 DEF Step
<1>. HIDE DEF w
<1>. QED
  BY <1>5 DEF Fix

\* The sum takes one element off the set and goes on with the others.
LEMMA SumUnfold ==
  ASSUME NEW f, NEW S, Finite(S)
  PROVE  SumFunctionOnSet(f, S) =
           IF S = {} THEN 0 ELSE f[Pick(S)] + SumFunctionOnSet(f, S \ {Pick(S)})
<1>. DEFINE R == S \ {Pick(S)}
            g == Fix(f, S)
            h == Fix(f, R)
<1>1. Solves(f, S, g)
  <2>1. g = Step(f, S, g)
    BY FixExists
  <2>. HIDE DEF g
  <2>2. \A s \in SUBSET S : Step(f, S, g)[s] = IF s = {} THEN 0 ELSE f[Pick(s)] + g[s \ {Pick(s)}]
    BY DEF Step
  <2>. QED
    BY <2>1, <2>2 DEF Solves
<1>2. R \in SUBSET S /\ Finite(R)
  BY FiniteSubset
<1>3. Solves(f, R, h)
  <2>1. h = Step(f, R, h)
    BY <1>2, FixExists
  <2>. HIDE DEF h
  <2>2. \A s \in SUBSET R : Step(f, R, h)[s] = IF s = {} THEN 0 ELSE f[Pick(s)] + h[s \ {Pick(s)}]
    BY DEF Step
  <2>. QED
    BY <2>1, <2>2 DEF Solves
<1>4. SumFunctionOnSet(f, S) = g[S] /\ SumFunctionOnSet(f, R) = h[R]
  BY SumIsFix
<1>. HIDE DEF g, h
<1>5. g[R] = h[R]
  <2>. HIDE DEF R
  <2>1. Solves(f, R, g)
    BY <1>1, <1>2 DEF Solves
  <2>2. \A s \in SUBSET R : g[s] = h[s]
    BY <1>2, <1>3, <2>1, StepAgrees
  <2>. QED
    BY <2>2
<1>6. g[S] = IF S = {} THEN 0 ELSE f[Pick(S)] + g[R]
  BY <1>1 DEF Solves
<1>. QED
  BY <1>4, <1>5, <1>6

\* The sum over no element at all is zero.
LEMMA SumEmpty ==
  ASSUME NEW f
  PROVE  SumFunctionOnSet(f, {}) = 0
<1>1. Finite({})
  BY DEF Finite
<1>. QED
  BY <1>1, SumUnfold

\* The sum of integers is an integer.
LEMMA SumType ==
  ASSUME NEW D, Finite(D), NEW f, \A x \in D : f[x] \in Int
  PROVE  \A s \in SUBSET D : SumFunctionOnSet(f, s) \in Int
<1>. DEFINE Z == {s \in SUBSET D : SumFunctionOnSet(f, s) \in Int}
<1>1. ASSUME NEW s \in SUBSET D,
             \A t \in SUBSET D : t \subseteq s /\ t # s => t \in Z
      PROVE  s \in Z
  <2>1. Finite(s)
    BY FiniteSubset
  <2>2. CASE s = {}
    BY <2>1, <2>2, SumUnfold
  <2>3. CASE s # {}
    <3>1. Pick(s) \in s /\ s \ {Pick(s)} \subseteq s /\ s \ {Pick(s)} # s
      BY <2>3, PickFacts
    <3>2. SumFunctionOnSet(f, s \ {Pick(s)}) \in Int
      BY <1>1, <3>1
    <3>3. f[Pick(s)] \in Int
      BY <3>1
    <3>4. SumFunctionOnSet(f, s) = f[Pick(s)] + SumFunctionOnSet(f, s \ {Pick(s)})
      BY <2>1, <2>3, SumUnfold
    <3>. QED
      BY <3>2, <3>3, <3>4
  <2>. QED
    BY <2>2, <2>3
<1>. HIDE DEF Z
<1>2. SUBSET D \subseteq Z
  BY <1>1, FiniteInduction
<1>. QED
  BY <1>2 DEF Z

\* The order in which elements are taken does not matter.
LEMMA SumRemove ==
  ASSUME NEW D, Finite(D), NEW f, \A x \in D : f[x] \in Int,
         NEW u \in SUBSET D, NEW y \in u
  PROVE  SumFunctionOnSet(f, u) = f[y] + SumFunctionOnSet(f, u \ {y})
<1>. DEFINE F(s) == SumFunctionOnSet(f, s)
            Z == {s \in SUBSET D : \A x \in s : F(s) = f[x] + F(s \ {x})}
<1>1. \A s \in SUBSET D : F(s) \in Int
  BY SumType
<1>2. \A s \in SUBSET D : Finite(s)
  BY FiniteSubset
<1>3. \A s \in SUBSET D : s # {} => Pick(s) \in s /\ F(s) = f[Pick(s)] + F(s \ {Pick(s)})
  BY <1>2, PickFacts, SumUnfold
<1>4. \A s \in SUBSET D : \A x \in s : s \ {x} \in SUBSET D /\ s \ {x} \subseteq s /\ s \ {x} # s
  OBVIOUS
<1>. HIDE DEF F
<1>5. ASSUME NEW s \in SUBSET D,
             \A t \in SUBSET D : t \subseteq s /\ t # s => t \in Z
      PROVE  s \in Z
  <2>. SUFFICES ASSUME NEW x \in s
                PROVE  F(s) = f[x] + F(s \ {x})
    OBVIOUS
  <2>. DEFINE p == Pick(s)
  <2>1. p \in s /\ F(s) = f[p] + F(s \ {p})
    BY <1>3
  <2>. HIDE DEF p
  <2>2. CASE x = p
    BY <2>1, <2>2
  <2>3. CASE x # p
    <3>1. s \ {p} \in Z /\ s \ {x} \in Z
      BY <1>4, <1>5, <2>1
    <3>2. F(s \ {p}) = f[x] + F((s \ {p}) \ {x})
      BY <2>3, <3>1
    <3>3. F(s \ {x}) = f[p] + F((s \ {x}) \ {p})
      BY <2>1, <2>3, <3>1
    <3>4. (s \ {x}) \ {p} = (s \ {p}) \ {x} /\ (s \ {p}) \ {x} \in SUBSET D
      OBVIOUS
    <3>5. F((s \ {p}) \ {x}) \in Int /\ f[x] \in Int /\ f[p] \in Int
      BY <1>1, <2>1, <3>4
    <3>6. PICK r \in Int : r = F((s \ {p}) \ {x})
      BY <3>5
    <3>7. F(s) = f[p] + (f[x] + r)
      BY <2>1, <3>2, <3>6
    <3>8. F(s \ {x}) = f[p] + r
      BY <3>3, <3>4, <3>6
    <3>. QED
      BY <3>5, <3>7, <3>8
  <2>. QED
    BY <2>2, <2>3
<1>. HIDE DEF Z
<1>6. SUBSET D \subseteq Z
  BY <1>5, FiniteInduction
<1>7. u \in Z
  BY <1>6
<1>. QED
  BY <1>7 DEF Z, F

\* One more element adds its value.
LEMMA SumInsert ==
  ASSUME NEW D, Finite(D), NEW f, \A x \in D : f[x] \in Int,
         NEW s \in SUBSET D, NEW y \in D \ s
  PROVE  SumFunctionOnSet(f, s \cup {y}) = f[y] + SumFunctionOnSet(f, s)
<1>1. s \cup {y} \in SUBSET D /\ y \in s \cup {y} /\ (s \cup {y}) \ {y} = s
  OBVIOUS
<1>2. SumFunctionOnSet(f, s \cup {y}) = f[y] + SumFunctionOnSet(f, (s \cup {y}) \ {y})
  BY <1>1, SumRemove
<1>. QED
  BY <1>1, <1>2

\* The sum over the sets that grow from the empty one.
LEMMA SumAdd ==
  ASSUME NEW D, Finite(D), NEW f, \A x \in D : f[x] \in Int
  PROVE  /\ SumFunctionOnSet(f, {}) = 0
         /\ \A s \in SUBSET D : \A x \in D \ s :
              SumFunctionOnSet(f, s \cup {x}) = f[x] + SumFunctionOnSet(f, s)
<1>1. SumFunctionOnSet(f, {}) = 0
  BY SumEmpty
<1>2. ASSUME NEW s \in SUBSET D, NEW x \in D \ s
      PROVE  SumFunctionOnSet(f, s \cup {x}) = f[x] + SumFunctionOnSet(f, s)
  BY SumInsert
<1>. QED
  BY <1>1, <1>2

\* The sum over two disjoint sets.
LEMMA SumDisjoint ==
  ASSUME NEW D, Finite(D), NEW f, \A x \in D : f[x] \in Int,
         NEW A \in SUBSET D, NEW B \in SUBSET D, A \cap B = {}
  PROVE  SumFunctionOnSet(f, A \cup B) = SumFunctionOnSet(f, A) + SumFunctionOnSet(f, B)
<1>. DEFINE F(s) == SumFunctionOnSet(f, s)
            Z == {s \in SUBSET B : F(A \cup s) = F(A) + F(s)}
<1>1. \A s \in SUBSET D : F(s) \in Int
  BY SumType
<1>2. F({}) = 0 /\ \A s \in SUBSET D : \A x \in D \ s : F(s \cup {x}) = f[x] + F(s)
  BY SumAdd
<1>. HIDE DEF F
<1>3. {} \in Z
  BY <1>1, <1>2
<1>4. ASSUME NEW s \in SUBSET B, NEW x \in B \ s, s \in Z
      PROVE  s \cup {x} \in Z
  <2>1. A \cup s \in SUBSET D /\ x \in D \ (A \cup s) /\ x \in D \ s /\ s \in SUBSET D
    OBVIOUS
  <2>2. F(A \cup s \cup {x}) = f[x] + F(A \cup s)
    BY <1>2, <2>1
  <2>3. F(s \cup {x}) = f[x] + F(s)
    BY <1>2, <2>1
  <2>4. F(A \cup s) = F(A) + F(s)
    BY <1>4
  <2>5. F(A) \in Int /\ F(s) \in Int /\ f[x] \in Int
    BY <1>1, <2>1
  <2>6. F(A \cup s \cup {x}) = F(A) + F(s \cup {x})
    BY <2>2, <2>3, <2>4, <2>5
  <2>7. A \cup (s \cup {x}) = A \cup s \cup {x}
    OBVIOUS
  <2>. QED
    BY <2>6, <2>7
<1>. HIDE DEF Z
<1>5. B \in Z
  <2>1. Finite(B)
    BY FiniteSubset
  <2>. QED
    BY <1>3, <1>4, <2>1, FiniteGrowth
<1>. QED
  BY <1>5 DEF Z, F

\* A sum of smaller terms is smaller.
LEMMA SumMonotone ==
  ASSUME NEW D, Finite(D), NEW f, NEW g,
         \A x \in D : f[x] \in Int /\ g[x] \in Int /\ f[x] <= g[x]
  PROVE  SumFunctionOnSet(f, D) <= SumFunctionOnSet(g, D)
<1>. DEFINE F(s) == SumFunctionOnSet(f, s)
            G(s) == SumFunctionOnSet(g, s)
            Z == {s \in SUBSET D : F(s) <= G(s)}
<1>1. \A s \in SUBSET D : F(s) \in Int
  BY SumType
<1>2. \A s \in SUBSET D : G(s) \in Int
  BY SumType
<1>3. F({}) = 0 /\ \A s \in SUBSET D : \A x \in D \ s : F(s \cup {x}) = f[x] + F(s)
  BY SumAdd
<1>4. G({}) = 0 /\ \A s \in SUBSET D : \A x \in D \ s : G(s \cup {x}) = g[x] + G(s)
  BY SumAdd
<1>. HIDE DEF F, G
<1>5. {} \in Z
  BY <1>3, <1>4
<1>6. ASSUME NEW s \in SUBSET D, NEW x \in D \ s, s \in Z
      PROVE  s \cup {x} \in Z
  <2>1. F(s \cup {x}) = f[x] + F(s) /\ G(s \cup {x}) = g[x] + G(s)
    BY <1>3, <1>4
  <2>2. F(s) \in Int /\ G(s) \in Int /\ F(s) <= G(s)
    BY <1>1, <1>2, <1>6
  <2>3. f[x] \in Int /\ g[x] \in Int /\ f[x] <= g[x]
    OBVIOUS
  <2>4. F(s \cup {x}) <= G(s \cup {x})
    BY <2>1, <2>2, <2>3
  <2>. QED
    BY <2>4
<1>. HIDE DEF Z
<1>7. D \in Z
  BY <1>5, <1>6, FiniteGrowth
<1>. QED
  BY <1>7 DEF Z, F, G

\* The sums of two functions that agree on the set.
LEMMA SumEqual ==
  ASSUME NEW D, Finite(D), NEW f, NEW g,
         \A x \in D : f[x] \in Int /\ f[x] = g[x]
  PROVE  SumFunctionOnSet(f, D) = SumFunctionOnSet(g, D)
<1>1. SumFunctionOnSet(f, D) \in Int /\ SumFunctionOnSet(g, D) \in Int
  <2>1. \A x \in D : g[x] \in Int
    OBVIOUS
  <2>. QED
    BY <2>1, SumType
<1>2. SumFunctionOnSet(f, D) <= SumFunctionOnSet(g, D)
  <2>1. \A x \in D : f[x] \in Int /\ g[x] \in Int /\ f[x] <= g[x]
    OBVIOUS
  <2>. QED
    BY <2>1, SumMonotone
<1>3. SumFunctionOnSet(g, D) <= SumFunctionOnSet(f, D)
  <2>1. \A x \in D : f[x] \in Int /\ g[x] \in Int /\ g[x] <= f[x]
    OBVIOUS
  <2>. QED
    BY <2>1, SumMonotone
<1>. QED
  BY <1>1, <1>2, <1>3
=============================================================================
