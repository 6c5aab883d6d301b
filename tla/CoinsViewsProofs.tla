-------------------------- MODULE CoinsViewsProofs --------------------------
(***************************************************************************)
(* Proofs about CoinsViews: the inductive invariant, the safety properties *)
(* it implies, and the refinement of UtxoSet; and about Balances, the      *)
(* queries over these views: every balance is the sum it should be.        *)
(*                                                                         *)
(* FlagsFit alone is not inductive: that AddCoin may mark an outpoint      *)
(* FRESH needs the bind record to agree with the coin on disk as well.     *)
(***************************************************************************)
EXTENDS Balances, Lemmas

\* The provers every step below is tried with, unless it names one.
USE SMT, Zenon, SMTT(20), ZenonT(40), SMTT(40)

\* The inductive invariant
Inv ==
  /\ TypeOK
  /\ FlagsFit
  /\ \A o \in Outpoints : BindAgrees(o, dbCoin[o], dbBind[o])

\* Under the invariant every layer has its type and right entries.
LEMMA LayerTypes ==
  ASSUME Inv, NEW o \in Outpoints
  PROVE  /\ dbCoin[o] \in CoinOrNone /\ dbBind[o] \in BindOrNone
         /\ tip[o] \in CacheEntry /\ view[o] \in CacheEntry
         /\ TipCoin(o) \in CoinOrNone /\ TipBind(o) \in BindOrNone
         /\ ViewCoin(o) \in CoinOrNone /\ ViewBind(o) \in BindOrNone
         /\ EntryFits(o, tip[o], dbCoin[o], dbBind[o])
         /\ EntryFits(o, view[o], TipCoin(o), TipBind(o))
<1>1. /\ dbCoin[o] \in CoinOrNone /\ dbBind[o] \in BindOrNone
      /\ tip[o] \in CacheEntry /\ view[o] \in CacheEntry
  BY DEF Inv, TypeOK
<1>2. TipCoin(o) \in CoinOrNone /\ TipBind(o) \in BindOrNone
  BY <1>1, GetTypes DEF TipCoin, TipBind
<1>3. ViewCoin(o) \in CoinOrNone /\ ViewBind(o) \in BindOrNone
  BY <1>1, <1>2, GetTypes DEF ViewCoin, ViewBind
<1>4. QED
  BY <1>1, <1>2, <1>3 DEF Inv, FlagsFit

\* Under the invariant the bind record agrees with the coin in every layer.
LEMMA LayersAgree ==
  ASSUME Inv, NEW o \in Outpoints
  PROVE  /\ BindAgrees(o, dbCoin[o], dbBind[o])
         /\ BindAgrees(o, TipCoin(o), TipBind(o))
         /\ BindAgrees(o, ViewCoin(o), ViewBind(o))
<1>1. BindAgrees(o, dbCoin[o], dbBind[o])
  BY DEF Inv
<1>2. BindAgrees(o, TipCoin(o), TipBind(o))
  BY <1>1, LayerTypes, FitsAgrees DEF TipCoin, TipBind
<1>3. BindAgrees(o, ViewCoin(o), ViewBind(o))
  BY <1>2, LayerTypes, FitsAgrees DEF ViewCoin, ViewBind
<1>4. QED
  BY <1>1, <1>2, <1>3

\* The empty database and caches satisfy the invariant.
LEMMA InitInv == Init => Inv
<1> SUFFICES ASSUME Init PROVE Inv
  OBVIOUS
<1>1. TypeOK
  BY DEF Init, TypeOK, EmptyCache, CacheEntry, CoinOrNone, BindOrNone
<1>2. FlagsFit
  BY DEF Init, FlagsFit, EmptyCache, EntryFits
<1>3. \A o \in Outpoints : BindAgrees(o, dbCoin[o], dbBind[o])
  BY DEF Init, BindAgrees
<1>4. QED
  BY <1>1, <1>2, <1>3 DEF Inv

\* A lookup through CoinsTip() leaves its entries right and its answers alone.
LEMMA FetchedStep ==
  ASSUME Inv, NEW o \in Outpoints, Fetched(o), NEW p \in Outpoints
  PROVE  /\ tip' \in [Outpoints -> CacheEntry]
         /\ EntryFits(p, tip'[p], dbCoin[p], dbBind[p])
         /\ TipCoin(p)' = TipCoin(p)
         /\ TipBind(p)' = TipBind(p)
<1> DEFINE f == FetchCoin(tip[o], dbCoin[o])
<1>1. /\ f \in CacheEntry
      /\ EntryFits(o, f, dbCoin[o], dbBind[o])
      /\ GetCoin(f, dbCoin[o]) = GetCoin(tip[o], dbCoin[o])
      /\ GetBindPlotterEntry(o, f, dbBind[o]) = GetBindPlotterEntry(o, tip[o], dbBind[o])
  BY LayerTypes, FetchType, FetchFits
<1> HIDE DEF f
<1>2. tip' = tip \/ tip' = [tip EXCEPT ![o] = f]
  BY DEF Fetched, f
<1>3. dbCoin' = dbCoin /\ dbBind' = dbBind /\ tip \in [Outpoints -> CacheEntry]
  BY DEF Fetched, Inv, TypeOK
<1>4. EntryFits(p, tip[p], dbCoin[p], dbBind[p])
  BY LayerTypes
<1>5. QED
  BY <1>1, <1>2, <1>3, <1>4 DEF TipCoin, TipBind

\* ViewFetch keeps the invariant and every answer.
LEMMA ViewFetchStep ==
  ASSUME Inv, NEW o \in Outpoints, ViewFetch(o)
  PROVE  /\ Inv'
         /\ \A p \in Outpoints : /\ TipCoin(p)' = TipCoin(p) /\ TipBind(p)' = TipBind(p)
                                 /\ ViewCoin(p)' = ViewCoin(p) /\ ViewBind(p)' = ViewBind(p)
<1> DEFINE f == FetchCoin(view[o], TipCoin(o))
<1>1. Fetched(o) /\ view' = [view EXCEPT ![o] = f] /\ dbCoin' = dbCoin /\ dbBind' = dbBind
  BY DEF ViewFetch, Fetched
<1>2. /\ f \in CacheEntry
      /\ EntryFits(o, f, TipCoin(o), TipBind(o))
      /\ GetCoin(f, TipCoin(o)) = ViewCoin(o)
      /\ GetBindPlotterEntry(o, f, TipBind(o)) = ViewBind(o)
  BY LayerTypes, FetchType, FetchFits DEF ViewCoin, ViewBind
<1> HIDE DEF f
<1>3. ASSUME NEW p \in Outpoints
      PROVE  /\ tip' \in [Outpoints -> CacheEntry]
             /\ EntryFits(p, tip'[p], dbCoin'[p], dbBind'[p])
             /\ TipCoin(p)' = TipCoin(p) /\ TipBind(p)' = TipBind(p)
  BY <1>1, FetchedStep
<1>4. ASSUME NEW p \in Outpoints
      PROVE  /\ EntryFits(p, view'[p], TipCoin(p)', TipBind(p)')
             /\ ViewCoin(p)' = ViewCoin(p) /\ ViewBind(p)' = ViewBind(p)
  <2>1. view \in [Outpoints -> CacheEntry]
    BY DEF Inv, TypeOK
  <2>2. EntryFits(p, view[p], TipCoin(p), TipBind(p))
    BY LayerTypes
  <2>3. CASE p = o
    BY <1>1, <1>2, <1>3, <2>1, <2>3 DEF ViewCoin, ViewBind
  <2>4. CASE p # o
    BY <1>1, <1>3, <2>1, <2>2, <2>4 DEF ViewCoin, ViewBind
  <2>5. QED
    BY <2>3, <2>4
<1>5. view' \in [Outpoints -> CacheEntry]
  BY <1>1, <1>2 DEF Inv, TypeOK
<1>6. tip' \in [Outpoints -> CacheEntry]
  BY <1>3
<1>7. QED
  BY <1>1, <1>3, <1>4, <1>5, <1>6 DEF Inv, TypeOK, FlagsFit

\* ViewAdd keeps the invariant; only the view's answer for the outpoint changes.
LEMMA ViewAddStep ==
  ASSUME Inv, NEW o \in Outpoints, NEW c \in Coin, NEW overwrite \in BOOLEAN, ViewAdd(o, c, overwrite)
  PROVE  /\ Inv'
         /\ \A p \in Outpoints :
              /\ TipCoin(p)' = TipCoin(p) /\ TipBind(p)' = TipBind(p)
              /\ ViewCoin(p)' = IF p = o THEN c ELSE ViewCoin(p)
              /\ ViewBind(p)' = IF p = o THEN (IF BindCoin(o, c) THEN [coin |-> c, valid |-> TRUE] ELSE NoBind)
                                ELSE ViewBind(p)
<1> DEFINE f == AddCoin(o, view[o], c, overwrite)
<1>1. view' = [view EXCEPT ![o] = f] /\ UNCHANGED <<dbCoin, dbBind, tip>>
  BY DEF ViewAdd
<1>2. /\ f \in CacheEntry
      /\ EntryFits(o, f, TipCoin(o), TipBind(o))
      /\ GetCoin(f, TipCoin(o)) = c
      /\ GetBindPlotterEntry(o, f, TipBind(o)) = IF BindCoin(o, c) THEN [coin |-> c, valid |-> TRUE] ELSE NoBind
  <2>1. /\ view[o] \in CacheEntry /\ TipCoin(o) \in CoinOrNone /\ TipBind(o) \in BindOrNone
        /\ EntryFits(o, view[o], TipCoin(o), TipBind(o)) /\ BindAgrees(o, TipCoin(o), TipBind(o))
    BY LayerTypes, LayersAgree
  <2>2. ~overwrite => /\ GetCoin(view[o], TipCoin(o)) = NoCoin
                      /\ GetBindPlotterEntry(o, view[o], TipBind(o)) # NoBind
                           => GetBindPlotterEntry(o, view[o], TipBind(o)).coin = c
    BY DEF ViewAdd, ViewCoin, ViewBind
  <2>3. QED
    BY <2>1, <2>2, AddFits
<1> HIDE DEF f
<1>3. ASSUME NEW p \in Outpoints
      PROVE  TipCoin(p)' = TipCoin(p) /\ TipBind(p)' = TipBind(p)
  BY <1>1 DEF TipCoin, TipBind
<1>4. ASSUME NEW p \in Outpoints
      PROVE  /\ EntryFits(p, view'[p], TipCoin(p)', TipBind(p)')
             /\ ViewCoin(p)' = IF p = o THEN c ELSE ViewCoin(p)
             /\ ViewBind(p)' = IF p = o THEN (IF BindCoin(o, c) THEN [coin |-> c, valid |-> TRUE] ELSE NoBind)
                               ELSE ViewBind(p)
  <2>1. view \in [Outpoints -> CacheEntry] /\ EntryFits(p, view[p], TipCoin(p), TipBind(p))
    BY LayerTypes DEF Inv, TypeOK
  <2>2. CASE p = o
    BY <1>1, <1>2, <1>3, <2>1, <2>2 DEF ViewCoin, ViewBind
  <2>3. CASE p # o
    BY <1>1, <1>3, <2>1, <2>3 DEF ViewCoin, ViewBind
  <2>4. QED
    BY <2>2, <2>3
<1>5. TypeOK'
  BY <1>1, <1>2 DEF Inv, TypeOK
<1>6. FlagsFit' /\ \A p \in Outpoints : BindAgrees(p, dbCoin'[p], dbBind'[p])
  BY <1>1, <1>4 DEF Inv, FlagsFit
<1>7. QED
  BY <1>3, <1>4, <1>5, <1>6 DEF Inv

\* ViewSpend keeps the invariant; only the view's answer for the outpoint changes.
LEMMA ViewSpendStep ==
  ASSUME Inv, NEW o \in Outpoints, NEW rollback \in BOOLEAN, ViewSpend(o, rollback)
  PROVE  /\ Inv'
         /\ \A p \in Outpoints :
              /\ TipCoin(p)' = TipCoin(p) /\ TipBind(p)' = TipBind(p)
              /\ ViewCoin(p)' = IF p = o THEN NoCoin ELSE ViewCoin(p)
              /\ ViewBind(p)' = IF p = o
                                THEN (IF ~rollback /\ BindCoin(o, ViewCoin(o)) /\ ViewCoin(o).height >= BHDIP007Height
                                      THEN [coin |-> ViewCoin(o), valid |-> FALSE] ELSE NoBind)
                                ELSE ViewBind(p)
<1> DEFINE f == SpendCoin(o, FetchCoin(view[o], TipCoin(o)), rollback)
           left == IF ~rollback /\ BindCoin(o, ViewCoin(o)) /\ ViewCoin(o).height >= BHDIP007Height
                   THEN [coin |-> ViewCoin(o), valid |-> FALSE] ELSE NoBind
<1>1. Fetched(o) /\ view' = [view EXCEPT ![o] = f] /\ dbCoin' = dbCoin /\ dbBind' = dbBind
  BY DEF ViewSpend, Fetched
<1>2. /\ f \in CacheEntry
      /\ EntryFits(o, f, TipCoin(o), TipBind(o))
      /\ GetCoin(f, TipCoin(o)) = NoCoin
      /\ GetBindPlotterEntry(o, f, TipBind(o)) = left
  <2>1. /\ view[o] \in CacheEntry /\ TipCoin(o) \in CoinOrNone /\ TipBind(o) \in BindOrNone
        /\ EntryFits(o, view[o], TipCoin(o), TipBind(o)) /\ BindAgrees(o, TipCoin(o), TipBind(o))
    BY LayerTypes, LayersAgree
  <2>2. ViewCoin(o) = GetCoin(view[o], TipCoin(o)) /\ ViewCoin(o) # NoCoin
    BY DEF ViewCoin, ViewSpend
  <2>3. QED
    BY <2>1, <2>2, SpendFits
<1> HIDE DEF f, left
<1>3. ASSUME NEW p \in Outpoints
      PROVE  /\ tip' \in [Outpoints -> CacheEntry]
             /\ EntryFits(p, tip'[p], dbCoin'[p], dbBind'[p])
             /\ TipCoin(p)' = TipCoin(p) /\ TipBind(p)' = TipBind(p)
  BY <1>1, FetchedStep
<1>4. ASSUME NEW p \in Outpoints
      PROVE  /\ EntryFits(p, view'[p], TipCoin(p)', TipBind(p)')
             /\ ViewCoin(p)' = IF p = o THEN NoCoin ELSE ViewCoin(p)
             /\ ViewBind(p)' = IF p = o THEN left ELSE ViewBind(p)
  <2>1. view \in [Outpoints -> CacheEntry] /\ EntryFits(p, view[p], TipCoin(p), TipBind(p))
    BY LayerTypes DEF Inv, TypeOK
  <2>2. CASE p = o
    BY <1>1, <1>2, <1>3, <2>1, <2>2 DEF ViewCoin, ViewBind
  <2>3. CASE p # o
    BY <1>1, <1>3, <2>1, <2>3 DEF ViewCoin, ViewBind
  <2>4. QED
    BY <2>2, <2>3
<1>5. TypeOK'
  BY <1>1, <1>2, <1>3 DEF Inv, TypeOK
<1>6. FlagsFit' /\ \A p \in Outpoints : BindAgrees(p, dbCoin'[p], dbBind'[p])
  BY <1>1, <1>3, <1>4 DEF Inv, FlagsFit
<1>7. QED
  BY <1>3, <1>4, <1>5, <1>6 DEF Inv, left

\* An empty cache is right over any base and answers as the base does.
LEMMA EmptyView ==
  ASSUME NEW o \in Outpoints, NEW c \in CoinOrNone, NEW b \in BindOrNone
  PROVE  /\ EmptyCache[o] \in CacheEntry
         /\ EntryFits(o, EmptyCache[o], c, b)
         /\ GetCoin(EmptyCache[o], c) = c
         /\ GetBindPlotterEntry(o, EmptyCache[o], b) = b
BY CleanEntryFacts DEF EmptyCache, CacheEntry, EntryFits, GetCoin, FetchCoin, GetBindPlotterEntry, IsDirty

\* ViewFlush keeps the invariant and makes the view's answers those of CoinsTip().
LEMMA ViewFlushStep ==
  ASSUME Inv, ViewFlush
  PROVE  /\ Inv'
         /\ \A p \in Outpoints : /\ TipCoin(p)' = ViewCoin(p) /\ TipBind(p)' = ViewBind(p)
                                 /\ ViewCoin(p)' = ViewCoin(p) /\ ViewBind(p)' = ViewBind(p)
<1>1. /\ tip' = [o \in Outpoints |-> BatchWrite(o, tip[o], view[o])]
      /\ view' = EmptyCache /\ dbCoin' = dbCoin /\ dbBind' = dbBind
  BY DEF ViewFlush
<1>2. ASSUME NEW p \in Outpoints
      PROVE  /\ tip'[p] \in CacheEntry
             /\ EntryFits(p, tip'[p], dbCoin[p], dbBind[p])
             /\ TipCoin(p)' = ViewCoin(p) /\ TipBind(p)' = ViewBind(p)
  <2>1. LET f == BatchWrite(p, tip[p], view[p])
        IN  /\ f \in CacheEntry
            /\ EntryFits(p, f, dbCoin[p], dbBind[p])
            /\ GetCoin(f, dbCoin[p]) = ViewCoin(p)
            /\ GetBindPlotterEntry(p, f, dbBind[p]) = ViewBind(p)
    BY LayerTypes, LayersAgree, BatchWriteFits DEF TipCoin, TipBind, ViewCoin, ViewBind
  <2>2. tip'[p] = BatchWrite(p, tip[p], view[p])
    BY <1>1
  <2>3. QED
    BY <1>1, <2>1, <2>2 DEF TipCoin, TipBind
<1>3. ASSUME NEW p \in Outpoints
      PROVE  /\ view'[p] \in CacheEntry
             /\ EntryFits(p, view'[p], TipCoin(p)', TipBind(p)')
             /\ ViewCoin(p)' = ViewCoin(p) /\ ViewBind(p)' = ViewBind(p)
  BY <1>1, <1>2, LayerTypes, EmptyView DEF ViewCoin, ViewBind
<1>4. TypeOK'
  BY <1>1, <1>2, <1>3 DEF Inv, TypeOK, EmptyCache
<1>5. FlagsFit' /\ \A p \in Outpoints : BindAgrees(p, dbCoin'[p], dbBind'[p])
  BY <1>1, <1>2, <1>3 DEF Inv, FlagsFit
<1>6. QED
  BY <1>2, <1>3, <1>4, <1>5 DEF Inv

\* ViewDrop keeps the invariant; the view's answers fall back to CoinsTip()'s.
LEMMA ViewDropStep ==
  ASSUME Inv, ViewDrop
  PROVE  /\ Inv'
         /\ \A p \in Outpoints : /\ TipCoin(p)' = TipCoin(p) /\ TipBind(p)' = TipBind(p)
                                 /\ ViewCoin(p)' = TipCoin(p) /\ ViewBind(p)' = TipBind(p)
<1>1. view' = EmptyCache /\ UNCHANGED <<dbCoin, dbBind, tip>>
  BY DEF ViewDrop
<1>2. ASSUME NEW p \in Outpoints
      PROVE  TipCoin(p)' = TipCoin(p) /\ TipBind(p)' = TipBind(p)
  BY <1>1 DEF TipCoin, TipBind
<1>3. ASSUME NEW p \in Outpoints
      PROVE  /\ view'[p] \in CacheEntry
             /\ EntryFits(p, view'[p], TipCoin(p)', TipBind(p)')
             /\ ViewCoin(p)' = TipCoin(p) /\ ViewBind(p)' = TipBind(p)
  BY <1>1, <1>2, LayerTypes, EmptyView DEF ViewCoin, ViewBind
<1>4. TypeOK'
  BY <1>1, <1>3 DEF Inv, TypeOK, EmptyCache
<1>5. FlagsFit' /\ \A p \in Outpoints : BindAgrees(p, dbCoin'[p], dbBind'[p])
  BY <1>1, <1>3 DEF Inv, FlagsFit
<1>6. QED
  BY <1>2, <1>3, <1>4, <1>5 DEF Inv

\* TipFlush keeps the invariant and every answer.
LEMMA TipFlushStep ==
  ASSUME Inv, TipFlush
  PROVE  /\ Inv'
         /\ \A p \in Outpoints : /\ TipCoin(p)' = TipCoin(p) /\ TipBind(p)' = TipBind(p)
                                 /\ ViewCoin(p)' = ViewCoin(p) /\ ViewBind(p)' = ViewBind(p)
<1>1. /\ dbCoin' = [o \in Outpoints |-> WriteCoin(dbCoin[o], tip[o])]
      /\ dbBind' = [o \in Outpoints |-> WriteBind(o, dbBind[o], tip[o])]
      /\ tip' = EmptyCache /\ view' = view
  BY DEF TipFlush
<1>2. ASSUME NEW p \in Outpoints
      PROVE  dbCoin'[p] = TipCoin(p) /\ dbBind'[p] = TipBind(p)
  BY <1>1, LayerTypes, DiskWriteFits DEF TipCoin, TipBind
<1>3. ASSUME NEW p \in Outpoints
      PROVE  /\ tip'[p] \in CacheEntry
             /\ EntryFits(p, tip'[p], dbCoin'[p], dbBind'[p])
             /\ TipCoin(p)' = TipCoin(p) /\ TipBind(p)' = TipBind(p)
  BY <1>1, <1>2, LayerTypes, EmptyView DEF TipCoin, TipBind
<1>4. ASSUME NEW p \in Outpoints
      PROVE  /\ EntryFits(p, view'[p], TipCoin(p)', TipBind(p)')
             /\ ViewCoin(p)' = ViewCoin(p) /\ ViewBind(p)' = ViewBind(p)
  BY <1>1, <1>3, LayerTypes DEF ViewCoin, ViewBind
<1>5. TypeOK'
  BY <1>1, <1>2, <1>3, LayerTypes DEF Inv, TypeOK, EmptyCache
<1>6. FlagsFit' /\ \A p \in Outpoints : BindAgrees(p, dbCoin'[p], dbBind'[p])
  BY <1>2, <1>3, <1>4, LayersAgree DEF FlagsFit
<1>7. QED
  BY <1>3, <1>4, <1>5, <1>6 DEF Inv

\* TipUncache keeps the invariant and every answer.
LEMMA TipUncacheStep ==
  ASSUME Inv, NEW o \in Outpoints, TipUncache(o)
  PROVE  /\ Inv'
         /\ \A p \in Outpoints : /\ TipCoin(p)' = TipCoin(p) /\ TipBind(p)' = TipBind(p)
                                 /\ ViewCoin(p)' = ViewCoin(p) /\ ViewBind(p)' = ViewBind(p)
<1> DEFINE f == Uncache(tip[o], o \in Burn)
<1>1. tip' = [tip EXCEPT ![o] = f] /\ UNCHANGED <<dbCoin, dbBind, view>>
  BY DEF TipUncache
<1>2. /\ f \in CacheEntry
      /\ EntryFits(o, f, dbCoin[o], dbBind[o])
      /\ GetCoin(f, dbCoin[o]) = TipCoin(o)
      /\ GetBindPlotterEntry(o, f, dbBind[o]) = TipBind(o)
  BY LayerTypes, UncacheFits DEF TipCoin, TipBind
<1> HIDE DEF f
<1>3. ASSUME NEW p \in Outpoints
      PROVE  /\ EntryFits(p, tip'[p], dbCoin'[p], dbBind'[p])
             /\ TipCoin(p)' = TipCoin(p) /\ TipBind(p)' = TipBind(p)
  <2>1. tip \in [Outpoints -> CacheEntry] /\ EntryFits(p, tip[p], dbCoin[p], dbBind[p])
    BY LayerTypes DEF Inv, TypeOK
  <2>2. CASE p = o
    BY <1>1, <1>2, <2>1, <2>2 DEF TipCoin, TipBind
  <2>3. CASE p # o
    BY <1>1, <2>1, <2>3 DEF TipCoin, TipBind
  <2>4. QED
    BY <2>2, <2>3
<1>4. ASSUME NEW p \in Outpoints
      PROVE  /\ EntryFits(p, view'[p], TipCoin(p)', TipBind(p)')
             /\ ViewCoin(p)' = ViewCoin(p) /\ ViewBind(p)' = ViewBind(p)
  BY <1>1, <1>3, LayerTypes DEF ViewCoin, ViewBind
<1>5. TypeOK'
  BY <1>1, <1>2 DEF Inv, TypeOK
<1>6. FlagsFit' /\ \A p \in Outpoints : BindAgrees(p, dbCoin'[p], dbBind'[p])
  BY <1>1, <1>3, <1>4 DEF Inv, FlagsFit
<1>7. QED
  BY <1>3, <1>4, <1>5, <1>6 DEF Inv

\* A stuttering step keeps the invariant and every answer.
LEMMA StutterStep ==
  ASSUME Inv, UNCHANGED vars
  PROVE  /\ Inv'
         /\ \A p \in Outpoints : /\ TipCoin(p)' = TipCoin(p) /\ TipBind(p)' = TipBind(p)
                                 /\ ViewCoin(p)' = ViewCoin(p) /\ ViewBind(p)' = ViewBind(p)
BY DEF vars, Inv, TypeOK, FlagsFit, TipCoin, TipBind, ViewCoin, ViewBind

\* The inductive invariant holds in every behaviour: adds, spends, flushes of the
\* view and of CoinsTip(), dropped views and evictions in any order keep every
\* entry right about the layers below it.
THEOREM InductiveInv == Spec => []Inv
<1>1. Init => Inv
  BY InitInv
<1>2. Inv /\ [Next]_vars => Inv'
  <2> SUFFICES ASSUME Inv, [Next]_vars PROVE Inv'
    OBVIOUS
  <2>1. CASE \E o \in Outpoints : ViewFetch(o)
    BY <2>1, ViewFetchStep
  <2>2. CASE \E o \in Outpoints, c \in Coin, overwrite \in BOOLEAN : ViewAdd(o, c, overwrite)
    BY <2>2, ViewAddStep
  <2>3. CASE \E o \in Outpoints, rollback \in BOOLEAN : ViewSpend(o, rollback)
    BY <2>3, ViewSpendStep
  <2>4. CASE ViewFlush
    BY <2>4, ViewFlushStep
  <2>5. CASE ViewDrop
    BY <2>5, ViewDropStep
  <2>6. CASE TipFlush
    BY <2>6, TipFlushStep
  <2>7. CASE \E o \in Outpoints : TipUncache(o)
    BY <2>7, TipUncacheStep
  <2>8. CASE UNCHANGED vars
    BY <2>8, StutterStep
  <2>9. QED
    BY <2>1, <2>2, <2>3, <2>4, <2>5, <2>6, <2>7, <2>8 DEF Next
<1>3. QED
  BY <1>1, <1>2, PTL DEF Spec

\* Database and caches always have their types.
THEOREM TypeCorrect == Spec => []TypeOK
<1>1. Inv => TypeOK
  BY DEF Inv
<1>2. QED
  BY <1>1, InductiveInv, PTL

\* DIRTY, FRESH and UNBIND are never wrong about the layer below (the comments of
\* CCoinsCacheEntry::Flags), for any set of outpoints, coins and heights.
THEOREM FlagsAlwaysFit == Spec => []FlagsFit
<1>1. Inv => FlagsFit
  BY DEF Inv
<1>2. QED
  BY <1>1, InductiveInv, PTL

\* The bind index agrees with the coins on disk, in CoinsTip() and in the view, so
\* the assertions of GetLastBindPlotterCoin hold.
THEOREM BindIndexAlwaysAgrees == Spec => []BindIndexAgrees
<1>1. Inv => BindIndexAgrees
  BY LayersAgree DEF BindIndexAgrees
<1>2. QED
  BY <1>1, InductiveInv, PTL

\* Flushing a view into CoinsTip() never throws "FRESH flag misapplied" and fails
\* none of BatchWrite's assertions.
THEOREM FlushNeverThrowsTheorem == Spec => []FlushNeverThrows
<1>1. Inv => FlushNeverThrows
  <2> SUFFICES ASSUME Inv, NEW o \in Outpoints PROVE ~BatchWriteThrows(o, tip[o], view[o])
    BY DEF FlushNeverThrows
  <2>1. EntryFits(o, view[o], GetCoin(tip[o], dbCoin[o]), TipBind(o))
    BY LayerTypes DEF TipCoin
  <2>2. tip[o] \in CacheEntry /\ view[o] \in CacheEntry /\ dbCoin[o] \in CoinOrNone
    BY LayerTypes
  <2>3. QED
    BY <2>1, <2>2, BatchWriteNoThrow
<1>2. QED
  BY <1>1, InductiveInv, PTL

\* The stack of caches implements the plain UTXO set with bind records of UtxoSet:
\* what callers of GetCoin and GetBindPlotterEntries see does not depend on what is
\* cached, dirty or on disk.
THEOREM Refinement == Spec => ImplementsUtxoSet
<1> DEFINE C == [o \in Outpoints |-> TipCoin(o)]
           B == [o \in Outpoints |-> TipBind(o)]
           W == [o \in Outpoints |-> ViewCoin(o)]
           X == [o \in Outpoints |-> ViewBind(o)]
<1>1. Init => Abstract!UInit
  <2> SUFFICES ASSUME Init PROVE Abstract!UInit
    OBVIOUS
  <2>1. ASSUME NEW o \in Outpoints
        PROVE  TipCoin(o) = NoCoin /\ TipBind(o) = NoBind /\ ViewCoin(o) = NoCoin /\ ViewBind(o) = NoBind
    BY EmptyView DEF Init, TipCoin, TipBind, ViewCoin, ViewBind, CoinOrNone, BindOrNone
  <2>2. QED
    BY <2>1 DEF Abstract!UInit, NoCoin, NoBind, Abstract!NoCoin, Abstract!NoBind
<1>2. Inv /\ [Next]_vars => [Abstract!UNext]_(Abstract!uvars)
  <2> SUFFICES ASSUME Inv, [Next]_vars PROVE [Abstract!UNext]_(Abstract!uvars)
    OBVIOUS
  <2>1. ASSUME \A p \in Outpoints : /\ TipCoin(p)' = TipCoin(p) /\ TipBind(p)' = TipBind(p)
                                    /\ ViewCoin(p)' = ViewCoin(p) /\ ViewBind(p)' = ViewBind(p)
        PROVE  UNCHANGED Abstract!uvars
    BY <2>1 DEF Abstract!uvars
  <2>2. CASE \E o \in Outpoints : ViewFetch(o)
    BY <2>1, <2>2, ViewFetchStep
  <2>3. ASSUME NEW o \in Outpoints, NEW c \in Coin, NEW overwrite \in BOOLEAN, ViewAdd(o, c, overwrite)
        PROVE  Abstract!UNext
    <3> DEFINE bind == IF BindCoin(o, c) THEN [coin |-> c, valid |-> TRUE] ELSE NoBind
    <3>1. /\ C' = C /\ B' = B
          /\ W' = [W EXCEPT ![o] = c] /\ X' = [X EXCEPT ![o] = bind]
      <4>1. \A p \in Outpoints : /\ TipCoin(p)' = TipCoin(p) /\ TipBind(p)' = TipBind(p)
                                 /\ ViewCoin(p)' = IF p = o THEN c ELSE ViewCoin(p)
                                 /\ ViewBind(p)' = IF p = o THEN bind ELSE ViewBind(p)
        BY <2>3, ViewAddStep
      <4> HIDE DEF bind
      <4>2. QED
        BY <4>1
    <3>2. bind = Abstract!BindOf(o, c)
      BY DEF Abstract!BindOf, NoBind, Abstract!NoBind
    <3>3. Abstract!UAdd(o, c)
      BY <3>1, <3>2 DEF Abstract!UAdd
    <3>4. QED
      BY <3>3 DEF Abstract!UNext
  <2>4. ASSUME NEW o \in Outpoints, NEW rollback \in BOOLEAN, ViewSpend(o, rollback)
        PROVE  Abstract!UNext
    <3>1. ViewCoin(o) # NoCoin
      BY <2>4 DEF ViewSpend
    <3>2. Abstract!USpend(o, rollback)
      BY <2>4, <3>1, ViewSpendStep DEF Abstract!USpend, Abstract!SpentBindOf, NoBind, Abstract!NoBind,
         NoCoin, Abstract!NoCoin
    <3>3. QED
      BY <3>2 DEF Abstract!UNext
  <2>5. CASE ViewFlush
    <3>1. Abstract!UCommit
      BY <2>5, ViewFlushStep DEF Abstract!UCommit
    <3>2. QED
      BY <3>1 DEF Abstract!UNext
  <2>6. CASE ViewDrop
    <3>1. Abstract!UAbort
      BY <2>6, ViewDropStep DEF Abstract!UAbort
    <3>2. QED
      BY <3>1 DEF Abstract!UNext
  <2>7. CASE TipFlush
    BY <2>1, <2>7, TipFlushStep
  <2>8. CASE \E o \in Outpoints : TipUncache(o)
    BY <2>1, <2>8, TipUncacheStep
  <2>9. CASE UNCHANGED vars
    BY <2>1, <2>9, StutterStep
  <2>10. QED
    BY <2>2, <2>3, <2>4, <2>5, <2>6, <2>7, <2>8, <2>9 DEF Next
<1>3. QED
  BY <1>1, <1>2, InductiveInv, PTL DEF Spec, ImplementsUtxoSet, Abstract!USpec

-----------------------------------------------------------------------------
(* The balance queries.                                                     *)

\* The entry, if there is one, is of a coin that pays output x
Of(e, x) == e # NoEntry => e.coin.out = x

\* The outpoint is of the account or pledged to it
Regards(o, acc) ==
  \/ utx[o].account = acc
  \/ utx[o].type \in ChiaPoints \cup {"RETARGET"} /\ utx[o].receiver = acc

\* Every layer has the output of the outpoint
OwnOutput ==
  \A o \in Outpoints : /\ dbCoin[o] # NoCoin => dbCoin[o].out = utx[o]
                       /\ Of(tip[o], utx[o])
                       /\ Of(view[o], utx[o])

\* The inductive invariant of the views with the account indexes
BInv ==
  /\ Inv
  /\ utx \in [Outpoints -> Outputs]
  /\ OwnOutput
  /\ IndexesAgree

\* What the operations on a cache entry do to the output it is of: nothing.
LEMMA OfSteps ==
  ASSUME NEW o \in Outpoints, NEW x, NEW e \in CacheEntry, Of(e, x)
  PROVE  /\ \A base \in CoinOrNone : (base # NoCoin => base.out = x) =>
              /\ Of(FetchCoin(e, base), x)
              /\ GetCoin(e, base) # NoCoin => GetCoin(e, base).out = x
         /\ \A rollback \in BOOLEAN : Of(SpendCoin(o, e, rollback), x)
         /\ \A k \in CacheEntry : Of(k, x) => Of(BatchWrite(o, e, k), x)
<1>1. ASSUME NEW base \in CoinOrNone, base # NoCoin => base.out = x
      PROVE  /\ Of(FetchCoin(e, base), x)
             /\ GetCoin(e, base) # NoCoin => GetCoin(e, base).out = x
  BY <1>1, CleanEntryFacts DEF Of, FetchCoin, GetCoin
<1>3. ASSUME NEW rollback \in BOOLEAN
      PROVE  Of(SpendCoin(o, e, rollback), x)
  <2>1. CASE e = NoEntry
    BY <2>1 DEF Of, SpendCoin
  <2>2. CASE e # NoEntry
    <3>1. e \in Entry
      BY <2>2 DEF CacheEntry
    <3>2. SpendCoin(o, e, rollback) # NoEntry => SpendCoin(o, e, rollback).coin = e.coin
      BY <3>1 DEF SpendCoin, Entry
    <3>3. QED
      BY <2>2, <3>2 DEF Of
  <2>3. QED
    BY <2>1, <2>2
<1>4. ASSUME NEW k \in CacheEntry, Of(k, x)
      PROVE  Of(BatchWrite(o, e, k), x)
  BY <1>4 DEF Of, BatchWrite, IsDirty
<1>5. QED
  BY <1>1, <1>3, <1>4

\* The empty database and caches satisfy the invariant.
LEMMA BInitInv == BInit => BInv
<1> SUFFICES ASSUME BInit PROVE BInv
  OBVIOUS
<1>1. Init /\ Inv
  BY InitInv DEF BInit
<1>2. utx \in [Outpoints -> Outputs]
  BY DEF BInit
<1>3. OwnOutput
  BY <1>1 DEF Init, OwnOutput, Of, EmptyCache
<1>4. IndexesAgree
  BY <1>1 DEF Init, BInit, IndexesAgree
<1>5. QED
  BY <1>1, <1>2, <1>3, <1>4 DEF BInv

\* A lookup through CoinsTip() keeps the output of its entries.
LEMMA FetchedOf ==
  ASSUME BInv, NEW o \in Outpoints, Fetched(o), NEW p \in Outpoints
  PROVE  Of(tip'[p], utx[p])
<1>1. /\ tip[o] \in CacheEntry /\ dbCoin[o] \in CoinOrNone
      /\ tip \in [Outpoints -> CacheEntry]
  BY LayerTypes DEF BInv, Inv, TypeOK
<1>2. /\ Of(tip[o], utx[o]) /\ Of(tip[p], utx[p])
      /\ dbCoin[o] # NoCoin => dbCoin[o].out = utx[o]
  BY DEF BInv, OwnOutput
<1>3. Of(FetchCoin(tip[o], dbCoin[o]), utx[o])
  BY <1>1, <1>2, OfSteps
<1>4. tip' = tip \/ tip' = [tip EXCEPT ![o] = FetchCoin(tip[o], dbCoin[o])]
  BY DEF Fetched
<1>5. QED
  BY <1>1, <1>2, <1>3, <1>4

\* What CoinsTip() and the view answer is a coin with the output of the outpoint.
LEMMA AnswerOf ==
  ASSUME BInv, NEW o \in Outpoints
  PROVE  /\ TipCoin(o) \in CoinOrNone /\ ViewCoin(o) \in CoinOrNone
         /\ TipCoin(o) # NoCoin => TipCoin(o).out = utx[o]
         /\ ViewCoin(o) # NoCoin => ViewCoin(o).out = utx[o]
<1>1. /\ tip[o] \in CacheEntry /\ view[o] \in CacheEntry /\ dbCoin[o] \in CoinOrNone
      /\ TipCoin(o) \in CoinOrNone /\ ViewCoin(o) \in CoinOrNone
  BY LayerTypes DEF BInv
<1>2. /\ Of(tip[o], utx[o]) /\ Of(view[o], utx[o])
      /\ dbCoin[o] # NoCoin => dbCoin[o].out = utx[o]
  BY DEF BInv, OwnOutput
<1>3. TipCoin(o) # NoCoin => TipCoin(o).out = utx[o]
  BY <1>1, <1>2, OfSteps DEF TipCoin
<1>4. ViewCoin(o) # NoCoin => ViewCoin(o).out = utx[o]
  BY <1>1, <1>2, <1>3, OfSteps DEF ViewCoin
<1>5. QED
  BY <1>1, <1>3, <1>4

\* An operation that leaves the database alone keeps the invariant when the
\* caches' entries keep their outputs.
LEMMA InMemoryStep ==
  ASSUME BInv, Inv', InMemory, dbCoin' = dbCoin,
         \A p \in Outpoints : Of(tip'[p], utx[p]) /\ Of(view'[p], utx[p])
  PROVE  BInv'
<1>1. utx' = utx /\ dbIndex' = dbIndex /\ dbPoint' = dbPoint
  BY DEF InMemory
<1>2. OwnOutput'
  BY <1>1 DEF BInv, OwnOutput
<1>3. IndexesAgree'
  BY <1>1 DEF BInv, IndexesAgree
<1>4. QED
  BY <1>1, <1>2, <1>3 DEF BInv

\* The operations on the view and on CoinsTip() and the write to disk keep the
\* invariant: whatever is fetched, added, spent, flushed, dropped, written or
\* evicted, the indexes list exactly the coins on disk.
LEMMA BNextInv == BInv /\ [BNext]_bvars => BInv'
<1> SUFFICES ASSUME BInv, [BNext]_bvars PROVE BInv'
  OBVIOUS
<1>0. /\ Inv
      /\ tip \in [Outpoints -> CacheEntry] /\ view \in [Outpoints -> CacheEntry]
  BY DEF BInv, Inv, TypeOK
<1>9. ASSUME NEW p \in Outpoints
      PROVE  /\ Of(tip[p], utx[p]) /\ Of(view[p], utx[p])
             /\ tip[p] \in CacheEntry /\ view[p] \in CacheEntry
             /\ dbCoin[p] # NoCoin => dbCoin[p].out = utx[p]
  BY <1>0 DEF BInv, OwnOutput
<1>8. ASSUME NEW p \in Outpoints
      PROVE  Of(EmptyCache[p], utx[p])
  BY DEF Of, EmptyCache
<1>1. ASSUME NEW o \in Outpoints, ViewFetch(o), InMemory
      PROVE  BInv'
  <2>1. Inv'
    BY <1>0, <1>1, ViewFetchStep
  <2>2. Fetched(o) /\ dbCoin' = dbCoin /\ view' = [view EXCEPT ![o] = FetchCoin(view[o], TipCoin(o))]
    BY <1>1 DEF ViewFetch, Fetched
  <2>3. Of(FetchCoin(view[o], TipCoin(o)), utx[o])
    BY <1>9, AnswerOf, OfSteps
  <2>4. ASSUME NEW p \in Outpoints
        PROVE  Of(tip'[p], utx[p]) /\ Of(view'[p], utx[p])
    <3>1. Of(tip'[p], utx[p])
      BY <2>2, FetchedOf
    <3>2. Of(view'[p], utx[p])
      BY <1>0, <1>9, <2>2, <2>3
    <3>3. QED
      BY <3>1, <3>2
  <2>5. QED
    BY <1>1, <2>1, <2>2, <2>4, InMemoryStep
<1>2. ASSUME NEW o \in Outpoints, NEW c \in Coin, NEW overwrite \in BOOLEAN,
             c.out = utx[o], ViewAdd(o, c, overwrite), InMemory
      PROVE  BInv'
  <2>1. Inv'
    BY <1>0, <1>2, ViewAddStep
  <2>2. dbCoin' = dbCoin /\ tip' = tip /\ view' = [view EXCEPT ![o] = AddCoin(o, view[o], c, overwrite)]
    BY <1>2 DEF ViewAdd
  <2>3. Of(AddCoin(o, view[o], c, overwrite), utx[o])
    BY <1>2 DEF Of, AddCoin
  <2>4. ASSUME NEW p \in Outpoints
        PROVE  Of(tip'[p], utx[p]) /\ Of(view'[p], utx[p])
    BY <1>0, <1>9, <2>2, <2>3
  <2>5. QED
    BY <1>2, <2>1, <2>2, <2>4, InMemoryStep
<1>3. ASSUME NEW o \in Outpoints, NEW rollback \in BOOLEAN, ViewSpend(o, rollback), InMemory
      PROVE  BInv'
  <2>1. Inv'
    BY <1>0, <1>3, ViewSpendStep
  <2> DEFINE f == FetchCoin(view[o], TipCoin(o))
  <2>2. Fetched(o) /\ dbCoin' = dbCoin /\ view' = [view EXCEPT ![o] = SpendCoin(o, f, rollback)]
    BY <1>3 DEF ViewSpend, Fetched
  <2>3. f \in CacheEntry /\ Of(f, utx[o])
    BY <1>9, AnswerOf, OfSteps, FetchType
  <2> HIDE DEF f
  <2>4. Of(SpendCoin(o, f, rollback), utx[o])
    BY <2>3, OfSteps
  <2>5. ASSUME NEW p \in Outpoints
        PROVE  Of(tip'[p], utx[p]) /\ Of(view'[p], utx[p])
    <3>1. Of(tip'[p], utx[p])
      BY <2>2, FetchedOf
    <3>2. Of(view'[p], utx[p])
      BY <1>0, <1>9, <2>2, <2>4
    <3>3. QED
      BY <3>1, <3>2
  <2>6. QED
    BY <1>3, <2>1, <2>2, <2>5, InMemoryStep
<1>4. ASSUME ViewFlush, InMemory
      PROVE  BInv'
  <2>1. Inv'
    BY <1>0, <1>4, ViewFlushStep
  <2>2. /\ dbCoin' = dbCoin /\ view' = EmptyCache
        /\ tip' = [o \in Outpoints |-> BatchWrite(o, tip[o], view[o])]
    BY <1>4 DEF ViewFlush
  <2>3. ASSUME NEW p \in Outpoints
        PROVE  Of(tip'[p], utx[p]) /\ Of(view'[p], utx[p])
    <3>1. Of(BatchWrite(p, tip[p], view[p]), utx[p])
      BY <1>9, OfSteps
    <3>2. QED
      BY <1>8, <2>2, <3>1
  <2>4. QED
    BY <1>4, <2>1, <2>2, <2>3, InMemoryStep
<1>5. ASSUME ViewDrop, InMemory
      PROVE  BInv'
  <2>1. Inv'
    BY <1>0, <1>5, ViewDropStep
  <2>2. dbCoin' = dbCoin /\ tip' = tip /\ view' = EmptyCache
    BY <1>5 DEF ViewDrop
  <2>3. QED
    BY <1>5, <1>8, <1>9, <2>1, <2>2, InMemoryStep
<1>6. ASSUME IndexFlush
      PROVE  BInv'
  <2>1. Inv'
    BY <1>0, <1>6, TipFlushStep DEF IndexFlush
  <2>2. /\ utx' = utx /\ view' = view /\ tip' = EmptyCache
        /\ dbCoin' = [o \in Outpoints |-> WriteCoin(dbCoin[o], tip[o])]
        /\ dbIndex' = [o \in Outpoints |-> WriteIndex(tip[o], dbIndex[o])]
        /\ dbPoint' = [o \in Outpoints |-> WritePoint(tip[o], dbPoint[o])]
    BY <1>6 DEF IndexFlush, TipFlush
  <2>3. OwnOutput'
    <3>1. ASSUME NEW p \in Outpoints
          PROVE  dbCoin'[p] # NoCoin => dbCoin'[p].out = utx[p]
      BY <1>9, <2>2 DEF WriteCoin, Of, IsDirty
    <3>2. QED
      BY <1>8, <1>9, <2>2, <3>1 DEF OwnOutput
  <2>4. ASSUME NEW p \in Outpoints
        PROVE  /\ dbIndex'[p] <=> dbCoin'[p] # NoCoin
               /\ dbPoint'[p] = IF dbCoin'[p] # NoCoin /\ (IsPoint(dbCoin'[p]) \/ IsPointRetarget(dbCoin'[p]))
                                THEN PointRecord(dbCoin'[p]) ELSE NoPoint
    <3>1. /\ dbIndex'[p] = WriteIndex(tip[p], dbIndex[p])
          /\ dbPoint'[p] = WritePoint(tip[p], dbPoint[p])
          /\ dbCoin'[p] = WriteCoin(dbCoin[p], tip[p])
      BY <2>2
    <3>2. /\ dbIndex[p] <=> dbCoin[p] # NoCoin
          /\ dbPoint[p] = IF dbCoin[p] # NoCoin /\ (IsPoint(dbCoin[p]) \/ IsPointRetarget(dbCoin[p]))
                          THEN PointRecord(dbCoin[p]) ELSE NoPoint
      BY DEF BInv, IndexesAgree
    <3>3. CASE ~IsDirty(tip[p])
      BY <3>1, <3>2, <3>3 DEF WriteIndex, WritePoint, WriteCoin
    <3>4. CASE IsDirty(tip[p]) /\ tip[p].spent
      <4>1. dbCoin'[p] = NoCoin /\ dbPoint'[p] = NoPoint /\ ~dbIndex'[p]
        BY <3>1, <3>4, Zenon DEF WriteIndex, WritePoint, WriteCoin
      <4>2. QED
        BY <4>1, Zenon
    <3>5. CASE IsDirty(tip[p]) /\ ~tip[p].spent
      <4>1. tip[p] \in Entry
        BY <1>9, <3>5 DEF IsDirty, CacheEntry
      <4>2. tip[p].coin \in Coin /\ tip[p].coin # NoCoin
        BY <4>1, CoinsAssumption DEF Entry
      <4>3. dbCoin'[p] = tip[p].coin /\ dbIndex'[p]
        BY <3>1, <3>5, Zenon DEF WriteIndex, WriteCoin
      <4>4. dbPoint'[p] = IF IsPoint(tip[p].coin) \/ IsPointRetarget(tip[p].coin)
                          THEN PointRecord(tip[p].coin) ELSE NoPoint
        BY <3>1, <3>5, Zenon DEF WritePoint
      <4>5. QED
        BY <4>2, <4>3, <4>4, Zenon
    <3>6. QED
      BY <3>3, <3>4, <3>5
  <2>5. IndexesAgree'
    BY <2>4 DEF IndexesAgree
  <2>6. QED
    BY <2>1, <2>2, <2>3, <2>5 DEF BInv
<1>7. ASSUME NEW o \in Outpoints, TipUncache(o), InMemory
      PROVE  BInv'
  <2>1. Inv'
    BY <1>0, <1>7, TipUncacheStep
  <2>2. dbCoin' = dbCoin /\ view' = view /\ tip' = [tip EXCEPT ![o] = Uncache(tip[o], o \in Burn)]
    BY <1>7 DEF TipUncache
  <2>3. Of(Uncache(tip[o], o \in Burn), utx[o])
    BY <1>9 DEF Of, Uncache
  <2>4. ASSUME NEW p \in Outpoints
        PROVE  Of(tip'[p], utx[p]) /\ Of(view'[p], utx[p])
    BY <1>0, <1>9, <2>2, <2>3
  <2>5. QED
    BY <1>7, <2>1, <2>2, <2>4, InMemoryStep
<1>10. CASE UNCHANGED bvars
  <2>1. Inv'
    BY <1>0, <1>10, StutterStep DEF bvars
  <2>2. InMemory /\ dbCoin' = dbCoin /\ tip' = tip /\ view' = view
    BY <1>10 DEF bvars, vars, InMemory
  <2>3. QED
    BY <1>9, <2>1, <2>2, InMemoryStep
<1>11. QED
  BY <1>1, <1>2, <1>3, <1>4, <1>5, <1>6, <1>7, <1>10 DEF BNext

\* The invariant holds in every behaviour.
LEMMA BInvHolds == BSpec => []BInv
  BY BInitInv, BNextInv, PTL DEF BSpec

\* The account index lists exactly the coins on disk and the pledge indexes
\* exactly the points and retargets among them (CCoinsViewDB::BatchWrite), so no
\* query throws "Database read error" or "Read coin error".
THEOREM IndexesAgreeTheorem == BSpec => []IndexesAgree
<1>1. BInv => IndexesAgree
  BY DEF BInv
<1>2. QED
  BY <1>1, BInvHolds, PTL

-----------------------------------------------------------------------------
(* What the entries passed to the database say of the coins.                *)

\* For every outpoint of the account or pledged to it, the entry in child is
\* right about the database and the coin seen through it is the one in coins
Sees(child, coins, acc) ==
  \A o \in Outpoints :
    /\ coins[o] \in CoinOrNone
    /\ coins[o] # NoCoin => coins[o].out = utx[o]
    /\ Regards(o, acc) =>
         /\ child[o] \in CacheEntry
         /\ EntryFits(o, child[o], dbCoin[o], dbBind[o])
         /\ coins[o] = GetCoin(child[o], dbCoin[o])

\* The entries of CoinsTip() are right about the database.
LEMMA TipSees ==
  ASSUME BInv, NEW acc
  PROVE  Sees(tip, TipCoins, acc)
<1> SUFFICES ASSUME NEW o \in Outpoints
             PROVE  /\ TipCoins[o] \in CoinOrNone
                    /\ TipCoins[o] # NoCoin => TipCoins[o].out = utx[o]
                    /\ tip[o] \in CacheEntry
                    /\ EntryFits(o, tip[o], dbCoin[o], dbBind[o])
                    /\ TipCoins[o] = GetCoin(tip[o], dbCoin[o])
  BY DEF Sees
<1>1. TipCoins[o] = TipCoin(o)
  BY DEF TipCoins
<1>2. tip[o] \in CacheEntry /\ EntryFits(o, tip[o], dbCoin[o], dbBind[o])
  BY LayerTypes DEF BInv
<1>3. QED
  BY <1>1, <1>2, AnswerOf DEF TipCoin

\* An entry that does not concern the account is of an outpoint that does not.
LEMMA ConcernsRegards ==
  ASSUME NEW o \in Outpoints, NEW acc, NEW e, Of(e, utx[o]), Regards(o, acc)
  PROVE  Concerns(e, acc) <=> e # NoEntry
BY DEF Of, Regards, Concerns, IsPoint, IsPointRetarget

\* CCoinsViewCache::GetBalance: the entries of both caches, merged, are right
\* about the database, also when one of the caches is passed down alone.
LEMMA MergedSees ==
  ASSUME BInv, NEW acc
  PROVE  Sees(Merged(acc), ViewCoins, acc)
<1> SUFFICES ASSUME NEW o \in Outpoints
             PROVE  /\ ViewCoins[o] \in CoinOrNone
                    /\ ViewCoins[o] # NoCoin => ViewCoins[o].out = utx[o]
                    /\ Regards(o, acc) =>
                         /\ Merged(acc)[o] \in CacheEntry
                         /\ EntryFits(o, Merged(acc)[o], dbCoin[o], dbBind[o])
                         /\ ViewCoins[o] = GetCoin(Merged(acc)[o], dbCoin[o])
  BY DEF Sees
<1>1. ViewCoins[o] = ViewCoin(o)
  BY DEF ViewCoins
<1>2. ViewCoins[o] \in CoinOrNone /\ (ViewCoins[o] # NoCoin => ViewCoins[o].out = utx[o])
  BY <1>1, AnswerOf
<1>3. SUFFICES ASSUME Regards(o, acc)
               PROVE  /\ Merged(acc)[o] \in CacheEntry
                      /\ EntryFits(o, Merged(acc)[o], dbCoin[o], dbBind[o])
                      /\ ViewCoin(o) = GetCoin(Merged(acc)[o], dbCoin[o])
  BY <1>1, <1>2
<1>4. /\ dbCoin[o] \in CoinOrNone /\ dbBind[o] \in BindOrNone
      /\ tip[o] \in CacheEntry /\ view[o] \in CacheEntry
      /\ EntryFits(o, tip[o], dbCoin[o], dbBind[o])
      /\ EntryFits(o, view[o], GetCoin(tip[o], dbCoin[o]), GetBindPlotterEntry(o, tip[o], dbBind[o]))
      /\ BindAgrees(o, dbCoin[o], dbBind[o])
  BY LayerTypes, LayersAgree DEF BInv, TipCoin, TipBind
<1>5. Of(tip[o], utx[o]) /\ Of(view[o], utx[o])
  BY DEF BInv, OwnOutput
<1>6. ViewCoin(o) = GetCoin(view[o], GetCoin(tip[o], dbCoin[o]))
  BY DEF ViewCoin, TipCoin
<1>7. CASE tip[o] = NoEntry /\ Merged(acc)[o] = view[o]
  <2>1. /\ GetCoin(NoEntry, dbCoin[o]) = dbCoin[o]
        /\ GetBindPlotterEntry(o, NoEntry, dbBind[o]) = dbBind[o]
    BY <1>4, EmptyView DEF EmptyCache
  <2>2. QED
    BY <1>4, <1>6, <1>7, <2>1
<1>8. CASE view[o] = NoEntry /\ Merged(acc)[o] = tip[o]
  <2>1. GetCoin(tip[o], dbCoin[o]) \in CoinOrNone
    BY <1>4, GetTypes
  <2>2. GetCoin(NoEntry, GetCoin(tip[o], dbCoin[o])) = GetCoin(tip[o], dbCoin[o])
    BY <2>1, CleanEntryFacts DEF GetCoin, FetchCoin
  <2>3. QED
    BY <1>4, <1>6, <1>8, <2>2
<1>9. CASE Merged(acc)[o] = BatchWrite(o, tip[o], view[o])
  <2>1. /\ BatchWrite(o, tip[o], view[o]) \in CacheEntry
        /\ EntryFits(o, BatchWrite(o, tip[o], view[o]), dbCoin[o], dbBind[o])
        /\ GetCoin(BatchWrite(o, tip[o], view[o]), dbCoin[o]) = GetCoin(view[o], GetCoin(tip[o], dbCoin[o]))
    BY <1>4, BatchWriteFits
  <2>2. QED
    BY <1>6, <1>9, <2>1
<1>10. CASE tip = EmptyCache
  BY <1>7, <1>10 DEF Merged, EmptyCache
<1>11. CASE tip # EmptyCache /\ view = EmptyCache
  BY <1>8, <1>11 DEF Merged, EmptyCache
<1>12. CASE tip # EmptyCache /\ view # EmptyCache /\ \A p \in Outpoints : ~Concerns(tip[p], acc)
  <2>1. tip[o] = NoEntry
    BY <1>3, <1>5, <1>12, ConcernsRegards
  <2>2. Merged(acc) = view
    BY <1>12 DEF Merged
  <2>3. QED
    BY <1>7, <2>1, <2>2
<1>13. CASE tip # EmptyCache /\ view # EmptyCache /\ ~(\A p \in Outpoints : ~Concerns(tip[p], acc))
  <2>1. Merged(acc)[o] = BatchWrite(o, IF Concerns(tip[o], acc) THEN tip[o] ELSE NoEntry,
                                       IF Concerns(view[o], acc) THEN view[o] ELSE NoEntry)
    BY <1>13 DEF Merged
  <2>2. /\ (IF Concerns(tip[o], acc) THEN tip[o] ELSE NoEntry) = tip[o]
        /\ (IF Concerns(view[o], acc) THEN view[o] ELSE NoEntry) = view[o]
    BY <1>3, <1>5, ConcernsRegards
  <2>3. QED
    BY <1>9, <2>1, <2>2
<1>14. QED
  BY <1>10, <1>11, <1>12, <1>13

\* What an entry of child says of the coin that is seen through it.
LEMMA Standing ==
  ASSUME BInv, NEW acc, NEW child, NEW coins, Sees(child, coins, acc),
         NEW o \in Outpoints, Regards(o, acc)
  PROVE  /\ o \in SpentIn(child) => coins[o] = NoCoin
         /\ o \in AddedIn(child) => coins[o] # NoCoin /\ coins[o] = child[o].coin
         /\ o \notin SpentIn(child) /\ o \notin AddedIn(child) => coins[o] = dbCoin[o]
<1>1. /\ child[o] \in CacheEntry /\ coins[o] = GetCoin(child[o], dbCoin[o])
      /\ EntryFits(o, child[o], dbCoin[o], dbBind[o])
  BY DEF Sees
<1>2. dbCoin[o] \in CoinOrNone
  BY LayerTypes DEF BInv
<1>3. CASE ~IsDirty(child[o])
  <2>1. o \notin SpentIn(child) /\ o \notin AddedIn(child)
    BY <1>3 DEF SpentIn, AddedIn, DirtyIn
  <2>2. child[o] # NoEntry => dbCoin[o] # NoCoin /\ child[o] = CleanEntry(dbCoin[o])
    BY <1>1, <1>3 DEF EntryFits, IsDirty
  <2>3. GetCoin(child[o], dbCoin[o]) = dbCoin[o]
    BY <2>2, CleanEntryFacts DEF GetCoin, FetchCoin
  <2>4. QED
    BY <1>1, <2>1, <2>3
<1>4. CASE IsDirty(child[o]) /\ child[o].spent
  <2>1. o \notin AddedIn(child) /\ o \in SpentIn(child)
    BY <1>4 DEF SpentIn, AddedIn, DirtyIn
  <2>2. GetCoin(child[o], dbCoin[o]) = NoCoin
    BY <1>4 DEF GetCoin, FetchCoin, IsDirty
  <2>3. QED
    BY <1>1, <2>1, <2>2
<1>5. CASE IsDirty(child[o]) /\ ~child[o].spent
  <2>1. o \in AddedIn(child) /\ o \notin SpentIn(child)
    BY <1>5 DEF SpentIn, AddedIn, DirtyIn
  <2>2. GetCoin(child[o], dbCoin[o]) = child[o].coin
    BY <1>5 DEF GetCoin, FetchCoin, IsDirty
  <2>3. child[o] \in Entry
    BY <1>1, <1>5 DEF CacheEntry, IsDirty
  <2>4. child[o].coin # NoCoin
    BY <2>3, CoinsAssumption DEF Entry
  <2>5. QED
    BY <1>1, <2>1, <2>2, <2>4
<1>6. QED
  BY <1>3, <1>4, <1>5

\* The index selects the coins on disk that pay one of the outputs, and the
\* match is by output.
Finds(selected, matching, outs, child, acc) ==
  /\ selected \in SUBSET Outpoints
  /\ \A o \in Outpoints : utx[o] \in outs => Regards(o, acc)
  /\ \A o \in Outpoints : o \in selected <=> dbCoin[o] # NoCoin /\ utx[o] \in outs
  /\ \A o \in AddedIn(child) : matching[o] <=> utx[o] \in outs

\* The queries that keep a map of the selected coins end with the outpoints of
\* the unspent coins that pay one of the outputs.
LEMMA CorrectedIsHeld ==
  ASSUME BInv, NEW acc, NEW child, NEW coins, Sees(child, coins, acc),
         NEW outs, NEW selected, NEW matching, Finds(selected, matching, outs, child, acc)
  PROVE  Corrected(selected, matching, child) = Held(coins, outs)
<1>1. ASSUME NEW o \in Outpoints, utx[o] \in outs
      PROVE  o \in Corrected(selected, matching, child) <=> o \in Held(coins, outs)
  <2>1. /\ o \in SpentIn(child) => coins[o] = NoCoin
        /\ o \in AddedIn(child) => coins[o] # NoCoin
        /\ o \notin SpentIn(child) /\ o \notin AddedIn(child) => coins[o] = dbCoin[o]
    <3>1. Regards(o, acc)
      BY <1>1 DEF Finds
    <3>2. QED
      BY <3>1, Standing
  <2>2. coins[o] # NoCoin => coins[o].out = utx[o]
    BY DEF Sees
  <2>3. o \in AddedIn(child) => matching[o] /\ o \notin SpentIn(child)
    BY <1>1 DEF AddedIn, Finds
  <2>4. o \in selected <=> dbCoin[o] # NoCoin
    BY <1>1 DEF Finds
  <2>5. o \in Held(coins, outs) <=> coins[o] # NoCoin
    BY <1>1, <2>2 DEF Held
  <2>6. QED
    BY <2>1, <2>3, <2>4, <2>5 DEF Corrected
<1>2. ASSUME NEW o \in Outpoints, utx[o] \notin outs
      PROVE  o \notin Corrected(selected, matching, child) /\ o \notin Held(coins, outs)
  <2>1. coins[o] # NoCoin => coins[o].out = utx[o]
    BY DEF Sees
  <2>2. QED
    BY <1>2, <2>1 DEF Corrected, Held, Finds
<1>3. Corrected(selected, matching, child) \subseteq Outpoints /\ Held(coins, outs) \subseteq Outpoints
  BY DEF Corrected, Held, AddedIn, DirtyIn, Finds
<1>4. QED
  BY <1>1, <1>2, <1>3

-----------------------------------------------------------------------------
(* The sums.                                                                *)

\* Amounts are numbers and sets of outpoints finite.
LEMMA Amounts ==
  ASSUME BInv
  PROVE  /\ Finite(Outpoints)
         /\ \A o \in Outpoints : Value[o] = utx[o].amount /\ Value[o] \in Int
<1>1. \A o \in Outpoints : utx[o] \in Outputs
  BY DEF BInv
<1>2. Finite(Outpoints)
  BY BalancesAssumption DEF Finite
<1>3. ASSUME NEW o \in Outpoints
      PROVE  Value[o] = utx[o].amount /\ Value[o] \in Int
  <2>1. utx[o].amount \in Nat
    BY <1>1, BalancesAssumption
  <2>2. QED
    BY <2>1 DEF Value
<1>4. QED
  BY <1>2, <1>3

\* CCoinsViewDB::GetCoinBalance is the total of the account's unspent coins.
LEMMA CoinBalance ==
  ASSUME BInv, NEW acc, NEW child, NEW coins, Sees(child, coins, acc)
  PROVE  GetCoinBalance(acc, child, 0) =
           SumFunctionOnSet(Value, Held(coins, {x \in Outputs : x.account = acc}))
<1> DEFINE F(S) == SumFunctionOnSet(Value, S)
           outs == {x \in Outputs : x.account = acc}
           mine == {o \in Outpoints : utx[o].account = acc}
           A == {o \in mine : dbIndex[o]}
           B == {o \in mine \cap SpentIn(child) : dbIndex[o]}
           C == {o \in mine \cap AddedIn(child) : ~dbIndex[o]}
           Z == (A \ B) \cup C
<1>1. GetCoinBalance(acc, child, 0) = F(A) - F(B) + F(C)
  BY DEF GetCoinBalance
<1>2. B \subseteq A /\ A \in SUBSET Outpoints /\ B \in SUBSET Outpoints /\ C \in SUBSET Outpoints
  OBVIOUS
<1>3. (A \ B) \cap B = {} /\ (A \ B) \cup B = A /\ (A \ B) \cap C = {}
  BY <1>2
<1>4. Z = Held(coins, outs)
  <2>1. ASSUME NEW o \in Outpoints
        PROVE  o \in Z <=> o \in Held(coins, outs)
    <3>1. coins[o] # NoCoin => coins[o].out = utx[o]
      BY DEF Sees
    <3>2. utx[o] \in Outputs
      BY DEF BInv
    <3>3. o \in Held(coins, outs) <=> coins[o] # NoCoin /\ o \in mine
      BY <3>1, <3>2 DEF Held
    <3>4. dbIndex[o] <=> dbCoin[o] # NoCoin
      BY DEF BInv, IndexesAgree
    <3>5. CASE o \in mine
      <4>1. /\ o \in SpentIn(child) => coins[o] = NoCoin
            /\ o \in AddedIn(child) => coins[o] # NoCoin
            /\ o \notin SpentIn(child) /\ o \notin AddedIn(child) => coins[o] = dbCoin[o]
        BY <3>5, Standing DEF Regards
      <4>2. o \in AddedIn(child) => o \notin SpentIn(child)
        BY DEF AddedIn
      <4>3. QED
        BY <3>3, <3>4, <3>5, <4>1, <4>2
    <3>6. CASE o \notin mine
      BY <3>3, <3>6
    <3>7. QED
      BY <3>5, <3>6
  <2>2. Z \subseteq Outpoints /\ Held(coins, outs) \subseteq Outpoints
    BY DEF Held
  <2>3. QED
    BY <2>1, <2>2
<1> HIDE DEF mine, A, B, C
<1>5. /\ F(A) = F(A \ B) + F(B) /\ F(Z) = F(A \ B) + F(C)
  BY <1>2, <1>3, Amounts, SumDisjoint
<1>6. F(A) \in Int /\ F(B) \in Int /\ F(C) \in Int /\ F(A \ B) \in Int
  BY <1>2, Amounts, SumType
<1>7. F(A) - F(B) + F(C) = F(Z)
  <2> DEFINE a == F(A)
             b == F(B)
             c == F(C)
             d == F(A \ B)
  <2>1. a \in Int /\ b \in Int /\ c \in Int /\ d \in Int /\ a = d + b /\ F(Z) = d + c
    BY <1>5, <1>6
  <2> HIDE DEF F, a, b, c, d
  <2>2. a - b + c = F(Z)
    BY <2>1
  <2>3. QED
    BY <2>2 DEF a, b, c
<1> HIDE DEF F, Z
<1>8. QED
  BY <1>1, <1>4, <1>7 DEF F

\* The pledge on record for an outpoint is the pledge of its coin on disk.
LEMMA PointOnDisk ==
  ASSUME BInv, NEW o \in Outpoints
  PROVE  /\ dbPoint[o] # NoPoint <=> dbCoin[o] # NoCoin /\ utx[o].type \in ChiaPoints \cup {"RETARGET"}
         /\ dbPoint[o] # NoPoint => /\ dbPoint[o].type = utx[o].type
                                    /\ dbPoint[o].sender = utx[o].account
                                    /\ dbPoint[o].receiver = utx[o].receiver
<1>1. dbPoint[o] = IF dbCoin[o] # NoCoin /\ (IsPoint(dbCoin[o]) \/ IsPointRetarget(dbCoin[o]))
                   THEN PointRecord(dbCoin[o]) ELSE NoPoint
  BY DEF BInv, IndexesAgree
<1>2. dbCoin[o] # NoCoin => dbCoin[o].out = utx[o]
  BY DEF BInv, OwnOutput
<1>3. PointRecord(dbCoin[o]) # NoPoint
  BY DEF PointRecord, NoPoint
<1>4. QED
  BY <1>1, <1>2, <1>3 DEF IsPoint, IsPointRetarget, PointRecord

\* CCoinsViewDB::GetBalancePointSend is the total of the account's unspent points.
LEMMA SendSum ==
  ASSUME BInv, NEW acc, NEW child, NEW coins, Sees(child, coins, acc), NEW t \in ChiaPoints
  PROVE  GetBalancePointSend(t, acc, child) =
           SumFunctionOnSet(Value, Held(coins, {x \in Outputs : x.type = t /\ x.account = acc}))
<1> DEFINE outs == {x \in Outputs : x.type = t /\ x.account = acc}
           S == {o \in Outpoints : dbPoint[o] # NoPoint /\ dbPoint[o].type = t /\ dbPoint[o].sender = acc}
           M == [o \in Outpoints |-> utx[o].type = t /\ utx[o].account = acc]
<1>1. \A o \in Outpoints : utx[o] \in Outputs
  BY DEF BInv
<1>2. \A o \in Outpoints : utx[o] \in outs => Regards(o, acc)
  BY DEF Regards
<1>3. \A o \in Outpoints : o \in S <=> dbCoin[o] # NoCoin /\ utx[o] \in outs
  BY <1>1, PointOnDisk
<1>4. \A o \in AddedIn(child) : M[o] <=> utx[o] \in outs
  BY <1>1 DEF AddedIn, DirtyIn
<1>5. S \in SUBSET Outpoints
  OBVIOUS
<1>6. GetBalancePointSend(t, acc, child) = SumFunctionOnSet(Value, Corrected(S, M, child))
  BY DEF GetBalancePointSend
<1> HIDE DEF outs, S, M
<1>7. Corrected(S, M, child) = Held(coins, outs)
  <2>1. Finds(S, M, outs, child, acc)
    BY <1>2, <1>3, <1>4, <1>5 DEF Finds
  <2>2. QED
    BY <2>1, CorrectedIsHeld
<1>8. QED
  BY <1>6, <1>7 DEF outs

\* The outputs of the types T that pledge to the account
PaidTo(T, acc) == {x \in Outputs : x.type \in T /\ x.receiver = acc}

\* CCoinsViewDB::GetBalancePointReceive is the weighted total of the unspent
\* points of the type to the account.
LEMMA ReceiveSum ==
  ASSUME BInv, NEW acc, NEW child, NEW coins, Sees(child, coins, acc), NEW t \in ChiaPoints
  PROVE  GetBalancePointReceive(t, acc, child) =
           SumFunctionOnSet([o \in Outpoints |-> TermAmount(o, t)],
                            Held(coins, PaidTo({t}, acc)))
<1> DEFINE outs == PaidTo({t}, acc)
           S == {o \in Outpoints : dbPoint[o] # NoPoint /\ dbPoint[o].type = t /\ dbPoint[o].receiver = acc}
           M == [o \in Outpoints |-> utx[o].type = t /\ utx[o].receiver = acc]
<1>1. \A o \in Outpoints : utx[o] \in Outputs
  BY DEF BInv
<1>2. \A o \in Outpoints : utx[o] \in outs => Regards(o, acc)
  BY DEF Regards, PaidTo
<1>3. \A o \in Outpoints : o \in S <=> dbCoin[o] # NoCoin /\ utx[o] \in outs
  BY <1>1, PointOnDisk DEF PaidTo
<1>4. \A o \in AddedIn(child) : M[o] <=> utx[o] \in outs
  BY <1>1 DEF AddedIn, DirtyIn, PaidTo
<1>5. S \in SUBSET Outpoints
  OBVIOUS
<1>6. GetBalancePointReceive(t, acc, child) =
        SumFunctionOnSet([o \in Outpoints |-> TermAmount(o, t)], Corrected(S, M, child))
  BY DEF GetBalancePointReceive
<1> HIDE DEF outs, S, M
<1>7. Corrected(S, M, child) = Held(coins, outs)
  <2>1. Finds(S, M, outs, child, acc)
    BY <1>2, <1>3, <1>4, <1>5 DEF Finds
  <2>2. QED
    BY <2>1, CorrectedIsHeld
<1>8. QED
  BY <1>6, <1>7 DEF outs

\* CCoinsViewDB::GetBalancePointRetargetReceive is the weighted total of the
\* unspent retargets to the account.
LEMMA RetargetSum ==
  ASSUME BInv, NEW acc, NEW child, NEW coins, Sees(child, coins, acc)
  PROVE  GetBalancePointRetargetReceive(acc, child) =
           SumFunctionOnSet(Retargeted, Held(coins, PaidTo({"RETARGET"}, acc)))
<1> DEFINE outs == PaidTo({"RETARGET"}, acc)
           S == {o \in Outpoints : dbPoint[o] # NoPoint /\ dbPoint[o].type = "RETARGET" /\ dbPoint[o].receiver = acc}
           M == [o \in Outpoints |-> utx[o].type = "RETARGET" /\ utx[o].receiver = acc]
<1>1. \A o \in Outpoints : utx[o] \in Outputs
  BY DEF BInv
<1>2. \A o \in Outpoints : utx[o] \in outs => Regards(o, acc)
  BY DEF Regards, PaidTo
<1>3. \A o \in Outpoints : o \in S <=> dbCoin[o] # NoCoin /\ utx[o] \in outs
  BY <1>1, PointOnDisk DEF PaidTo
<1>4. \A o \in AddedIn(child) : M[o] <=> utx[o] \in outs
  BY <1>1 DEF AddedIn, DirtyIn, PaidTo
<1>5. S \in SUBSET Outpoints
  OBVIOUS
<1>6. GetBalancePointRetargetReceive(acc, child) = SumFunctionOnSet(Retargeted, Corrected(S, M, child))
  BY DEF GetBalancePointRetargetReceive
<1> HIDE DEF outs, S, M
<1>7. Corrected(S, M, child) = Held(coins, outs)
  <2>1. Finds(S, M, outs, child, acc)
    BY <1>2, <1>3, <1>4, <1>5 DEF Finds
  <2>2. QED
    BY <2>1, CorrectedIsHeld
<1>8. QED
  BY <1>6, <1>7 DEF outs

\* The live bind coins of an account
LiveBinds(coins, acc) == Held(coins, {x \in Outputs : x.type \in BindTypes /\ x.account = acc})

\* CCoinsViewDB::GetBalanceBind is a lock amount for each live bind coin that is
\* of the type asked for or not written.
LEMMA BindSum ==
  ASSUME BInv, NEW acc, NEW child, NEW coins, Sees(child, coins, acc), NEW t \in BindTypes
  PROVE  GetBalanceBind(t, acc, child) =
           SumFunctionOnSet(Lock, {o \in LiveBinds(coins, acc) : utx[o].type = t \/ o \in DirtyIn(child)})
<1> DEFINE L == LiveBinds(coins, acc)
           S == {o \in Outpoints : dbBind[o] # NoBind /\ dbBind[o].valid
                                   /\ utx[o].type = t /\ utx[o].account = acc}
           M == [o \in Outpoints |-> utx[o].account = acc /\ child[o] # NoEntry
                                     /\ BindCoin(o, child[o].coin)]
<1>1. \A o \in Outpoints : /\ utx[o] \in Outputs
                           /\ coins[o] # NoCoin => coins[o] \in Coin /\ coins[o].out = utx[o]
  BY DEF BInv, Sees, CoinOrNone
<1>2. \A o \in Outpoints :
        o \in L <=> coins[o] # NoCoin /\ utx[o].type \in BindTypes /\ utx[o].account = acc
  BY <1>1 DEF LiveBinds, Held
<1>3. ASSUME NEW o \in Outpoints
      PROVE  o \in S <=> dbCoin[o] # NoCoin /\ utx[o].type = t /\ utx[o].account = acc
  <2>1. BindAgrees(o, dbCoin[o], dbBind[o]) /\ dbCoin[o] \in CoinOrNone
    BY LayerTypes, LayersAgree DEF BInv
  <2>2. dbCoin[o] # NoCoin => dbCoin[o].out = utx[o] /\ dbCoin[o] \in Coin
    BY <2>1 DEF BInv, OwnOutput, CoinOrNone
  <2>3. CASE dbCoin[o] = NoCoin
    BY <2>1, <2>3 DEF BindAgrees
  <2>4. CASE dbCoin[o] # NoCoin
    <3>1. BindCoin(o, dbCoin[o]) <=> utx[o].type \in BindTypes
      BY <2>2, <2>4, BalancesAssumption
    <3>2. dbBind[o] = IF BindCoin(o, dbCoin[o]) THEN [coin |-> dbCoin[o], valid |-> TRUE] ELSE NoBind
      BY <2>1, <2>4 DEF BindAgrees
    <3>3. [coin |-> dbCoin[o], valid |-> TRUE] # NoBind
      BY DEF NoBind
    <3>4. [coin |-> dbCoin[o], valid |-> TRUE].valid
      OBVIOUS
    <3>5. dbBind[o] # NoBind /\ dbBind[o].valid <=> utx[o].type \in BindTypes
      BY <3>1, <3>2, <3>3, <3>4, Zenon
    <3>6. QED
      BY <2>4, <3>5
  <2>5. QED
    BY <2>3, <2>4
<1>4. ASSUME NEW o \in AddedIn(child), utx[o].account = acc
      PROVE  M[o] <=> utx[o].type \in BindTypes
  <2>1. o \in Outpoints /\ child[o] # NoEntry
    BY DEF AddedIn, DirtyIn, IsDirty
  <2>2. coins[o] # NoCoin /\ coins[o] = child[o].coin
    BY <1>4, <2>1, Standing DEF Regards
  <2>3. BindCoin(o, child[o].coin) <=> utx[o].type \in BindTypes
    BY <1>1, <2>1, <2>2, BalancesAssumption
  <2>4. QED
    BY <1>4, <2>1, <2>3
<1>5. \A o \in Outpoints : M[o] => utx[o].account = acc
  OBVIOUS
<1>6. GetBalanceBind(t, acc, child) = SumFunctionOnSet(Lock, Corrected(S, M, child))
  BY DEF GetBalanceBind
<1>7. S \subseteq Outpoints /\ L \subseteq Outpoints
  BY DEF LiveBinds, Held
<1> HIDE DEF L, S, M
<1>8. ASSUME NEW o \in Outpoints
      PROVE  o \in Corrected(S, M, child) <=> o \in L /\ (utx[o].type = t \/ o \in DirtyIn(child))
  <2>1. o \in DirtyIn(child) <=> o \in SpentIn(child) \/ o \in AddedIn(child)
    BY DEF SpentIn, AddedIn
  <2>2. o \in AddedIn(child) => o \notin SpentIn(child)
    BY DEF AddedIn
  <2>3. CASE utx[o].account # acc
    BY <1>2, <1>3, <1>5, <2>3 DEF Corrected
  <2>4. CASE utx[o].account = acc
    <3>1. /\ o \in SpentIn(child) => coins[o] = NoCoin
          /\ o \in AddedIn(child) => coins[o] # NoCoin
          /\ o \notin SpentIn(child) /\ o \notin AddedIn(child) => coins[o] = dbCoin[o]
      BY <2>4, Standing DEF Regards
    <3>2. o \in L <=> coins[o] # NoCoin /\ utx[o].type \in BindTypes
      BY <1>2, <2>4
    <3>3. o \in S <=> dbCoin[o] # NoCoin /\ utx[o].type = t
      BY <1>3, <2>4
    <3>4. o \in AddedIn(child) => (M[o] <=> utx[o].type \in BindTypes)
      BY <1>4, <2>4
    <3>5. QED
      BY <2>1, <2>2, <3>1, <3>2, <3>3, <3>4 DEF Corrected
  <2>5. QED
    BY <2>3, <2>4
<1>9. Corrected(S, M, child) \subseteq Outpoints
  BY <1>7 DEF Corrected, AddedIn, DirtyIn
<1>10. Corrected(S, M, child) = {o \in L : utx[o].type = t \/ o \in DirtyIn(child)}
  BY <1>7, <1>8, <1>9
<1>11. QED
  BY <1>6, <1>10 DEF L

\* CCoinsViewDB::GetBalance, balanceBindPlotter: a coin that is not written is
\* in the answers for both types.
LEMMA LockedSum ==
  ASSUME BInv, NEW acc, NEW child, NEW coins, Sees(child, coins, acc)
  PROVE  LockedIs(acc, child, coins)
<1> DEFINE F(Z) == SumFunctionOnSet(Lock, Z)
           L == LiveBinds(coins, acc)
           D == L \cap DirtyIn(child)
           A == {o \in L : utx[o].type = "BURST" /\ o \notin DirtyIn(child)}
           B == {o \in L : utx[o].type = "CHIA" /\ o \notin DirtyIn(child)}
<1>1. L \in SUBSET Outpoints /\ \A o \in L : utx[o].type \in BindTypes
  <2>1. \A o \in Outpoints : coins[o] # NoCoin => coins[o].out = utx[o]
    BY DEF Sees
  <2>2. QED
    BY <2>1 DEF LiveBinds, Held
<1>2. Finite(Outpoints) /\ \A o \in Outpoints : Lock[o] \in Int
  BY Amounts, BalancesAssumption DEF Lock
<1>3. /\ GetBalanceBind("BURST", acc, child) = F({o \in L : utx[o].type = "BURST" \/ o \in DirtyIn(child)})
      /\ GetBalanceBind("CHIA", acc, child) = F({o \in L : utx[o].type = "CHIA" \/ o \in DirtyIn(child)})
  BY BindSum DEF BindTypes
<1> HIDE DEF L
<1>4. /\ {o \in L : utx[o].type = "BURST" \/ o \in DirtyIn(child)} = A \cup D
      /\ {o \in L : utx[o].type = "CHIA" \/ o \in DirtyIn(child)} = B \cup D
      /\ {o \in L : utx[o].type = "CHIA"} \cup D = B \cup D
      /\ A \cup (B \cup D) = L
  BY <1>1 DEF BindTypes
<1>5. A \in SUBSET Outpoints /\ B \in SUBSET Outpoints /\ D \in SUBSET Outpoints /\ B \cup D \in SUBSET Outpoints
  BY <1>1
<1>6. A \cap D = {} /\ B \cap D = {} /\ A \cap (B \cup D) = {}
  OBVIOUS
<1> HIDE DEF A, B, D, F
<1>7. /\ F(A \cup D) = F(A) + F(D) /\ F(B \cup D) = F(B) + F(D)
      /\ F(A \cup (B \cup D)) = F(A) + F(B \cup D)
  BY <1>2, <1>5, <1>6, SumDisjoint DEF F
<1>8. F(A) \in Int /\ F(B) \in Int /\ F(D) \in Int
  BY <1>2, <1>5, SumType DEF F
<1>9. GetBalanceBind("BURST", acc, child) = F(A) + F(D) /\ GetBalanceBind("CHIA", acc, child) = F(B) + F(D)
  BY <1>3, <1>4, <1>7
<1>10. BindPlotterBalance(TRUE, acc, child) = F(L) + F(D)
  <2>1. BindPlotterBalance(TRUE, acc, child) = (F(A) + F(D)) + (F(B) + F(D))
    BY <1>9 DEF BindPlotterBalance
  <2>2. F(L) = F(A) + (F(B) + F(D))
    BY <1>4, <1>7
  <2>3. \A x, y, z \in Int : (x + z) + (y + z) = (x + (y + z)) + z
    OBVIOUS
  <2>4. (F(A) + F(D)) + (F(B) + F(D)) = (F(A) + (F(B) + F(D))) + F(D)
    BY <1>8, <2>3, Zenon
  <2>5. QED
    BY <2>1, <2>2, <2>4, Zenon
<1>11. BindPlotterBalance(FALSE, acc, child) = F({o \in L : utx[o].type = "CHIA"} \cup D)
  <2>1. BindPlotterBalance(FALSE, acc, child) = 0 + (F(B) + F(D))
    BY <1>9 DEF BindPlotterBalance
  <2>2. \A y, z \in Int : 0 + (y + z) = y + z
    OBVIOUS
  <2>3. 0 + (F(B) + F(D)) = F(B \cup D)
    BY <1>7, <1>8, <2>2, Zenon
  <2>4. QED
    BY <1>4, <2>1, <2>3, Zenon
<1>12. QED
  BY <1>10, <1>11 DEF LockedIs, LiveBinds, L, D, F

\* What a pledge counts for is a number, its term amount by its own type or, for
\* a retarget, by the type of the point it moves (CalculateTermAmount).
LEMMA PledgedAmounts ==
  ASSUME BInv, NEW o \in Outpoints
  PROVE  /\ \A t \in ChiaPoints : TermAmount(o, t) \in Int
         /\ \A t \in ChiaPoints : utx[o].type = t => Pledged[o] = TermAmount(o, t)
         /\ utx[o].type = "RETARGET" => Pledged[o] = Retargeted[o] /\ Pledged[o] \in Int
<1>1. utx[o] \in Outputs /\ utx[o].amount \in Nat
  BY BalancesAssumption DEF BInv
<1>2. ASSUME NEW t \in ChiaPoints
      PROVE  TermAmount(o, t) \in Int
  <2>1. Weight[t] \in Nat
    BY BalancesAssumption
  <2> DEFINE n == Weight[t] * utx[o].amount
  <2>2. n \in Int
    BY <1>1, <2>1
  <2> HIDE DEF n
  <2>3. n \div 100 \in Int
    BY <2>2
  <2>4. QED
    BY <2>3 DEF TermAmount, n
<1>3. ASSUME NEW t \in ChiaPoints, utx[o].type = t
      PROVE  Pledged[o] = TermAmount(o, t)
  <2>1. t # "RETARGET"
    BY BalancesAssumption
  <2>2. QED
    BY <1>3, <2>1 DEF Pledged
<1>4. ASSUME utx[o].type = "RETARGET"
      PROVE  Pledged[o] = Retargeted[o] /\ Pledged[o] \in Int
  <2>1. utx[o].pointType \in ChiaPoints
    BY <1>1, <1>4, BalancesAssumption
  <2>2. Pledged[o] = TermAmount(o, utx[o].pointType) /\ Retargeted[o] = TermAmount(o, utx[o].pointType)
    BY <1>4 DEF Pledged, Retargeted
  <2>3. QED
    BY <1>2, <2>1, <2>2
<1>5. QED
  BY <1>2, <1>3, <1>4

\* CCoinsViewDB::GetBalance, the pledges received: the sum over the types of
\* points and the retargets is the weighted total of the unspent pledges.
LEMMA PledgeSum ==
  ASSUME BInv, NEW acc, NEW child, NEW coins, Sees(child, coins, acc)
  PROVE  PointReceived(acc, child) = SumFunctionOnSet(Pledged, Held(coins, Pledges(acc)))
<1> DEFINE H(T) == Held(coins, PaidTo(T, acc))
           All == ChiaPoints \cup {"RETARGET"}
           R == [t \in ChiaPoints |-> GetBalancePointReceive(t, acc, child)]
           F(S) == SumFunctionOnSet(Pledged, S)
           G(T) == SumFunctionOnSet(R, T)
           Z == {T \in SUBSET ChiaPoints : G(T) = F(H(T))}
<1>1. /\ Finite(Outpoints) /\ Finite(ChiaPoints) /\ "RETARGET" \notin ChiaPoints
  BY BalancesAssumption DEF Finite
<1>2. \A T : \A o : o \in H(T) <=> /\ o \in Outpoints /\ coins[o] # NoCoin
                                   /\ utx[o].type \in T /\ utx[o].receiver = acc
  <2>1. \A o \in Outpoints : utx[o] \in Outputs /\ (coins[o] # NoCoin => coins[o].out = utx[o])
    BY DEF BInv, Sees
  <2>2. QED
    BY <2>1 DEF Held, PaidTo
<1>3. Held(coins, Pledges(acc)) = H(All)
  BY DEF Pledges, PaidTo
<1>4. ASSUME NEW t \in ChiaPoints
      PROVE  R[t] = SumFunctionOnSet([o \in Outpoints |-> TermAmount(o, t)], H({t}))
  <2>1. R[t] = GetBalancePointReceive(t, acc, child)
    OBVIOUS
  <2>2. GetBalancePointReceive(t, acc, child) =
          SumFunctionOnSet([o \in Outpoints |-> TermAmount(o, t)], H({t}))
    BY ReceiveSum
  <2> HIDE DEF H, R
  <2>3. QED
    BY <2>1, <2>2
<1>5. GetBalancePointRetargetReceive(acc, child) = SumFunctionOnSet(Retargeted, H({"RETARGET"}))
  BY RetargetSum
<1>6. PointReceived(acc, child) = G(ChiaPoints) + GetBalancePointRetargetReceive(acc, child)
  BY DEF PointReceived, SumFunction
<1> HIDE DEF H, R
<1>7. \A T : H(T) \in SUBSET Outpoints /\ Finite(H(T))
  BY <1>1, <1>2, FiniteSubset
<1>8. ASSUME NEW o \in H(All)
      PROVE  Pledged[o] \in Int
  <2>1. o \in Outpoints /\ (utx[o].type \in ChiaPoints \/ utx[o].type = "RETARGET")
    BY <1>2
  <2>2. CASE utx[o].type \in ChiaPoints
    <3>1. Pledged[o] = TermAmount(o, utx[o].type) /\ TermAmount(o, utx[o].type) \in Int
      BY <2>1, <2>2, PledgedAmounts
    <3>2. QED
      BY <3>1
  <2>3. CASE utx[o].type = "RETARGET"
    BY <2>1, <2>3, PledgedAmounts
  <2>4. QED
    BY <2>1, <2>2, <2>3
<1>9. ASSUME NEW t \in ChiaPoints
      PROVE  R[t] = F(H({t})) /\ R[t] \in Int
  <2> DEFINE f == [o \in Outpoints |-> TermAmount(o, t)]
  <2>1. ASSUME NEW o \in H({t})
        PROVE  f[o] \in Int /\ f[o] = Pledged[o]
    <3>1. o \in Outpoints /\ utx[o].type = t
      BY <1>2
    <3>2. Pledged[o] = TermAmount(o, t) /\ TermAmount(o, t) \in Int
      BY <3>1, PledgedAmounts
    <3>3. QED
      BY <3>1, <3>2
  <2>2. R[t] = SumFunctionOnSet(f, H({t}))
    BY <1>4
  <2> HIDE DEF f
  <2>3. SumFunctionOnSet(f, H({t})) = F(H({t})) /\ SumFunctionOnSet(f, H({t})) \in Int
    BY <1>7, <2>1, SumEqual, SumType
  <2>4. QED
    BY <2>2, <2>3
<1>10. GetBalancePointRetargetReceive(acc, child) = F(H({"RETARGET"}))
  <2>1. ASSUME NEW o \in H({"RETARGET"})
        PROVE  Retargeted[o] \in Int /\ Retargeted[o] = Pledged[o]
    <3>1. o \in Outpoints /\ utx[o].type = "RETARGET"
      BY <1>2
    <3>2. QED
      BY <3>1, PledgedAmounts
  <2>2. SumFunctionOnSet(Retargeted, H({"RETARGET"})) = F(H({"RETARGET"}))
    BY <1>7, <2>1, SumEqual
  <2>3. QED
    BY <1>5, <2>2
<1>11. ASSUME NEW T, NEW V, T \in SUBSET All, V \in SUBSET All, T \cap V = {}
       PROVE  F(H(T \cup V)) = F(H(T)) + F(H(V))
  <2>1. H(T) \in SUBSET H(All) /\ H(V) \in SUBSET H(All) /\ H(T) \cap H(V) = {}
    BY <1>2, <1>11
  <2>2. H(T \cup V) = H(T) \cup H(V)
    BY <1>2
  <2>3. Finite(H(All)) /\ \A o \in H(All) : Pledged[o] \in Int
    BY <1>7, <1>8
  <2> DEFINE D == H(All)
             A == H(T)
             B == H(V)
  <2>5. Finite(D) /\ (\A o \in D : Pledged[o] \in Int) /\ A \in SUBSET D /\ B \in SUBSET D /\ A \cap B = {}
    BY <2>1, <2>3
  <2> HIDE DEF D, A, B
  <2>6. SumFunctionOnSet(Pledged, A \cup B) = SumFunctionOnSet(Pledged, A) + SumFunctionOnSet(Pledged, B)
    BY <2>5, SumDisjoint
  <2>4. QED
    BY <2>2, <2>6 DEF A, B
<1>12. {} \in Z
  <2>1. H({}) = {}
    BY <1>2
  <2>2. G({}) = 0
    BY <1>1, <1>9, SumAdd
  <2>3. F({}) = 0
    BY <1>7, <1>8, SumAdd
  <2>4. QED
    BY <2>1, <2>2, <2>3
<1>13. ASSUME NEW T \in SUBSET ChiaPoints, NEW t \in ChiaPoints \ T, T \in Z
       PROVE  T \cup {t} \in Z
  <2>6. Finite(ChiaPoints) /\ \A v \in ChiaPoints : R[v] \in Int
    BY <1>1, <1>9
  <2>1. G(T \cup {t}) = R[t] + G(T)
    BY <2>6, SumAdd
  <2>2. F(H(T \cup {t})) = F(H(T)) + F(H({t}))
    BY <1>11
  <2>3. R[t] = F(H({t})) /\ G(T) = F(H(T))
    BY <1>9, <1>13
  <2>4. R[t] \in Int /\ G(T) \in Int
    BY <1>1, <1>9, SumType
  <2>5. QED
    BY <2>1, <2>2, <2>3, <2>4
<1>14. ChiaPoints \in Z
  <2> HIDE DEF Z
  <2>1. QED
    BY <1>1, <1>12, <1>13, FiniteGrowth
<1>15. F(H(All)) = F(H(ChiaPoints)) + F(H({"RETARGET"}))
  BY <1>1, <1>11
<1>16. QED
  BY <1>3, <1>6, <1>10, <1>14, <1>15

\* The balance queries through CoinsTip() and through the view of a block give
\* the total of the account's unspent coins (CCoinsViewDB::GetCoinBalance over
\* what CCoinsViewCache::GetBalance passes down), for any number of coins and
\* whatever of them is in a cache or on disk.
THEOREM BalanceIsSumTheorem == BSpec => []BalanceIsSum
<1>1. BInv => BalanceIsSum
  BY TipSees, MergedSees, CoinBalance DEF BalanceIsSum
<1>2. QED
  BY <1>1, BInvHolds, PTL

\* What was pledged to an account and what it pledged are the totals of the
\* unspent pledges (GetBalancePointReceive, GetBalancePointRetargetReceive,
\* GetBalancePointSend), so the choice between full and low mortgage depends on
\* the coins alone.
THEOREM PledgesAreSumsTheorem == BSpec => []PledgesAreSums
<1>1. BInv => PledgesAreSums
  <2> SUFFICES ASSUME BInv PROVE PledgesAreSums
    OBVIOUS
  <2>1. ASSUME NEW acc \in Accounts
        PROVE  /\ PointReceived(acc, tip) = SumFunctionOnSet(Pledged, Held(TipCoins, Pledges(acc)))
               /\ PointReceived(acc, Merged(acc)) = SumFunctionOnSet(Pledged, Held(ViewCoins, Pledges(acc)))
    BY TipSees, MergedSees, PledgeSum
  <2>2. ASSUME NEW acc \in Accounts, NEW t \in ChiaPoints
        PROVE  LET sent == {x \in Outputs : x.type = t /\ x.account = acc}
               IN  /\ GetBalancePointSend(t, acc, tip) = SumFunctionOnSet(Value, Held(TipCoins, sent))
                   /\ GetBalancePointSend(t, acc, Merged(acc)) = SumFunctionOnSet(Value, Held(ViewCoins, sent))
    <3>1. Sees(tip, TipCoins, acc) /\ Sees(Merged(acc), ViewCoins, acc)
      BY TipSees, MergedSees
    <3>2. GetBalancePointSend(t, acc, tip) =
            SumFunctionOnSet(Value, Held(TipCoins, {x \in Outputs : x.type = t /\ x.account = acc}))
      BY <3>1, SendSum
    <3>3. GetBalancePointSend(t, acc, Merged(acc)) =
            SumFunctionOnSet(Value, Held(ViewCoins, {x \in Outputs : x.type = t /\ x.account = acc}))
      BY <3>1, SendSum
    <3>4. QED
      BY <3>2, <3>3
  <2>3. QED
    BY <2>1, <2>2 DEF PledgesAreSums
<1>2. QED
  BY <1>1, BInvHolds, PTL

\* What an account has locked is one lock amount for each of its live bind coins
\* that is written, and the coins that are not written are exactly what the
\* answer has too many (CCoinsViewDB::GetBalance and GetBalanceBind).
THEOREM LockedIsSumTheorem == BSpec => []LockedIsSum
<1>1. BInv => LockedIsSum
  BY TipSees, MergedSees, LockedSum DEF LockedIsSum
<1>2. QED
  BY <1>1, BInvHolds, PTL
=============================================================================
