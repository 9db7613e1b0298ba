---------------------------- MODULE Reading_proofs ----------------------------
(***************************************************************************)
(* Proofs about Reading, for any number of users, workers, days and trades *)
(* and any size of a page: what Snapshots promises holds with readers      *)
(* beside it, a walk over the pages misses no trade but for the race the   *)
(* property names, and a summary counts none twice.  And about the guards  *)
(* for every token and account, the partitions for every year, and the     *)
(* drawdown and the streaks for curves and trades of any number and size.  *)
(***************************************************************************)
EXTENDS Reading, Snapshots_proofs, Induction

-----------------------------------------------------------------------------
(***************************************************************************)
(* Pages: division, and what it says of total_pages.                       *)
(***************************************************************************)
LEMMA DivFacts ==
    ASSUME NEW a \in Nat, NEW b \in Nat \ {0}
    PROVE  a \div b \in Nat /\ (a \div b) * b <= a /\ a < (a \div b) * b + b
OBVIOUS

LEMMA TimesGrows ==
    ASSUME NEW a \in Nat, NEW b \in Nat, NEW q \in Nat, q >= a
    PROVE  q * b >= a * b
OBVIOUS

LEMMA PagesFacts ==
    ASSUME NEW t \in Nat
    PROVE  /\ total_pages(t) \in Nat \ {0} /\ total_pages(t) <= Larger(1, t)
           /\ \A p \in Nat : p >= total_pages(t) => p * per_page >= t
<1> USE ReadingConstants DEF total_pages, Larger
<1>1. CASE t = 0
  BY <1>1
<1>2. CASE t # 0
  <2> DEFINE q == (t + per_page - 1) \div per_page
  <2>1. /\ q \in Nat /\ q * per_page <= t + per_page - 1
        /\ t + per_page - 1 < q * per_page + per_page
    BY <1>2, DivFacts
  <2>2. total_pages(t) = q
    BY <1>2
  <2> HIDE DEF q
  <2>3. q # 0
    BY <1>2, <2>1
  <2>4. q <= t
    <3> SUFFICES ASSUME q >= t + 1 PROVE FALSE
      BY <2>1
    <3>1. q * per_page >= (t + 1) * per_page
      BY <2>1, TimesGrows
    <3>2. (t + 1) * per_page = t * per_page + per_page
      OBVIOUS
    <3>3. t * per_page >= t
      BY <1>2
    <3> QED BY <1>2, <2>1, <3>1, <3>2, <3>3
  <2>5. ASSUME NEW p \in Nat, p >= q PROVE p * per_page >= t
    <3>1. p * per_page >= q * per_page
      BY <2>1, <2>5, TimesGrows
    <3> QED BY <1>2, <2>1, <3>1
  <2> QED BY <1>2, <2>1, <2>2, <2>3, <2>4, <2>5
<1> QED BY <1>1, <1>2

-----------------------------------------------------------------------------
(***************************************************************************)
(* The trades a request selects.  A trade moves from the open ones to the  *)
(* closed ones and never back, and its place in the list only grows.       *)
(***************************************************************************)
LEMMA MatchingFacts ==
    ASSUME SnapshotTypeOK, NEW f \in Filters
    PROVE  /\ Matching(f) \subseteq 1..Len(trades) /\ Closed \subseteq 1..Len(trades)
           /\ IsFiniteSet(Matching(f)) /\ Cardinality(Matching(f)) \in Nat
           /\ Cardinality(Matching(f)) <= Len(trades)
           /\ IsFiniteSet(Closed) /\ Cardinality(Closed) \in Nat
           /\ Matching("open") \subseteq Matching("all")
<1>1. /\ IsFiniteSet(1..Len(trades)) /\ Cardinality(1..Len(trades)) = Len(trades)
  <2>1. PICK n \in Nat : n = Len(trades)
    BY DEF SnapshotTypeOK
  <2>2. IsFiniteSet(1..n) /\ Cardinality(1..n) = n
    BY FS_Interval
  <2> QED BY <2>1, <2>2
<1>2. /\ Matching(f) \in SUBSET (1..Len(trades)) /\ Closed \in SUBSET (1..Len(trades))
      /\ Matching("open") \subseteq Matching("all")
  BY DEF Matching, Closed
<1> QED BY <1>1, <1>2, FS_Subset, FS_CardinalityType

LEMMA PlaceFacts ==
    ASSUME SnapshotTypeOK, NEW f \in Filters, NEW i \in Nat
    PROVE  /\ Place(f, i) \in Nat /\ Place(f, i) <= Cardinality(Matching(f))
<1>1. {j \in Matching(f) : j >= i} \in SUBSET Matching(f)
  OBVIOUS
<1> QED BY <1>1, MatchingFacts, FS_Subset, FS_CardinalityType DEF Place

\* What a step does to the trades a request selects.
TradesGrow ==
    /\ Len(trades) <= Len(trades')
    /\ Matching("all") \subseteq Matching("all")'
    /\ Closed \subseteq Closed'

LEMMA TradesGrowBy ==
    ASSUME SInv, SnapshotNext
    PROVE  TradesGrow
<1> USE DEF SInv
<1>1. CASE trades' = trades
  BY <1>1 DEF TradesGrow, Matching, Closed, SnapshotTypeOK
<1>2. CASE OpenTrade
  <2>1. PICK u \in Users :
          trades' = Append(trades, [user |-> u, opened |-> day, closed |-> None, won |-> FALSE])
    BY <1>2 DEF OpenTrade
  <2>2. trades \in Seq(Trade)
    BY DEF SnapshotTypeOK
  <2>3. /\ Len(trades) \in Nat /\ Len(trades') = Len(trades) + 1
        /\ \A i \in 1..Len(trades) : trades'[i] = trades[i]
    BY <2>1, <2>2
  <2>4. 1..Len(trades) \subseteq 1..Len(trades')
    BY <2>3
  <2> QED BY <2>3, <2>4 DEF TradesGrow, Matching, Closed
<1>3. CASE CloseTrade
  <2>1. PICK i \in 1..Len(trades), w \in BOOLEAN :
            /\ trades[i].closed = None
            /\ trades' = [trades EXCEPT ![i].closed = day, ![i].won = w]
    BY <1>3 DEF CloseTrade
  <2>2. trades \in Seq(Trade) /\ trades[i] \in Trade /\ day # None
    BY SnapshotConstants DEF SnapshotTypeOK
  <2>3. /\ Len(trades') = Len(trades) /\ Len(trades) \in Nat
        /\ \A j \in 1..Len(trades) : j # i => trades'[j] = trades[j]
        /\ trades'[i].user = trades[i].user /\ trades'[i].closed = day
    BY <2>1, <2>2 DEF Trade
  <2> QED BY <2>1, <2>2, <2>3 DEF TradesGrow, Matching, Closed
<1>4. OpenTrade \/ CloseTrade \/ trades' = trades
  BY DEF SnapshotNext, Midnight, RunStep, StartRun, CommitRun, EndRun, RunFails, WorkerDies,
         AddSnapshot, SkipUser, NextUser
<1> QED BY <1>1, <1>2, <1>3, <1>4

\* As long as no trade was closed, or all are asked for, what was selected still is.
LEMMA PlaceGrows ==
    ASSUME SnapshotTypeOK, SnapshotTypeOK', TradesGrow, NEW f \in Filters,
           f = "open" => Closed' = Closed, NEW i \in Matching(f)
    PROVE  i \in Matching(f)' /\ Place(f, i)' >= Place(f, i)
<1>1. Matching(f) \subseteq Matching(f)'
  <2>1. CASE f = "all"
    BY <2>1 DEF TradesGrow
  <2>2. CASE f = "open"
    <3>1. /\ Matching("open") = Matching("all") \ Closed
          /\ Matching("open")' = Matching("all")' \ Closed'
      BY DEF Matching, Closed
    <3> QED BY <2>2, <3>1 DEF TradesGrow
  <2> QED BY <2>1, <2>2 DEF Filters
<1>2. /\ IsFiniteSet(Matching(f)') /\ Matching(f)' \subseteq Nat
  <2>1. Matching(f)' \in SUBSET (1..Len(trades')) /\ IsFiniteSet(1..Len(trades'))
    BY FS_Interval DEF Matching, SnapshotTypeOK
  <2> QED BY <2>1, FS_Subset
<1> DEFINE S == {j \in Matching(f) : j >= i}
           T == {j \in Matching(f)' : j >= i}
<1>3. S \in SUBSET T /\ T \in SUBSET Matching(f)'
  BY <1>1
<1>4. IsFiniteSet(T) /\ Cardinality(S) <= Cardinality(T)
  BY <1>2, <1>3, FS_Subset
<1>5. Place(f, i) = Cardinality(S) /\ Place(f, i)' = Cardinality(T)
  BY DEF Place
<1>6. IsFiniteSet(S) /\ Cardinality(S) \in Nat /\ Cardinality(T) \in Nat
  BY <1>3, <1>4, FS_Subset, FS_CardinalityType
<1> QED BY <1>1, <1>4, <1>5, <1>6

-----------------------------------------------------------------------------
(***************************************************************************)
(* The invariant.  Of a walk: while nothing it asks for was closed, what   *)
(* was there at its start and was not shown yet lies beyond the pages      *)
(* fetched.  Of a summary: the closed trades it has counted are closed     *)
(* still.                                                                  *)
(***************************************************************************)
WalkRecords == [stage : {"count", "fetch", "done"}, filter : Filters, page : Nat \ {0},
                total : Nat, started : SUBSET Nat, closed : SUBSET Nat, shown : SUBSET Nat,
                raced : BOOLEAN]

Undisturbed == walk.filter = "open" => walk.closed = Closed

Ahead == \A i \in walk.started \ walk.shown :
            i \in Matching(walk.filter) /\ Place(walk.filter, i) > (walk.page - 1) * per_page

WalkOK == walk # None =>
    /\ walk \in WalkRecords
    /\ walk.started \subseteq 1..Len(trades) /\ walk.shown \subseteq 1..Len(trades)
    /\ walk.closed \subseteq Closed /\ walk.total <= MaxTrades
    /\ walk.page <= Larger(1, MaxTrades)
    /\ walk.stage # "done" /\ Undisturbed => Ahead
    /\ walk.stage = "done" /\ Undisturbed /\ ~walk.raced => walk.started \subseteq walk.shown

SummaryRecords == [stage : {"open", "done"}, total_trades : Nat, open_positions : Nat,
                   closed : Nat, all : Nat]

SummaryOK == summary # None =>
    /\ summary \in SummaryRecords
    /\ summary.stage = "open" => summary.total_trades <= Cardinality(Closed)

RInv == /\ SInv /\ Len(trades) <= MaxTrades
        /\ WalkOK /\ SummaryOK /\ CountedOnce

LEMMA ReadInitHolds == ASSUME Init PROVE RInv
<1>1. SInv
  BY SnapshotInitHolds DEF Init
<1>2. Len(trades) <= MaxTrades
  BY SnapshotConstants DEF Init, SnapshotInit
<1> QED BY <1>1, <1>2 DEF Init, RInv, WalkOK, SummaryOK, CountedOnce

-----------------------------------------------------------------------------
(***************************************************************************)
(* A step of the worker or of the trades.                                  *)
(***************************************************************************)
LEMMA SnapshotPartOf ==
    ASSUME RInv, SnapshotNext, UNCHANGED readVars
    PROVE  RInv'
<1> USE DEF RInv
<1>1. SInv'
  BY SnapshotStepHolds
<1>2. TradesGrow
  BY TradesGrowBy
<1>3. SnapshotTypeOK /\ SnapshotTypeOK' /\ walk' = walk /\ summary' = summary
  BY <1>1 DEF SInv, readVars
<1>4. Len(trades') <= MaxTrades
  <2>1. CASE OpenTrade
    <3>1. Len(trades) < MaxTrades
      BY <2>1, <1>3, SnapshotConstants DEF OpenTrade, SnapshotTypeOK
    <3>2. Len(trades') = Len(trades) + 1
      BY <2>1, <1>3 DEF OpenTrade, SnapshotTypeOK
    <3> QED BY <1>3, <3>1, <3>2, SnapshotConstants DEF SnapshotTypeOK
  <2>2. CASE CloseTrade
    <3>1. Len(trades') = Len(trades)
      BY <2>2, <1>3 DEF CloseTrade, SnapshotTypeOK
    <3> QED BY <3>1
  <2>3. CASE trades' = trades
    BY <2>3
  <2>4. OpenTrade \/ CloseTrade \/ trades' = trades
    BY DEF SnapshotNext, Midnight, RunStep, StartRun, CommitRun, EndRun, RunFails, WorkerDies,
           AddSnapshot, SkipUser, NextUser
  <2> QED BY <2>1, <2>2, <2>3, <2>4
<1>5. WalkOK'
  <2> SUFFICES ASSUME walk # None
               PROVE  WalkOK'
    BY <1>3 DEF WalkOK
  <2>1. /\ walk \in WalkRecords /\ walk.closed \subseteq Closed
        /\ walk.started \subseteq 1..Len(trades') /\ walk.shown \subseteq 1..Len(trades')
    BY <1>2, <1>3 DEF WalkOK, TradesGrow, SnapshotTypeOK
  <2>2. Undisturbed' => Undisturbed /\ (walk.filter = "open" => Closed' = Closed)
    BY <1>2, <1>3, <2>1 DEF Undisturbed, TradesGrow
  <2>3. ASSUME walk.stage # "done", Undisturbed'
        PROVE  Ahead'
    <3>1. PICK f \in Filters : f = walk.filter
      BY <2>1 DEF WalkRecords
    <3>2. Ahead
      BY <2>2, <2>3 DEF WalkOK
    <3>3. ASSUME NEW i \in walk.started \ walk.shown
          PROVE  i \in Matching(f)' /\ Place(f, i)' > (walk.page - 1) * per_page
      <4>1. i \in Matching(f) /\ Place(f, i) > (walk.page - 1) * per_page /\ i \in Nat
        BY <2>1, <3>1, <3>2, <3>3 DEF Ahead, WalkRecords
      <4>2. i \in Matching(f)' /\ Place(f, i)' >= Place(f, i)
        BY <1>2, <1>3, <2>2, <2>3, <3>1, <4>1, PlaceGrows
      <4>3. Place(f, i) \in Nat
        BY <1>3, <4>1, PlaceFacts
      <4>4. Place(f, i)' \in Nat
        <5>1. Matching(f)' \in SUBSET (1..Len(trades')) /\ IsFiniteSet(1..Len(trades'))
          BY <1>3, FS_Interval DEF Matching, SnapshotTypeOK
        <5>2. {j \in Matching(f)' : j >= i} \in SUBSET (1..Len(trades'))
          BY <5>1
        <5> QED BY <5>1, <5>2, FS_Subset, FS_CardinalityType DEF Place
      <4>5. (walk.page - 1) * per_page \in Nat
        BY <2>1, ReadingConstants DEF WalkRecords
      <4> QED BY <4>1, <4>2, <4>3, <4>4, <4>5
    <3> QED BY <1>3, <3>1, <3>3 DEF Ahead
  <2> QED BY <1>3, <2>1, <2>2, <2>3, <1>2 DEF WalkOK, TradesGrow
<1>6. SummaryOK'
  <2>1. Cardinality(Closed) <= Cardinality(Closed')
    <3>1. Closed' \in SUBSET (1..Len(trades')) /\ IsFiniteSet(1..Len(trades'))
      BY <1>3, FS_Interval DEF Closed, Matching, SnapshotTypeOK
    <3>2. IsFiniteSet(Closed')
      BY <3>1, FS_Subset
    <3> QED BY <1>2, <3>2, FS_Subset DEF TradesGrow
  <2>2. Cardinality(Closed) \in Nat /\ Cardinality(Closed') \in Nat
    <3>1. Closed \in SUBSET (1..Len(trades)) /\ Closed' \in SUBSET (1..Len(trades'))
      BY DEF Closed, Matching
    <3>2. IsFiniteSet(1..Len(trades)) /\ IsFiniteSet(1..Len(trades'))
      BY <1>3, FS_Interval DEF SnapshotTypeOK
    <3> QED BY <3>1, <3>2, FS_Subset, FS_CardinalityType
  <2> QED BY <1>3, <2>1, <2>2 DEF SummaryOK, SummaryRecords
<1>7. CountedOnce'
  BY <1>3 DEF CountedOnce
<1> QED BY <1>1, <1>4, <1>5, <1>6, <1>7

(***************************************************************************)
(* The steps of a walk.                                                    *)
(***************************************************************************)
Unmoved == UNCHANGED snapshotVars

LEMMA UnmovedKeeps ==
    ASSUME RInv, Unmoved
    PROVE  /\ SInv' /\ Len(trades') <= MaxTrades /\ trades' = trades /\ Closed' = Closed
           /\ \A f \in Filters : Matching(f)' = Matching(f)
<1>1. SInv'
  BY SnapshotStepHolds DEF RInv, Unmoved
<1> QED BY <1>1 DEF RInv, Unmoved, snapshotVars, Closed, Matching

LEMMA SummaryUntouched ==
    ASSUME RInv, Unmoved, summary' = summary
    PROVE  SummaryOK' /\ CountedOnce'
<1>1. Closed' = Closed
  BY UnmovedKeeps
<1> QED BY <1>1 DEF RInv, SummaryOK, CountedOnce

LEMMA CountFirstOf ==
    ASSUME RInv, Unmoved, CountFirst
    PROVE  WalkOK'
<1> USE DEF RInv, SInv
<1>1. PICK f \in Filters :
          walk' = [stage |-> "fetch", filter |-> f, page |-> 1, total |-> Cardinality(Matching(f)),
                   started |-> Matching(f), closed |-> Closed, shown |-> {}, raced |-> FALSE]
  BY DEF CountFirst
<1>2. /\ Matching(f) \subseteq 1..Len(trades) /\ Closed \subseteq 1..Len(trades)
      /\ Cardinality(Matching(f)) \in Nat /\ Cardinality(Matching(f)) <= MaxTrades
      /\ Len(trades) \in Nat
  BY MatchingFacts, SnapshotConstants DEF SnapshotTypeOK
<1>3. trades' = trades /\ Closed' = Closed /\ Matching(f)' = Matching(f)
  BY UnmovedKeeps
<1>4. walk' \in WalkRecords
  <2>1. Matching(f) \in SUBSET Nat /\ Closed \in SUBSET Nat /\ {} \in SUBSET Nat
    BY <1>2
  <2> QED BY <1>1, <1>2, <2>1 DEF WalkRecords
<1>5. ASSUME NEW i \in Matching(f)
      PROVE  Place(f, i) > 0
  <2>1. /\ i \in {j \in Matching(f) : j >= i} /\ i \in Nat
        /\ {j \in Matching(f) : j >= i} \in SUBSET Matching(f)
    BY <1>2, <1>5
  <2>2. IsFiniteSet({j \in Matching(f) : j >= i})
    BY <2>1, MatchingFacts, FS_Subset
  <2>3. Place(f, i) # 0
    BY <2>1, <2>2, FS_EmptySet DEF Place
  <2> QED BY <2>1, <2>3, PlaceFacts
<1>6. Ahead'
  <2>1. \A i \in Matching(f) : i \in Matching(f)' /\ Place(f, i)' > (1 - 1) * per_page
    <3>1. \A i \in Matching(f) : Place(f, i)' = Place(f, i)
      BY <1>3 DEF Place
    <3> QED BY <1>3, <1>5, <3>1, ReadingConstants
  <2> QED BY <1>1, <2>1 DEF Ahead
<1>7. 1 <= Larger(1, MaxTrades)
  BY SnapshotConstants DEF Larger
<1> QED BY <1>1, <1>2, <1>3, <1>4, <1>6, <1>7 DEF WalkOK

LEMMA CountTotalOf ==
    ASSUME RInv, Unmoved, CountTotal
    PROVE  WalkOK'
<1> USE DEF RInv, SInv
<1>1. /\ walk # None /\ walk.stage = "count" /\ walk \in WalkRecords
      /\ walk' = [walk EXCEPT !.stage = "fetch", !.total = Cardinality(Matching(walk.filter))]
  BY DEF CountTotal, WalkOK
<1>2. PICK f \in Filters : f = walk.filter
  BY <1>1 DEF WalkRecords
<1>3. /\ Cardinality(Matching(f)) \in Nat /\ Cardinality(Matching(f)) <= MaxTrades
      /\ trades' = trades /\ Closed' = Closed /\ Matching(f)' = Matching(f)
  BY MatchingFacts, UnmovedKeeps, SnapshotConstants DEF SnapshotTypeOK
<1>4. /\ walk' \in WalkRecords /\ walk'.stage = "fetch" /\ walk'.filter = f
      /\ walk'.page = walk.page /\ walk'.total = Cardinality(Matching(f))
      /\ walk'.started = walk.started /\ walk'.closed = walk.closed /\ walk'.shown = walk.shown
  BY <1>1, <1>2, <1>3 DEF WalkRecords
<1>5. Undisturbed' => Undisturbed
  BY <1>2, <1>3, <1>4 DEF Undisturbed
<1>6. Ahead => Ahead'
  <2>1. \A i \in Matching(f) : Place(f, i)' = Place(f, i)
    BY <1>3 DEF Place
  <2> QED BY <1>2, <1>3, <1>4, <2>1 DEF Ahead
<1> QED BY <1>1, <1>3, <1>4, <1>5, <1>6 DEF WalkOK

LEMMA TimesNat == ASSUME NEW m \in Nat PROVE m * per_page \in Nat
BY ReadingConstants

LEMMA PagesCover ==
    ASSUME NEW t \in Nat, NEW p \in Nat, p >= total_pages(t)
    PROVE  p * per_page >= t
BY PagesFacts

LEMMA FetchPageOf ==
    ASSUME RInv, Unmoved, FetchPage
    PROVE  WalkOK'
<1> USE DEF RInv, SInv
<1> DEFINE p == walk.page
           t == walk.total
           more == more_pages(walk.page, walk.total)
<1>1. /\ walk # None /\ walk.stage = "fetch" /\ walk \in WalkRecords
      /\ walk' = [walk EXCEPT !.stage = IF more THEN "count" ELSE "done",
                              !.page = IF more THEN p + 1 ELSE p,
                              !.shown = walk.shown \union Page(walk.filter, p),
                              !.raced = Cardinality(Matching(walk.filter)) # t]
  BY DEF FetchPage, WalkOK
<1>2. PICK f \in Filters : f = walk.filter
  BY <1>1 DEF WalkRecords
<1>3. p \in Nat \ {0} /\ t \in Nat /\ walk.shown \in SUBSET Nat
  BY <1>1 DEF WalkRecords
<1>4. /\ Cardinality(Matching(f)) \in Nat
      /\ trades' = trades /\ Closed' = Closed /\ Matching(f)' = Matching(f)
      /\ Page(f, p) \subseteq Matching(f) /\ Matching(f) \subseteq 1..Len(trades)
  BY MatchingFacts, UnmovedKeeps DEF Page
<1>5. /\ walk' \in WalkRecords /\ walk'.filter = f /\ walk'.total = t
      /\ walk'.stage = (IF more THEN "count" ELSE "done")
      /\ walk'.page = (IF more THEN p + 1 ELSE p)
      /\ walk'.shown = walk.shown \union Page(f, p)
      /\ walk'.started = walk.started /\ walk'.closed = walk.closed
      /\ walk'.raced = (Cardinality(Matching(f)) # t)
  <2>1. /\ walk.shown \union Page(f, p) \in SUBSET Nat
        /\ (IF more THEN p + 1 ELSE p) \in Nat \ {0}
        /\ (IF more THEN "count" ELSE "done") \in {"count", "fetch", "done"}
        /\ (Cardinality(Matching(f)) # t) \in BOOLEAN
    BY <1>3, <1>4
  <2> HIDE DEF p, t, more
  <2> QED BY <1>1, <1>2, <2>1 DEF WalkRecords, p, t
<1>6. walk'.page <= Larger(1, MaxTrades)
  <2>1. p <= Larger(1, MaxTrades) /\ t <= MaxTrades
    BY <1>1 DEF WalkOK
  <2>2. ASSUME more PROVE p + 1 <= Larger(1, MaxTrades)
    <3>1. /\ p < total_pages(t) /\ total_pages(t) \in Nat
          /\ total_pages(t) <= Larger(1, t)
      BY <1>3, <2>2, PagesFacts DEF more_pages
    <3>2. Larger(1, t) <= Larger(1, MaxTrades) /\ Larger(1, t) \in Nat
          /\ Larger(1, MaxTrades) \in Nat
      BY <1>3, <2>1, SnapshotConstants DEF Larger
    <3> QED BY <1>3, <3>1, <3>2
  <2> QED BY <1>5, <2>1, <2>2
<1>7. Undisturbed' => Undisturbed
  BY <1>2, <1>4, <1>5 DEF Undisturbed
<1>8. ASSUME Undisturbed, NEW i \in walk.started, i \notin walk'.shown
      PROVE  i \in Matching(f) /\ Place(f, i) > p * per_page /\ Place(f, i)' = Place(f, i)
  <2>1. Ahead
    BY <1>1, <1>8 DEF WalkOK
  <2>2. i \notin walk.shown /\ i \notin Page(f, p)
    BY <1>5, <1>8
  <2>3. i \in Matching(f) /\ Place(f, i) > (p - 1) * per_page
    BY <1>2, <1>8, <2>1, <2>2 DEF Ahead
  <2>4. Place(f, i) \in Nat /\ p * per_page \in Nat
    <3>1. i \in Nat
      <4>1. \A j \in 1..Len(trades) : j \in Nat
        OBVIOUS
      <4> QED BY <1>4, <2>3, <4>1
    <3>2. SnapshotTypeOK
      OBVIOUS
    <3>3. Place(f, i) \in Nat
      <4> HIDE DEF RInv, SInv, p, t, more
      <4> QED BY <3>1, <3>2, PlaceFacts
    <3>4. p * per_page \in Nat
      <4>1. p \in Nat
        BY <1>3
      <4> HIDE DEF RInv, SInv, p, t, more
      <4> QED BY <4>1, TimesNat
    <3> QED BY <3>3, <3>4
  <2>5. ~(Place(f, i) <= p * per_page)
    BY <2>2, <2>3 DEF Page
  <2> QED BY <1>4, <2>3, <2>4, <2>5 DEF Place
<1>9. ASSUME walk'.stage # "done", Undisturbed'
      PROVE  Ahead'
  <2>1. more /\ walk'.page - 1 = p
    BY <1>3, <1>5, <1>9
  <2>2. \A i \in walk.started \ walk'.shown :
           i \in Matching(f)' /\ Place(f, i)' > (walk'.page - 1) * per_page
    BY <1>4, <1>7, <1>8, <1>9, <2>1
  <2> QED BY <1>5, <2>2 DEF Ahead
<1>10. ASSUME walk'.stage = "done", Undisturbed', ~walk'.raced
       PROVE  walk'.started \subseteq walk'.shown
  <2> SUFFICES ASSUME NEW i \in walk.started, i \notin walk'.shown
               PROVE  FALSE
    BY <1>5
  <2>1. i \in Matching(f) /\ Place(f, i) > p * per_page
    BY <1>7, <1>8, <1>10
  <2>2. Place(f, i) \in Nat /\ Place(f, i) <= t
    <3>1. i \in Nat
      <4>1. \A j \in 1..Len(trades) : j \in Nat
        OBVIOUS
      <4> QED BY <1>4, <2>1, <4>1
    <3>2. SnapshotTypeOK
      OBVIOUS
    <3>3. Place(f, i) \in Nat /\ Place(f, i) <= Cardinality(Matching(f))
      <4> HIDE DEF RInv, SInv, p, t, more
      <4> QED BY <3>1, <3>2, PlaceFacts
    <3>4. Cardinality(Matching(f)) = t
      <4> HIDE DEF RInv, SInv, p, t, more
      <4> QED BY <1>5, <1>10
    <3> QED BY <3>3, <3>4
  <2>3. ~more
    BY <1>5, <1>10
  <2>4. p >= total_pages(t)
    <3>1. ~(p < total_pages(t))
      BY <2>3 DEF more_pages
    <3>2. p \in Nat /\ t \in Nat
      BY <1>3
    <3> HIDE DEF RInv, SInv, p, t, more
    <3>3. total_pages(t) \in Nat
      BY <3>2, PagesFacts
    <3> QED BY <3>1, <3>2, <3>3
  <2>5. p * per_page >= t /\ p * per_page \in Nat
    <3>1. p \in Nat /\ t \in Nat
      BY <1>3
    <3> HIDE DEF RInv, SInv, p, t, more
    <3> QED BY <2>4, <3>1, PagesCover, TimesNat
  <2> QED BY <1>3, <2>1, <2>2, <2>5
<1>11. /\ walk'.started \subseteq 1..Len(trades') /\ walk'.shown \subseteq 1..Len(trades')
       /\ walk'.closed \subseteq Closed' /\ walk'.total <= MaxTrades
  BY <1>1, <1>4, <1>5 DEF WalkOK
<1> QED BY <1>5, <1>6, <1>9, <1>10, <1>11 DEF WalkOK

LEMMA EndWalkOf == ASSUME EndWalk PROVE WalkOK'
BY DEF EndWalk, WalkOK

(***************************************************************************)
(* The steps of a summary.                                                 *)
(***************************************************************************)
LEMMA WalkUntouched ==
    ASSUME RInv, Unmoved, walk' = walk
    PROVE  WalkOK'
<1> SUFFICES ASSUME walk # None PROVE WalkOK'
  BY DEF WalkOK
<1>1. walk \in WalkRecords
  BY DEF RInv, WalkOK
<1>2. PICK f \in Filters : f = walk.filter
  BY <1>1 DEF WalkRecords
<1>3. trades' = trades /\ Closed' = Closed /\ Matching(f)' = Matching(f)
  BY UnmovedKeeps
<1>4. Ahead' <=> Ahead
  <2>1. \A i \in Matching(f) : Place(f, i)' = Place(f, i)
    BY <1>3 DEF Place
  <2> QED BY <1>2, <1>3, <2>1 DEF Ahead
<1> QED BY <1>3, <1>4 DEF RInv, WalkOK, Undisturbed

LEMMA SummaryOf ==
    ASSUME RInv, Unmoved, CountClosed \/ CountOpen \/ EndSummary
    PROVE  SummaryOK' /\ CountedOnce'
<1> USE DEF RInv, SInv
<1>1. /\ Closed' = Closed /\ Cardinality(Closed) \in Nat
      /\ Cardinality(Matching("all")) \in Nat /\ Cardinality(Matching("open")) \in Nat
  BY UnmovedKeeps, MatchingFacts DEF Filters
<1>2. CASE CountClosed
  <2>1. summary' = [stage |-> "open", total_trades |-> Cardinality(Closed),
                    open_positions |-> 0, closed |-> 0, all |-> 0]
    BY <1>2 DEF CountClosed
  <2>2. summary' \in SummaryRecords
    BY <1>1, <2>1 DEF SummaryRecords
  <2> QED BY <1>1, <2>1, <2>2 DEF SummaryOK, CountedOnce
<1>3. CASE CountOpen
  <2>1. Cardinality(Matching("all")) = Cardinality(Closed) + Cardinality(Matching("open"))
    <3>1. /\ Matching("all") = Closed \union Matching("open")
          /\ Closed \intersect Matching("open") = {}
      BY MatchingFacts DEF Closed, Filters
    <3>2. IsFiniteSet(Closed) /\ IsFiniteSet(Matching("open"))
      BY MatchingFacts DEF Filters
    <3> HIDE DEF RInv, SInv
    <3> QED BY <1>1, <3>1, <3>2, FS_Union, FS_EmptySet
  <2>2. /\ summary # None /\ summary.stage = "open" /\ summary \in SummaryRecords
        /\ summary.total_trades <= Cardinality(Closed)
    BY <1>3 DEF CountOpen, SummaryOK
  <2>3. summary' = [summary EXCEPT !.stage = "done",
                                   !.open_positions = Cardinality(Matching("open")),
                                   !.closed = Cardinality(Closed),
                                   !.all = Cardinality(Matching("all"))]
    BY <1>3 DEF CountOpen
  <2>4. /\ summary' \in SummaryRecords /\ summary'.stage = "done"
        /\ summary'.total_trades = summary.total_trades /\ summary.total_trades \in Nat
        /\ summary'.open_positions = Cardinality(Matching("open"))
        /\ summary'.closed = Cardinality(Closed)
        /\ summary'.all = Cardinality(Matching("all"))
    BY <1>1, <2>2, <2>3 DEF SummaryRecords
  <2> QED BY <1>1, <2>1, <2>2, <2>4 DEF SummaryOK, CountedOnce
<1>4. CASE EndSummary
  BY <1>4 DEF EndSummary, SummaryOK, CountedOnce
<1> QED BY <1>2, <1>3, <1>4

LEMMA ReadStepHolds == ASSUME RInv, [Next]_vars PROVE RInv'
<1>1. CASE SnapshotNext /\ UNCHANGED readVars
  BY <1>1, SnapshotPartOf
<1>2. CASE Unmoved /\ (CountFirst \/ CountTotal \/ FetchPage \/ EndWalk)
  <2>1. summary' = summary
    BY <1>2 DEF CountFirst, CountTotal, FetchPage, EndWalk
  <2>2. WalkOK'
    BY <1>2, CountFirstOf, CountTotalOf, FetchPageOf, EndWalkOf
  <2> QED BY <1>2, <2>1, <2>2, UnmovedKeeps, SummaryUntouched DEF RInv
<1>3. CASE Unmoved /\ (CountClosed \/ CountOpen \/ EndSummary)
  <2>1. walk' = walk
    BY <1>3 DEF CountClosed, CountOpen, EndSummary
  <2> QED BY <1>3, <2>1, UnmovedKeeps, WalkUntouched, SummaryOf DEF RInv
<1>4. CASE UNCHANGED vars
  <2>1. Unmoved /\ walk' = walk /\ summary' = summary
    BY <1>4 DEF vars, readVars, Unmoved
  <2> QED BY <2>1, UnmovedKeeps, WalkUntouched, SummaryUntouched DEF RInv
<1> QED BY <1>1, <1>2, <1>3, <1>4 DEF Next, ReadStep, Unmoved

LEMMA ReadInvariant == Spec => []RInv
BY ReadInitHolds, ReadStepHolds, PTL DEF Spec

-----------------------------------------------------------------------------
(***************************************************************************)
(* The readers do not disturb the worker: a behaviour of Reading is one of *)
(* Snapshots, for which its properties are proved.                         *)
(***************************************************************************)
THEOREM ReadersDoNotDisturb == Spec => SnapshotSpec
<1>1. Init => SnapshotInit
  BY DEF Init
<1>2. [Next]_vars => [SnapshotNext]_snapshotVars
  BY DEF Next, vars
<1> QED BY <1>1, <1>2, PTL DEF Spec, SnapshotSpec

(***************************************************************************)
(* Every variable has its type; no page beyond the last is asked for.      *)
(***************************************************************************)
THEOREM ReadingTypeCorrect == Spec => []TypeOK
<1>1. RInv => TypeOK
  BY DEF RInv, SInv, WalkOK, SummaryOK, TypeOK, WalkRecords, SummaryRecords
<1> QED BY <1>1, ReadInvariant, PTL

(***************************************************************************)
(* Page after page (trade_history) a client sees every trade that was      *)
(* there when it began, unless the two SELECTs of its last request differ  *)
(* or, of the open trades, one was closed.                                 *)
(***************************************************************************)
THEOREM WalkCompleteCorrect == Spec => []WalkComplete
<1>1. RInv => WalkComplete
  BY DEF RInv, WalkOK, WalkComplete, Undisturbed
<1> QED BY <1>1, ReadInvariant, PTL

(***************************************************************************)
(* No trade is counted as closed and as open in one summary                *)
(* (dashboard_summary).                                                    *)
(***************************************************************************)
THEOREM CountedOnceCorrect == Spec => []CountedOnce
<1>1. RInv => CountedOnce
  BY DEF RInv
<1> QED BY <1>1, ReadInvariant, PTL

(***************************************************************************)
(* The gaps in the daily rows are explained with readers beside the worker *)
(* too (compute_daily_snapshots).                                          *)
(***************************************************************************)
THEOREM ReadGapsExplained == Spec => []GapsExplained
BY ReadersDoNotDisturb, GapsExplainedCorrect, PTL

(***************************************************************************)
(* And a stored row counts the trades of its day (compute_daily_snapshots) *)
(* whoever reads beside it.                                                *)
(***************************************************************************)
THEOREM ReadRowsFinal == Spec => []RowsFinal
BY ReadersDoNotDisturb, RowsFinalCorrect, PTL

-----------------------------------------------------------------------------
(***************************************************************************)
(* The partitions of create_next_month_partitions tile the calendar, in    *)
(* every year.                                                             *)
(***************************************************************************)
THEOREM MonthsTileAlways == MonthsTileFor(Nat)
<1> SUFFICES ASSUME NEW y \in Nat, NEW m \in 1..12
             PROVE  LET range == NextMonth(y, m)
                    IN /\ IsMonth(range.start) /\ IsMonth(range.end)
                       /\ Months(range.start) = Months(<<y, m>>) + 1
                       /\ NextMonth(range.start[1], range.start[2]).start = range.end
  BY DEF MonthsTileFor
<1> USE DEF NextMonth, IsMonth, Months
<1>1. CASE m = 12
  BY <1>1
<1>2. CASE m = 11
  BY <1>2
<1>3. CASE m \in 1..10
  BY <1>3
<1> QED BY <1>1, <1>2, <1>3

(***************************************************************************)
(* The guards agree, for every token and account: require_auth with        *)
(* require_tier and require_admin, get_current_active_user, POST /refresh  *)
(* and the socket.                                                         *)
(***************************************************************************)
THEOREM GuardsAgreeAlways == GuardsAgreeFor(Tokens \union {Missing}, Accounts)
<1> SUFFICES ASSUME NEW t \in Tokens \union {Missing}, NEW u \in Accounts
             PROVE  /\ (require_auth(t, u) = Ok) = (get_current_active_user(t, u) = Ok)
                    /\ t # Missing => require_auth(t, u) = get_current_active_user(t, u)
                    /\ \A m \in Tiers : require_tier(m, t, u) = Ok
                                        => get_current_active_user(t, u) = Ok
                    /\ require_admin(t, u) = Ok => \A m \in Tiers : require_tier(m, t, u) = Ok
                    /\ ~(refresh(t, u) = Ok /\ get_current_active_user(t, u) = Ok)
                    /\ u.is_active => /\ get_current_active_user(create_access_token, u) = Ok
                                      /\ refresh(create_refresh_token, u) = Ok
                                      /\ dashboard_websocket(t, u)
                                         <=> require_tier("starter", t, u) = Ok
  BY DEF GuardsAgreeFor
<1>1. require_auth(t, u) = Ok <=> get_current_active_user(t, u) = Ok
  BY DEF require_auth, get_current_active_user, get_current_user, Ok
<1>2. t # Missing => require_auth(t, u) = get_current_active_user(t, u)
  BY DEF require_auth, get_current_active_user, get_current_user, Ok
<1>3. \A m \in Tiers : require_tier(m, t, u) = Ok => require_auth(t, u) = Ok
  BY DEF require_tier
<1>4. require_admin(t, u) = Ok => \A m \in Tiers : require_tier(m, t, u) = Ok
  BY DEF require_admin, require_tier, Ok
<1>5. require_auth(t, u) = Ok => t # Missing /\ verify_token(t) /\ t.type = "access" /\ t.sub = "user"
  BY DEF require_auth, Ok
<1>6. refresh(t, u) = Ok => t.type = "refresh"
  BY DEF refresh, Ok
<1>7. u.is_active => /\ get_current_active_user(create_access_token, u) = Ok
                     /\ refresh(create_refresh_token, u) = Ok
  <2>1. create_access_token # Missing
    BY DEF create_access_token, Missing
  <2> QED BY <2>1 DEF get_current_active_user, get_current_user, refresh, verify_token, Ok,
                      create_access_token, create_refresh_token
<1>8. ASSUME u.is_active
      PROVE  dashboard_websocket(t, u) <=> require_tier("starter", t, u) = Ok
  <2>1. authenticate_ws(t) /\ t.sub = "user" <=> require_auth(t, u) = Ok
    BY <1>8 DEF authenticate_ws, require_auth, verify_token, Ok
  <2>2. u.tier \in Tiers
    BY DEF Accounts
  <2>3. dashboard(u.tier) <=> tier_rank(u.tier) >= tier_rank("starter")
    BY <2>2 DEF Tiers, dashboard, tier_rank
  <2>4. require_tier("starter", t, u) = Ok
        <=> /\ require_auth(t, u) = Ok
            /\ u.role = "admin" \/ tier_rank(u.tier) >= tier_rank("starter")
    BY DEF require_tier, Ok
  <2> QED BY <2>1, <2>3, <2>4 DEF dashboard_websocket
<1> QED BY <1>1, <1>2, <1>3, <1>4, <1>5, <1>6, <1>7, <1>8

(***************************************************************************)
(* So the partitions of one run a month (create_next_month_partitions)     *)
(* leave no gap in the years the constants name.                           *)
(***************************************************************************)
THEOREM MonthsTileCorrect == Spec => []MonthsTile
<1>1. MonthsTile
  BY MonthsTileAlways, ReadingConstants DEF MonthsTile, MonthsTileFor
<1> QED BY <1>1, PTL

(***************************************************************************)
(* And the guards of core/permissions.py and api/deps.py, the refresh and  *)
(* the socket agree in every state of the specification.                   *)
(***************************************************************************)
THEOREM GuardsAgreeCorrect == Spec => []GuardsAgree
<1>1. GuardsAgree
  BY GuardsAgreeAlways DEF GuardsAgree
<1> QED BY <1>1, PTL

-----------------------------------------------------------------------------
(***************************************************************************)
(* The drawdown.  Both passes of performance.py are recursive functions;   *)
(* that they are what their equations say is shown first.                  *)
(***************************************************************************)
LEMMA LargerFacts ==
    ASSUME NEW a \in Int, NEW b \in Int
    PROVE  /\ Larger(a, b) \in {a, b} /\ Larger(a, b) >= a /\ Larger(a, b) >= b
BY DEF Larger

LEMMA FallFacts ==
    ASSUME NEW a \in Nat, NEW b \in Nat
    PROVE  /\ Fall(a, b) \in Int
           /\ a = b => Fall(a, b) = 0
           /\ a >= b => Fall(a, b) \in Nat
           /\ a = 0 => Fall(a, b) = 0
<1>1. CASE a = 0
  BY <1>1 DEF Fall
<1>2. CASE a # 0
  <2>1. Fall(a, b) = ((a - b) * 10000) \div a /\ a > 0
    BY <1>2 DEF Fall
  <2> QED BY <2>1
<1> QED BY <1>1, <1>2

\* A fall from higher up is deeper.
LEMMA DeeperFromAbove ==
    ASSUME NEW a \in Nat, NEW p \in Nat, NEW b \in Nat, a <= p, b <= p
    PROVE  Fall(a, b) <= Fall(p, b)
<1>1. CASE a = 0
  BY <1>1, FallFacts
<1>2. CASE a # 0
  <2>1. PICK x \in Int, y \in Nat : x = (a - b) * 10000 /\ y = (p - b) * 10000
    OBVIOUS
  <2>2. PICK q \in Int, r \in Int : q = x \div a /\ r = y \div p
    BY <1>2
  <2>3. Fall(a, b) = q /\ Fall(p, b) = r
    BY <1>2, <2>1, <2>2 DEF Fall
  <2>4. q * a <= x /\ y < r * p + p
    BY <1>2, <2>2
  <2>5. x * p <= y * a
    <3>1. x * p = (a * p - b * p) * 10000 /\ y * a = (a * p - b * a) * 10000
      BY <2>1
    <3>2. b * a <= b * p
      OBVIOUS
    <3>3. a * p \in Nat /\ b * p \in Nat /\ b * a \in Nat
      OBVIOUS
    <3> QED BY <3>1, <3>2, <3>3
  <2>6. ASSUME q >= r + 1 PROVE FALSE
    <3>1. (q * a) * p <= x * p
      BY <2>4
    <3>2. y * a < (r * p + p) * a
      BY <1>2, <2>4
    <3>3. (r * p + p) * a = (r + 1) * (a * p) /\ (q * a) * p = q * (a * p)
      OBVIOUS
    <3>4. (r + 1) * (a * p) <= q * (a * p)
      <4>1. a * p \in Nat
        OBVIOUS
      <4> QED BY <2>6, <4>1
    <3> QED BY <2>5, <3>1, <3>2, <3>3, <3>4
  <2> QED BY <2>2, <2>3, <2>6
<1> QED BY <1>1, <1>2

CurveDays == [peak : Nat, max_dd : Nat]

LEMMA AfterDayTyped ==
    ASSUME NEW d \in CurveDays, NEW eq \in Nat
    PROVE  /\ AfterDay(d, eq) \in CurveDays
           /\ AfterDay(d, eq).peak = Larger(d.peak, eq)
           /\ AfterDay(d, eq).max_dd = Larger(d.max_dd, Fall(Larger(d.peak, eq), eq))
<1>1. Larger(d.peak, eq) \in Nat /\ Larger(d.peak, eq) >= eq
  BY DEF CurveDays, Larger
<1>2. Fall(Larger(d.peak, eq), eq) \in Nat
  BY <1>1, FallFacts
<1>3. Larger(d.max_dd, Fall(Larger(d.peak, eq), eq)) \in Nat
  BY <1>2 DEF CurveDays, Larger
<1> QED BY <1>1, <1>3 DEF AfterDay, NextPeak, CurveDays

LEMMA CurveDefined ==
    ASSUME NEW n \in Nat \ {0}, NEW s \in [1..n -> Nat]
    PROVE  /\ Curve(s) \in [0..n -> CurveDays]
           /\ Curve(s)[0] = [peak |-> s[1], max_dd |-> 0]
           /\ \A i \in 1..n : Curve(s)[i] = AfterDay(Curve(s)[i - 1], s[i])
<1> DEFINE first == [peak |-> s[1], max_dd |-> 0]
           next(i, d) == AfterDay(d, s[i])
           step == [p \in (1..n) \X CurveDays |-> next(p[1], p[2])]
<1>1. first \in CurveDays /\ Len(s) = n
  BY DEF CurveDays
<1>2. \A i \in 1..n, d \in CurveDays : next(i, d) \in CurveDays
  BY AfterDayTyped
<1>3. /\ step \in [(1..n) \X CurveDays -> CurveDays]
      /\ \A i \in 1..n, d \in CurveDays : step[<<i, d>>] = next(i, d)
  <2> HIDE DEF next
  <2> QED BY <1>2
<1>4. PICK f : Recursion(f, n, CurveDays, first, step)
  <2>1. step \in [(1..n) \X CurveDays -> CurveDays]
    BY <1>3
  <2> HIDE DEF step, first
  <2> QED BY <1>1, <2>1, RecursionExists
<1>5. \A i \in 1..n : f[i] = next(i, f[i - 1])
  <2> HIDE DEF step, next, first
  <2>1. \A i \in 1..n : i - 1 \in 0..n
    OBVIOUS
  <2> QED BY <1>3, <1>4, <2>1 DEF Recursion
<1>6. f = [i \in 0..n |-> IF i = 0 THEN first ELSE next(i, f[i - 1])]
  <2> HIDE DEF step, next, first
  <2>1. f \in [0..n -> CurveDays] /\ f[0] = first
    BY <1>4 DEF Recursion
  <2>2. ASSUME NEW i \in 0..n PROVE f[i] = IF i = 0 THEN first ELSE next(i, f[i - 1])
    <3>1. i = 0 \/ i \in 1..n
      OBVIOUS
    <3> QED BY <1>5, <2>1, <3>1
  <2> QED BY <2>1, <2>2
<1> DEFINE g == Curve(s)
<1>7. g = [i \in 0..n |-> IF i = 0 THEN first ELSE next(i, g[i - 1])]
  BY <1>1, <1>6 DEF Curve
<1>8. f = g
  <2> DEFINE T == {i \in 0..n : f[i] = g[i]}
  <2> HIDE DEF step, next, first, g
  <2>1. 0 \in T
    BY <1>6, <1>7
  <2>2. ASSUME NEW i \in 1..n, i - 1 \in T PROVE i \in T
    <3>1. i \in 0..n /\ i # 0 /\ f[i - 1] = g[i - 1]
      BY <2>2
    <3>2. f[i] = next(i, f[i - 1]) /\ g[i] = next(i, g[i - 1])
      BY <1>6, <1>7, <3>1, Zenon
    <3> QED BY <3>1, <3>2
  <2>3. 0..n \subseteq T
    <3> HIDE DEF T
    <3> QED BY <2>1, <2>2, InductionUpTo
  <2> QED BY <1>6, <1>7, <2>3
<1> HIDE DEF g
<1>9. g \in [0..n -> CurveDays] /\ g[0] = first /\ \A i \in 1..n : g[i] = next(i, g[i - 1])
  <2> HIDE DEF step, next, first
  <2> QED BY <1>4, <1>5, <1>8 DEF Recursion
<1> QED BY <1>9 DEF g

\* The peak is one of the values so far and not below any, and the deepest fall so far is as
\* deep as any, and one of them.
CurveOK(n, s, i) ==
    /\ \E k \in 1..n : k <= Larger(1, i) /\ Curve(s)[i].peak = s[k]
    /\ \A k \in 1..i : s[k] <= Curve(s)[i].peak
    /\ \A j \in 1..i, k \in 1..i : j <= k => Fall(s[j], s[k]) <= Curve(s)[i].max_dd
    /\ \/ Curve(s)[i].max_dd = 0
       \/ \E j \in 1..i, k \in 1..i : j < k /\ Fall(s[j], s[k]) = Curve(s)[i].max_dd

LEMMA CurveHolds ==
    ASSUME NEW n \in Nat \ {0}, NEW s \in [1..n -> Nat]
    PROVE  CurveOK(n, s, n)
<1> DEFINE T == {i \in 0..n : CurveOK(n, s, i)}
<1>1. 0 \in T
  <2>1. Curve(s)[0].peak = s[1] /\ Curve(s)[0].max_dd = 0
    <3>1. Curve(s)[0] = [peak |-> s[1], max_dd |-> 0]
      BY CurveDefined
    <3> QED BY <3>1
  <2>2. Larger(1, 0) = 1 /\ 1 \in 1..n
    BY DEF Larger
  <2> QED BY <2>1, <2>2 DEF CurveOK
<1>2. ASSUME NEW i \in 1..n, i - 1 \in T PROVE i \in T
  <2>1. PICK c \in CurveDays, d \in CurveDays : c = Curve(s)[i - 1] /\ d = Curve(s)[i]
    <3>1. i - 1 \in 0..n /\ i \in 0..n
      OBVIOUS
    <3> QED BY <3>1, CurveDefined
  <2>2. /\ d.peak = Larger(c.peak, s[i]) /\ d.max_dd = Larger(c.max_dd, Fall(d.peak, s[i]))
        /\ c.peak \in Nat /\ c.max_dd \in Nat /\ d.peak \in Nat /\ d.max_dd \in Nat
        /\ s[i] \in Nat
    <3>1. d = AfterDay(c, s[i]) /\ s[i] \in Nat
      BY <2>1, CurveDefined
    <3>2. d.peak = Larger(c.peak, s[i])
          /\ d.max_dd = Larger(c.max_dd, Fall(Larger(c.peak, s[i]), s[i]))
      BY <3>1, AfterDayTyped
    <3> QED BY <3>1, <3>2 DEF CurveDays
  <2>3. d.peak >= s[i] /\ d.peak >= c.peak /\ d.peak \in {c.peak, s[i]}
    BY <2>2 DEF Larger
  <2>4. Fall(d.peak, s[i]) \in Nat
    BY <2>2, <2>3, FallFacts
  <2>5. d.max_dd >= c.max_dd /\ d.max_dd >= Fall(d.peak, s[i])
        /\ d.max_dd \in {c.max_dd, Fall(d.peak, s[i])}
    BY <2>2, <2>4 DEF Larger
  <2>6. /\ \A k \in 1..(i - 1) : s[k] <= c.peak
        /\ \A j \in 1..(i - 1), k \in 1..(i - 1) : j <= k => Fall(s[j], s[k]) <= c.max_dd
        /\ \/ c.max_dd = 0
           \/ \E j \in 1..(i - 1), k \in 1..(i - 1) : j < k /\ Fall(s[j], s[k]) = c.max_dd
    BY <1>2, <2>1 DEF CurveOK
  <2>7. PICK a \in 1..n : a <= Larger(1, i - 1) /\ c.peak = s[a]
    BY <1>2, <2>1 DEF CurveOK
  <2>8. PICK b \in 1..i : d.peak = s[b]
    <3>1. a \in 1..i /\ i \in 1..i
      BY <2>7 DEF Larger
    <3> QED BY <2>3, <2>7, <3>1
  <2>9. \A k \in 1..i : s[k] <= d.peak
    <3> SUFFICES ASSUME NEW k \in 1..i PROVE s[k] <= d.peak
      OBVIOUS
    <3>1. CASE k = i
      BY <2>3, <3>1
    <3>2. CASE k # i
      <4>1. k \in 1..(i - 1) /\ s[k] \in Nat
        BY <3>2
      <4> QED BY <2>2, <2>3, <2>6, <4>1
    <3> QED BY <3>1, <3>2
  <2>10. ASSUME NEW j \in 1..i, NEW k \in 1..i, j <= k
         PROVE  Fall(s[j], s[k]) <= d.max_dd
    <3>1. s[j] \in Nat /\ s[k] \in Nat /\ Fall(s[j], s[k]) \in Int
      <4>1. j \in 1..n /\ k \in 1..n
        OBVIOUS
      <4>2. s[j] \in Nat /\ s[k] \in Nat
        BY <4>1
      <4> QED BY <4>2, FallFacts
    <3>2. CASE k = i
      <4>1. Fall(s[j], s[i]) <= Fall(d.peak, s[i])
        BY <2>2, <2>3, <2>9, <3>1, DeeperFromAbove
      <4> QED BY <2>2, <2>4, <2>5, <3>1, <3>2, <4>1
    <3>3. CASE k # i
      <4>1. j \in 1..(i - 1) /\ k \in 1..(i - 1)
        BY <2>10, <3>3
      <4>2. Fall(s[j], s[k]) <= c.max_dd
        BY <2>6, <2>10, <4>1
      <4> QED BY <2>2, <2>5, <3>1, <4>2
    <3> QED BY <3>2, <3>3
  <2>11. d.max_dd = 0 \/ \E j \in 1..i, k \in 1..i : j < k /\ Fall(s[j], s[k]) = d.max_dd
    <3>1. CASE d.max_dd = c.max_dd
      <4>1. 1..(i - 1) \subseteq 1..i
        OBVIOUS
      <4> QED BY <2>6, <3>1, <4>1
    <3>2. CASE d.max_dd = Fall(d.peak, s[i])
      <4>1. CASE b = i
        BY <2>2, <2>8, <3>2, <4>1, FallFacts
      <4>2. CASE b # i
        BY <2>8, <3>2, <4>2
      <4> QED BY <4>1, <4>2
    <3> QED BY <2>5, <3>1, <3>2
  <2>12. \E k \in 1..n : k <= Larger(1, i) /\ d.peak = s[k]
    BY <2>8 DEF Larger
  <2>13. CurveOK(n, s, i)
    BY <2>1, <2>9, <2>10, <2>11, <2>12 DEF CurveOK
  <2> QED BY <2>13
<1>3. n \in T
  <2>1. 0..n \subseteq T
    <3> HIDE DEF T
    <3> QED BY <1>1, <1>2, InductionUpTo
  <2> QED BY <2>1
<1> QED BY <1>3

LEMMA DrawdownRight ==
    ASSUME NEW n \in Nat, NEW s \in [1..n -> Nat]
    PROVE  DeepestFall(s, max_drawdown(s))
<1>1. Len(s) = n
  OBVIOUS
<1>2. CASE n < 2
  <2>1. max_drawdown(s) = 0
    BY <1>1, <1>2 DEF max_drawdown
  <2>2. \A i \in 1..n, j \in 1..n : Fall(s[i], s[j]) <= 0
    <3> SUFFICES ASSUME NEW i \in 1..n, NEW j \in 1..n PROVE Fall(s[i], s[j]) <= 0
      OBVIOUS
    <3>1. i = j /\ s[i] \in Nat
      BY <1>2
    <3> QED BY <3>1, FallFacts
  <2> QED BY <1>1, <2>1, <2>2 DEF DeepestFall
<1>3. CASE n >= 2
  <2>1. max_drawdown(s) = Curve(s)[n].max_dd
    BY <1>1, <1>3 DEF max_drawdown
  <2>2. CurveOK(n, s, n)
    BY <1>3, CurveHolds
  <2> QED BY <1>1, <2>1, <2>2 DEF DeepestFall, CurveOK
<1> QED BY <1>2, <1>3

-----------------------------------------------------------------------------
(***************************************************************************)
(* The streaks: the same, with the trades of one kind as a set.            *)
(***************************************************************************)
LEMMA StreaksDefined ==
    ASSUME NEW n \in Nat, NEW s \in [1..n -> Int]
    PROVE  /\ Streaks(s)[0] = [current_win |-> 0, max_win |-> 0,
                               current_loss |-> 0, max_loss |-> 0]
           /\ \A i \in 1..n : Streaks(s)[i] = AfterTrade(Streaks(s)[i - 1], s[i])
<1> DEFINE S == [current_win : Nat, max_win : Nat, current_loss : Nat, max_loss : Nat]
           first == [current_win |-> 0, max_win |-> 0, current_loss |-> 0, max_loss |-> 0]
           next(i, d) == AfterTrade(d, s[i])
           step == [p \in (1..n) \X S |-> next(p[1], p[2])]
<1>1. first \in S /\ Len(s) = n
  OBVIOUS
<1>2. \A i \in 1..n, d \in S : next(i, d) \in S
  BY DEF AfterTrade, Streak, Larger
<1>3. /\ step \in [(1..n) \X S -> S]
      /\ \A i \in 1..n, d \in S : step[<<i, d>>] = next(i, d)
  <2> HIDE DEF next, S
  <2> QED BY <1>2
<1>4. PICK f : Recursion(f, n, S, first, step)
  <2>1. step \in [(1..n) \X S -> S]
    BY <1>3
  <2> HIDE DEF step, first, S
  <2> QED BY <1>1, <2>1, RecursionExists
<1>5. \A i \in 1..n : f[i] = next(i, f[i - 1])
  <2> HIDE DEF step, next, first, S
  <2>1. \A i \in 1..n : i - 1 \in 0..n
    OBVIOUS
  <2> QED BY <1>3, <1>4, <2>1 DEF Recursion
<1>6. f = [i \in 0..n |-> IF i = 0 THEN first ELSE next(i, f[i - 1])]
  <2> HIDE DEF step, next, first, S
  <2>1. f \in [0..n -> S] /\ f[0] = first
    BY <1>4 DEF Recursion
  <2>2. ASSUME NEW i \in 0..n PROVE f[i] = IF i = 0 THEN first ELSE next(i, f[i - 1])
    <3>1. i = 0 \/ i \in 1..n
      OBVIOUS
    <3> QED BY <1>5, <2>1, <3>1
  <2> QED BY <2>1, <2>2
<1> DEFINE g == Streaks(s)
<1>7. g = [i \in 0..n |-> IF i = 0 THEN first ELSE next(i, g[i - 1])]
  BY <1>1, <1>6 DEF Streaks
<1> HIDE DEF step, next, first, g, S
<1>8. g[0] = first /\ \A i \in 1..n : g[i] = next(i, g[i - 1])
  <2>1. \A i \in 1..n : i \in 0..n /\ i # 0
    OBVIOUS
  <2> QED BY <1>7, <2>1
<1> QED BY <1>8 DEF g, first, next

\* The stretch that goes on after i trades is no shorter than any other that ends there, and
\* the longest so far is as long as any, and one of them.
StreakOK(n, set, i, current, longest) ==
    /\ current \in 0..i /\ longest \in 0..i
    /\ \A k \in 1..current : i - current + k \in set
    /\ current < i => i - current \notin set
    /\ \E o \in 0..i : Stretch(i, set, o, longest)
    /\ \A o \in 0..i, k \in 0..i : Stretch(i, set, o, k) => k <= longest

LEMMA StreakGoesOn ==
    ASSUME NEW n \in Nat, NEW set \in SUBSET (1..n), NEW i \in 1..n,
           NEW current, NEW longest, StreakOK(n, set, i - 1, current, longest)
    PROVE  StreakOK(n, set, i, Streak(current, i \in set),
                    Larger(longest, Streak(current, i \in set)))
<1> PICK c \in 0..(i - 1), l \in 0..(i - 1) : c = current /\ l = longest
  BY DEF StreakOK
<1>1. /\ \A k \in 1..c : (i - 1) - c + k \in set
      /\ c < i - 1 => (i - 1) - c \notin set
      /\ \E o \in 0..(i - 1) : Stretch(i - 1, set, o, l)
      /\ \A o \in 0..(i - 1), k \in 0..(i - 1) : Stretch(i - 1, set, o, k) => k <= l
  BY DEF StreakOK
<1> DEFINE c2 == Streak(c, i \in set)
           l2 == Larger(l, c2)
<1>2. /\ i \in set => c2 = c + 1
      /\ i \notin set => c2 = 0
      /\ c2 \in 0..i /\ l2 \in 0..i /\ l2 >= l /\ l2 >= c2 /\ l2 \in {l, c2}
  BY DEF Streak, Larger
<1> HIDE DEF c2, l2
<1>3. \A k \in 1..c2 : i - c2 + k \in set
  <2> SUFFICES ASSUME NEW k \in 1..c2 PROVE i - c2 + k \in set
    OBVIOUS
  <2>1. i \in set /\ c2 = c + 1
    BY <1>2
  <2>2. CASE k = c2
    BY <2>1, <2>2
  <2>3. CASE k # c2
    <3>1. k \in 1..c /\ (i - 1) - c + k = i - c2 + k
      BY <2>1, <2>3
    <3>2. (i - 1) - c + k \in set
      BY <1>1, <3>1
    <3> QED BY <3>1, <3>2
  <2> QED BY <2>2, <2>3
<1>4. c2 < i => i - c2 \notin set
  <2>1. CASE i \in set
    <3>1. c2 = c + 1 /\ i - c2 = (i - 1) - c
      BY <1>2, <2>1
    <3> QED BY <1>1, <3>1
  <2>2. CASE i \notin set
    BY <1>2, <2>2
  <2> QED BY <2>1, <2>2
<1>5. \E o \in 0..i : Stretch(i, set, o, l2)
  <2>1. CASE l2 = l
    <3>1. PICK o \in 0..(i - 1) : Stretch(i - 1, set, o, l)
      BY <1>1
    <3>2. o \in 0..i /\ Stretch(i, set, o, l)
      BY <3>1 DEF Stretch
    <3> QED BY <2>1, <3>2
  <2>2. CASE l2 = c2
    <3>1. i - c2 \in 0..i
      BY <1>2
    <3>2. Stretch(i, set, i - c2, c2)
      BY <1>2, <1>3 DEF Stretch
    <3> QED BY <2>2, <3>1, <3>2
  <2> QED BY <1>2, <2>1, <2>2
<1>6. ASSUME NEW o \in 0..i, NEW k \in 0..i, Stretch(i, set, o, k)
      PROVE  k <= l2
  <2>1. o + k <= i /\ \A j \in 1..k : o + j \in set
    BY <1>6 DEF Stretch
  <2>2. CASE k = 0
    BY <1>2, <2>2
  <2>3. CASE o + k <= i - 1
    <3>1. o \in 0..(i - 1) /\ k \in 0..(i - 1) /\ Stretch(i - 1, set, o, k)
      BY <2>1, <2>3 DEF Stretch
    <3> QED BY <1>1, <1>2, <3>1
  <2>4. CASE o + k = i /\ k # 0
    <3>1. i \in set
      <4>1. k \in 1..k /\ o + k = i
        BY <2>4
      <4> QED BY <2>1, <4>1
    <3>2. c2 = c + 1
      BY <1>2, <3>1
    <3>3. ASSUME k > c2 PROVE FALSE
      <4>1. PICK j \in 1..k : j = k - c2
        BY <1>2, <3>3
      <4>2. o + j = i - c2 /\ o + j \in set /\ c2 < i
        BY <1>2, <2>1, <2>4, <3>3, <4>1
      <4> QED BY <1>4, <4>2
    <3> QED BY <1>2, <3>3
  <2> QED BY <2>1, <2>2, <2>3, <2>4
<1>7. StreakOK(n, set, i, c2, l2)
  BY <1>2, <1>3, <1>4, <1>5, <1>6 DEF StreakOK
<1> QED BY <1>7 DEF c2, l2

LEMMA StreaksHold ==
    ASSUME NEW n \in Nat, NEW s \in [1..n -> Int]
    PROVE  /\ LongestStretch(n, {i \in 1..n : s[i] > 0}, longest_streaks(s)[1])
           /\ LongestStretch(n, {i \in 1..n : s[i] < 0}, longest_streaks(s)[2])
<1> DEFINE won == {i \in 1..n : s[i] > 0}
           lost == {i \in 1..n : s[i] < 0}
           OK(i) == /\ StreakOK(n, won, i, Streaks(s)[i].current_win, Streaks(s)[i].max_win)
                    /\ StreakOK(n, lost, i, Streaks(s)[i].current_loss, Streaks(s)[i].max_loss)
           T == {i \in 0..n : OK(i)}
<1>1. OK(0)
  <2>1. /\ Streaks(s)[0].current_win = 0 /\ Streaks(s)[0].max_win = 0
        /\ Streaks(s)[0].current_loss = 0 /\ Streaks(s)[0].max_loss = 0
    <3>1. Streaks(s)[0] = [current_win |-> 0, max_win |-> 0,
                           current_loss |-> 0, max_loss |-> 0]
      BY StreaksDefined
    <3> QED BY <3>1
  <2>2. \A set : StreakOK(n, set, 0, 0, 0)
    BY DEF StreakOK, Stretch
  <2> QED BY <2>1, <2>2
<1>2. ASSUME NEW i \in 1..n, OK(i - 1) PROVE OK(i)
  <2> DEFINE a == Streaks(s)[i - 1]
             b == Streaks(s)[i]
  <2>1. b = AfterTrade(a, s[i])
    BY StreaksDefined
  <2>2. (i \in won) = (s[i] > 0) /\ (i \in lost) = (s[i] < 0)
    OBVIOUS
  <2> HIDE DEF a, b, won, lost
  <2>3. /\ b.current_win = Streak(a.current_win, i \in won)
        /\ b.max_win = Larger(a.max_win, Streak(a.current_win, i \in won))
        /\ b.current_loss = Streak(a.current_loss, i \in lost)
        /\ b.max_loss = Larger(a.max_loss, Streak(a.current_loss, i \in lost))
    BY <2>1, <2>2 DEF AfterTrade
  <2>4. won \in SUBSET (1..n) /\ lost \in SUBSET (1..n)
    BY DEF won, lost
  <2>5. /\ StreakOK(n, won, i - 1, a.current_win, a.max_win)
        /\ StreakOK(n, lost, i - 1, a.current_loss, a.max_loss)
    BY <1>2 DEF a
  <2>6. /\ StreakOK(n, won, i, b.current_win, b.max_win)
        /\ StreakOK(n, lost, i, b.current_loss, b.max_loss)
    BY <2>3, <2>4, <2>5, StreakGoesOn
  <2> QED BY <2>6 DEF b
<1>3. OK(n)
  <2> HIDE DEF OK
  <2>1. 0 \in T /\ \A i \in 1..n : i - 1 \in T => i \in T
    BY <1>1, <1>2
  <2>2. 0..n \subseteq T
    <3> HIDE DEF T
    <3> QED BY <2>1, InductionUpTo
  <2> QED BY <2>2
<1>4. /\ longest_streaks(s)[1] = Streaks(s)[n].max_win
      /\ longest_streaks(s)[2] = Streaks(s)[n].max_loss
  BY DEF longest_streaks
<1>5. ASSUME NEW set, NEW c, NEW l, StreakOK(n, set, n, c, l)
      PROVE  LongestStretch(n, set, l)
  BY <1>5 DEF StreakOK, LongestStretch
<1> HIDE DEF won, lost
<1> QED BY <1>3, <1>4, <1>5 DEF won, lost

(***************************************************************************)
(* The drawdown and the streaks of performance.py are what their names     *)
(* say, for a curve and for trades of any number and any size.             *)
(***************************************************************************)
THEOREM FiguresRightAlways ==
    ASSUME NEW most \in Nat
    PROVE  FiguresRightFor(Nat, Int, most)
<1>1. \A n \in 0..most : n \in Nat
  OBVIOUS
<1> QED BY <1>1, DrawdownRight, StreaksHold DEF FiguresRightFor

\* A function into a set is one into any larger set.
LEMMA WiderRange ==
    ASSUME NEW D, NEW S, NEW T, S \subseteq T, NEW t \in [D -> S]
    PROVE  t \in [D -> T]
OBVIOUS

(***************************************************************************)
(* So the published figures (performance.py) are right for the curves and  *)
(* the trades that the constants of the specification name.                *)
(***************************************************************************)
THEOREM FiguresRightCorrect == Spec => []FiguresRight
<1>1. FiguresRight
  <2>1. Equities \subseteq Nat /\ Results \subseteq Int /\ \A n \in 0..MaxEntries : n \in Nat
    BY ReadingConstants
  <2>2. ASSUME NEW n \in Nat, NEW t \in [1..n -> Equities]
        PROVE  DeepestFall(t, max_drawdown(t))
    <3>1. t \in [1..n -> Nat]
      BY <2>1, WiderRange
    <3> QED BY <3>1, DrawdownRight
  <2>3. ASSUME NEW n \in Nat, NEW t \in [1..n -> Results]
        PROVE  /\ LongestStretch(n, {i \in 1..n : t[i] > 0}, longest_streaks(t)[1])
               /\ LongestStretch(n, {i \in 1..n : t[i] < 0}, longest_streaks(t)[2])
    <3>1. t \in [1..n -> Int]
      BY <2>1, WiderRange
    <3> QED BY <3>1, StreaksHold
  <2> QED BY <2>1, <2>2, <2>3 DEF FiguresRight, FiguresRightFor
<1> QED BY <1>1, PTL
===============================================================================
