--------------------------- MODULE Snapshots_proofs ---------------------------
(***************************************************************************)
(* Proofs about Snapshots, for any number of users, workers, days, trades  *)
(* and crashes: the type invariant, and both properties of the daily rows. *)
(***************************************************************************)
EXTENDS Snapshots, TLAPS, FiniteSetTheorems

-----------------------------------------------------------------------------
(***************************************************************************)
(* The invariant.  Messages and rows are of days that are over, and a run  *)
(* counts such a day.  A run that took up its message in time counts the   *)
(* day of the message, and has every user before it, in the session or     *)
(* passed over.  A row in the session is as right as a stored one.         *)
(***************************************************************************)
Active(w) == message[w] # None

TimeInv ==
    /\ \A d \in Days : due[d] > 0 => d < day
    /\ \A w \in Runs : Active(w) => message[w] < day /\ yesterday[w] < day
    /\ \A d \in Days, u \in Users : rows[d][u] # None => d < day

RunInv == \A w \in Runs : Active(w) =>
    /\ message[w] \in late \/ message[w] = yesterday[w]
    /\ \A u \in Users : \/ u \in todo[w] \/ added[w][u] # None
                        \/ <<u, yesterday[w]>> \in skipped

IdleInv == \A w \in Runs : ~Active(w) => todo[w] = {} /\ added[w] = NoRows

TradeInv == \A i \in 1..Len(trades) : trades[i].closed = None => ~trades[i].won

WonInTime(u, d) == {i \in WonOf(u, d) : trades[i].closed = d}
Counts == [d \in Days |-> [u \in Users |->
             [opened |-> Cardinality(TradesOf(u, d)), won |-> Cardinality(WonOf(u, d)),
              intime |-> Cardinality(WonInTime(u, d))]]]
RowRight(row, c) == row.total = c.opened /\ row.wins <= c.won /\ row.wins >= c.intime

RowInv ==
    /\ \A d \in Days, u \in Users : rows[d][u] # None => RowRight(rows[d][u], Counts[d][u])
    /\ \A w \in Runs, u \in Users :
          added[w][u] # None => RowRight(added[w][u], Counts[yesterday[w]][u])

SInv == SnapshotTypeOK /\ TimeInv /\ RunInv /\ IdleInv /\ TradeInv /\ RowInv /\ GapsExplained

LEMMA SnapshotInitHolds == ASSUME SnapshotInit PROVE SInv
<1> USE SnapshotConstants DEF SnapshotInit, NoRows, Active
<1>1. 0 \in Days /\ None \notin Days
  BY DEF Days
<1>2. SnapshotTypeOK
  BY <1>1 DEF SnapshotTypeOK
<1>3. TimeInv /\ RunInv /\ IdleInv
  BY <1>1 DEF TimeInv, RunInv, IdleInv
<1>4. TradeInv /\ RowInv
  BY DEF TradeInv, RowInv
<1>5. GapsExplained
  BY <1>1 DEF GapsExplained, Days
<1> QED BY <1>2, <1>3, <1>4, <1>5 DEF SInv

-----------------------------------------------------------------------------
(***************************************************************************)
(* The counts of a day that is over.  A trade that is opened belongs to    *)
(* the day that is on, one that is closed was not won before and is not    *)
(* closed on a day that is over.                                           *)
(***************************************************************************)
LEMMA Countable ==
    ASSUME SnapshotTypeOK, NEW u, NEW d
    PROVE  /\ IsFiniteSet(TradesOf(u, d)) /\ Cardinality(TradesOf(u, d)) \in Nat
           /\ IsFiniteSet(WonOf(u, d)) /\ Cardinality(WonOf(u, d)) \in Nat
           /\ IsFiniteSet(WonInTime(u, d)) /\ Cardinality(WonInTime(u, d)) \in Nat
           /\ Cardinality(WonInTime(u, d)) <= Cardinality(WonOf(u, d))
<1>1. IsFiniteSet(1..Len(trades))
  BY FS_Interval DEF SnapshotTypeOK
<1>2. /\ TradesOf(u, d) \in SUBSET (1..Len(trades))
      /\ WonOf(u, d) \in SUBSET TradesOf(u, d)
      /\ WonInTime(u, d) \in SUBSET WonOf(u, d)
  BY DEF TradesOf, WonOf, WonInTime
<1> QED BY <1>1, <1>2, FS_Subset, FS_CardinalityType

LEMMA CountsAre ==
    ASSUME NEW u \in Users, NEW d \in Days
    PROVE  /\ Counts[d][u].opened = Cardinality(TradesOf(u, d))
           /\ Counts[d][u].won = Cardinality(WonOf(u, d))
           /\ Counts[d][u].intime = Cardinality(WonInTime(u, d))
<1>1. Counts[d][u] = [opened |-> Cardinality(TradesOf(u, d)), won |-> Cardinality(WonOf(u, d)),
                      intime |-> Cardinality(WonInTime(u, d))]
  BY DEF Counts
<1> QED BY <1>1

LEMMA CountsSame == ASSUME trades' = trades PROVE Counts' = Counts
BY DEF Counts, TradesOf, WonOf, WonInTime

\* What OpenTrade and CloseTrade leave of the trades of earlier days.
PastKept ==
    \A u \in Users, d \in Days : d < day =>
       /\ TradesOf(u, d)' = TradesOf(u, d)
       /\ WonOf(u, d) \subseteq WonOf(u, d)'
       /\ WonInTime(u, d)' = WonInTime(u, d)

LEMMA OpenTradeOf ==
    ASSUME SInv, OpenTrade
    PROVE  trades' \in Seq(Trade) /\ TradeInv' /\ PastKept
<1> DEFINE n == Len(trades)
<1>1. PICK u \in Users :
        trades' = Append(trades, [user |-> u, opened |-> day, closed |-> None, won |-> FALSE])
  BY DEF OpenTrade
<1> DEFINE new == [user |-> u, opened |-> day, closed |-> None, won |-> FALSE]
<1>2. new \in Trade /\ trades \in Seq(Trade) /\ day \in Nat
  BY SnapshotConstants DEF SInv, SnapshotTypeOK, Trade, Days
<1>3. /\ trades' \in Seq(Trade) /\ n \in Nat /\ Len(trades') = n + 1
      /\ \A i \in 1..n : trades'[i] = trades[i]
      /\ trades'[n + 1] = new
  BY <1>1, <1>2
<1> HIDE DEF new
<1>4. new.opened = day /\ ~new.won
  BY DEF new
<1>5. TradeInv'
  BY <1>3, <1>4 DEF TradeInv, SInv
<1>6. ASSUME NEW v \in Users, NEW d \in Days, d < day
      PROVE  /\ TradesOf(v, d)' = TradesOf(v, d)
             /\ WonOf(v, d)' = WonOf(v, d)
             /\ WonInTime(v, d)' = WonInTime(v, d)
  <2>1. TradesOf(v, d)' = TradesOf(v, d)
    BY <1>2, <1>3, <1>4, <1>6 DEF TradesOf, Days
  <2>2. \A i \in TradesOf(v, d) : trades'[i] = trades[i]
    BY <1>3 DEF TradesOf
  <2> QED BY <2>1, <2>2 DEF WonOf, WonInTime
<1>7. PastKept
  BY <1>6 DEF PastKept
<1> QED BY <1>3, <1>5, <1>7

LEMMA CloseTradeOf ==
    ASSUME SInv, CloseTrade
    PROVE  trades' \in Seq(Trade) /\ TradeInv' /\ PastKept
<1>1. PICK i \in 1..Len(trades), w \in BOOLEAN :
          /\ trades[i].closed = None
          /\ trades' = [trades EXCEPT ![i].closed = day, ![i].won = w]
  BY DEF CloseTrade
<1> DEFINE new == [trades[i] EXCEPT !.closed = day, !.won = w]
<1>2. trades \in Seq(Trade) /\ trades[i] \in Trade /\ day \in Days /\ day \in Nat
  BY SnapshotConstants DEF SInv, SnapshotTypeOK, Days
<1>3. /\ new \in Trade /\ new.user = trades[i].user /\ new.opened = trades[i].opened
      /\ new.closed = day /\ new.won = w
  BY <1>2 DEF Trade
<1>4. trades' = [trades EXCEPT ![i] = new]
  BY <1>1, <1>2
<1> HIDE DEF new
<1>5. /\ trades' \in Seq(Trade) /\ Len(trades') = Len(trades) /\ trades'[i] = new
      /\ \A j \in 1..Len(trades) : j # i => trades'[j] = trades[j]
  BY <1>2, <1>3, <1>4
<1>6. None \notin Days
  BY SnapshotConstants
<1>7. TradeInv'
  BY <1>2, <1>3, <1>5, <1>6 DEF TradeInv, SInv
<1>8. ~trades[i].won
  BY <1>1 DEF TradeInv, SInv
<1>9. ASSUME NEW v \in Users, NEW d \in Days, d < day
      PROVE  /\ TradesOf(v, d)' = TradesOf(v, d)
             /\ WonOf(v, d) \subseteq WonOf(v, d)'
             /\ WonInTime(v, d)' = WonInTime(v, d)
  <2>1. TradesOf(v, d)' = TradesOf(v, d)
    BY <1>3, <1>5 DEF TradesOf
  <2>2. WonOf(v, d) \subseteq WonOf(v, d)'
    BY <1>5, <1>8, <2>1 DEF WonOf, TradesOf
  <2>3. d # day
    BY <1>2, <1>9 DEF Days
  <2>4. \A j \in TradesOf(v, d) : j \in WonOf(v, d)' /\ trades'[j].closed = d
                                  <=> j \in WonOf(v, d) /\ trades[j].closed = d
    <3> SUFFICES ASSUME NEW j \in TradesOf(v, d)
                 PROVE  trades'[j].won /\ trades'[j].closed = d
                        <=> trades[j].won /\ trades[j].closed = d
      BY <2>1 DEF WonOf
    <3>1. CASE j = i
      BY <1>3, <1>5, <1>8, <2>3, <3>1
    <3>2. CASE j # i
      BY <1>5, <3>2 DEF TradesOf
    <3> QED BY <3>1, <3>2
  <2>5. WonInTime(v, d)' = WonInTime(v, d)
    BY <2>1, <2>4 DEF WonInTime, WonOf
  <2> QED BY <2>1, <2>2, <2>5
<1>10. PastKept
  BY <1>9 DEF PastKept
<1> QED BY <1>5, <1>7, <1>10

LEMMA CountsGrow ==
    ASSUME SnapshotTypeOK, SnapshotTypeOK', PastKept,
           NEW u \in Users, NEW d \in Days, d < day
    PROVE  /\ Counts'[d][u].opened = Counts[d][u].opened
           /\ Counts'[d][u].won >= Counts[d][u].won /\ Counts'[d][u].won \in Nat
           /\ Counts[d][u].won \in Nat
           /\ Counts'[d][u].intime = Counts[d][u].intime
<1>1. /\ IsFiniteSet(WonOf(u, d)') /\ Cardinality(WonOf(u, d)') \in Nat
  <2>1. /\ IsFiniteSet(1..Len(trades'))
        /\ WonOf(u, d)' \in SUBSET (1..Len(trades'))
    BY FS_Interval DEF SnapshotTypeOK, WonOf, TradesOf
  <2> QED BY <2>1, FS_Subset, FS_CardinalityType
<1>2. /\ TradesOf(u, d)' = TradesOf(u, d)
      /\ WonOf(u, d) \subseteq WonOf(u, d)'
      /\ WonInTime(u, d)' = WonInTime(u, d)
  BY DEF PastKept
<1>3. Cardinality(WonOf(u, d)) <= Cardinality(WonOf(u, d)') /\ Cardinality(WonOf(u, d)) \in Nat
  BY <1>1, <1>2, FS_Subset, Countable
<1>4. Counts'[d][u] = [opened |-> Cardinality(TradesOf(u, d)'),
                       won |-> Cardinality(WonOf(u, d)'),
                       intime |-> Cardinality(WonInTime(u, d)')]
  BY DEF Counts
<1>5. /\ Counts'[d][u].opened = Cardinality(TradesOf(u, d)')
      /\ Counts'[d][u].won = Cardinality(WonOf(u, d)')
      /\ Counts'[d][u].intime = Cardinality(WonInTime(u, d)')
  BY <1>4
<1>6. /\ Counts[d][u].opened = Cardinality(TradesOf(u, d))
      /\ Counts[d][u].won = Cardinality(WonOf(u, d))
      /\ Counts[d][u].intime = Cardinality(WonInTime(u, d))
  BY CountsAre
<1> QED BY <1>1, <1>2, <1>3, <1>5, <1>6

LEMMA TradeStepOf ==
    ASSUME SInv, OpenTrade \/ CloseTrade
    PROVE  SInv'
<1> USE DEF SInv
<1>1. trades' \in Seq(Trade) /\ TradeInv' /\ PastKept
  BY OpenTradeOf, CloseTradeOf
<1>2. UNCHANGED <<day, rows, due, message, yesterday, todo, added, skipped, failed, late, crashes>>
  BY DEF OpenTrade, CloseTrade, runVars
<1>3. SnapshotTypeOK'
  BY <1>1, <1>2 DEF SnapshotTypeOK
<1>4. TimeInv' /\ RunInv' /\ IdleInv' /\ GapsExplained'
  BY <1>2 DEF TimeInv, RunInv, IdleInv, GapsExplained, Active
<1>5. RowInv'
  <2>1. ASSUME NEW u \in Users, NEW d \in Days, NEW row \in Row, d < day,
               RowRight(row, Counts[d][u])
        PROVE  RowRight(row, Counts'[d][u])
    BY <1>1, <1>3, <2>1, CountsGrow DEF RowRight, Row
  <2>2. ASSUME NEW d \in Days, NEW u \in Users, rows[d][u] # None
        PROVE  RowRight(rows[d][u], Counts'[d][u])
    BY <2>1, <2>2 DEF RowInv, TimeInv, SnapshotTypeOK
  <2>3. ASSUME NEW w \in Runs, NEW u \in Users, added[w][u] # None
        PROVE  RowRight(added[w][u], Counts'[yesterday[w]][u])
    <3>1. yesterday[w] \in Days /\ yesterday[w] < day /\ added[w][u] \in Row
      BY <2>3 DEF IdleInv, TimeInv, NoRows, SnapshotTypeOK
    <3> QED BY <2>1, <2>3, <3>1 DEF RowInv
  <2> QED BY <1>2, <2>2, <2>3 DEF RowInv
<1> QED BY <1>1, <1>3, <1>4, <1>5

(***************************************************************************)
(* The date and the runs.                                                  *)
(***************************************************************************)
LEMMA MidnightOf ==
    ASSUME SInv, Midnight
    PROVE  SInv'
<1> USE DEF SInv, Active
<1>1. /\ day \in Nat /\ MaxDay \in Nat /\ day' = day + 1 /\ day' \in Days /\ day \in Days
      /\ due' = [due EXCEPT ![day] = @ + 1]
      /\ UNCHANGED <<trades, rows, message, yesterday, todo, added, skipped, failed, late, crashes>>
  BY SnapshotConstants DEF Midnight, SnapshotTypeOK, Days, runVars
<1>2. /\ due'[day] = due[day] + 1 /\ due[day] \in Nat /\ due' \in [Days -> Nat]
      /\ \A d \in Days : d # day => due'[d] = due[d]
  BY <1>1 DEF SnapshotTypeOK
<1>3. SnapshotTypeOK'
  BY <1>1, <1>2 DEF SnapshotTypeOK
<1>4. \A d \in Days : d \in Nat /\ (d < day => d < day')
  BY <1>1 DEF Days
<1>5. TimeInv'
  <2>1. \A w \in Runs : Active(w) => message[w] \in Days /\ yesterday[w] \in Days
    BY DEF SnapshotTypeOK
  <2>2. \A d \in Days : due'[d] > 0 => d < day'
    BY <1>1, <1>2, <1>4 DEF TimeInv
  <2>3. \A w \in Runs : Active(w) => message[w] < day' /\ yesterday[w] < day'
    BY <1>4, <2>1 DEF TimeInv
  <2>4. \A d \in Days, u \in Users : rows[d][u] # None => d < day'
    BY <1>4 DEF TimeInv
  <2> QED BY <1>1, <2>2, <2>3, <2>4 DEF TimeInv
<1>6. RunInv' /\ IdleInv' /\ TradeInv'
  BY <1>1 DEF RunInv, IdleInv, TradeInv
<1>7. RowInv'
  BY <1>1, CountsSame DEF RowInv
<1>8. GapsExplained'
  <2> SUFFICES ASSUME NEW d \in Days, NEW u \in Users, d < day', rows[d][u] = None
               PROVE  \/ due'[d] > 0 \/ \E w \in Runs : message[w] = d
                      \/ d \in late \/ d \in failed \/ <<u, d>> \in skipped
    BY <1>1 DEF GapsExplained
  <2>1. d < day \/ d = day
    BY <1>1, <1>4
  <2> QED BY <1>1, <1>2, <2>1 DEF GapsExplained
<1> QED BY <1>3, <1>5, <1>6, <1>7, <1>8

LEMMA StartRunOf ==
    ASSUME SInv, NEW w \in Runs, StartRun(w)
    PROVE  SInv'
<1> USE DEF SInv
<1>1. PICK d \in Days :
          /\ due[d] > 0
          /\ due' = [due EXCEPT ![d] = @ - 1]
          /\ message' = [message EXCEPT ![w] = d]
          /\ late' = IF d = DayToCount THEN late ELSE late \union {d}
  BY DEF StartRun
<1>2. /\ message[w] = None /\ yesterday' = [yesterday EXCEPT ![w] = day - 1]
      /\ todo' = [todo EXCEPT ![w] = Users]
      /\ UNCHANGED <<day, trades, rows, added, skipped, failed, crashes>>
  BY DEF StartRun, DayToCount
<1>3. day \in Nat /\ d < day /\ day - 1 \in Days /\ d \in Nat /\ d # None
  BY <1>1, SnapshotConstants DEF TimeInv, SnapshotTypeOK, Days
<1>4. /\ message'[w] = d /\ yesterday'[w] = day - 1 /\ todo'[w] = Users
      /\ \A v \in Runs \ {w} : /\ message'[v] = message[v] /\ yesterday'[v] = yesterday[v]
                               /\ todo'[v] = todo[v]
  BY <1>1, <1>2 DEF SnapshotTypeOK
<1>5. /\ due' \in [Days -> Nat]
      /\ \A e \in Days : due'[e] > 0 => due[e] > 0
      /\ \A e \in Days \ {d} : due'[e] = due[e]
  BY <1>1 DEF SnapshotTypeOK
<1>6. late \subseteq late' /\ (d \in late' \/ d = day - 1) /\ late' \subseteq Days
  BY <1>1 DEF DayToCount, SnapshotTypeOK
<1>7. SnapshotTypeOK'
  BY <1>1, <1>2, <1>3, <1>5, <1>6 DEF SnapshotTypeOK
<1>8. TimeInv'
  BY <1>2, <1>3, <1>4, <1>5 DEF TimeInv, Active
<1>9. RunInv'
  BY <1>2, <1>4, <1>6 DEF RunInv, Active
<1>10. IdleInv' /\ TradeInv'
  BY <1>2, <1>3, <1>4 DEF IdleInv, TradeInv, Active
<1>11. added[w] = NoRows
  BY <1>2 DEF IdleInv, Active
<1>12. RowInv'
  BY <1>2, <1>4, <1>11, CountsSame DEF RowInv, NoRows, SnapshotTypeOK
<1>13. GapsExplained'
  <2> SUFFICES ASSUME NEW e \in Days, NEW u \in Users, e < day, rows[e][u] = None
               PROVE  \/ due'[e] > 0 \/ \E v \in Runs : message'[v] = e
                      \/ e \in late' \/ e \in failed \/ <<u, e>> \in skipped
    BY <1>2 DEF GapsExplained
  <2>1. CASE e = d
    BY <1>4, <2>1
  <2>2. CASE e # d
    <3>1. \A v \in Runs : message[v] = e => message'[v] = e
      BY <1>2, <1>4, SnapshotConstants
    <3>2. \/ due[e] > 0 \/ \E v \in Runs : message[v] = e
          \/ e \in late \/ e \in failed \/ <<u, e>> \in skipped
      BY DEF GapsExplained
    <3> QED BY <1>5, <1>6, <2>2, <3>1, <3>2
  <2> QED BY <2>1, <2>2
<1> QED BY <1>7, <1>8, <1>9, <1>10, <1>12, <1>13

(***************************************************************************)
(* A user of a run.                                                        *)
(***************************************************************************)
LEMMA NextUserOf ==
    ASSUME SInv, NEW w \in Runs, NEW u \in Users, AddSnapshot(w, u) \/ SkipUser(w, u)
    PROVE  SInv'
<1> USE DEF SInv
<1>1. /\ u \in todo[w] /\ todo' = [todo EXCEPT ![w] = @ \ {u}]
      /\ UNCHANGED <<day, trades, rows, due, message, yesterday, failed, late, crashes>>
  BY DEF AddSnapshot, SkipUser, NextUser
<1>2. Active(w) /\ yesterday[w] \in Days /\ yesterday[w] < day
  BY <1>1 DEF IdleInv, TimeInv, SnapshotTypeOK
<1> DEFINE new == [total |-> Cardinality(TradesOf(u, yesterday[w])),
                   wins |-> Cardinality(WonOf(u, yesterday[w]))]
<1>3. new \in Row /\ new # None /\ RowRight(new, Counts[yesterday[w]][u])
  <2>1. new \in Row /\ RowRight(new, Counts[yesterday[w]][u])
    <3> DEFINE y == yesterday[w]
    <3>1. y \in Days
      BY <1>2
    <3> HIDE DEF y
    <3>2. /\ Cardinality(TradesOf(u, y)) \in Nat /\ Cardinality(WonOf(u, y)) \in Nat
          /\ Cardinality(WonInTime(u, y)) \in Nat
          /\ Cardinality(WonInTime(u, y)) <= Cardinality(WonOf(u, y))
      BY Countable
    <3>3. /\ Counts[y][u].opened = Cardinality(TradesOf(u, y))
          /\ Counts[y][u].won = Cardinality(WonOf(u, y))
          /\ Counts[y][u].intime = Cardinality(WonInTime(u, y))
      BY <3>1, CountsAre
    <3>4. LET r == [total |-> Cardinality(TradesOf(u, y)), wins |-> Cardinality(WonOf(u, y))]
          IN  r \in Row /\ RowRight(r, Counts[y][u])
      BY <3>2, <3>3 DEF Row, RowRight
    <3> QED BY <3>4 DEF y
  <2> QED BY <2>1, SnapshotConstants
<1>4. CASE AddSnapshot(w, u)
  <2>1. added' = [added EXCEPT ![w][u] = new] /\ skipped' = skipped
    BY <1>4 DEF AddSnapshot
  <2> HIDE DEF new
  <2>2. /\ added'[w][u] = new
        /\ added' \in [Runs -> [Users -> Row \union {None}]]
        /\ \A v \in Runs, x \in Users : v # w \/ x # u => added'[v][x] = added[v][x]
        /\ \A v \in Runs \ {w} : added'[v] = added[v]
    BY <1>3, <2>1 DEF SnapshotTypeOK
  <2>3. SnapshotTypeOK'
    BY <1>1, <2>1, <2>2 DEF SnapshotTypeOK
  <2>4. TimeInv' /\ TradeInv' /\ GapsExplained'
    BY <1>1, <2>1 DEF TimeInv, TradeInv, GapsExplained, Active
  <2>5. RunInv' /\ IdleInv'
    BY <1>1, <1>2, <1>3, <2>1, <2>2 DEF RunInv, IdleInv, Active, SnapshotTypeOK
  <2>6. RowInv'
    BY <1>1, <1>3, <2>2, CountsSame DEF RowInv
  <2> QED BY <2>3, <2>4, <2>5, <2>6
<1>5. CASE SkipUser(w, u)
  <2>1. skipped' = skipped \union {<<u, yesterday[w]>>} /\ added' = added
    BY <1>5 DEF SkipUser
  <2>2. SnapshotTypeOK'
    BY <1>1, <1>2, <2>1 DEF SnapshotTypeOK
  <2>3. TimeInv' /\ TradeInv' /\ GapsExplained'
    BY <1>1, <2>1 DEF TimeInv, TradeInv, GapsExplained, Active
  <2>4. RunInv' /\ IdleInv'
    BY <1>1, <1>2, <2>1 DEF RunInv, IdleInv, Active, SnapshotTypeOK
  <2>5. RowInv'
    BY <1>1, <2>1, CountsSame DEF RowInv
  <2> QED BY <2>2, <2>3, <2>4, <2>5
<1> QED BY <1>4, <1>5

(***************************************************************************)
(* The end of a run.                                                       *)
(***************************************************************************)
Over(w) ==
    /\ message'[w] = None /\ todo'[w] = {} /\ added'[w] = NoRows
    /\ \A v \in Runs \ {w} : /\ message'[v] = message[v] /\ yesterday'[v] = yesterday[v]
                             /\ todo'[v] = todo[v] /\ added'[v] = added[v]
    /\ message' \in [Runs -> Days \union {None}] /\ yesterday' \in [Runs -> Days]
    /\ todo' \in [Runs -> SUBSET Users] /\ added' \in [Runs -> [Users -> Row \union {None}]]
    /\ UNCHANGED <<day, trades, late>>

LEMMA EndRunOver ==
    ASSUME SInv, NEW w \in Runs, EndRun(w)
    PROVE  Over(w)
<1>1. 0 \in Days /\ NoRows \in [Users -> Row \union {None}]
  BY SnapshotConstants DEF Days, NoRows
<1> QED BY <1>1 DEF SInv, SnapshotTypeOK, EndRun, Over

LEMMA OverKeeps ==
    ASSUME SInv, NEW w \in Runs, Over(w), skipped' = skipped
    PROVE  /\ RunInv' /\ IdleInv' /\ TradeInv'
           /\ \A v \in Runs : Active(v)' => Active(v) /\ message'[v] = message[v]
                                           /\ yesterday'[v] = yesterday[v]
           /\ \A v \in Runs, u \in Users :
                 added'[v][u] # None => RowRight(added'[v][u], Counts'[yesterday'[v]][u])
<1> USE DEF SInv, Over
<1>1. RunInv' /\ IdleInv' /\ TradeInv'
  BY DEF RunInv, IdleInv, TradeInv, Active
<1>2. \A u \in Users : added'[w][u] = None
  BY DEF NoRows
<1>3. ASSUME NEW v \in Runs, NEW u \in Users, added'[v][u] # None
      PROVE  RowRight(added'[v][u], Counts'[yesterday'[v]][u])
  <2>1. v # w
    BY <1>2, <1>3
  <2>2. RowRight(added[v][u], Counts[yesterday[v]][u])
    BY <1>3, <2>1 DEF RowInv
  <2> QED BY <2>1, <2>2, CountsSame
<1> QED BY <1>1, <1>3 DEF Active

LEMMA CommitRunOf ==
    ASSUME SInv, NEW w \in Runs, CommitRun(w)
    PROVE  SInv'
<1> USE DEF SInv
<1> DEFINE y == yesterday[w]
<1>1. /\ Active(w) /\ todo[w] = {} /\ y \in Days /\ y < day
      /\ UNCHANGED <<due, skipped, failed, crashes>> /\ Over(w)
  BY EndRunOver DEF CommitRun, Active, TimeInv, SnapshotTypeOK
<1>2. rows' = [rows EXCEPT ![y] = [u \in Users |-> IF added[w][u] # None THEN added[w][u]
                                                   ELSE rows[y][u]]]
  BY <1>1 DEF CommitRun
<1>3. /\ \A u \in Users : rows'[y][u] = IF added[w][u] # None THEN added[w][u] ELSE rows[y][u]
      /\ \A d \in Days \ {y} : rows'[d] = rows[d]
      /\ rows' \in [Days -> [Users -> Row \union {None}]]
  BY <1>1, <1>2 DEF SnapshotTypeOK
<1>4. SnapshotTypeOK'
  BY <1>1, <1>3 DEF SnapshotTypeOK, Over
<1>5. /\ RunInv' /\ IdleInv' /\ TradeInv'
      /\ \A v \in Runs : Active(v)' => Active(v) /\ message'[v] = message[v]
                                      /\ yesterday'[v] = yesterday[v]
      /\ \A v \in Runs, u \in Users :
            added'[v][u] # None => RowRight(added'[v][u], Counts'[yesterday'[v]][u])
  BY <1>1, OverKeeps
<1>6. TimeInv'
  <2>1. \A d \in Days, u \in Users : rows'[d][u] # None => d < day
    BY <1>1, <1>3 DEF TimeInv
  <2>2. \A d \in Days : due[d] > 0 => d < day
    BY DEF TimeInv
  <2>3. \A v \in Runs : Active(v)' => message'[v] < day /\ yesterday'[v] < day
    BY <1>5 DEF TimeInv
  <2> QED BY <1>1, <2>1, <2>2, <2>3 DEF TimeInv, Over
<1>7. RowInv'
  <2>1. ASSUME NEW d \in Days, NEW u \in Users, rows'[d][u] # None
        PROVE  RowRight(rows'[d][u], Counts'[d][u])
    <3>1. RowRight(rows'[d][u], Counts[d][u])
      BY <1>1, <1>3, <2>1 DEF RowInv
    <3> QED BY <1>1, <3>1, CountsSame DEF Over
  <2> QED BY <1>5, <2>1 DEF RowInv
<1>8. GapsExplained'
  <2> SUFFICES ASSUME NEW d \in Days, NEW u \in Users, d < day, rows'[d][u] = None
               PROVE  \/ due[d] > 0 \/ \E v \in Runs : message'[v] = d
                      \/ d \in late \/ d \in failed \/ <<u, d>> \in skipped
    BY <1>1 DEF GapsExplained, Over
  <2>1. rows[d][u] = None /\ (d = y => added[w][u] = None)
    BY <1>3
  <2>2. CASE message[w] = d
    BY <1>1, <2>1, <2>2 DEF RunInv
  <2>3. CASE message[w] # d
    BY <1>1, <2>1, <2>3 DEF GapsExplained, Over
  <2> QED BY <2>2, <2>3
<1> QED BY <1>4, <1>5, <1>6, <1>7, <1>8

LEMMA RunGoesOf ==
    ASSUME SInv, NEW w \in Runs, RunFails(w) \/ WorkerDies(w)
    PROVE  SInv'
<1> USE DEF SInv
<1>1. Active(w) /\ Over(w) /\ UNCHANGED <<rows, skipped>> /\ message[w] \in Days
  BY EndRunOver DEF RunFails, WorkerDies, Active, SnapshotTypeOK
<1>2. /\ RunInv' /\ IdleInv' /\ TradeInv'
      /\ \A v \in Runs : Active(v)' => Active(v) /\ message'[v] = message[v]
                                      /\ yesterday'[v] = yesterday[v]
      /\ \A v \in Runs, u \in Users :
            added'[v][u] # None => RowRight(added'[v][u], Counts'[yesterday'[v]][u])
  BY <1>1, OverKeeps
<1>3. RowInv'
  BY <1>1, <1>2, CountsSame DEF RowInv, Over
<1>4. /\ due' \in [Days -> Nat] /\ failed' \subseteq Days /\ crashes' \in Nat
      /\ failed \subseteq failed'
      /\ \A d \in Days : /\ due[d] > 0 => due'[d] > 0
                         /\ due'[d] > 0 => due[d] > 0 \/ d = message[w]
      /\ \/ yesterday[w] \in failed' \/ due'[message[w]] > 0
  <2>1. CASE RunFails(w)
    BY <2>1 DEF RunFails, SnapshotTypeOK
  <2>2. CASE WorkerDies(w)
    <3>1. due' = [due EXCEPT ![message[w]] = @ + 1] /\ failed' = failed /\ crashes' = crashes + 1
      BY <2>2 DEF WorkerDies
    <3>2. /\ due'[message[w]] = due[message[w]] + 1 /\ due[message[w]] \in Nat
          /\ due' \in [Days -> Nat]
          /\ \A d \in Days : d # message[w] => due'[d] = due[d]
      BY <1>1, <3>1 DEF SnapshotTypeOK
    <3>3. \A d \in Days : due[d] \in Nat
      BY DEF SnapshotTypeOK
    <3> QED BY <3>1, <3>2, <3>3 DEF SnapshotTypeOK
  <2> QED BY <2>1, <2>2
<1>5. SnapshotTypeOK'
  BY <1>1, <1>4 DEF SnapshotTypeOK, Over
<1>6. TimeInv'
  BY <1>1, <1>2, <1>4 DEF TimeInv, Over
<1>7. GapsExplained'
  <2> SUFFICES ASSUME NEW d \in Days, NEW u \in Users, d < day, rows[d][u] = None
               PROVE  \/ due'[d] > 0 \/ \E v \in Runs : message'[v] = d
                      \/ d \in late \/ d \in failed' \/ <<u, d>> \in skipped
    BY <1>1 DEF GapsExplained, Over
  <2>1. CASE message[w] = d
    BY <1>1, <1>4, <2>1 DEF RunInv
  <2>2. CASE message[w] # d
    BY <1>1, <1>4, <2>2 DEF GapsExplained, Over
  <2> QED BY <2>1, <2>2
<1> QED BY <1>2, <1>3, <1>5, <1>6, <1>7

-----------------------------------------------------------------------------
LEMMA SnapshotStepHolds == ASSUME SInv, [SnapshotNext]_snapshotVars PROVE SInv'
<1>1. CASE UNCHANGED snapshotVars
  <2>1. SnapshotTypeOK' /\ TimeInv' /\ RunInv' /\ IdleInv' /\ TradeInv'
    BY <1>1 DEF snapshotVars, SInv, SnapshotTypeOK, TimeInv, RunInv, IdleInv, TradeInv, Active
  <2>2. RowInv' /\ GapsExplained'
    BY <1>1, CountsSame DEF snapshotVars, SInv, RowInv, GapsExplained
  <2> QED BY <2>1, <2>2 DEF SInv
<1> QED BY <1>1, TradeStepOf, MidnightOf, StartRunOf, NextUserOf, CommitRunOf, RunGoesOf
        DEF SnapshotNext, RunStep

LEMMA SnapshotInvariant == SnapshotSpec => []SInv
BY SnapshotInitHolds, SnapshotStepHolds, PTL DEF SnapshotSpec

(***************************************************************************)
(* Every variable has its type.                                            *)
(***************************************************************************)
THEOREM SnapshotTypeCorrect == SnapshotSpec => []SnapshotTypeOK
<1>1. SInv => SnapshotTypeOK
  BY DEF SInv
<1> QED BY <1>1, SnapshotInvariant, PTL

(***************************************************************************)
(* compute_daily_snapshots leaves a user without a row of a day that is    *)
(* over only for one of the reasons given: a message taken up too late, a  *)
(* run that failed, an error with the user.                                *)
(***************************************************************************)
THEOREM GapsExplainedCorrect == SnapshotSpec => []GapsExplained
<1>1. SInv => GapsExplained
  BY DEF SInv
<1> QED BY <1>1, SnapshotInvariant, PTL

(***************************************************************************)
(* A row of daily_snapshots stays right: the trades of its day are         *)
(* counted, and the wins lie between those of that day and those of ever.  *)
(***************************************************************************)
THEOREM RowsFinalCorrect == SnapshotSpec => []RowsFinal
<1>1. SInv => RowsFinal
  <2> SUFFICES ASSUME SInv, NEW d \in Days, NEW u \in Users, rows[d][u] # None
               PROVE  /\ rows[d][u].total = Cardinality(TradesOf(u, d))
                      /\ rows[d][u].wins <= Cardinality(WonOf(u, d))
                      /\ rows[d][u].wins >= Cardinality(WonInTime(u, d))
    BY DEF RowsFinal, WonInTime
  <2>1. RowRight(rows[d][u], Counts[d][u])
    BY DEF SInv, RowInv
  <2>2. /\ Counts[d][u].opened = Cardinality(TradesOf(u, d))
        /\ Counts[d][u].won = Cardinality(WonOf(u, d))
        /\ Counts[d][u].intime = Cardinality(WonInTime(u, d))
    BY CountsAre
  <2> QED BY <2>1, <2>2 DEF RowRight
<1> QED BY <1>1, SnapshotInvariant, PTL
===============================================================================
