------------------------------- MODULE Figures -------------------------------
(***************************************************************************)
(* The calculations of the read side: the drawdown and the streaks that    *)
(* api/routes/performance.py publishes, and the months that                *)
(* workers/snapshot_worker.py makes partitions for.  Amounts are natural   *)
(* numbers of the smallest unit; a percentage is counted in hundredths of  *)
(* a point and cut off, where the code rounds to two digits.               *)
(***************************************************************************)
EXTENDS Integers, Sequences

Larger(a, b) == IF a > b THEN a ELSE b

-----------------------------------------------------------------------------
\* Variant for a mutation check: the peak follows the curve down.
NextPeakLast(peak, eq) == eq

NextPeak(peak, eq) == Larger(peak, eq)

\* A fall, in hundredths of a percent of where it begins.
Fall(a, b) == IF a > 0 THEN ((a - b) * 10000) \div a ELSE 0

\* _compute_max_drawdown: one pass, with the peak and the deepest fall so far.
AfterDay(d, eq) ==
    LET peak == NextPeak(d.peak, eq)
    IN [peak |-> peak, max_dd |-> Larger(d.max_dd, Fall(peak, eq))]

Curve(equity) ==
    LET d[i \in 0..Len(equity)] == IF i = 0 THEN [peak |-> equity[1], max_dd |-> 0]
                                   ELSE AfterDay(d[i - 1], equity[i])
    IN d

max_drawdown(equity) == IF Len(equity) < 2 THEN 0 ELSE Curve(equity)[Len(equity)].max_dd

\* The streak after one more trade: it goes on, or is over.
Streak(n, goes_on) == IF goes_on THEN n + 1 ELSE 0

\* _compute_streaks: one pass, with the streaks that go on and the longest so far.  A trade of
\* exactly zero ends both.
AfterTrade(s, pnl) ==
    LET win  == Streak(s.current_win, pnl > 0)
        loss == Streak(s.current_loss, pnl < 0)
    IN [current_win |-> win, max_win |-> Larger(s.max_win, win),
        current_loss |-> loss, max_loss |-> Larger(s.max_loss, loss)]

Streaks(pnls) ==
    LET s[i \in 0..Len(pnls)] ==
            IF i = 0 THEN [current_win |-> 0, max_win |-> 0, current_loss |-> 0, max_loss |-> 0]
            ELSE AfterTrade(s[i - 1], pnls[i])
    IN s

longest_streaks(pnls) == LET last == Streaks(pnls)[Len(pnls)] IN <<last.max_win, last.max_loss>>

-----------------------------------------------------------------------------
(***************************************************************************)
(* create_next_month_partitions: the first of the next month, and of the   *)
(* month after it, from the year and the month of the day it runs.         *)
(***************************************************************************)
\* Variant for a mutation check: November's run is not told apart.
NextMonthPlain(y, m) ==
    IF m = 12 THEN [start |-> <<y + 1, 1>>, end |-> <<y + 1, 2>>]
              ELSE [start |-> <<y, m + 1>>, end |-> <<y, m + 2>>]

NextMonth(y, m) ==
    IF m = 12 THEN [start |-> <<y + 1, 1>>, end |-> <<y + 1, 2>>]
    ELSE IF m + 1 = 12 THEN [start |-> <<y, m + 1>>, end |-> <<y + 1, 1>>]
    ELSE [start |-> <<y, m + 1>>, end |-> <<y, m + 2>>]

\* The calendar: months counted from year zero.
IsMonth(d) == d[1] \in Nat /\ d[2] \in 1..12
Months(d)  == 12 * d[1] + d[2]

-----------------------------------------------------------------------------
(***************************************************************************)
(* What the figures ought to be.                                           *)
(***************************************************************************)
\* The deepest fall from any value to a later one.
DeepestFall(s, d) ==
    /\ \A i \in 1..Len(s), j \in 1..Len(s) : i <= j => Fall(s[i], s[j]) <= d
    /\ d = 0 \/ \E i \in 1..Len(s), j \in 1..Len(s) : i < j /\ Fall(s[i], s[j]) = d

\* Of n trades, those after the first i, k of them, are all in the set; most is the length of
\* the longest such stretch.
Stretch(n, set, i, k) == i + k <= n /\ \A j \in 1..k : i + j \in set
LongestStretch(n, set, most) ==
    /\ \E i \in 0..n : Stretch(n, set, i, most)
    /\ \A i \in 0..n, k \in 0..n : Stretch(n, set, i, k) => k <= most

\* The published drawdown is the deepest fall from a value to a later one, and the streaks
\* are the longest stretches of wins and of losses, for curves that start at zero, rows that
\* repeat and trades of exactly nothing too.
FiguresRightFor(equities, results, most) ==
    \A n \in 0..most :
       /\ \A s \in [1..n -> equities] : DeepestFall(s, max_drawdown(s))
       /\ \A s \in [1..n -> results] :
             /\ LongestStretch(n, {i \in 1..n : s[i] > 0}, longest_streaks(s)[1])
             /\ LongestStretch(n, {i \in 1..n : s[i] < 0}, longest_streaks(s)[2])

\* The partition of a run covers exactly the month after it, and the next month's run goes on
\* where it ends: no instant is without a partition or in two.
MonthsTileFor(years) ==
    \A y \in years, m \in 1..12 :
       LET range == NextMonth(y, m)
       IN /\ IsMonth(range.start) /\ IsMonth(range.end)
          /\ Months(range.start) = Months(<<y, m>>) + 1
          /\ NextMonth(range.start[1], range.start[2]).start = range.end
=============================================================================
