------------------------------- MODULE Reading -------------------------------
(***************************************************************************)
(* Who reads while trades are opened and closed: GET /trades and GET       *)
(* /summary of api/routes/dashboard.py.  Each SELECT of a request sees     *)
(* what is committed when it runs, so that the count and the page, or two  *)
(* counts, may be of different moments.                                    *)
(***************************************************************************)
EXTENDS Snapshots, Figures, Guards

CONSTANTS
    Reader,     \* the user who reads
    per_page,
    ReadDays,   \* bound: days on which requests are made, from beginning to end
    Equities,   \* bound: values of an equity curve
    Results,    \* bound: what a trade has won or lost
    MaxEntries, \* bound: entries of a curve, trades of an account
    Years       \* bound: years in which partitions are made

ASSUME ReadingConstants == Reader \in Users /\ per_page \in Nat \ {0}
                            /\ ReadDays \subseteq Days
                            /\ Equities \subseteq Nat /\ Results \subseteq Int
                            /\ MaxEntries \in Nat /\ Years \subseteq Nat

VARIABLES walk, summary
readVars == <<walk, summary>>
vars == <<snapshotVars, readVars>>

Init == SnapshotInit /\ walk = None /\ summary = None

-----------------------------------------------------------------------------
(***************************************************************************)
(* trade_history: a count and a page in every request.  The client asks    *)
(* for page after page, until total_pages of the last answer.              *)
(***************************************************************************)
Filters == {"all", "open"}
Matching(f) == {i \in 1..Len(trades) : trades[i].user = Reader
                                       /\ (f = "open" => trades[i].closed = None)}
Closed      == Matching("all") \ Matching("open")

\* ORDER BY opened_at DESC
Place(f, i) == Cardinality({j \in Matching(f) : j >= i})

\* Variant for a mutation check: the offset is a page too far.
PageTooFar(f, p) == {i \in Matching(f) : Place(f, i) > p * per_page /\ Place(f, i) <= (p + 1) * per_page}

Page(f, p) == {i \in Matching(f) : Place(f, i) > (p - 1) * per_page /\ Place(f, i) <= p * per_page}

\* Variant for a mutation check: a page too many when the last one is full.
total_pages_floor(total) == total \div per_page + 1

total_pages(total) == IF total = 0 THEN 1 ELSE (total + per_page - 1) \div per_page

CountFirst ==
    /\ walk = None /\ day \in ReadDays
    /\ \E f \in Filters :
          walk' = [stage |-> "fetch", filter |-> f, page |-> 1, total |-> Cardinality(Matching(f)),
                   started |-> Matching(f), closed |-> Closed, shown |-> {}, raced |-> FALSE]
    /\ UNCHANGED summary

CountTotal ==
    /\ walk # None /\ walk.stage = "count"
    /\ walk' = [walk EXCEPT !.stage = "fetch", !.total = Cardinality(Matching(walk.filter))]
    /\ UNCHANGED summary

more_pages(page, total) == page < total_pages(total)

\* raced: the number has changed since the count.
FetchPage ==
    /\ walk # None /\ walk.stage = "fetch"
    /\ LET more == more_pages(walk.page, walk.total)
       IN walk' = [walk EXCEPT !.stage = IF more THEN "count" ELSE "done",
                               !.page = IF more THEN @ + 1 ELSE @,
                               !.shown = @ \union Page(walk.filter, walk.page),
                               !.raced = Cardinality(Matching(walk.filter)) # walk.total]
    /\ UNCHANGED summary

EndWalk ==
    /\ walk # None /\ walk.stage = "done"
    /\ walk' = None
    /\ UNCHANGED summary

-----------------------------------------------------------------------------
(***************************************************************************)
(* dashboard_summary: the closed trades are counted first, then the open   *)
(* ones.  (The sums and the snapshots it reads besides are left out.)      *)
(***************************************************************************)
\* Variant for a mutation check: the status is not asked for.
CountClosedAll ==
    /\ summary = None /\ day \in ReadDays
    /\ summary' = [stage |-> "open", total_trades |-> Cardinality(Matching("all")),
                   open_positions |-> 0, closed |-> 0, all |-> 0]
    /\ UNCHANGED walk

CountClosed ==
    /\ summary = None /\ day \in ReadDays
    /\ summary' = [stage |-> "open", total_trades |-> Cardinality(Closed),
                   open_positions |-> 0, closed |-> 0, all |-> 0]
    /\ UNCHANGED walk

\* closed, all: how many there are at this moment.
CountOpen ==
    /\ summary # None /\ summary.stage = "open"
    /\ summary' = [summary EXCEPT !.stage = "done",
                                  !.open_positions = Cardinality(Matching("open")),
                                  !.closed = Cardinality(Closed),
                                  !.all = Cardinality(Matching("all"))]
    /\ UNCHANGED walk

EndSummary ==
    /\ summary # None /\ summary.stage = "done"
    /\ summary' = None
    /\ UNCHANGED walk

ReadStep == CountFirst \/ CountTotal \/ FetchPage \/ EndWalk
            \/ CountClosed \/ CountOpen \/ EndSummary

Next == \/ SnapshotNext /\ UNCHANGED readVars /\ (walk # None \/ summary # None => day' = day)
        \/ ReadStep /\ UNCHANGED snapshotVars

Spec == Init /\ [][Next]_vars

-----------------------------------------------------------------------------
(***************************************************************************)
(* Properties                                                              *)
(***************************************************************************)

\* Every variable has its type.
TypeOK ==
    /\ SnapshotTypeOK
    /\ walk # None => /\ walk.stage \in {"count", "fetch", "done"} /\ walk.filter \in Filters
                      /\ walk.page \in 1..Larger(1, MaxTrades)
                      /\ walk.started \subseteq 1..Len(trades) /\ walk.shown \subseteq 1..Len(trades)
    /\ summary # None => /\ summary.stage \in {"open", "done"}
                         /\ summary.total_trades \in Nat /\ summary.open_positions \in Nat

\* A client that asks for page after page has seen every trade that was there when it began,
\* however many were opened meanwhile: unless the number changed between the two SELECTs of
\* the last request, or it asks for open trades and one was closed.
WalkComplete ==
    walk # None /\ walk.stage = "done" /\ ~walk.raced
    /\ (walk.filter = "open" => walk.closed = Closed)
    => walk.started \subseteq walk.shown

\* No trade is counted twice in a summary, as closed and as open: one that is closed between
\* the two SELECTs is in neither number, and if none was the two add up to all trades.
CountedOnce ==
    summary # None /\ summary.stage = "done" =>
       /\ summary.total_trades + summary.open_positions <= summary.all
       /\ summary.closed = summary.total_trades =>
             summary.total_trades + summary.open_positions = summary.all

(***************************************************************************)
(* The calculations depend on no variable: they are evaluated at the start.*)
(***************************************************************************)
\* The published drawdown and streaks (performance.py) are what their names say.
FiguresRight == Init => FiguresRightFor(Equities, Results, MaxEntries)

\* The partitions of one run a month (create_next_month_partitions) leave no gap.
MonthsTile == Init => MonthsTileFor(Years)

\* The guards of the routes, the refresh and the socket agree, whoever asks with whatever token.
GuardsAgree == Init => GuardsAgreeFor(Tokens \union {Missing}, Accounts)
=============================================================================
