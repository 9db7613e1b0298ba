------------------------------ MODULE Snapshots ------------------------------
(***************************************************************************)
(* workers/snapshot_worker.py: once a day a row per user is stored in      *)
(* daily_snapshots, with what the user did the day before.                 *)
(*                                                                         *)
(* celery beat sends a message when a day is over.  Messages are           *)
(* acknowledged late (workers/celery_app.py), so that one whose worker     *)
(* dies comes again, and two workers can be at it at once; a task that     *)
(* raises is not repeated.  A run takes "yesterday" from the clock when it *)
(* starts, not from the message.  It goes through the users one by one,    *)
(* with a SELECT, a call of the exchange and more SELECTs for each, and    *)
(* commits once.  The equity it stores is left out, and every user is      *)
(* active: the run asks for active users only, but no code makes one       *)
(* inactive.                                                               *)
(***************************************************************************)
EXTENDS Naturals, Sequences, FiniteSets

CONSTANTS
    Users,
    Runs,        \* workers that can be at it at the same time
    None,        \* no row, no run, not closed
    MaxDay,      \* bound: days
    MaxTrades,   \* bound: trades on the first day
    MaxLater,    \* bound: trades when a day has ended
    MaxCrashes   \* bound: workers that die

Days == 0..MaxDay
Row  == [total : Nat, wins : Nat]

ASSUME SnapshotConstants ==
    /\ IsFiniteSet(Users) /\ MaxDay \in Nat /\ MaxCrashes \in Nat
    /\ MaxTrades \in Nat /\ MaxLater \in Nat /\ MaxLater <= MaxTrades
    /\ None \notin Users \union Days \union Row

VARIABLES
    day,      \* the date
    trades,   \* in the order they were opened
    rows,     \* daily_snapshots, committed
    due,      \* messages waiting, by the day they were sent for
    \* the runs
    message,  \* the day of the message (None: no run)
    yesterday,
    todo,     \* users not gone through
    added,    \* rows in the session
    \* observations and bounds
    skipped, failed, late, crashes

runVars == <<message, yesterday, todo, added>>
snapshotVars == <<day, trades, rows, due, message, yesterday, todo, added,
                  skipped, failed, late, crashes>>

NoRows == [u \in Users |-> None]

SnapshotInit ==
    /\ day = 0 /\ trades = <<>>
    /\ rows = [d \in Days |-> NoRows]
    /\ due = [d \in Days |-> 0]
    /\ message = [w \in Runs |-> None] /\ yesterday = [w \in Runs |-> 0]
    /\ todo = [w \in Runs |-> {}] /\ added = [w \in Runs |-> NoRows]
    /\ skipped = {} /\ failed = {} /\ late = {} /\ crashes = 0

-----------------------------------------------------------------------------
(***************************************************************************)
(* Around the worker: a trade is opened (TradeExecution) and closed, and a *)
(* day is over.                                                            *)
(***************************************************************************)
OpenTrade ==
    /\ Len(trades) < IF day = 0 THEN MaxTrades ELSE MaxLater
    /\ \E u \in Users : trades' = Append(trades, [user |-> u, opened |-> day,
                                                  closed |-> None, won |-> FALSE])
    /\ UNCHANGED <<day, rows, due, runVars, skipped, failed, late, crashes>>

CloseTrade ==
    /\ \E i \in 1..Len(trades), w \in BOOLEAN :
          /\ trades[i].closed = None
          /\ trades' = [trades EXCEPT ![i].closed = day, ![i].won = w]
    /\ UNCHANGED <<day, rows, due, runVars, skipped, failed, late, crashes>>

Midnight ==
    /\ day < MaxDay /\ Len(trades) <= MaxLater
    /\ day' = day + 1
    /\ due' = [due EXCEPT ![day] = @ + 1]
    /\ UNCHANGED <<trades, rows, runVars, skipped, failed, late, crashes>>

-----------------------------------------------------------------------------
(***************************************************************************)
(* compute_daily_snapshots                                                 *)
(***************************************************************************)
\* Variant for a mutation check: the day it runs on is counted.
DayToCountToday == day

DayToCount == day - 1

StartRun(w) ==
    /\ message[w] = None
    /\ \E d \in Days :
          /\ due[d] > 0
          /\ due' = [due EXCEPT ![d] = @ - 1]
          /\ message' = [message EXCEPT ![w] = d]
          /\ late' = IF d = DayToCount THEN late ELSE late \union {d}
    /\ yesterday' = [yesterday EXCEPT ![w] = DayToCount]
    /\ todo' = [todo EXCEPT ![w] = Users]
    /\ UNCHANGED <<day, trades, rows, added, skipped, failed, crashes>>

TradesOf(u, d) == {i \in 1..Len(trades) : trades[i].user = u /\ trades[i].opened = d}
WonOf(u, d)    == {i \in TradesOf(u, d) : trades[i].won}

NextUser(w, u) ==
    /\ u \in todo[w]
    /\ todo' = [todo EXCEPT ![w] = @ \ {u}]
    /\ UNCHANGED <<day, trades, rows, due, message, yesterday, failed, late, crashes>>

\* The SELECT of the counts; the row that comes of it is nobody's business before the commit.
AddSnapshot(w, u) ==
    /\ added' = [added EXCEPT ![w][u] = [total |-> Cardinality(TradesOf(u, yesterday[w])),
                                         wins |-> Cardinality(WonOf(u, yesterday[w]))]]
    /\ NextUser(w, u)
    /\ UNCHANGED skipped

\* What raises outside the session's own transaction (two valid keys of one user) costs this
\* user the day.
SkipUser(w, u) ==
    /\ skipped' = skipped \union {<<u, yesterday[w]>>}
    /\ NextUser(w, u)
    /\ UNCHANGED added

EndRun(w) ==
    /\ message' = [message EXCEPT ![w] = None]
    /\ yesterday' = [yesterday EXCEPT ![w] = 0]
    /\ todo' = [todo EXCEPT ![w] = {}]
    /\ added' = [added EXCEPT ![w] = NoRows]
    /\ UNCHANGED <<day, trades, late>>

\* The unique index on user and date: one row that is there already and none is stored.
Clashes(w) == \E u \in Users : added[w][u] # None /\ rows[yesterday[w]][u] # None

CommitRun(w) ==
    /\ message[w] # None /\ todo[w] = {}
    /\ ~Clashes(w)
    /\ rows' = [rows EXCEPT ![yesterday[w]] =
                   [u \in Users |-> IF added[w][u] # None THEN added[w][u] ELSE @[u]]]
    /\ EndRun(w)
    /\ UNCHANGED <<due, skipped, failed, crashes>>

\* A statement that fails in the session's transaction aborts it: the users that follow fail
\* too, and nothing is stored.  The message is acknowledged all the same.
RunFails(w) ==
    /\ message[w] # None
    /\ failed' = failed \union {yesterday[w]}
    /\ EndRun(w)
    /\ UNCHANGED <<rows, due, skipped, crashes>>

\* Variant for a mutation check: the message is acknowledged when it is taken.
WorkerDiesAcknowledged(w) ==
    /\ message[w] # None /\ crashes < MaxCrashes
    /\ crashes' = crashes + 1
    /\ EndRun(w)
    /\ UNCHANGED <<rows, due, skipped, failed>>

WorkerDies(w) ==
    /\ message[w] # None /\ crashes < MaxCrashes
    /\ crashes' = crashes + 1
    /\ due' = [due EXCEPT ![message[w]] = @ + 1]
    /\ EndRun(w)
    /\ UNCHANGED <<rows, skipped, failed>>

RunStep(w) == \/ StartRun(w) \/ CommitRun(w) \/ RunFails(w) \/ WorkerDies(w)
              \/ \E u \in Users : AddSnapshot(w, u) \/ SkipUser(w, u)

SnapshotNext == OpenTrade \/ CloseTrade \/ Midnight \/ \E w \in Runs : RunStep(w)

SnapshotSpec == SnapshotInit /\ [][SnapshotNext]_snapshotVars

-----------------------------------------------------------------------------
(***************************************************************************)
(* Properties                                                              *)
(***************************************************************************)

Trade == [user : Users, opened : Days, closed : Days \union {None}, won : BOOLEAN]

\* Every variable has its type.
SnapshotTypeOK ==
    /\ day \in Days /\ trades \in Seq(Trade)
    /\ rows \in [Days -> [Users -> Row \union {None}]]
    /\ due \in [Days -> Nat]
    /\ message \in [Runs -> Days \union {None}] /\ yesterday \in [Runs -> Days]
    /\ todo \in [Runs -> SUBSET Users]
    /\ added \in [Runs -> [Users -> Row \union {None}]]
    /\ skipped \subseteq Users \X Days /\ failed \subseteq Days /\ late \subseteq Days
    /\ crashes \in Nat

\* A user is without a row for a day that is over only if the run for it is still to come or
\* on its way, ran too late to mean that day, failed, or met an error with this user: a
\* worker that dies half way, and a second that takes the message up, lose nobody.
GapsExplained ==
    \A d \in Days, u \in Users :
       d < day => \/ rows[d][u] # None
                  \/ due[d] > 0 \/ \E w \in Runs : message[w] = d
                  \/ d \in late \/ d \in failed \/ <<u, d>> \in skipped

\* A stored row counts every trade the user opened that day, whenever it is looked at and
\* however late it was made; its wins are trades of that day that won, and nothing that was
\* won by the end of that day is missing.
RowsFinal ==
    \A d \in Days, u \in Users :
       rows[d][u] # None =>
          /\ rows[d][u].total = Cardinality(TradesOf(u, d))
          /\ rows[d][u].wins <= Cardinality(WonOf(u, d))
          /\ rows[d][u].wins >= Cardinality({i \in WonOf(u, d) : trades[i].closed = d})
=============================================================================
