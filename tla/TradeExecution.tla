--------------------------- MODULE TradeExecution ---------------------------
(***************************************************************************)
(* One signal of the central bot becomes one order per eligible user:      *)
(* services/trade_executor.py (fan_out_signal, execute_for_user), the      *)
(* Celery task around it (workers/trade_worker.py) and the delivery rules  *)
(* of workers/celery_app.py.                                               *)
(*                                                                         *)
(* fan_out_signal reads the eligible (user, bot) rows in one SELECT and    *)
(* enqueues a task for each of them.  A worker process takes a message,    *)
(* reads the user's key and bot again, asks the exchange for the balance,  *)
(* places the order, commits a Trade row and publishes an event.  Messages *)
(* are acknowledged after the run, so a worker that dies hands its message *)
(* out again, and an exception that leaves the task publishes a retry.     *)
(*                                                                         *)
(* Every await and every commit is a step of its own; account changes made *)
(* by the HTTP handlers and by the key validation worker happen between    *)
(* them.  Amounts, prices and sizes are abstracted: the sizing arithmetic  *)
(* only decides whether the order step is reached.                         *)
(***************************************************************************)
EXTENDS Naturals, FiniteSets, SequencesExt

CONSTANTS
    Users,          \* the active users (nothing in the code deactivates one)
    Signals,        \* rows of the signals table
    Pairs,          \* trading pairs
    PairOf,         \* the pair of each signal
    Workers,        \* Celery worker processes (celery worker -c 8)
    Tiers,          \* the subscription tiers in use
    MaxRetries,     \* max_retries of the task
    MaxBots,        \* bound: bot rows per user
    MaxKeys,        \* bound: bitget key rows per user
    MaxChanges,     \* bound: account changes
    MaxCrashes      \* bound: worker crashes

TierNames == {"free", "starter", "pro", "elite", "system"}

(***************************************************************************)
(* The tiers fan_out_signal dispatches for, and those require_tier lets    *)
(* through to the bot and key handlers.                                    *)
(***************************************************************************)
ExecTiers == {"pro", "elite", "system"}
PaidTiers == TierNames \ {"free"}

ASSUME ConstantsOK ==
    /\ Tiers \subseteq TierNames
    /\ PairOf \in [Signals -> Pairs]
    /\ {MaxRetries, MaxKeys, MaxChanges, MaxCrashes} \subseteq Nat
    /\ MaxBots \in Nat \ {0}

(***************************************************************************)
(* A task is one message of fan_out_signal: a signal and a row of the join *)
(* of users and bots.  The message names only the signal and the user.     *)
(***************************************************************************)
Tasks == Signals \X Users \X (1..MaxBots)
SignalOf(t) == t[1]
UserOf(t)   == t[2]
RowOf(t)    == t[3]

Attempts == 0..MaxRetries       \* the "retries" header of a message

(***************************************************************************)
(* bot_instances: "active" is NULL ({}) or {L} for the JSON {"active": L}, *)
(* "disabled" likewise for {"disabled": L}.                                *)
(***************************************************************************)
PairLists == {{}} \union {{L} : L \in SUBSET Pairs}
BotRow    == [status : {"stopped", "running", "error"}, active : PairLists, disabled : PairLists]
NewBot    == [status |-> "stopped", active |-> {}, disabled |-> {}]

Stages == {"idle", "keys", "bot", "exchange", "order", "record", "publish",
           "cleanup", "retry", "ack"}
FaultKinds == {"answer", "commit", "publish", "cleanup", "crash"}

VARIABLES
    \* the database
    tier,       \* users.tier
    keys,       \* number of valid bitget rows of api_keys, per user
    badKeys,    \* number of rows that failed a validation
    bots,       \* bot_instances rows per user, by created_at
    recorded,   \* trades: the order numbers recorded for each task
    \* the exchange
    placed,     \* number of orders accepted for each task
    \* fan_out_signal
    fanned,     \* signals whose fan-out has read its eligible rows
    todo,       \* tasks the running fan-outs have still to enqueue
    \* the broker and the workers
    queue,      \* queue[t][r]: copies of t to deliver whose header is r
    stage,      \* where each worker process is
    job,        \* the unacknowledged message <<t, r>> it holds (<<>>: none)
    held,       \* the order it has placed and not recorded (0: none)
    \* observation and bounds
    faults,     \* what has gone wrong with each task at or after its order
    changes,    \* account changes so far
    crashes     \* worker crashes so far

accountVars == <<tier, keys, badKeys, bots>>
fanoutVars  == <<fanned, todo>>
workerVars  == <<stage, job, held>>
boundVars   == <<changes, crashes>>
vars == <<tier, keys, badKeys, bots, recorded, placed, fanned, todo, queue, stage, job,
          held, faults, changes, crashes>>

-----------------------------------------------------------------------------
Init ==
    /\ tier \in [Users -> Tiers]
    /\ keys \in [Users -> 0..MaxKeys]
    /\ badKeys = [u \in Users |-> 0]
    /\ bots \in [Users -> {<<>>, <<NewBot>>, <<[NewBot EXCEPT !.status = "running"]>>}]
    /\ recorded = [t \in Tasks |-> {}]
    /\ placed = [t \in Tasks |-> 0]
    /\ fanned = {}
    /\ todo = {}
    /\ queue = [t \in Tasks |-> [r \in Attempts |-> 0]]
    /\ stage = [w \in Workers |-> "idle"]
    /\ job = [w \in Workers |-> <<>>]
    /\ held = [w \in Workers |-> 0]
    /\ faults = [t \in Tasks |-> {}]
    /\ changes = 0
    /\ crashes = 0

-----------------------------------------------------------------------------
(***************************************************************************)
(* Account changes.  Each handler is one transaction here; only what the   *)
(* executor reads is kept.                                                 *)
(***************************************************************************)
AccountChange == /\ changes < MaxChanges
                 /\ changes' = changes + 1
                 /\ UNCHANGED <<recorded, placed, fanoutVars, queue, workerVars,
                                faults, crashes>>

\* A Whop event moves the user to another tier.
ChangeTier(u) ==
    /\ AccountChange
    /\ \E x \in Tiers \ {tier[u]} : tier' = [tier EXCEPT ![u] = x]
    /\ UNCHANGED <<keys, badKeys, bots>>

StoreKey(u) ==
    /\ AccountChange
    /\ tier[u] \in PaidTiers
    /\ keys[u] + badKeys[u] < MaxKeys
    /\ keys' = [keys EXCEPT ![u] = @ + 1]
    /\ UNCHANGED <<tier, badKeys, bots>>

\* No tier is asked for here: a downgraded user still deletes and validates.
DeleteKey(u) ==
    /\ AccountChange
    /\ \/ /\ keys[u] > 0
          /\ keys' = [keys EXCEPT ![u] = @ - 1]
          /\ UNCHANGED badKeys
       \/ /\ badKeys[u] > 0
          /\ badKeys' = [badKeys EXCEPT ![u] = @ - 1]
          /\ UNCHANGED keys
    /\ UNCHANGED <<tier, bots>>

\* A failed test of a valid key, the user's own or the periodic one.
InvalidateKey(u) ==
    /\ AccountChange
    /\ keys[u] > 0
    /\ keys' = [keys EXCEPT ![u] = @ - 1]
    /\ badKeys' = [badKeys EXCEPT ![u] = @ + 1]
    /\ UNCHANGED <<tier, bots>>

\* The user's own test also makes a key valid again.
RevalidateKey(u) ==
    /\ AccountChange
    /\ badKeys[u] > 0
    /\ keys' = [keys EXCEPT ![u] = @ + 1]
    /\ badKeys' = [badKeys EXCEPT ![u] = @ - 1]
    /\ UNCHANGED <<tier, bots>>

(***************************************************************************)
(* The bot handlers work on the newest row and create one when they find   *)
(* none.                                                                   *)
(***************************************************************************)
GetOrCreate(u) == IF bots[u] = <<>> THEN <<NewBot>> ELSE bots[u]
Newest(rows)   == rows[Len(rows)]
SetNewest(u, b) ==
    LET rows == GetOrCreate(u)
    IN bots' = [bots EXCEPT ![u] = [rows EXCEPT ![Len(rows)] = b]]

\* A start without a valid key is rolled back, the row it created included.
StartBot(u) ==
    /\ AccountChange
    /\ tier[u] \in PaidTiers
    /\ Newest(GetOrCreate(u)).status # "running"
    /\ keys[u] > 0
    /\ SetNewest(u, [Newest(GetOrCreate(u)) EXCEPT !.status = "running"])
    /\ UNCHANGED <<tier, keys, badKeys>>

\* A stop of a stopped bot still commits the row it created.
StopBot(u) ==
    /\ AccountChange
    /\ tier[u] \in PaidTiers
    /\ SetNewest(u, [Newest(GetOrCreate(u)) EXCEPT !.status = "stopped"])
    /\ UNCHANGED <<tier, keys, badKeys>>

\* Without either list the update is of columns that are not modelled.
UpdateSettings(u) ==
    /\ AccountChange
    /\ tier[u] \in PaidTiers
    /\ \E a \in PairLists, d \in PairLists :
          SetNewest(u, [Newest(GetOrCreate(u)) EXCEPT
                           !.active   = IF a = {} THEN @ ELSE a,
                           !.disabled = IF d = {} THEN @ ELSE d])
    /\ UNCHANGED <<tier, keys, badKeys>>

(***************************************************************************)
(* GET /status writes: the heartbeat is set by a start and never again, so *)
(* five minutes later the first look at a running bot commits "error".     *)
(***************************************************************************)
PollStatus(u) ==
    /\ AccountChange
    /\ tier[u] \in PaidTiers
    /\ LET b == Newest(GetOrCreate(u)) IN
       \E st \in {b.status} \union {x \in {"error"} : b.status = "running"} :
          SetNewest(u, [b EXCEPT !.status = st])
    /\ UNCHANGED <<tier, keys, badKeys>>

(***************************************************************************)
(* Any bot request that looked for a row before the first one was          *)
(* committed inserts a second one (user_id is indexed, not unique), with   *)
(* what the request makes of it.  created_at is when its transaction       *)
(* began, so the new row need not be the newest.                           *)
(***************************************************************************)
FirstRows(u) == {b \in BotRow :
                   \/ b.status = "stopped"
                   \/ keys[u] > 0 /\ b = [NewBot EXCEPT !.status = "running"]}

RacingCreate(u) ==
    /\ AccountChange
    /\ tier[u] \in PaidTiers
    /\ Len(bots[u]) \in 1..(MaxBots - 1)
    /\ \E b \in FirstRows(u), i \in 1..Len(bots[u]) + 1 :
          bots' = [bots EXCEPT ![u] = InsertAt(bots[u], i, b)]
    /\ UNCHANGED <<tier, keys, badKeys>>

-----------------------------------------------------------------------------
(***************************************************************************)
(* fan_out_signal.  pairs and disabled_pairs are JSON objects, and the     *)
(* code looks the pair up among the object's keys: a bot with a pair list  *)
(* never matches, a disabled list never excludes.                          *)
(***************************************************************************)
PassesPairFilters(b) == b.active = {}

Eligible(t) ==
    LET u == UserOf(t) IN
    /\ tier[u] \in ExecTiers
    /\ RowOf(t) \in DOMAIN bots[u]
    /\ bots[u][RowOf(t)].status = "running"
    /\ PassesPairFilters(bots[u][RowOf(t)])

FanOut(s) ==
    /\ s \notin fanned
    /\ fanned' = fanned \union {s}
    /\ todo' = todo \union {t \in Tasks : SignalOf(t) = s /\ Eligible(t)}
    /\ UNCHANGED <<accountVars, recorded, placed, queue, workerVars, faults, boundVars>>

Dispatch(t) ==
    /\ t \in todo
    /\ todo' = todo \ {t}
    /\ queue' = [queue EXCEPT ![t][0] = @ + 1]
    /\ UNCHANGED <<accountVars, recorded, placed, fanned, workerVars, faults, boundVars>>

\* The broker refuses a message: the exception leaves the loop half done.
FanOutFails(s) ==
    /\ \E t \in todo : SignalOf(t) = s
    /\ todo' = {t \in todo : SignalOf(t) # s}
    /\ UNCHANGED <<accountVars, recorded, placed, fanned, queue, workerVars, faults,
                   boundVars>>

-----------------------------------------------------------------------------
(***************************************************************************)
(* The task in a worker process.                                           *)
(***************************************************************************)
TaskOf(w)    == job[w][1]
AttemptOf(w) == job[w][2]

\* Worker w goes on to stage st; outside "record" it holds no order.
Goto(w, st) == /\ stage' = [stage EXCEPT ![w] = st]
               /\ UNCHANGED <<job, held>>
Drop(w, st) == /\ stage' = [stage EXCEPT ![w] = st]
               /\ held' = [held EXCEPT ![w] = 0]
               /\ UNCHANGED job
Blame(w, kind) == faults' = [faults EXCEPT ![TaskOf(w)] = @ \union {kind}]

Receive(w) ==
    /\ stage[w] = "idle"
    /\ \E t \in Tasks, r \in Attempts :
          /\ queue[t][r] > 0
          /\ queue' = [queue EXCEPT ![t][r] = @ - 1]
          /\ job' = [job EXCEPT ![w] = <<t, r>>]
          /\ stage' = [stage EXCEPT ![w] = "keys"]
    /\ UNCHANGED <<accountVars, recorded, placed, fanoutVars, held, faults, boundVars>>

\* Variant for a mutation check: the read takes the first row it finds.
FirstOrNone(n, found) == IF n = 0 THEN "ack" ELSE found

(***************************************************************************)
(* scalar_one_or_none(): no row ends the execution, two raise, and the     *)
(* exception leaves execute_for_user because these reads precede its try.  *)
(***************************************************************************)
OneOrNone(n, found) == IF n = 0 THEN "ack" ELSE IF n = 1 THEN found ELSE "retry"

ReadKeys(w) ==
    /\ stage[w] = "keys"
    /\ Goto(w, OneOrNone(keys[UserOf(TaskOf(w))], "bot"))
    /\ UNCHANGED <<accountVars, recorded, placed, fanoutVars, queue, faults, boundVars>>

\* The second read; a key that cannot be decrypted ends the execution too.
ReadBot(w) ==
    /\ stage[w] = "bot"
    /\ \E found \in {"exchange", "ack"} :
          Goto(w, OneOrNone(Len(bots[UserOf(TaskOf(w))]), found))
    /\ UNCHANGED <<accountVars, recorded, placed, fanoutVars, queue, faults, boundVars>>

\* Either read fails: the database is away.
ReadFails(w) ==
    /\ stage[w] \in {"keys", "bot"}
    /\ Goto(w, "retry")
    /\ UNCHANGED <<accountVars, recorded, placed, fanoutVars, queue, faults, boundVars>>

(***************************************************************************)
(* Balance and size: too small a balance ends the execution, a failed call *)
(* or a size that cannot be computed is caught and cleaned up after.       *)
(***************************************************************************)
FetchBalance(w) ==
    /\ stage[w] = "exchange"
    /\ \E st \in {"order", "ack", "cleanup"} : Goto(w, st)
    /\ UNCHANGED <<accountVars, recorded, placed, fanoutVars, queue, faults, boundVars>>

OrderAccepted(w) ==
    /\ stage[w] = "order"
    /\ placed' = [placed EXCEPT ![TaskOf(w)] = @ + 1]
    /\ held' = [held EXCEPT ![w] = placed[TaskOf(w)] + 1]
    /\ stage' = [stage EXCEPT ![w] = "record"]
    /\ UNCHANGED <<accountVars, recorded, fanoutVars, queue, job, faults, boundVars>>

OrderRejected(w) ==
    /\ stage[w] = "order"
    /\ Goto(w, "cleanup")
    /\ UNCHANGED <<accountVars, recorded, placed, fanoutVars, queue, faults, boundVars>>

\* The exchange accepts, and the answer or the close after it fails.
OrderAnswerLost(w) ==
    /\ stage[w] = "order"
    /\ placed' = [placed EXCEPT ![TaskOf(w)] = @ + 1]
    /\ Blame(w, "answer")
    /\ Goto(w, "cleanup")
    /\ UNCHANGED <<accountVars, recorded, fanoutVars, queue, boundVars>>

\* Variant for a mutation check: the new row is never committed.
RecordWithoutCommit(w) ==
    /\ stage[w] = "record"
    /\ Drop(w, "publish")
    /\ UNCHANGED <<accountVars, recorded, placed, fanoutVars, queue, faults, boundVars>>

\* The commit is applied; the refresh after it may still fail.
RecordTrade(w) ==
    /\ stage[w] = "record"
    /\ recorded' = [recorded EXCEPT ![TaskOf(w)] = @ \union {held[w]}]
    /\ \E st \in {"publish", "cleanup"} : Drop(w, st)
    /\ UNCHANGED <<accountVars, placed, fanoutVars, queue, faults, boundVars>>

\* Variant for a mutation check: a failed commit is retried by the task.
RecordFailsAndRetries(w) ==
    /\ stage[w] = "record"
    /\ Blame(w, "commit")
    /\ Drop(w, "retry")
    /\ UNCHANGED <<accountVars, recorded, placed, fanoutVars, queue, boundVars>>

RecordFails(w) ==
    /\ stage[w] = "record"
    /\ Blame(w, "commit")
    /\ Drop(w, "cleanup")
    /\ UNCHANGED <<accountVars, recorded, placed, fanoutVars, queue, boundVars>>

\* Variant for a mutation check: the except block raises again.
CleanupReraises(w) ==
    /\ stage[w] = "cleanup"
    /\ Goto(w, "retry")
    /\ UNCHANGED <<accountVars, recorded, placed, fanoutVars, queue, faults, boundVars>>

\* except Exception: the exchange client is closed, the task returns None.
Cleanup(w) ==
    /\ stage[w] = "cleanup"
    /\ Goto(w, "ack")
    /\ UNCHANGED <<accountVars, recorded, placed, fanoutVars, queue, faults, boundVars>>

\* That close raises, and nothing in execute_for_user catches it.
CleanupFails(w) ==
    /\ stage[w] = "cleanup"
    /\ Blame(w, "cleanup")
    /\ Goto(w, "retry")
    /\ UNCHANGED <<accountVars, recorded, placed, fanoutVars, queue, boundVars>>

Publish(w) ==
    /\ stage[w] = "publish"
    /\ Goto(w, "ack")
    /\ UNCHANGED <<accountVars, recorded, placed, fanoutVars, queue, faults, boundVars>>

\* No Redis at the fixed address redis://localhost:6379: the task retries.
PublishFails(w) ==
    /\ stage[w] = "publish"
    /\ Blame(w, "publish")
    /\ Goto(w, "retry")
    /\ UNCHANGED <<accountVars, recorded, placed, fanoutVars, queue, boundVars>>

\* Variant for a mutation check: the retry keeps the header it came with.
RetrySameHeader(w) ==
    /\ stage[w] = "retry"
    /\ queue' = [queue EXCEPT ![TaskOf(w)][AttemptOf(w)] = @ + 1]
    /\ Goto(w, "ack")
    /\ UNCHANGED <<accountVars, recorded, placed, fanoutVars, faults, boundVars>>

(***************************************************************************)
(* self.retry(): a new message with the next header while the limit        *)
(* allows; past it, or when the broker refuses, the task has failed.       *)
(***************************************************************************)
Retry(w) ==
    /\ stage[w] = "retry"
    /\ AttemptOf(w) < MaxRetries
    /\ queue' = [queue EXCEPT ![TaskOf(w)][AttemptOf(w) + 1] = @ + 1]
    /\ Goto(w, "ack")
    /\ UNCHANGED <<accountVars, recorded, placed, fanoutVars, faults, boundVars>>

GiveUp(w) ==
    /\ stage[w] = "retry"
    /\ Goto(w, "ack")
    /\ UNCHANGED <<accountVars, recorded, placed, fanoutVars, queue, faults, boundVars>>

\* task_acks_late: the message leaves the broker only now.
Ack(w) ==
    /\ stage[w] = "ack"
    /\ stage' = [stage EXCEPT ![w] = "idle"]
    /\ job' = [job EXCEPT ![w] = <<>>]
    /\ UNCHANGED <<accountVars, recorded, placed, fanoutVars, queue, held, faults,
                   boundVars>>

(***************************************************************************)
(* task_reject_on_worker_lost: the message of a dead worker is delivered   *)
(* again.  Behind the order step that is a fault of the task.              *)
(***************************************************************************)
PastOrder == {"record", "publish", "cleanup", "ack"}

Crash(w) ==
    /\ stage[w] # "idle"
    /\ crashes < MaxCrashes
    /\ crashes' = crashes + 1
    /\ queue' = [queue EXCEPT ![TaskOf(w)][AttemptOf(w)] = @ + 1]
    /\ stage' = [stage EXCEPT ![w] = "idle"]
    /\ job' = [job EXCEPT ![w] = <<>>]
    /\ held' = [held EXCEPT ![w] = 0]
    /\ IF stage[w] \in PastOrder THEN Blame(w, "crash") ELSE UNCHANGED faults
    /\ UNCHANGED <<accountVars, recorded, placed, fanoutVars, changes>>

-----------------------------------------------------------------------------
AccountStep ==
    \E u \in Users : \/ ChangeTier(u) \/ StoreKey(u) \/ DeleteKey(u)
                     \/ InvalidateKey(u) \/ RevalidateKey(u) \/ StartBot(u)
                     \/ StopBot(u) \/ UpdateSettings(u) \/ PollStatus(u) \/ RacingCreate(u)

FanOutStep == \/ \E s \in Signals : FanOut(s) \/ FanOutFails(s)
              \/ \E t \in Tasks : Dispatch(t)

\* What a worker does on its own account.
WorkerStep(w) ==
    \/ Receive(w) \/ ReadKeys(w) \/ ReadBot(w) \/ ReadFails(w) \/ FetchBalance(w)
    \/ OrderAccepted(w) \/ OrderRejected(w) \/ OrderAnswerLost(w)
    \/ RecordTrade(w) \/ RecordFails(w) \/ Cleanup(w) \/ CleanupFails(w)
    \/ Publish(w) \/ PublishFails(w) \/ Retry(w) \/ GiveUp(w) \/ Ack(w)

Next == \/ AccountStep
        \/ FanOutStep
        \/ \E w \in Workers : WorkerStep(w) \/ Crash(w)

(***************************************************************************)
(* The workers keep running (restart: unless-stopped) and a fan-out that   *)
(* was started goes through its list.  Nothing is assumed of the users.    *)
(***************************************************************************)
Fairness == /\ \A w \in Workers : WF_vars(WorkerStep(w))
            /\ \A t \in Tasks : WF_vars(Dispatch(t))

Spec     == Init /\ [][Next]_vars
FairSpec == Spec /\ Fairness

-----------------------------------------------------------------------------
(***************************************************************************)
(* Types: every variable keeps to its range, idle workers hold nothing and *)
(* only a worker about to record holds an order.                           *)
(***************************************************************************)
TypeOK ==
    /\ tier \in [Users -> Tiers]
    /\ keys \in [Users -> Nat] /\ badKeys \in [Users -> Nat]
    /\ bots \in [Users -> Seq(BotRow)]
    /\ recorded \in [Tasks -> SUBSET Nat]
    /\ placed \in [Tasks -> Nat]
    /\ fanned \subseteq Signals
    /\ todo \subseteq Tasks
    /\ queue \in [Tasks -> [Attempts -> Nat]]
    /\ stage \in [Workers -> Stages]
    /\ job \in [Workers -> (Tasks \X Attempts) \union {<<>>}]
    /\ held \in [Workers -> Nat]
    /\ faults \in [Tasks -> SUBSET FaultKinds]
    /\ changes \in Nat /\ crashes \in Nat
    /\ \A w \in Workers : /\ stage[w] = "idle" <=> job[w] = <<>>
                          /\ stage[w] # "record" <=> held[w] = 0

(***************************************************************************)
(* A task for which no worker died past the order step, no publish failed  *)
(* and no clean-up raised has placed at most one order, however often it   *)
(* was retried or redelivered before it (the except block of               *)
(* execute_for_user returns None instead of raising).                      *)
(***************************************************************************)
RepeatFaults == {"publish", "cleanup", "crash"}
SingleOrder == \A t \in Tasks : placed[t] > 1 => faults[t] \cap RepeatFaults # {}

(***************************************************************************)
(* Every order the exchange accepted is in the trades table, or in the     *)
(* hands of one worker that is about to commit it, unless the answer was   *)
(* lost, the commit failed or the worker died; and the trades table lists  *)
(* no order the exchange did not accept.                                   *)
(***************************************************************************)
OrphanFaults == {"answer", "commit", "crash"}
InHand(t, k) == \E w \in Workers : stage[w] = "record" /\ TaskOf(w) = t /\ held[w] = k
NoOrphan ==
    \A t \in Tasks :
        /\ recorded[t] \subseteq 1..placed[t]
        /\ \A k \in (1..placed[t]) \ recorded[t] :
              InHand(t, k) \/ faults[t] \cap OrphanFaults # {}

(***************************************************************************)
(* Whatever fails, a task costs a bounded number of orders: one for each   *)
(* header value the retries go through, and as many again per crash.       *)
(***************************************************************************)
OrdersBounded == \A t \in Tasks : placed[t] <= (MaxRetries + 1) * (crashes + 1)

(***************************************************************************)
(* TradeContract is implemented: an order is in flight while a worker      *)
(* holds it, recorded when its row is committed, lost otherwise.           *)
(***************************************************************************)
OrderStates ==
    [t \in Tasks |-> [k \in 1..placed[t] |->
        IF k \in recorded[t] THEN "recorded"
        ELSE IF InHand(t, k) THEN "inflight" ELSE "lost"]]
Repeated == {t \in Tasks : faults[t] \cap RepeatFaults # {}}

Contract == INSTANCE TradeContract WITH orders <- OrderStates, repeated <- Repeated
ImplementsContract == Contract!CSpec

(***************************************************************************)
(* Once a user has two bot rows, and no execution has read its bot yet,    *)
(* that stays so and no further order is placed: scalar_one_or_none never  *)
(* picks one of the rows, so no order is sized with the settings of a row  *)
(* the user does not see.                                                  *)
(***************************************************************************)
Ahead(t) == \E w \in Workers : stage[w] \in {"exchange", "order"} /\ TaskOf(w) = t
Ambiguous(t) == Len(bots[UserOf(t)]) > 1 /\ ~Ahead(t)
StaysAmbiguous ==
    \A t \in Tasks : Ambiguous(t) => Ambiguous(t)' /\ placed'[t] = placed[t]
NoTradeOnAmbiguousBot == [][StaysAmbiguous]_vars

(***************************************************************************)
(* Every task that is enqueued or running comes to rest: recorded, refused *)
(* or given up, and its message acknowledged.                              *)
(***************************************************************************)
Busy(t) == \/ \E r \in Attempts : queue[t][r] > 0
           \/ \E w \in Workers : stage[w] # "idle" /\ TaskOf(w) = t
TasksSettle == \A t \in Tasks : (t \in todo \/ Busy(t)) ~> ~(t \in todo \/ Busy(t))

-----------------------------------------------------------------------------
(***************************************************************************)
(* Statements of the code's comments that the code does not keep.          *)
(*                                                                         *)
(* trade_executor.py:83 says the executor places a single trade for a      *)
(* user: one task, one order.  A failed publish makes the task run again.  *)
(***************************************************************************)
OneTradePerTask == \A t \in Tasks : placed[t] <= 1

(***************************************************************************)
(* trade_executor.py:54 says the fan-out checks that the pair is allowed   *)
(* for the user: no task for a pair the user's bot has disabled.           *)
(***************************************************************************)
Disabled(t) == \E d \in bots[UserOf(t)][RowOf(t)].disabled : PairOf[SignalOf(t)] \in d
OnlyAllowedPairs == [][\A t \in todo' \ todo : ~Disabled(t)]_vars
=============================================================================
