# NeuralEdge: TLA+ models, checks and proofs

NeuralEdge is a copy-trading platform: a central bot emits signals, the backend
(`src/backend`, FastAPI and Celery over PostgreSQL and Redis) turns each signal into
one order per subscribed user, sells the subscriptions through Whop and shows
results on a dashboard. This directory holds the models of its core logic, the TLC runs
that check them and the TLAPS proofs about them.

Paths below are relative to `src/backend/` unless they say otherwise.

| file | what it is |
|---|---|
| `TradeContract.tla` | what the rest of the platform may rely on about the orders of one task (abstract) |
| `TradeExecution.tla` | signal fan-out, the Celery task and its delivery, the executor, the account changes between its reads |
| `TradeExecution_proofs.tla` | theorems about `TradeExecution`, for all values of its constants, one of them that it implements `TradeContract` |
| `MCTradeExecution.tla`, `Trade*.cfg` | small instances of it |
| `Billing.tla` | the Whop webhook: subscriptions, tiers and limits under overlapping transactions; registration |
| `Billing_proofs.tla` | theorems about `Billing`, for all values of its constants |
| `MCBilling.tla`, `Billing*.cfg` | small instances of it |
| `Access.tla` | the two middlewares that count by address, the login behind them, the second factor |
| `LiveFeed.tla` | the WebSocket feed: endpoints, subscriber tasks, the table of connections, its senders |
| `BotControl.tla` | bot settings, start and stop, exchange keys, the batch of the validation worker |
| `Snapshots.tla` | the nightly run over all users, redelivery and failures |
| `Figures.tla` | drawdown, streaks and partition months, with their reference definitions |
| `Guards.tla` | who gets in: the four decodings of a token, tiers and roles |
| `Reading.tla` | the read side of the dashboard beside `Snapshots`; extends `Figures` and `Guards` |
| `Access_proofs.tla`, `LiveFeed_proofs.tla`, `BotControl_proofs.tla`, `Snapshots_proofs.tla`, `Reading_proofs.tla` | theorems about them |
| `Induction.tla` | lemmas: induction along a list or a recursion, stated over sets of numbers; used by `Access_proofs` and `Reading_proofs` |
| `MCAccess`, `MCLiveFeed`, `MCBotControl`, `MCReading` with `Access.cfg`, `LiveFeed.cfg`, `BotControl.cfg`, `Reading.cfg` | small instances |
| `PROJECT.json` | components, runs, mutants, the map from definitions to source lines, hazards, theorems |

## 1. Inventory

### Processes

- Four uvicorn processes (`docker-compose.yml:49`) serve HTTP and WebSocket. A request
  has one SQLAlchemy session (`db/session.py:37`): commit when the handler returns,
  rollback when it raises. PostgreSQL runs at its default, READ COMMITTED.
- One Celery worker with eight processes (`docker-compose.yml:73`), `acks_late`,
  `reject_on_worker_lost`, prefetch 1 (`workers/celery_app.py:31-35`). Redis is the broker.
- One Celery beat for the periodic tasks, and Redis pub/sub for the live feed.

### Components

| component | state | operations | hard parts | what makes it correct |
|---|---|---|---|---|
| **Trade execution** `services/trade_executor.py`, `workers/trade_worker.py`, `workers/celery_app.py` | `trades`, broker messages, the exchange's orders | `fan_out_signal`, `execute_trade_for_user`, `execute_for_user` | at-least-once delivery, retry after a side effect, order before commit, stale eligibility | a task's orders are bounded, recorded, repeated only for known faults; every task comes to rest |
| **Billing** `api/routes/whop.py` | `users.tier` and limits, `subscriptions` | `went_valid`, `went_invalid`, `updated`, `payment.*` | overlapping deliveries, repeats, reordering, unique indexes, column-wise writes | one users row per Whop account; limits fit the tier; the tier follows the memberships; every event that can be gets its 200 |
| **Registration, login** `api/routes/auth.py` | `users`, tokens | register, login, refresh | races with the webhook on `users`; tokens that stay valid | one row per email, a second factor that was verified |
| **Two-factor** `api/routes/two_factor.py` | `totp_secret`, `is_2fa_enabled` | enable, verify, disable | two columns, separate requests | an enabled factor has a verified secret |
| **Bot control** `api/routes/bot_control.py` | `bot_instances` | status (which writes), settings, start, stop | get-or-create without a unique key; limits checked on the request only | one row per user; min below max; limits of the tier |
| **Exchange keys** `api/routes/api_keys.py`, `workers/key_validation_worker.py` | `api_keys` | store, delete, validate, periodic validation | check-then-insert; one batch commit over stale rows | at most five per exchange, and what the tier allows; a verdict belongs to the key it was made for |
| **Live feed** `api/routes/ws.py` | table of sockets, a subscriber task per socket | connect, forward, ping, disconnect | cancellation, clean-up that raises | a closed socket leaves the table; a dead subscriber is noticed |
| **Lockout and limits** `main.py`, `core/rate_limiter.py` | timestamps per IP, per process | admit, refuse, record | check before an await, record after it | never more than the limit in a window |
| **Snapshots, partitions** `workers/snapshot_worker.py` | `daily_snapshots`, partitions | nightly run, monthly run | redelivery, one transaction for all users, month ends | one row per user and day; months without gap or overlap |
| **Figures** `api/routes/performance.py` | none | drawdown, streaks, ratios | zero, empty and negative inputs | equal to their definitions |
| **Signals** `api/routes/signals.py`, `core/permissions.py` | `signals` | reads gated by tier | sets per tier | nothing outside the tier's pairs |
| **Bridge**, **signing** `bridge/`, `core/signal_integrity.py` | Redis channels | emit, sign | no caller in the repository | - |
| **Admin, dashboard, subscriptions API, health worker, notifications** | none of their own | reads, log lines, outgoing messages | - | - |

### How they interact

Billing writes `users.tier`; the fan-out reads it once for each signal and `require_tier`
on each request. Bot control and the key handlers write the rows the fan-out and the
worker read, each at a different moment. The worker writes `trades`, from which
snapshots, figures and the dashboard read. It publishes on `user:<id>:updates`
(`workers/trade_worker.py:55`) while the live feed subscribes to `neuraledge:trades:<id>`
(`api/routes/ws.py:148`), so that event reaches nobody. `fan_out_signal` itself has no caller in
the repository (the central bot lives elsewhere): it is modelled as it would be called, once for each
signal. The 40 hazards found on the way, each at its line, are in `PROJECT.json`; the five that no
property covers say why.

## 2. Plan

Most important first; all of it is done but for what the last line names.

1. `TradeContract`, `TradeExecution`, its runs.
2. `TradeExecution_proofs`, with the contract.
3. `Billing`, its runs.
4. `Billing_proofs`.
5. `BotControl` with the keys and the validation worker: statements as steps.
6. `LiveFeed`: table, subscriber, cancellation; liveness of closed sockets.
7. `Access`: the two windows that count around an await, the login, the second factor.
8. `Snapshots` and, composed with it, `Reading`.
9. `Figures` and `Guards`: calculations and guards against reference definitions.
10. The proofs of 5 to 9, and `OrdersBounded`.
11. `Induction`, and with it the two windows of `Access` and the figures; the tier after serial deliveries.

Left: nothing that has state of its own. Position sizes, Sharpe and Sortino are floating-point
formulas without control; the parts in section 10 are not modelled for the reasons given there.

## 3. Trade execution

### The model

`fan_out_signal` runs one SELECT over users joined with bots and calls `.delay()` for every
row: `FanOut`, then `Dispatch` per row, or `FanOutFails` when the broker refuses. A task is named by
signal, user and row of the join; the message carries only signal and user, so two rows
of a user give two tasks that a worker cannot tell apart.

A worker goes through `stage`: `keys` and `bot` (the two `scalar_one_or_none`, which raise on two
rows: `OneOrNone`), `exchange` (balance and size), `order`, `record` (commit), `publish`,
`cleanup` (the `except` block, which closes the client and returns None), `retry`, `ack`. Each
await is one step. Failure paths: a read that raises leaves the executor and is retried
(`ReadFails`), a refused order is swallowed (`OrderRejected`), an answer that is lost looks
the same (`OrderAnswerLost`), a failed commit is swallowed too (`RecordFails`), and so on. `Crash`
puts the message back with its header unchanged; `Retry` publishes a copy with the next
header and acknowledges the one held.

`queue[t][r]` counts the copies of task `t` whose retry header is `r`; delivery takes any copy, so
order in the broker is not assumed. `placed` is the exchange's side, `recorded` the rows of
`trades`, `held` the order between the two. `faults` records what happened to a task at or after its order
step. It is an observation: no action reads it.

Account changes are one transaction each and happen at any point between the
worker's reads. `RacingCreate` is the second bot row: a request that looked for a row before
the first one was committed inserts its own. Its `created_at` is the start of its transaction, so
it may sort before the first row, and either becomes the one the handlers call newest.

Abstracted: prices, sizes and the fields of an order (the arithmetic only decides between
"order", "too little balance" and "raises"); decryption failures end like a missing key.
Deactivated users (no code deactivates one), admins (who pass `require_tier`), and the broker's visibility timeout (which would only
add deliveries of the kind a crash adds) are left out. The periodic key validation commits its
whole batch at once; the model shows it one user at a time.

### Runs

| run | instance | shows |
|---|---|---|
| `trade_delivery` | 1 user, 1 signal, 2 workers, 1 retry, and 1 crash or 2 account changes (`OneKindSpec`), up to 2 keys and 2 bot rows, tiers free and pro, fair | `TypeOK`, `SingleOrder`, `NoOrphan`, `OrdersBounded`, `ImplementsContract`, `TasksSettle`, `NoTradeOnAmbiguousBot` |
| `trade_one_order` (violated) | 1 worker, no crash | "a single trade" of `services/trade_executor.py:83` |
| `trade_pairs` (violated) | 2 account changes | "pair is allowed" of `services/trade_executor.py:54` |

Why the bounds are enough: tasks of different users and signals share only the pool of workers, so
one task with two workers already has every interleaving of two copies of it. Three
copies at once need two crashes, which add orders but no new kind of step. One retry
gives a first and a last header (the runs of the comments have two). A crash and an account change in one behaviour are left out:
a crash returns the message, and what the account is then is read anew, as after a change before any first read. Two account changes put one between the
fan-out and the first read and another between the two reads; the starting states already range over every tier,
number of keys and zero or one bot row.

Fairness: a worker process takes some step whenever it can (`restart: unless-stopped`,
`docker-compose.yml:87`), and a fan-out in progress goes through its list. The choice among
outcomes is left open: nothing says that an order succeeds or that a retry helps. Users and crashes have no
fairness, and crashes are bounded.

`CHECK_DEADLOCK FALSE` in all runs: with its bounds used up and all messages handled, the system rests.

### What the checks say

- A task places at most one order **unless** a publish failed, the clean-up raised or a worker died past
  the order step (`SingleOrder`). The executor swallows everything else, which is exactly what keeps the
  retry from placing a second order.
- The first of these is not rare: the publish goes to `redis://localhost:6379/0`, where the
  container has no Redis. Every task then places three orders (`trade_one_order` shows the second).
- Orders are bounded by `(MaxRetries + 1) * (crashes + 1)` (`OrdersBounded`).
- An order without a row needs a lost answer, a failed commit or a crash (`NoOrphan`), and no row is invented.
- With two bot rows and no execution past its reads a user's tasks never place an order again
  (`NoTradeOnAmbiguousBot`). Nothing removes a row, so this is also how a user stops trading for good.
- The whole implements `TradeContract`: a recorded order stays recorded, a lost one lost, and a
  further order of a task follows only a repetition behind the order step.

## 4. Billing

### The model

Whop (external) activates, changes, expires memberships and reports failed payments; each
puts an event in `queue`, where it stays until it is answered with 200. `Window` says how far an
event may overtake older ones; an event may be delivered again while an earlier delivery of it still runs. A handler
takes an event (`Take`, the SELECT by Whop id), finds or creates the
user (`FindByEmail`, `Link`, `CreateUser`), reads and flushes the subscription (`ReadSub`,
`FlushSub`, `DuplicateSub`), on `went_invalid` looks for other active ones (`ReadOthers`, `TooManyOthers`) and
commits (`Commit`). The SELECT of a user row is followed by one that loads its subscriptions (`LoadSubs`,
`lazy="selectin"` in `db/models/user.py:79`): a later SELECT finds the rows by their committed columns, but gives the values
loaded first (`Known`). `loaded` and `mine` are the row as the session loaded it and as it means to
leave it: SQLAlchemy writes only the columns that differ, which is what `SaveUser` and
`SaveSub` do. `locks` says which of the two rows it has flushed; a statement that meets a
row or key another transaction has written waits (its guard), and then sees the committed value. A unique
violation is a 500 (`Refuse`), as is a failed database (`DatabaseFails`). An answer may be lost after the commit (`Answer`).

A handler that links a row holds the user row and wants the subscription; one that found the row linked holds the
subscription and wants the user at its commit. `Waits` says who waits for whom, and `BreakDeadlock` is PostgreSQL
ending a handler of a circle of any length. (A handler that waits at `Link` or `CreateUser` holds nothing yet and is in no
circle.) The key-share lock that the
foreign key of an INSERT takes on the user row is folded into the wait at the commit. The handler holds a row's lock until
its transaction ends, so `Commit` writes both rows in one step.

Assumed of Whop: a membership does not change its account, and an event is sent again until it is answered with 200. Nothing is
assumed of addresses: `MailsOf` gives each account the addresses it has had, and two accounts may have had the same.
`FindByEmail` then links a row that is linked to another account (`api/routes/whop.py:67-72` overwrites
`whop_user_id`); `displaced` is an observation of the accounts that have lost their row in this way.

Abstracted: dates, names, audit rows, the signature. `payment.succeeded` writes dates only.

### Runs

| run | instance | shows |
|---|---|---|
| `billing_serial` | 1 account, 3 memberships, plans pro and one that is not configured, 4 events, 1 failure, one handler, in order | `LimitsMatchTier`, `TierFollowsMemberships` |
| `billing_overlap` | 2 accounts with one address in common, 2 memberships and 1, the same plans, 3 events, 2 handlers, window 2 | `TypeOK`, `PositionsMatchTier`, `OneAccount` |
| `billing_answers` | 1 account, plan pro, 2 handlers, window 2, fair; 2 memberships and 3 events from nothing, or 3 active memberships (`ThreeActive`) and 2 more events | `EventsAnswered` |
| `billing_highest` (violated) | serial, 2 events | `api/routes/whop.py:239`, "always take the highest active tier" |
| `billing_downgrade` (violated) | 2 handlers, 4 events | `api/routes/whop.py:306`, "downgrade to free" |

Why the bounds are enough: two handlers and two memberships of one account are what the races need
(two creates, create against link, two upserts of one membership, two ends). The serial run needs three memberships
for the case of two remaining active ones, where the handler raises for good. A plan that is not
configured exercises the fallback to starter. The registration can come before, between and
after. The failure in the serial run is either a database failure at any statement or a lost answer; its repeat comes at once, before
later events (a repeat after later ones is in the overlapping runs). In `billing_overlap` the second account takes the row over
before, between and while events of the first are handled. Three active subscriptions take three events to reach, and the
interesting ones come after: `billing_answers` also starts there, in the state that three `went_valid` events
without an address leave.

Fairness (`Fairness`): `SF(HandlerStep(h))`, a server process keeps running and the database gives a lock in turn to those that
wait for it, so a handler whose lock becomes free again and again gets it; and `SF(Delivered(n))`, Whop delivers
an event again and again until it is answered, so no event waits for ever while handlers are busy with others. Nothing is assumed of what
customers do. That an event is answered in the end is what `EventsAnswered`
shows, and it needs the retry to find the row that the winner inserted.

### What the checks say

- Handled one by one, limits and tier always agree, and an account whose events are all answered has the tier
  of one of its valid memberships, or is free when it has none whose payment did not fail (as long as no account has lost its row to
  another).
- Overlapping deliveries keep one users row per Whop account and
  keep `max_positions` with the tier. `max_pairs` is not kept: pro and elite share 24, so a
  session that loaded pro and sets elite does not write it over another's change.
- The subscriptions of an account hang on its row, unless an account that has used the same address takes the row
  over: then they stay behind on a row of the other account (`OneAccount`, `displaced`).
- Every event is answered, with one exception: the end of a membership whose row has two other active
  subscriptions (`Stuck`). `scalar_one_or_none` (`api/routes/whop.py:299-304`) raises on each repeat, so Whop
  repeats it as long as they stay active.
- The comments at lines 239 and 306 are not kept, the second only under overlap.

## 5. Access

### The model

One address, one account, one server process. A request goes through `stage`: `limit` (the inner
middleware), `load` (the SELECT of the user row and what the handler decides from it), `commit`,
`answer` (its way back out through the brute-force middleware). Each await separates two steps. Starlette puts
the middleware that was added last on the outside, so `BruteForceProtectionMiddleware` (`main.py:206`)
wraps `GlobalRateLimitMiddleware` (`main.py:205`); the comment at `main.py:203` says the
opposite. It changes what is counted: a login the rate limit refuses has already passed the lockout
check, and a locked address does not use up its minute.

Timestamps are ages in ticks that stop at the length of their window; `Tick` ages all of them and
the time a request took when it began (`now`). `failed_attempts` and `requests` are the two lists
of the code; `Within` is the comprehension that prunes them, written as a recursive function (`Kept`) so that it
can be reasoned about. `rejected` and `served` are what really happened: the properties compare the two.
Second-factor requests load the row, decide, and commit the columns they changed (`Save`); FastAPI
0.115.6 runs the exit of the session dependency, with its commit, before the answer is sent. `torn`
records that two of them overlapped, `proved` the secret a code was last checked against.

### The run

`access`: 2 requests in flight, two failures lock for two ticks, two requests in a minute of one
tick, 2 secrets. `FailuresBounded` and `RateBounded` compare a bound that two requests can reach with one
that they could pass; a third request adds one to the first and nothing to the second. Two
secrets are one that was replaced. Fairness: `WF(Tick)`, time goes on; nothing is assumed of clients
or handlers. Deadlock is checked.

### What the checks say

- The lockout is exceeded by no more than the requests that were in flight when it began
  (`FailuresBounded`); the rate limit, which records before its await, is not exceeded at all (`RateBounded`).
- A second factor that is enabled has the secret a code was checked for (`EnabledWasVerified`), unless requests
  overlapped: an `enable` that commits between another's check and its commit leaves an enabled factor
  with a secret nobody has verified.
- A lockout ends, whatever the address goes on asking (`LockoutEnds`): refused logins are not recorded.

`Guards` has the four places that decode a token as functions of token and account, the socket with its
look at the user row and the tier (`dashboard_websocket`, `api/routes/ws.py:238-266`). They
are checked in the run `track_record` (`GuardsAgree`) for all tokens and accounts of the model and proved
for the same. A free user passes `require_auth` and is refused the socket; an active user
can open it exactly when `require_tier("starter")` lets him pass. The socket does not look at `is_active`, as the routes do
(no code sets it to false). A refresh token stays good after its use: the tokens are stateless, although
`api/routes/auth.py:242` says that the old one is invalidated.

## 6. Live feed

### The model

One event loop: what a coroutine does between two awaits is one step, and the lock of the table is
held across none. `endpoint[s]` is where `dashboard_websocket` stands (`lookup`, `accept`, `send`,
`receive`, then the `finally` block: `cancel`, `await`, `leave`), `subscriber[s]` where
`_redis_subscriber` stands (`subscribe`, `listen`, `send`, and its own `finally`: `unsubscribe`, `close`). A
cancellation is a flag until the subscriber reaches an await (`Interrupt`, `InterruptCleanup`). The far end
may hang up at any moment; a send to a socket that is gone may fail or not. Redis may fail and
come back. `send_to_user` and `broadcast` work on a copy of the table (`todo`), and the first removes what
it could not send to.

### The run

`live_feed`: two sockets of one user, one sender with one send, one failure of Redis. Two
sockets of a user are what shares a table entry; sockets of different users share nothing but Redis.
Fairness: the loop runs every endpoint and every subscriber that can go on; none for clients, Redis and senders.
`CHECK_DEADLOCK FALSE`: all sockets may be over.

### What the checks say

- A socket that is served and open is in the table (`LiveSocketsListed`), and no subscriber outlives
  its endpoint (`SubscriberEndsFirst`).
- A socket that is over stays in the table only if the clean-up of its subscriber raised because of Redis
  (`StaleOnlyAfterRedis`): the exception leaves the `finally` block before the socket is taken out.
- The feed of an open socket is at work until Redis fails (`FeedRuns`). After a failure the subscriber has ended and
  nothing starts another: the socket stays open and silent.
- A closed socket comes to its end in every case (`ClosedSocketsEnd`).

## 7. Bot and keys

### The model

One user, one exchange. A request goes through `stage`: `user` (the SELECT behind `require_tier`
and the one of the handler), then `bot` or `key`, `label` and `count` for a key to store, and `commit`. The
exchange is asked before a verdict is committed. `loaded` is the row as the session read it; the commit
writes the columns that the request changed. `CreateBot` makes a row when the SELECT found none, so
two requests can make two (the trade model has this as `RacingCreate`). The validation worker loads all valid keys (`StartBatch`) and
commits all verdicts at once (`CommitBatch`), which fails when a row it holds was deleted
(`BatchFails`). Around them the tier changes and five minutes pass (`Age`).

`lowered`, `loose`, `torn` and `twins` are observations: the tier went down, a request gave only one of
the two amounts, two requests held the bot row together, two stored one label together.

Abstracted: enabled pairs, leverage, percentages, the second exchange. Modelled for the role
"user"; an admin passes `require_tier` with any tier.

### The run

`bot_control`: 2 requests at a time, 3 in all, 2 bot rows, 4 key ids with a limit of 2 (5 in the code),
3 labels, tiers free, starter and pro, one tier change, one batch, symmetric in requests and labels.
Two overlapping requests and one before or after them are what each property needs to break;
the limit can be filled, passed and filled again. No liveness here: a request ends when it likes.

### What the checks say

- The limit that `store_api_key` checks, 5 keys per exchange whatever the tier, is passed by at most the number
  of requests that overlap, less one (`KeysBounded`); two keys of one label take two overlapping requests (`LabelsUnique`).
- The limit of the tier is another one, and nothing keeps it: `config.py:71-75` gives the tiers a `max_api_keys` of
  0, 1, 1, 3, 10 and `api/routes/subscriptions.py:94` and `:106` sell "1 exchange account" and "3 exchange
  accounts", but no code reads the figure, so a user on pro stores five keys for an exchange. No property is stated
  about it: one request is enough.
- What a session writes back late does no harm to the status columns, since only changed columns are written:
  a refused key does not become valid again (`InvalidStays`), a deleted one does not
  come back (`DeletedStays`), a bot is not started by saving settings (`OnlyStartRuns`).
- `min_trade_usd` can get above `max_trade_usd` by a request with one of the two, or by two that
  overlap, and in no other way (`RangeOrdered`); `max_positions` can exceed the tier only after it went
  down (`PositionsWithinTier`).

## 8. Snapshots, reading, figures

### The model

`Snapshots`: beat sends a message at `Midnight`; a run takes it, takes "yesterday" from the clock, goes through the
users (`AddSnapshot`, `SkipUser`) and commits once (`CommitRun`) or not at all (`RunFails`: a statement
that failed, or the unique index on user and date). A worker that dies gives its message back
(`WorkerDies`). Trades are opened and closed meanwhile. Every user is active: the run selects active users
only (`workers/snapshot_worker.py:76`), and no code makes one inactive. Left out: equity and sums of money, the
text of CREATE TABLE.

`Reading` composes it with a user who reads: `trade_history` asks for the count and for a page in two
statements (`CountFirst`, `CountTotal`, `FetchPage`), page after page; `dashboard_summary` counts closed and
then open trades (`CountClosed`, `CountOpen`). The other routes of the dashboard are single statements.

`Figures` has the drawdown and the streaks of `api/routes/performance.py`, each a single pass over the list as in
the code (`Curve`, `Streaks`: recursive functions whose value is the record of the loop's variables), and the months
of `create_next_month_partitions`, with what they ought to be: the deepest fall from a value to a
later one, the longest stretches, months that tile the calendar. `Reading` states it for the values its
constants give (`FiguresRight`, `MonthsTile`) and the guards' agreement beside them (`GuardsAgree`).

### The run

`track_record`: 2 users, 2 workers (symmetric), 2 days that end, 3 trades on the first day and 2 in all
when a day is to end, one worker that dies, one trade a page. Requests are made from beginning to end on the first day:
reading does not depend on the date, and the runs do not depend on readers. Two workers and a crash give
the redelivery beside a second run; a second day gives the run that starts too late. The figures are checked for
curves of up to five values (`MaxEntries`) out of {0, 1, 2, 4} (`Equities`), results out of {-1, 0, 1} (`Results`),
`Years` 2024 to 2026. They read no
variable and are evaluated once, at the start. `CHECK_DEADLOCK FALSE`: the days are used up.

### What the checks say

- A missing row has a reason in the list of `GapsExplained` (the days a run has lost are recorded in `failed` and excused). Each of them is in the code: a message that is
  taken up after the next midnight counts the wrong day, one failed statement loses the day of every user, and
  a user with two valid keys on an exchange is passed over.
- A stored row has exactly the trades of its day. Its wins may lack trades that were closed after the
  run, or contain some that were closed after midnight and before it (`RowsFinal`).
- A walk through the pages shows what was there at its start, as new trades only push older ones to
  later pages, unless the number changed between the two statements of the last request, or trades left the
  filter (`WalkComplete`). A trade that is closed between the two counts of a summary is in neither of them
  (`CountedOnce`).
- Equities are natural numbers: the drawdown of a curve that goes below zero is not covered.

## 9. Proofs

`TradeExecution_proofs`, for any numbers of users, signals, workers, bot rows, retries and crashes, from
`ConstantsOK` alone:

- **TypeCorrect**: `Spec => []TypeOK`. Inductive as it stands; the two coupling conjuncts (an idle worker has
  no message, only a worker in "record" has an order) are what later steps use.
- **SingleOrderCorrect**: `Spec => []SingleOrder`. Not inductive: a task without a fault
  might have two copies on their way. The strengthening counts copies: a task without a
  repeat fault has at most one copy in queue, workers and `todo` together, and a copy before its order
  step has placed nothing. Each action moves, uses up or (with a fault) duplicates the copy.
- **OrdersBoundedCorrect**: `Spec => []OrdersBounded`. The invariant is one of counting
  (`TokenInv`): every copy of a task that is waiting stands for the header values it has left, one that
  is with a worker for those after it and, before its order step, for the one it holds; together with
  the orders placed they are within the budget of headers and crashes. Each action moves, uses or
  (a crash) adds at most a header's worth. The sums over queues and workers are cardinalities of
  finite sets of tokens, so that `FiniteSetTheorems` applies and no induction is needed.
- **NoOrphanCorrect**: `Spec => []NoOrphan`. The strengthening (`HeldPlaced`) adds that the order a
  worker is about to record is one its task has placed.
- **AmbiguousCorrect**: `Spec => NoTradeOnAmbiguousBot`, an action property, from the types and two
  lemmas: bot rows never go away, and a worker that reads two rows goes to "retry".
- **ContractImplemented**: `Spec => ImplementsContract`, a step simulation under the mapping `OrderStates`,
  `Repeated`. The steps of a worker fall into three kinds: it places an order (with or without getting hold of it), lets
  go of one, or touches none. The first is `Place`, whose guard follows from the strengthening of
  `SingleOrder`; the second is `Settle`, and needs `HandInv`: two workers never hold the same order of a
  task, so letting go of it changes the state of that order alone; the third is `Repeat` or a stutter.

`Billing_proofs`, from the `ConstantsOK` of `Billing`:

- **BillingTypeCorrect**: `Spec => []TypeOK`. The strengthening says at which step of a handler which of its
  fields are set, and that a row a handler has loaded is still in its table.
- **PositionsCorrect**: `Spec => []PositionsMatchTier`, for any number of overlapping handlers. The
  strengthening says the same of the rows the sessions hold; the key fact is that no two
  tiers share a `max_positions`, so a session that changes the one column changes the other.
- **SerialLimitsCorrect**: `Spec => []LimitsMatchTier`, under the assumption that there is one handler. The
  strengthening (`SerialInv`) adds that the row it has loaded is still the one in the table, so that
  saving only the changed columns saves the row it means.
- **OneAccountCorrect**: `Spec => []OneAccount`, for any addresses, shared ones included. The strengthening (`AccountInv`)
  adds that a handler about to write a link holds that row's lock, that no two of them write the same link or the same
  row, that no other row is linked to the account meanwhile, and that a link a session has loaded is still there at
  its commit or its account is in `displaced`.
- **SerialTierCorrect**: `Spec => []TierFollowsMemberships`, under the assumptions of the run `billing_serial`: one handler,
  and `Window = 1` (in order). The property speaks of the moments when every event is answered; the
  invariant (`SettleInv`, on top of `SerialInv` and `AccountInv`) says what holds in between. The last event on its
  way about a membership tells how it stands with Whop, and when there is none its row in `subscriptions` does
  (`Told`, `EventsOrdered`); an event that needs the row finds it or follows the one that makes it (`Introduced`); a
  membership whose payment failed is valid, or the event that ends it follows (`DueHasStanding`); what the
  session of the one handler has read is still so at its commit (`Working`); and the tier of a users row is that of
  one of its subscriptions that has not ended, or free without an active one (`SupportedTier`). It is said of the states
  in which no account has lost its row (`displaced = {}`), and so is the property.
  Overlapping handlers break the property (`billing_downgrade`), and a window above 1 allows the overtaken
  `went_valid` listed as a hazard at `api/routes/whop.py:276`.

`LiveFeed_proofs`, for any sockets, users, senders and failures: **LiveFeedTypeCorrect** and the four safety
properties (**LiveSocketsListedCorrect**, **StaleOnlyAfterRedisCorrect**, **SubscriberEndsFirstCorrect**,
**FeedRunsCorrect**) from one invariant. `PhaseInv` says which stages of endpoint and subscriber go together
and when a cancellation may be under way, `TableInv` what that means for the table entry.

`Access_proofs`, for any number of requests and secrets, any limits and any lengths of the windows:

- **AccessTypeCorrect**: `Spec => []TypeOK`.
- **RateBoundedCorrect**: `Spec => []RateBounded`. Pruning drops entries that are too old to count, so the code's list and the
  requests that really started need not be equal; what is invariant (`RateInv`) is that below
  every age up to the window they are equally many.
- **FailuresBoundedCorrect**: `Spec => []FailuresBounded`. The failures are recorded after the await, so they can pass
  the limit. The invariant (`FailInv`) counts them together with the logins in flight, each of which was let through
  while the failures recorded were below the limit; and a failure that is not recorded yet belongs to a login
  whose answer is on its way out.
- **EnabledWasVerifiedCorrect**: while nothing has overlapped, at most one second-factor request is between its
  SELECT and its commit, and what it loaded and checked is still so (`SetupInv`).

How many entries of a list survive a pruning, or are younger than an age, is proved by induction along the list.

`BotControl_proofs`, for any requests, rows, keys, labels, limits and tiers: **BotControlTypeCorrect** and all seven
properties of the run. The invariant adds to the types what a request holds at each stage; for
**KeysBoundedCorrect** it counts the requests that have passed the check with the rows (`CountInv`);
for **LabelsUniqueCorrect** no two requests without twins are past the label check with one label (`LabelInv`);
for **RangeOrderedCorrect** and **PositionsWithinTierCorrect** the loaded rows satisfy what the stored ones do
(`RangeInv`, `TierInv`). **InvalidStaysCorrect**, **DeletedStaysCorrect** and **OnlyStartRunsCorrect** are action properties
from the same invariant.

`Snapshots_proofs`, for any users, workers, days and crashes: **GapsExplainedCorrect** and **RowsFinalCorrect**. The invariant
ties a run to the day of its message unless that is in `late` (`RunInv`), says that a run has each user before it, in
its session or in `skipped`, and that rows in a session are as right as stored ones (`RowInv`).

`Reading_proofs`: **ReadersDoNotDisturb**, `Reading` implements `Snapshots` (every step is one of it or a stutter), so
that the theorems above hold for the composition (**ReadGapsExplained** states the one the run checks);
**WalkCompleteCorrect** for any page size, from `WalkOK`: what a walk has not yet shown is on the pages it has still
to ask for; **CountedOnceCorrect**; **ReadRowsFinal**; **MonthsTileAlways** for every year and **GuardsAgreeAlways** for every
token and account (the whole guard of the socket included), with **MonthsTileCorrect** and **GuardsAgreeCorrect** for the run's properties. **FiguresRightAlways** (and
**FiguresRightCorrect**) is for lists of any length: after each entry the record of the pass is right about the part
read so far. For the drawdown, the peak is the largest value so far, and a fall to the newest value from any
other one is at most the fall from the peak; for the streaks, the running stretch cannot be
extended backwards, so the longest one ending at the newest entry is the running one.

`Induction` has what these inductions need. The library's induction theorems take an operator as a parameter, which the
installed provers cannot instantiate; the lemmas here take the *set* of numbers an assertion holds of instead.
`InductionUpTo` comes from a least element of its complement, and `RecursionExists`, by that
induction, says that a function defined by recursion over `0 .. n` exists, without which nothing about it can be proved.

Every invariant and every action property of the passing runs is stated by one of these theorems. Left to TLC is
liveness (`TasksSettle`, `EventsAnswered`, `LockoutEnds`, `ClosedSocketsEnd`): the prover handles neither fairness nor ENABLED.

No module with a theorem reaches a RECURSIVE operator.

## 10. Not modelled

- *Encryption of credentials* (AES-GCM through a library), *notifications* (outgoing, best effort), *set-up,
  migrations, static pages, the knowledge-base scripts*: no logic of the platform.
- *Signal bridge*: it posts to `/api/internal` routes that are not in the repository, from a loop that is not in it
  either. `core/signal_integrity.py` and the Redis `RateLimiter` of `core/rate_limiter.py` have no caller.
- *Signals, admin and subscriptions routes, the other dashboard and performance routes*: single reads; the guards in
  front of them are in `Guards`. *Health worker*: it only writes log lines.
- *Position sizes, Sharpe, Sortino, monthly sums*: floating-point expressions without control.
- In modelled parts: password hashing and the profile, `payment.succeeded` (dates only), the
  signature check, security headers.

## 11. Running

    tlc -workers 2 -config TradeDelivery.cfg MCTradeExecution
    tlc -workers 2 -config BillingOverlap.cfg MCBilling
    tlc -workers 2 -config Access.cfg MCAccess
    tlc -workers 2 -config LiveFeed.cfg MCLiveFeed
    tlc -workers 2 -config BotControl.cfg MCBotControl
    tlc -workers 2 -config Reading.cfg MCReading
    tlapm TradeExecution_proofs.tla      (and likewise Induction and each other *_proofs module)

Each run ends within three minutes (`bot_control`, `track_record` and `billing_overlap` have two to three million
states each). Mutations: every property of a passing run is paired in `PROJECT.json` with a variant
of a mapped definition ("Variant for a mutation check" in the modules) that a plausible slip in the code would
amount to, and under which TLC finds the property violated.
