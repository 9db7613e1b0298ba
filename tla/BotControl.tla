------------------------------ MODULE BotControl ------------------------------
(***************************************************************************)
(* What a user does with his bot and his exchange keys:                    *)
(* api/routes/bot_control.py and api/routes/api_keys.py, with the periodic *)
(* workers/key_validation_worker.py beside them, for one user and one      *)
(* exchange.                                                               *)
(*                                                                         *)
(* Requests overlap.  Every statement sees what is committed when it runs  *)
(* (READ COMMITTED), the ORM writes only the columns that differ from what *)
(* the session loaded, and no row is locked before it is written: each     *)
(* SELECT, each await of the exchange and each commit is a step.  The      *)
(* tier is read twice, by require_tier in a session of its own and by the  *)
(* handler.                                                                *)
(***************************************************************************)
EXTENDS Naturals, FiniteSets

CONSTANTS
    Requests,     \* requests that can run at the same time
    Rows,         \* bot rows that can be made (a bound), in the order of created_at
    Keys,         \* rows of api_keys that can be made (a bound), numbered
    Labels,       \* labels a user gives his keys
    MaxKeys,      \* keys store_api_key accepts for one exchange, in any tier
    Tiers,        \* tiers the user can have
    Positions,    \* values of max_positions asked for
    Amounts,      \* values of min_trade_usd and max_trade_usd asked for
    None,         \* no row, no key, field not in the request
    MaxRequests,  \* bound: requests made
    MaxChanges,   \* bound: tier changes
    MaxBatches    \* bound: runs of the validation worker

TierNames == {"free", "starter", "pro", "elite", "system"}
max_positions(t) == CASE t = "free"    -> 0
                      [] t = "starter" -> 5
                      [] t = "pro"     -> 8
                      [] t = "elite"   -> 12
                      [] t = "system"  -> 24
auto_execute(t) == t # "free"

BotOps == {"status", "settings", "start", "stop"}
KeyOps == {"store", "delete", "validate"}
Gated  == BotOps \union {"store"}     \* behind require_tier("starter")
Stages == {"idle", "user", "bot", "key", "label", "count", "commit"}

BotRow == [status : {"stopped", "running", "error"}, stale : BOOLEAN,
           positions : Nat, min : Amounts, max : Amounts]
KeyRow == [label : Labels, is_valid : BOOLEAN]

ASSUME ConstantsOK ==
    /\ IsFiniteSet(Requests) /\ IsFiniteSet(Keys)
    /\ Requests # {} /\ MaxKeys \in Nat \ {0}
    /\ Tiers \subseteq TierNames
    /\ IsFiniteSet(Rows) /\ Rows = 1 .. Cardinality(Rows)
    /\ Keys \subseteq Nat /\ Positions \subseteq Nat /\ Amounts \subseteq Nat
    /\ \E lo, hi \in Amounts : \A a \in Amounts : lo <= a /\ a <= hi
    /\ None \notin Rows \union Keys \union Labels \union Positions \union Amounts
    /\ None \notin BotRow \union KeyRow
    /\ MaxRequests \in Nat /\ MaxChanges \in Nat /\ MaxBatches \in Nat

VARIABLES
    \* the database, committed
    tier,      \* users.tier
    bots,      \* bot_instances of the user
    keys,      \* api_keys of the user on the exchange
    \* the requests
    op, stage,
    mytier,    \* the tier the handler's session loaded
    which,     \* the bot row or key it works on
    loaded,    \* that row as loaded, or as made
    label,     \* the label of the key to store
    \* the validation worker
    batch,     \* the keys it loaded
    running,   \* whether a run is on
    \* observations
    spent,     \* keys that have been stored
    lowered,   \* the tier has gone down
    loose,     \* a request has set only one of min and max
    torn,      \* two requests have had the bot row loaded together
    twins,     \* two requests have stored a label together
    \* bounds
    requests, changes, batches

requestVars == <<op, stage, mytier, which, loaded, label>>
batchVars   == <<batch, running, batches>>
seen        == <<spent, lowered, loose, torn, twins>>
vars == <<tier, bots, keys, op, stage, mytier, which, loaded, label, batch, running,
          spent, lowered, loose, torn, twins, requests, changes, batches>>

Least    == CHOOSE a \in Amounts : \A b \in Amounts : a <= b
Greatest == CHOOSE a \in Amounts : \A b \in Amounts : b <= a
NewBot(t) == [status |-> "stopped", stale |-> FALSE,
              positions |-> IF max_positions(t) < 8 THEN max_positions(t) ELSE 8,
              min |-> Least, max |-> Greatest]

Exists(k) == keys[k] # None
Stored    == {k \in Keys : Exists(k)}

\* A user without a bot, with up to MaxKeys valid keys of different labels.
Init ==
    /\ tier \in Tiers
    /\ bots = [b \in Rows |-> None]
    /\ keys \in [Keys -> KeyRow \union {None}]
    /\ \A k \in Stored : keys[k].is_valid
    /\ Cardinality(Stored) <= MaxKeys
    /\ \A k \in Stored, j \in Keys : j < k => Exists(j) /\ keys[j].label # keys[k].label
    /\ spent = Stored
    /\ op = [r \in Requests |-> "status"]
    /\ stage = [r \in Requests |-> "idle"]
    /\ mytier = [r \in Requests |-> "free"]
    /\ which = [r \in Requests |-> None]
    /\ loaded = [r \in Requests |-> None]
    /\ label = [r \in Requests |-> None]
    /\ batch = {} /\ running = FALSE
    /\ lowered = FALSE /\ loose = FALSE /\ torn = FALSE /\ twins = FALSE
    /\ requests = 0 /\ changes = 0 /\ batches = 0

-----------------------------------------------------------------------------
(***************************************************************************)
(* The start and the end of a request.  A request begins with its first    *)
(* read: require_tier where the route has it, else what the handler needs. *)
(* One that is refused there leaves no trace; one that raises later is     *)
(* rolled back.                                                            *)
(***************************************************************************)
Begin(r) ==
    /\ stage[r] = "idle" /\ requests < MaxRequests
    /\ requests' = requests + 1
    /\ \E o \in BotOps \union KeyOps :
          /\ o \in Gated => tier # "free"
          /\ op' = [op EXCEPT ![r] = o]
          /\ stage' = [stage EXCEPT ![r] = CASE o \in BotOps -> "user"
                                             [] o = "store"  -> "label"
                                             [] o \in {"delete", "validate"} -> "key"]
    /\ UNCHANGED <<tier, bots, keys, mytier, which, loaded, label, batchVars, seen, changes>>

Close(r) ==
    /\ op' = [op EXCEPT ![r] = "status"]
    /\ stage' = [stage EXCEPT ![r] = "idle"]
    /\ mytier' = [mytier EXCEPT ![r] = "free"]
    /\ which' = [which EXCEPT ![r] = None]
    /\ loaded' = [loaded EXCEPT ![r] = None]
    /\ label' = [label EXCEPT ![r] = None]

Raise(r) == /\ Close(r)
            /\ UNCHANGED <<tier, bots, keys, batchVars, seen, requests, changes>>

Goto(r, s) == /\ stage' = [stage EXCEPT ![r] = s]
              /\ UNCHANGED <<tier, bots, keys, op, batchVars, requests, changes>>

\* Any commit may fail.
CommitFails(r) == /\ stage[r] = "commit"
                  /\ Raise(r)

-----------------------------------------------------------------------------
(***************************************************************************)
(* The handler's own read of the user row.                                 *)
(***************************************************************************)
LoadUser(r) ==
    /\ stage[r] = "user"
    /\ mytier' = [mytier EXCEPT ![r] = tier]
    /\ Goto(r, "bot")
    /\ UNCHANGED <<which, loaded, label, seen>>

-----------------------------------------------------------------------------
(***************************************************************************)
(* _get_or_create_bot, and what the handlers then make of the row.  The    *)
(* newest row is used; a new one is flushed, and seen by nobody before the *)
(* commit.  What a request asks for shows only when it commits.            *)
(* (The user row brings its bots and keys with it, lazy="selectin", and    *)
(* the SELECT leaves a row the session has as it is: LoadBot and FindKey   *)
(* stand for the moment the columns were read, either of the two.)         *)
(***************************************************************************)
BotIds == {b \in Rows : bots[b] # None}
Newest == CHOOSE b \in BotIds : \A a \in BotIds : a <= b

\* Variant for a mutation check: fields the request leaves out are stored too.
GivenWhole(row, p, lo, hi) == [row EXCEPT !.positions = p, !.min = lo, !.max = hi]

\* p, lo, hi: max_positions, min_trade_usd and max_trade_usd, where the request has them.
Given(row, p, lo, hi) ==
    [row EXCEPT !.positions = IF p # None THEN p ELSE row.positions,
                !.min = IF lo # None THEN lo ELSE row.min,
                !.max = IF hi # None THEN hi ELSE row.max]

\* Variant for a mutation check: the cap of the tier is not looked at.
AcceptableUncapped(t, p, lo, hi) == lo # None /\ hi # None => lo <= hi

\* Variant for a mutation check: the two amounts are not compared.
AcceptableUnordered(t, p, lo, hi) == p # None => p <= max_positions(t)

Acceptable(t, p, lo, hi) ==
    /\ p # None => p <= max_positions(t)
    /\ lo # None /\ hi # None => lo <= hi

WorksOn(q, b) == op[q] \in BotOps /\ which[q] = b

\* Only a bot that is not running is started, and asks for its keys first.
Take(r, b, row) ==
    /\ which' = [which EXCEPT ![r] = b]
    /\ loaded' = [loaded EXCEPT ![r] = row]
    /\ Goto(r, IF op[r] = "start" /\ row.status # "running" THEN "key" ELSE "commit")

LoadBot(r) ==
    /\ stage[r] = "bot" /\ BotIds # {}
    /\ Take(r, Newest, bots[Newest])
    /\ torn' = (torn \/ \E q \in Requests : WorksOn(q, Newest))
    /\ UNCHANGED <<mytier, label, spent, lowered, loose, twins>>

\* created_at is the time the transaction began: of two new rows either may be the newer.
CreateBot(r) ==
    /\ stage[r] = "bot" /\ BotIds = {}
    /\ \E b \in Rows : /\ \A q \in Requests : ~WorksOn(q, b)
                       /\ Take(r, b, NewBot(mytier[r]))
    /\ UNCHANGED <<mytier, label, seen>>

\* start_bot: a valid key, and a tier that trades.
FindValidKey(r) ==
    /\ stage[r] = "key" /\ op[r] = "start"
    /\ \E k \in Stored : keys[k].is_valid
    /\ auto_execute(mytier[r])
    /\ Goto(r, "commit")
    /\ UNCHANGED <<mytier, which, loaded, label, seen>>

RefuseStart(r) ==
    /\ stage[r] = "key" /\ op[r] = "start"
    /\ (\A k \in Stored : ~keys[k].is_valid) \/ ~auto_execute(mytier[r])
    /\ Raise(r)

\* Variant for a mutation check: the whole row is written.
SaveWhole(now, old, new) == new

\* The columns that differ from what was loaded are written; a start writes the heartbeat.
Column(now, old, new) == IF new # old THEN new ELSE now
SaveBot(now, old, new) ==
    [status    |-> Column(now.status, old.status, new.status),
     stale     |-> IF old.status # "running" /\ new.status = "running" THEN FALSE ELSE now.stale,
     positions |-> Column(now.positions, old.positions, new.positions),
     min       |-> Column(now.min, old.min, new.min),
     max       |-> Column(now.max, old.max, new.max)]

Save(r, new) ==
    /\ stage[r] = "commit"
    /\ bots' = [bots EXCEPT ![which[r]] = IF @ = None THEN new ELSE SaveBot(@, loaded[r], new)]
    /\ Close(r)
    /\ UNCHANGED <<tier, keys, batchVars, spent, lowered, torn, twins, requests, changes>>

\* A request that finds the row running and stale reports an error, and stores it.
CommitStatus(r) ==
    /\ op[r] = "status"
    /\ Save(r, IF loaded[r].status = "running" /\ loaded[r].stale
               THEN [loaded[r] EXCEPT !.status = "error"] ELSE loaded[r])
    /\ UNCHANGED loose

CommitStart(r) ==
    /\ op[r] = "start"
    /\ Save(r, [loaded[r] EXCEPT !.status = "running"])
    /\ UNCHANGED loose

CommitStop(r) ==
    /\ op[r] = "stop"
    /\ Save(r, [loaded[r] EXCEPT !.status = "stopped"])
    /\ UNCHANGED loose

\* A request that is not acceptable, or gives nothing, is refused (CommitFails).
CommitSettings(r) ==
    /\ op[r] = "settings"
    /\ \E p \in Positions \union {None}, lo, hi \in Amounts \union {None} :
          /\ <<p, lo, hi>> # <<None, None, None>>
          /\ Acceptable(mytier[r], p, lo, hi)
          /\ Save(r, Given(loaded[r], p, lo, hi))
          /\ loose' = (loose \/ (lo = None) # (hi = None))

-----------------------------------------------------------------------------
(***************************************************************************)
(* store_api_key: the label is looked for, the rows are counted, the row   *)
(* is inserted.                                                            *)
(***************************************************************************)
PastLabel(q, l) == op[q] = "store" /\ stage[q] \in {"count", "commit"} /\ label[q] = l
LabelTaken(l) == \E k \in Stored : keys[k].label = l

\* Variant for a mutation check: the label is not looked for.
CheckLabelAnyhow(r) ==
    /\ stage[r] = "label"
    /\ \E l \in Labels :
          /\ label' = [label EXCEPT ![r] = l]
          /\ twins' = (twins \/ \E q \in Requests : PastLabel(q, l))
    /\ Goto(r, "count")
    /\ UNCHANGED <<mytier, which, loaded, spent, lowered, loose, torn>>

CheckLabel(r) ==
    /\ stage[r] = "label"
    /\ \E l \in Labels :
          /\ ~LabelTaken(l)
          /\ label' = [label EXCEPT ![r] = l]
          /\ twins' = (twins \/ \E q \in Requests : PastLabel(q, l))
    /\ Goto(r, "count")
    /\ UNCHANGED <<mytier, which, loaded, spent, lowered, loose, torn>>

\* Variant for a mutation check: the keys are not counted.
CountKeysAnyhow(r) ==
    /\ stage[r] = "count"
    /\ Goto(r, "commit")
    /\ UNCHANGED <<mytier, which, loaded, label, seen>>

CountKeys(r) ==
    /\ stage[r] = "count"
    /\ Cardinality(Stored) < MaxKeys
    /\ Goto(r, "commit")
    /\ UNCHANGED <<mytier, which, loaded, label, seen>>

\* 409, 400, or several rows where one was asked for.
RefuseKey(r) ==
    /\ \/ stage[r] = "label" /\ Stored # {}
       \/ stage[r] = "count" /\ Cardinality(Stored) >= MaxKeys
    /\ Raise(r)

NewKey == CHOOSE k \in Keys \ spent : TRUE

CommitStore(r) ==
    /\ stage[r] = "commit" /\ op[r] = "store"
    /\ Keys \ spent # {}
    /\ keys' = [keys EXCEPT ![NewKey] = [label |-> label[r], is_valid |-> TRUE]]
    /\ spent' = spent \union {NewKey}
    /\ Close(r)
    /\ UNCHANGED <<tier, bots, batchVars, lowered, loose, torn, twins, requests, changes>>

-----------------------------------------------------------------------------
(***************************************************************************)
(* delete_api_key and validate_api_key.  A DELETE that finds no row is     *)
(* only warned about; an UPDATE that finds none raises (CommitFails).      *)
(***************************************************************************)
FindKey(r) ==
    /\ stage[r] = "key" /\ op[r] \in {"delete", "validate"}
    /\ \E k \in Stored :
          /\ which' = [which EXCEPT ![r] = k]
          /\ loaded' = [loaded EXCEPT ![r] = IF op[r] = "validate" THEN keys[k] ELSE None]
    /\ Goto(r, "commit")
    /\ UNCHANGED <<mytier, label, seen>>

KeyNotFound(r) ==
    /\ stage[r] = "key" /\ op[r] \in {"delete", "validate"}
    /\ Raise(r)

CommitDelete(r) ==
    /\ stage[r] = "commit" /\ op[r] = "delete"
    /\ keys' = [keys EXCEPT ![which[r]] = None]
    /\ Close(r)
    /\ UNCHANGED <<tier, bots, batchVars, seen, requests, changes>>

\* Variant for a mutation check: the row is inserted when it is gone.
CommitValidateAnew(r) ==
    /\ stage[r] = "commit" /\ op[r] = "validate"
    /\ \E ok \in BOOLEAN :
          keys' = [keys EXCEPT ![which[r]] =
                     IF @ = None THEN loaded[r]
                     ELSE [@ EXCEPT !.is_valid = Column(@, loaded[r].is_valid, ok)]]
    /\ Close(r)
    /\ UNCHANGED <<tier, bots, batchVars, seen, requests, changes>>

\* ok: the balance was fetched; if not, the key does not decrypt or the exchange refuses it.
CommitValidate(r) ==
    /\ stage[r] = "commit" /\ op[r] = "validate"
    /\ Exists(which[r])
    /\ \E ok \in BOOLEAN :
          keys' = [keys EXCEPT ![which[r]].is_valid = Column(@, loaded[r].is_valid, ok)]
    /\ Close(r)
    /\ UNCHANGED <<tier, bots, batchVars, seen, requests, changes>>

-----------------------------------------------------------------------------
(***************************************************************************)
(* key_validation_worker: every valid key is loaded, each is tried at the  *)
(* exchange, and all verdicts are stored in one commit at the end; nothing *)
(* shows of them before.  A key deleted meanwhile makes the commit raise:  *)
(* nothing is stored.                                                      *)
(***************************************************************************)
StartBatch ==
    /\ ~running /\ batches < MaxBatches
    /\ running' = TRUE
    /\ batch' = {k \in Stored : keys[k].is_valid}
    /\ batches' = batches + 1
    /\ UNCHANGED <<tier, bots, keys, requestVars, seen, requests, changes>>

EndBatch ==
    /\ running' = FALSE
    /\ batch' = {}
    /\ UNCHANGED <<tier, bots, requestVars, seen, requests, changes, batches>>

\* Variant for a mutation check: the good verdicts are written too.
CommitBatchWhole ==
    /\ running
    /\ batch \subseteq Stored
    /\ \E failed \in SUBSET batch :
          keys' = [k \in Keys |-> IF k \in batch
                                 THEN [keys[k] EXCEPT !.is_valid = k \notin failed] ELSE keys[k]]
    /\ EndBatch

\* failed: the keys that did not decrypt, or that the exchange refused, since the start.
CommitBatch ==
    /\ running
    /\ batch \subseteq Stored
    /\ \E failed \in SUBSET batch :
          keys' = [k \in Keys |-> IF k \in failed
                                 THEN [keys[k] EXCEPT !.is_valid = FALSE] ELSE keys[k]]
    /\ EndBatch

BatchFails == /\ running
              /\ EndBatch
              /\ UNCHANGED keys

-----------------------------------------------------------------------------
(***************************************************************************)
(* Around them: the tier changes (see Billing), and five minutes go by.    *)
(***************************************************************************)
ChangeTier ==
    /\ changes < MaxChanges
    /\ \E t \in Tiers \ {tier} :
          /\ tier' = t
          /\ lowered' = (lowered \/ max_positions(t) < max_positions(tier))
    /\ changes' = changes + 1
    /\ UNCHANGED <<bots, keys, requestVars, batchVars, spent, loose, torn, twins, requests>>

Age == /\ \E b \in BotIds : /\ bots[b].status = "running" /\ ~bots[b].stale
                            /\ bots' = [bots EXCEPT ![b].stale = TRUE]
       /\ UNCHANGED <<tier, keys, requestVars, batchVars, seen, requests, changes>>

UserStep(r) == Begin(r) \/ LoadUser(r) \/ CommitFails(r)
BotStep(r) == LoadBot(r) \/ CreateBot(r) \/ FindValidKey(r) \/ RefuseStart(r)
              \/ CommitStatus(r) \/ CommitStart(r) \/ CommitStop(r) \/ CommitSettings(r)
KeyStep(r) == CheckLabel(r) \/ CountKeys(r) \/ RefuseKey(r) \/ CommitStore(r) \/ FindKey(r)
              \/ KeyNotFound(r) \/ CommitDelete(r) \/ CommitValidate(r)
BatchStep == StartBatch \/ CommitBatch \/ BatchFails

Next == \/ \E r \in Requests : UserStep(r) \/ BotStep(r) \/ KeyStep(r)
        \/ BatchStep \/ ChangeTier \/ Age

Spec == Init /\ [][Next]_vars

-----------------------------------------------------------------------------
(***************************************************************************)
(* Properties                                                              *)
(***************************************************************************)

\* Every variable has its type; a request past a read works on what it has read.
TypeOK ==
    /\ tier \in Tiers
    /\ bots \in [Rows -> BotRow \union {None}]
    /\ keys \in [Keys -> KeyRow \union {None}]
    /\ op \in [Requests -> BotOps \union KeyOps]
    /\ stage \in [Requests -> Stages]
    /\ mytier \in [Requests -> Tiers \union {"free"}]
    /\ which \in [Requests -> Rows \union Keys \union {None}]
    /\ loaded \in [Requests -> BotRow \union KeyRow \union {None}]
    /\ label \in [Requests -> Labels \union {None}]
    /\ batch \subseteq Keys
    /\ spent \subseteq Keys /\ Stored \subseteq spent
    /\ running \in BOOLEAN /\ lowered \in BOOLEAN /\ loose \in BOOLEAN
    /\ torn \in BOOLEAN /\ twins \in BOOLEAN
    /\ requests \in Nat /\ changes \in Nat /\ batches \in Nat

\* The limit store_api_key checks (5 for each exchange, whatever the tier) is passed by few
\* keys at most: it counts the rows and inserts one later, with nothing between them to hold
\* other requests back, so by as many keys as requests can be on their way at once, less
\* one.  The tiers' own limits (max_api_keys in config.py:71-75) are read nowhere.
KeysBounded == Cardinality(Stored) < MaxKeys + Cardinality(Requests)

\* Two keys of one label exist only if two requests to store it have overlapped: the label
\* is looked for, no index forbids it.
LabelsUnique ==
    ~twins => \A j, k \in Stored : j # k => keys[j].label # keys[k].label

\* A key the exchange has refused is valid again only by a validation the user has asked
\* for since: neither the worker's verdicts, older than its commit, nor a validation that
\* began while the key was valid bring it back.
InvalidStays ==
    [][\A k \in Keys :
         /\ Exists(k) /\ ~keys[k].is_valid
         /\ keys'[k] # None /\ keys'[k].is_valid
         => \E r \in Requests : /\ op[r] = "validate" /\ stage[r] = "commit"
                                /\ which[r] = k /\ ~loaded[r].is_valid]_vars

\* A key that was deleted stays deleted, though a validation or the worker may still hold
\* its row and commit later.
DeletedStays == [][\A k \in spent : keys[k] = None => keys'[k] = None]_vars

\* A bot runs only because a request to start it has found a valid key: saving settings or
\* asking for the status, begun before a stop, does not start it again.
OnlyStartRuns ==
    [][\A b \in Rows :
         /\ bots'[b] # None /\ bots'[b].status = "running"
         /\ bots[b] = None \/ bots[b].status # "running"
         => \E r \in Requests : op[r] = "start" /\ stage[r] = "commit" /\ which[r] = b]_vars

\* min_trade_usd stays at or below max_trade_usd as long as every request gives both and
\* no two overlap.  (Either alone breaks it: update_bot_settings compares them only within
\* a request.)
RangeOrdered == ~loose /\ ~torn => \A b \in BotIds : bots[b].min <= bots[b].max

\* As long as the tier has not gone down, a bot holds at most the positions the tier
\* allows, whatever tier the request had loaded.
PositionsWithinTier ==
    ~lowered => \A b \in BotIds : bots[b].positions <= max_positions(tier)
=============================================================================
