------------------------------ MODULE Billing ------------------------------
(***************************************************************************)
(* Subscriptions and tiers: the Whop webhook of api/routes/whop.py, and    *)
(* the registration of api/routes/auth.py that inserts into the same users *)
(* table.                                                                  *)
(*                                                                         *)
(* Whop sends an event for every change of a membership and sends it again *)
(* until it is answered with 200.  Each delivery runs in a session of its  *)
(* own, on one of four server processes, under READ COMMITTED: every       *)
(* statement sees what is committed when it runs, a flushed row stays      *)
(* locked until the transaction ends, and the ORM writes only the columns  *)
(* that differ from what the session loaded.  Every statement is a step:   *)
(* the SELECT of a user row too, and the one that loads its subscriptions  *)
(* with it (lazy="selectin"), whose values a later SELECT does not renew.  *)
(*                                                                         *)
(* Of Whop it is assumed that a membership stays with its account and that *)
(* an event is sent again, perhaps while an earlier delivery of it still   *)
(* runs, until one is answered with 200.  Nothing is assumed of addresses: *)
(* an account may change its own, and two accounts may have used the same. *)
(*                                                                         *)
(* payment.succeeded writes only the period dates, which nothing here      *)
(* reads, and is left out.                                                 *)
(***************************************************************************)
EXTENDS Naturals, FiniteSets, SequencesExt

CONSTANTS
    Whops,          \* Whop accounts
    Members,        \* Whop memberships
    OwnerOf,        \* the Whop account of each membership
    Plans,          \* Whop plans on sale
    WHOP_PLAN_MAP,  \* the plans the configuration knows, with their tiers
    Emails,         \* values of users.email
    MailsOf,        \* the addresses an account has had with Whop
    PlaceholderOf,  \* whop_<id>@placeholder.neuraledge.ai
    Handlers,       \* deliveries that run at the same time
    None,           \* no row, no link, no plan
    Window,         \* bound: how far an event may overtake the ones before it
    MaxEvents,      \* bound: events Whop sends
    MaxFaults       \* bound: database failures and lost answers

TierNames == {"free", "starter", "pro", "elite", "system"}
TIER_LIMITS ==
    [t \in TierNames |->
        CASE t = "free"    -> [max_pairs |-> 0,  max_positions |-> 0]
          [] t = "starter" -> [max_pairs |-> 5,  max_positions |-> 5]
          [] t = "pro"     -> [max_pairs |-> 24, max_positions |-> 8]
          [] t = "elite"   -> [max_pairs |-> 24, max_positions |-> 12]
          [] t = "system"  -> [max_pairs |-> 24, max_positions |-> 24]]

UserRow == [whop : Whops \union {None}, tier : TierNames, max_pairs : Nat, max_positions : Nat]
SubStatus == {"active", "inactive", "past_due"}
SubRow  == [user : Emails, tier : TierNames, status : SubStatus]

Kinds == {"went_valid", "went_invalid", "updated", "payment_failed"}
Event == [id : Nat, kind : Kinds, member : Members, plan : Plans \union {None},
          mail : Emails \union {None}]

ASSUME ConstantsOK ==
    /\ OwnerOf \in [Members -> Whops]
    /\ DOMAIN WHOP_PLAN_MAP \subseteq Plans
    /\ \A p \in DOMAIN WHOP_PLAN_MAP : WHOP_PLAN_MAP[p] \in TierNames
    /\ MailsOf \in [Whops -> SUBSET Emails] /\ PlaceholderOf \in [Whops -> Emails]
    /\ Window \in Nat /\ MaxEvents \in Nat /\ MaxFaults \in Nat
    /\ None \notin UserRow \union SubRow \union Event
    /\ None \notin Emails \union Whops \union Plans

Steps == {"idle", "email", "eager", "link", "create", "sub", "flush", "others", "commit"}

VARIABLES
    \* the database, committed
    users,      \* users rows by email (unique, never changed)
    subs,       \* subscriptions rows by whop_membership_id (unique)
    displaced,  \* observation: accounts whose link another one has overwritten
    \* Whop
    standing,   \* the plan of each membership while it is valid
    queue,      \* events not answered with 200 yet, oldest first
    sent,       \* events sent so far
    \* the sessions
    step,       \* the next statement of each handler
    ev,         \* the event it handles
    who,        \* the email of the user row it works on
    loaded,     \* that row as the session loaded it (None: it inserts it)
    mine,       \* that row as the session means to leave it
    seen,       \* the subscriptions loaded with that row
    subLoaded,  \* the subscription row, likewise
    subMine,
    locks,      \* which of the two rows it has flushed and so locked
    \* bounds
    faults      \* failures so far

dbVars   == <<users, subs, displaced>>
whopVars == <<standing, queue, sent>>
rowVars  == <<who, loaded, mine>>
subVars  == <<seen, subLoaded, subMine>>
txVars   == <<step, ev, rowVars, subVars, locks>>
vars     == <<users, subs, displaced, standing, queue, sent, step, ev, who, loaded, mine,
              seen, subLoaded, subMine, locks, faults>>

NoRows == [m \in Members |-> None]

-----------------------------------------------------------------------------
Init ==
    /\ users = [e \in Emails |-> None]
    /\ subs = NoRows
    /\ displaced = {}
    /\ standing = [m \in Members |-> None]
    /\ queue = <<>>
    /\ sent = 0
    /\ step = [h \in Handlers |-> "idle"]
    /\ ev = [h \in Handlers |-> None]
    /\ who = [h \in Handlers |-> None]
    /\ loaded = [h \in Handlers |-> None]
    /\ mine = [h \in Handlers |-> None]
    /\ seen = [h \in Handlers |-> NoRows]
    /\ subLoaded = [h \in Handlers |-> None]
    /\ subMine = [h \in Handlers |-> None]
    /\ locks = [h \in Handlers |-> {}]
    /\ faults = 0

-----------------------------------------------------------------------------
(***************************************************************************)
(* Whop (external).                                                        *)
(***************************************************************************)
Send(k, m, p, a) ==
    /\ sent < MaxEvents
    /\ sent' = sent + 1
    /\ queue' = Append(queue, [id |-> sent, kind |-> k, member |-> m, plan |-> p, mail |-> a])
    /\ UNCHANGED <<dbVars, txVars, faults>>

Activate(m) == /\ standing[m] = None
               /\ \E p \in Plans, a \in MailsOf[OwnerOf[m]] \union {None} :
                     /\ standing' = [standing EXCEPT ![m] = p]
                     /\ Send("went_valid", m, p, a)

ChangePlan(m) == /\ standing[m] # None
                 /\ \E p \in Plans \ {standing[m]} :
                       /\ standing' = [standing EXCEPT ![m] = p]
                       /\ Send("updated", m, p, None)

Expire(m) == /\ standing[m] # None
             /\ standing' = [standing EXCEPT ![m] = None]
             /\ Send("went_invalid", m, None, None)

FailPayment(m) == /\ standing[m] # None
                  /\ UNCHANGED standing
                  /\ Send("payment_failed", m, None, None)

-----------------------------------------------------------------------------
\* Variant for a mutation check: an unknown plan has no fallback.
ResolveKnownTier(p) == IF p \in DOMAIN WHOP_PLAN_MAP THEN WHOP_PLAN_MAP[p] ELSE "unknown"

ResolveTier(p) == IF p \in DOMAIN WHOP_PLAN_MAP THEN WHOP_PLAN_MAP[p] ELSE "starter"

\* Variant for a mutation check: the limits keep the values of the old tier.
ApplyTierOnly(row, t) == [row EXCEPT !.tier = t]

ApplyTierLimits(row, t) ==
    [row EXCEPT !.tier = t,
                !.max_pairs = TIER_LIMITS[t].max_pairs,
                !.max_positions = TIER_LIMITS[t].max_positions]

NewUser(w) == [whop |-> w, tier |-> "free", max_pairs |-> 0, max_positions |-> 0]

\* A flush writes a column only if it differs from the loaded value.
Column(now, old, new) == IF new # old THEN new ELSE now
SaveUser(now, old, new) ==
    [whop          |-> Column(now.whop, old.whop, new.whop),
     tier          |-> Column(now.tier, old.tier, new.tier),
     max_pairs     |-> Column(now.max_pairs, old.max_pairs, new.max_pairs),
     max_positions |-> Column(now.max_positions, old.max_positions, new.max_positions)]
SaveSub(now, old, new) ==
    [user   |-> now.user,
     tier   |-> Column(now.tier, old.tier, new.tier),
     status |-> Column(now.status, old.status, new.status)]

(***************************************************************************)
(* Row locks and unique indexes: a statement waits for a transaction that  *)
(* has written the row or the key, or overwritten the key, and then sees   *)
(* what it committed.                                                      *)
(***************************************************************************)
MemberOf(h) == ev[h].member
WhopOf(h)   == OwnerOf[MemberOf(h)]

RowBusy(h, e)  == \E g \in Handlers \ {h} : "user" \in locks[g] /\ who[g] = e
LinkBusy(h, w) == \E g \in Handlers \ {h} :
                     /\ "user" \in locks[g]
                     /\ \/ mine[g].whop = w
                        \/ users[who[g]] # None /\ users[who[g]].whop = w
SubBusy(h, m)  == \E g \in Handlers \ {h} : "sub" \in locks[g] /\ MemberOf(g) = m
Linked(w)      == \E e \in Emails : users[e] # None /\ users[e].whop = w

-----------------------------------------------------------------------------
(***************************************************************************)
(* The end of a delivery.  A handler that raises is rolled back and        *)
(* answered with 500: the event stays with Whop.  A commit whose answer is *)
(* lost leaves it there too.  Another delivery of the event may have been  *)
(* answered before this one.                                               *)
(***************************************************************************)
Close(h) ==
    /\ step' = [step EXCEPT ![h] = "idle"]
    /\ ev' = [ev EXCEPT ![h] = None]
    /\ who' = [who EXCEPT ![h] = None]
    /\ loaded' = [loaded EXCEPT ![h] = None]
    /\ mine' = [mine EXCEPT ![h] = None]
    /\ seen' = [seen EXCEPT ![h] = NoRows]
    /\ subLoaded' = [subLoaded EXCEPT ![h] = None]
    /\ subMine' = [subMine EXCEPT ![h] = None]
    /\ locks' = [locks EXCEPT ![h] = {}]

Refuse(h) == /\ Close(h)
             /\ UNCHANGED <<dbVars, whopVars, faults>>

Answer(h) ==
    /\ UNCHANGED <<standing, sent>>
    /\ \/ /\ \E i \in DOMAIN queue : /\ queue[i] = ev[h]
                                     /\ queue' = RemoveAt(queue, i)
          /\ UNCHANGED faults
       \/ /\ \A i \in DOMAIN queue : queue[i] # ev[h]
          /\ UNCHANGED <<queue, faults>>
       \/ /\ faults < MaxFaults
          /\ faults' = faults + 1
          /\ UNCHANGED queue

DatabaseFails(h) ==
    /\ step[h] # "idle"
    /\ faults < MaxFaults
    /\ faults' = faults + 1
    /\ Close(h)
    /\ UNCHANGED <<dbVars, whopVars>>

-----------------------------------------------------------------------------
(***************************************************************************)
(* The first SELECT: the user row by whop_user_id.  Without one,           *)
(* went_valid looks further, payment.failed goes on to the subscription,   *)
(* and the other two have nothing to do.                                   *)
(***************************************************************************)
NoUserStep(x) == CASE x.kind = "went_valid"     -> IF x.mail # None THEN "email" ELSE "create"
                   [] x.kind = "payment_failed" -> "sub"
                   [] OTHER                     -> "commit"

Take(h) ==
    /\ step[h] = "idle"
    /\ \E i \in DOMAIN queue :
          /\ i <= Window
          /\ ev' = [ev EXCEPT ![h] = queue[i]]
          /\ LET w == OwnerOf[queue[i].member] IN
             \/ \E e \in Emails :
                   /\ users[e] # None /\ users[e].whop = w
                   /\ who' = [who EXCEPT ![h] = e]
                   /\ loaded' = [loaded EXCEPT ![h] = users[e]]
                   /\ mine' = [mine EXCEPT ![h] = users[e]]
                   /\ step' = [step EXCEPT ![h] = "eager"]
             \/ /\ ~Linked(w)
                /\ step' = [step EXCEPT ![h] = NoUserStep(queue[i])]
                /\ UNCHANGED rowVars
    /\ UNCHANGED <<dbVars, whopVars, subVars, locks, faults>>

\* The row of the event's email, if there is one, gets the link, whether or
\* not it is linked to another account.
FindByEmail(h) ==
    LET e == ev[h].mail IN
    /\ step[h] = "email"
    /\ IF users[e] = None
       THEN /\ step' = [step EXCEPT ![h] = "create"]
            /\ UNCHANGED rowVars
       ELSE /\ step' = [step EXCEPT ![h] = "eager"]
            /\ who' = [who EXCEPT ![h] = e]
            /\ loaded' = [loaded EXCEPT ![h] = users[e]]
            /\ mine' = [mine EXCEPT ![h] = [users[e] EXCEPT !.whop = WhopOf(h)]]
    /\ UNCHANGED <<dbVars, whopVars, ev, subVars, locks, faults>>

\* The subscriptions that come with the row.
LoadSubs(h) ==
    /\ step[h] = "eager"
    /\ step' = [step EXCEPT ![h] = IF mine[h] = loaded[h] THEN "sub" ELSE "link"]
    /\ seen' = [seen EXCEPT ![h] =
          [m \in Members |-> IF subs[m] # None /\ subs[m].user = who[h] THEN subs[m] ELSE None]]
    /\ UNCHANGED <<dbVars, whopVars, ev, rowVars, subLoaded, subMine, locks, faults>>

\* Variant for a mutation check: whop_user_id is not unique.
LinkUnchecked(h) ==
    /\ step[h] = "link"
    /\ ~RowBusy(h, who[h])
    /\ step' = [step EXCEPT ![h] = "sub"]
    /\ locks' = [locks EXCEPT ![h] = @ \union {"user"}]
    /\ UNCHANGED <<dbVars, whopVars, ev, rowVars, subVars, faults>>

\* The UPDATE that the next SELECT flushes.
Link(h) ==
    /\ step[h] = "link"
    /\ ~RowBusy(h, who[h]) /\ ~LinkBusy(h, WhopOf(h))
    /\ \/ /\ \E e \in Emails \ {who[h]} : users[e] # None /\ users[e].whop = WhopOf(h)
          /\ Refuse(h)
       \/ /\ \A e \in Emails \ {who[h]} : users[e] # None => users[e].whop # WhopOf(h)
          /\ step' = [step EXCEPT ![h] = "sub"]
          /\ locks' = [locks EXCEPT ![h] = @ \union {"user"}]
          /\ UNCHANGED <<dbVars, whopVars, ev, rowVars, subVars, faults>>

\* The placeholder: the event's email, or one made from the Whop id.
CreateUser(h) ==
    LET e == IF ev[h].mail # None THEN ev[h].mail ELSE PlaceholderOf[WhopOf(h)] IN
    /\ step[h] = "create"
    /\ ~RowBusy(h, e) /\ ~LinkBusy(h, WhopOf(h))
    /\ \/ /\ users[e] # None \/ Linked(WhopOf(h))
          /\ Refuse(h)
       \/ /\ users[e] = None /\ ~Linked(WhopOf(h))
          /\ step' = [step EXCEPT ![h] = "sub"]
          /\ who' = [who EXCEPT ![h] = e]
          /\ mine' = [mine EXCEPT ![h] = NewUser(WhopOf(h))]
          /\ locks' = [locks EXCEPT ![h] = @ \union {"user"}]
          /\ UNCHANGED <<dbVars, whopVars, ev, loaded, subVars, faults>>

-----------------------------------------------------------------------------
(***************************************************************************)
(* The subscription row of the membership, and what the handler makes of   *)
(* it: an upsert to "active", or a status on a row that exists.  A row     *)
(* that came with the user keeps the values it came with.                  *)
(***************************************************************************)
Known(h, m) == IF seen[h][m] # None THEN seen[h][m] ELSE subs[m]

Upserts(x) == x.kind \in {"went_valid", "updated"}

\* Variant for a mutation check: every event inserts a row.
InsertOnly(h) ==
    /\ step[h] = "sub"
    /\ step' = [step EXCEPT ![h] = "flush"]
    /\ subMine' = [subMine EXCEPT ![h] =
          [user |-> who[h], tier |-> ResolveTier(ev[h].plan), status |-> "active"]]
    /\ UNCHANGED <<dbVars, whopVars, ev, rowVars, seen, subLoaded, locks, faults>>

StatusAfter(k) == CASE k = "went_invalid"   -> "inactive"
                    [] k = "payment_failed" -> "past_due"

ReadSub(h) ==
    LET old == Known(h, MemberOf(h)) IN
    /\ step[h] = "sub"
    /\ step' = [step EXCEPT ![h] = "flush"]
    /\ subLoaded' = [subLoaded EXCEPT ![h] = old]
    /\ subMine' = [subMine EXCEPT ![h] =
          IF Upserts(ev[h])
          THEN [user   |-> IF old = None THEN who[h] ELSE old.user,
                tier   |-> ResolveTier(ev[h].plan),
                status |-> "active"]
          ELSE IF old = None THEN None
          ELSE [old EXCEPT !.status = StatusAfter(ev[h].kind)]]
    /\ UNCHANGED <<dbVars, whopVars, ev, rowVars, seen, locks, faults>>

(***************************************************************************)
(* The flush.  An INSERT of a membership that has a row by now violates    *)
(* the unique index.  After an upsert the limits of the plan's tier are    *)
(* set on the user row, to be written at the commit.                       *)
(***************************************************************************)
FlushSub(h) ==
    /\ step[h] = "flush"
    /\ IF subMine[h] = subLoaded[h]
       THEN UNCHANGED locks
       ELSE /\ ~SubBusy(h, MemberOf(h))
            /\ subLoaded[h] = None => subs[MemberOf(h)] = None
            /\ locks' = [locks EXCEPT ![h] = @ \union {"sub"}]
    /\ step' = [step EXCEPT ![h] = IF ev[h].kind = "went_invalid" THEN "others" ELSE "commit"]
    /\ mine' = IF Upserts(ev[h])
               THEN [mine EXCEPT ![h] = ApplyTierLimits(@, ResolveTier(ev[h].plan))]
               ELSE mine
    /\ UNCHANGED <<dbVars, whopVars, ev, who, loaded, subVars, faults>>

DuplicateSub(h) ==
    /\ step[h] = "flush"
    /\ subLoaded[h] = None /\ subMine[h] # None
    /\ ~SubBusy(h, MemberOf(h))
    /\ subs[MemberOf(h)] # None
    /\ Refuse(h)

(***************************************************************************)
(* went_invalid asks for the other active subscriptions of the user: one   *)
(* gives its tier, none means free, and two make scalar_one_or_none raise. *)
(***************************************************************************)
\* Variant for a mutation check: ended subscriptions count too.
OtherSubscriptions(h) == {m \in Members \ {MemberOf(h)} :
                             subs[m] # None /\ subs[m].user = who[h]}

OtherActive(h) == {m \in Members \ {MemberOf(h)} :
                      /\ subs[m] # None
                      /\ subs[m].user = who[h]
                      /\ subs[m].status = "active"}

ReadOthers(h) ==
    /\ step[h] = "others"
    /\ \/ /\ OtherActive(h) = {}
          /\ mine' = [mine EXCEPT ![h] = ApplyTierLimits(@, "free")]
       \/ \E m \in OtherActive(h) :
             /\ OtherActive(h) = {m}
             /\ mine' = [mine EXCEPT ![h] = ApplyTierLimits(@, Known(h, m).tier)]
    /\ step' = [step EXCEPT ![h] = "commit"]
    /\ UNCHANGED <<dbVars, whopVars, ev, who, loaded, subVars, locks, faults>>

TooManyOthers(h) ==
    /\ step[h] = "others"
    /\ \E m, n \in OtherActive(h) : m # n
    /\ Refuse(h)

(***************************************************************************)
(* The last flush and the commit.                                          *)
(***************************************************************************)
Commit(h) ==
    /\ step[h] = "commit"
    /\ mine[h] # loaded[h] => ~RowBusy(h, who[h])
    /\ users' = IF mine[h] = loaded[h] THEN users
                ELSE [users EXCEPT ![who[h]] =
                        IF loaded[h] = None THEN mine[h] ELSE SaveUser(@, loaded[h], mine[h])]
    /\ subs' = IF subMine[h] = subLoaded[h] THEN subs
               ELSE [subs EXCEPT ![MemberOf(h)] =
                       IF subLoaded[h] = None THEN subMine[h]
                       ELSE SaveSub(@, subLoaded[h], subMine[h])]
    /\ displaced' = displaced \union {w \in Whops : Linked(w) /\ ~Linked(w)'}
    /\ Answer(h)
    /\ Close(h)

(***************************************************************************)
(* A handler waits for one other at most: for the subscription row at the  *)
(* flush, for the user row at the commit.  A delivery that links a user    *)
(* row and then wants the subscription row, and one that found the row     *)
(* linked already and has the subscription row, wait for each other.  The  *)
(* database ends one handler of such a circle.                             *)
(***************************************************************************)
Waits(h, g) ==
    /\ g # h
    /\ \/ /\ step[h] = "flush" /\ subMine[h] # subLoaded[h]
          /\ "sub" \in locks[g] /\ MemberOf(g) = MemberOf(h)
       \/ /\ step[h] = "commit" /\ mine[h] # loaded[h]
          /\ "user" \in locks[g] /\ who[g] = who[h]

BreakDeadlock(h) ==
    /\ \E S \in SUBSET Handlers : /\ h \in S
                                 /\ \A g \in S : /\ \E k \in S : Waits(g, k)
                                                /\ \E k \in S : Waits(k, g)
    /\ Refuse(h)

(***************************************************************************)
(* auth.register: a free user under an email that is not taken.  The other *)
(* addresses people register under never meet a Whop event.                *)
(***************************************************************************)
Register(e) ==
    /\ users[e] = None
    /\ \A g \in Handlers : ~("user" \in locks[g] /\ who[g] = e)
    /\ users' = [users EXCEPT ![e] = NewUser(None)]
    /\ UNCHANGED <<subs, displaced, whopVars, txVars, faults>>

-----------------------------------------------------------------------------
WhopStep == \E m \in Members : Activate(m) \/ ChangePlan(m) \/ Expire(m) \/ FailPayment(m)

HandlerStep(h) ==
    \/ Take(h) \/ FindByEmail(h) \/ LoadSubs(h) \/ Link(h) \/ CreateUser(h) \/ ReadSub(h)
    \/ FlushSub(h) \/ DuplicateSub(h) \/ ReadOthers(h) \/ TooManyOthers(h) \/ Commit(h)
    \/ BreakDeadlock(h)

Next == \/ WhopStep
        \/ \E h \in Handlers : HandlerStep(h) \/ DatabaseFails(h)
        \/ \E w \in Whops : \E e \in MailsOf[w] : Register(e)

(***************************************************************************)
(* A server process keeps running, the database grants a lock in turn to   *)
(* those that wait for it, and Whop delivers every event again and again   *)
(* until it is answered.  Nothing is assumed of what Whop's customers do.  *)
(***************************************************************************)
Delivered(n) == \E h \in Handlers : Take(h) /\ ev'[h].id = n

Fairness == /\ \A h \in Handlers : SF_vars(HandlerStep(h))
            /\ \A n \in 0..(MaxEvents - 1) : SF_vars(Delivered(n))

Spec     == Init /\ [][Next]_vars
FairSpec == Spec /\ Fairness

-----------------------------------------------------------------------------
(***************************************************************************)
(* Types: rows, events and handlers keep to their shapes, and a handler    *)
(* holds the lock of a user row only while it works on one.                *)
(***************************************************************************)
TypeOK ==
    /\ users \in [Emails -> UserRow \union {None}]
    /\ subs \in [Members -> SubRow \union {None}]
    /\ displaced \subseteq Whops
    /\ standing \in [Members -> Plans \union {None}]
    /\ queue \in Seq(Event) /\ sent \in Nat
    /\ step \in [Handlers -> Steps]
    /\ ev \in [Handlers -> Event \union {None}]
    /\ who \in [Handlers -> Emails \union {None}]
    /\ loaded \in [Handlers -> UserRow \union {None}]
    /\ mine \in [Handlers -> UserRow \union {None}]
    /\ seen \in [Handlers -> [Members -> SubRow \union {None}]]
    /\ subLoaded \in [Handlers -> SubRow \union {None}]
    /\ subMine \in [Handlers -> SubRow \union {None}]
    /\ locks \in [Handlers -> SUBSET {"user", "sub"}]
    /\ faults \in Nat
    /\ \A h \in Handlers : /\ step[h] = "idle" <=> ev[h] = None
                           /\ who[h] = None <=> mine[h] = None

(***************************************************************************)
(* One account: a Whop account is linked to at most one users row, however *)
(* its events, the events of other accounts and registrations interleave.  *)
(* And its subscriptions hang on that row, unless another account that     *)
(* used the same address has taken the row over (whop.py:71 overwrites the *)
(* link of a row that has one): then they stay behind on a row that is not *)
(* its own any more.                                                       *)
(***************************************************************************)
OneAccount ==
    /\ \A e, f \in Emails :
          users[e] # None /\ users[f] # None /\ users[e].whop # None
          /\ users[e].whop = users[f].whop => e = f
    /\ \A m \in Members :
          subs[m] # None => /\ users[subs[m].user] # None
                            /\ \/ users[subs[m].user].whop = OwnerOf[m]
                               \/ OwnerOf[m] \in displaced

(***************************************************************************)
(* max_positions always belongs to the tier in the row, although handlers  *)
(* that overlap write only the columns they changed: every tier has its    *)
(* own value, so the two columns change together.                          *)
(***************************************************************************)
Fits(row) == row # None => row.max_positions = TIER_LIMITS[row.tier].max_positions
PositionsMatchTier == \A e \in Emails : Fits(users[e])

(***************************************************************************)
(* Both limits belong to the tier: true while deliveries do not overlap.   *)
(* (Two handlers can leave max_pairs of an older tier: pro and elite share *)
(* the value 24, so a session that loaded pro does not write it.)          *)
(***************************************************************************)
LimitsMatchTier ==
    \A e \in Emails :
        users[e] # None => /\ users[e].max_pairs = TIER_LIMITS[users[e].tier].max_pairs
                           /\ users[e].max_positions = TIER_LIMITS[users[e].tier].max_positions

(***************************************************************************)
(* Once every event has been answered, an account has the tier of one of   *)
(* its valid memberships, and is free when it has none.  A membership      *)
(* whose payment failed stays past_due until its plan changes, and no      *)
(* longer keeps the account from going back to free.  (Said only while no  *)
(* account has lost its row to another one.)                               *)
(***************************************************************************)
Settled == queue = <<>> /\ \A h \in Handlers : step[h] = "idle"
ValidOf(w) == {m \in Members : OwnerOf[m] = w /\ standing[m] # None}
PaidOf(w)  == {m \in ValidOf(w) : subs[m] # None /\ subs[m].status # "past_due"}
TierFollowsMemberships ==
    Settled /\ displaced = {} => \A e \in Emails :
        users[e] # None =>
            \/ users[e].tier = "free" /\ PaidOf(users[e].whop) = {}
            \/ \E m \in ValidOf(users[e].whop) : users[e].tier = ResolveTier(standing[m])

(***************************************************************************)
(* Every event is answered with 200 in the end: retries after unique-index *)
(* violations make progress and handlers do not wait for each other in a   *)
(* circle.  One kind of event is an exception: the end of a membership     *)
(* whose user row has two other active subscriptions is refused (whop.py   *)
(* 299-304 asks for at most one) for as long as they stay active.          *)
(***************************************************************************)
Stuck(x) == /\ x.kind = "went_invalid"
            /\ \E m, n \in Members \ {x.member} :
                  /\ m # n
                  /\ \A k \in {m, n} :
                        /\ subs[k] # None /\ subs[k].status = "active"
                        /\ users[subs[k].user].whop = OwnerOf[x.member]
EventsAnswered == <>[](\A i \in DOMAIN queue : Stuck(queue[i]))

-----------------------------------------------------------------------------
(***************************************************************************)
(* Statements of the code's comments that the code does not keep.          *)
(*                                                                         *)
(* whop.py:239: "always take the highest active tier".                     *)
(***************************************************************************)
Rank(t) == CASE t = "free" -> 0 [] t = "starter" -> 1 [] t = "pro" -> 2
             [] t = "elite" -> 3 [] t = "system" -> 4
HighestActiveTier ==
    Settled => \A m \in Members :
        subs[m] # None /\ subs[m].status = "active"
        => Rank(users[subs[m].user].tier) >= Rank(subs[m].tier)

(***************************************************************************)
(* whop.py:306: "No active subscriptions -- downgrade to free".            *)
(***************************************************************************)
FreeWithoutActive ==
    Settled => \A e \in Emails :
        users[e] # None /\ (\A m \in Members : subs[m] # None /\ subs[m].user = e
                                               => subs[m].status = "inactive")
        => users[e].tier = "free"
=============================================================================
