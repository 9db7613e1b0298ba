--------------------------- MODULE Billing_proofs ---------------------------
(***************************************************************************)
(* Proofs about Billing, for every value of its constants: the type        *)
(* invariant, PositionsMatchTier, LimitsMatchTier, OneAccount and          *)
(* TierFollowsMemberships.                                                 *)
(***************************************************************************)
EXTENDS Billing, TLAPS

-----------------------------------------------------------------------------
(***************************************************************************)
(* Operators that make rows.                                               *)
(***************************************************************************)
LEMMA TierResolved ==
    ASSUME NEW p \in Plans \union {None}
    PROVE  ResolveTier(p) \in TierNames
BY ConstantsOK DEF ResolveTier, TierNames

LEMMA LimitsTyped ==
    ASSUME NEW t \in TierNames
    PROVE  /\ TIER_LIMITS[t].max_pairs \in Nat
           /\ TIER_LIMITS[t].max_positions \in Nat
BY DEF TIER_LIMITS, TierNames

LEMMA RowTyped ==
    ASSUME NEW row \in UserRow, NEW t \in TierNames
    PROVE  ApplyTierLimits(row, t) \in UserRow
BY LimitsTyped DEF ApplyTierLimits, UserRow

LEMMA NewUserTyped ==
    ASSUME NEW w \in Whops \union {None}
    PROVE  NewUser(w) \in UserRow
BY DEF NewUser, UserRow, TierNames

LEMMA SaveUserTyped ==
    ASSUME NEW now \in UserRow, NEW old \in UserRow, NEW new \in UserRow
    PROVE  SaveUser(now, old, new) \in UserRow
BY DEF SaveUser, Column, UserRow

LEMMA SaveSubTyped ==
    ASSUME NEW now \in SubRow, NEW old \in SubRow, NEW new \in SubRow
    PROVE  SaveSub(now, old, new) \in SubRow
BY DEF SaveSub, Column, SubRow

LEMMA NoneIsNoRow ==
    /\ None \notin UserRow /\ None \notin SubRow /\ None \notin Event
    /\ None \notin Emails /\ None \notin Whops /\ None \notin Plans
BY ConstantsOK

-----------------------------------------------------------------------------
(***************************************************************************)
(* The type invariant is not inductive: which row a handler has, and that  *)
(* the rows it has loaded are still there, depends on where it is.         *)
(***************************************************************************)
HandlerOK(h) ==
    /\ loaded[h] # None => who[h] # None /\ users[who[h]] # None
    /\ subLoaded[h] # None => ev[h] # None /\ subMine[h] # None /\ subs[MemberOf(h)] # None
    /\ /\ step[h] \in {"link", "sub", "flush", "others"}
       /\ ev[h].kind # "payment_failed"
       => who[h] # None
    /\ step[h] = "others" => ev[h].kind = "went_invalid"
    /\ step[h] \in {"eager", "link"} => who[h] # None
    /\ step[h] \in {"idle", "email", "create"} => who[h] = None
    /\ step[h] = "email" => ev[h].mail # None
    /\ step[h] = "idle" => \A m \in Members : seen[h][m] = None
    /\ \A m \in Members : seen[h][m] # None => subs[m] # None

TypeInv == TypeOK /\ \A h \in Handlers : HandlerOK(h)

(***************************************************************************)
(* A handler that is not idle has an event of a member of an account.      *)
(***************************************************************************)
LEMMA HasEvent ==
    ASSUME TypeOK, NEW h \in Handlers, step[h] # "idle"
    PROVE  /\ ev[h] \in Event
           /\ MemberOf(h) \in Members
           /\ WhopOf(h) \in Whops
           /\ ev[h].mail \in Emails \union {None}
           /\ PlaceholderOf[WhopOf(h)] \in Emails
BY ConstantsOK DEF TypeOK, Event, MemberOf, WhopOf

(***************************************************************************)
(* Rows stay: then what HandlerOK says of an untouched handler stays too.  *)
(***************************************************************************)
RowsStay == /\ \A e \in Emails : users[e] # None => users'[e] # None
            /\ \A m \in Members : subs[m] # None => subs'[m] # None

LEMMA OthersKeep ==
    ASSUME TypeInv, RowsStay, NEW g \in Handlers,
           ev'[g] = ev[g], step'[g] = step[g], who'[g] = who[g], loaded'[g] = loaded[g],
           seen'[g] = seen[g], subLoaded'[g] = subLoaded[g], subMine'[g] = subMine[g]
    PROVE  HandlerOK(g)'
<1>1. HandlerOK(g)
  BY DEF TypeInv
<1>2. loaded[g] # None => users'[who[g]] # None
  BY <1>1 DEF HandlerOK, RowsStay, TypeInv, TypeOK
<1>3. subLoaded[g] # None => MemberOf(g) \in Members /\ subs'[MemberOf(g)] # None
  BY <1>1 DEF HandlerOK, RowsStay, TypeInv, TypeOK, MemberOf, Event
<1>4. \A m \in Members : seen'[g][m] # None => subs'[m] # None
  BY <1>1 DEF HandlerOK, RowsStay
<1> QED BY <1>1, <1>2, <1>3, <1>4 DEF HandlerOK, MemberOf

LEMMA ClosedTyped ==
    ASSUME TypeInv, NEW h \in Handlers, Close(h), RowsStay
    PROVE  /\ step' \in [Handlers -> Steps]
           /\ ev' \in [Handlers -> Event \union {None}]
           /\ who' \in [Handlers -> Emails \union {None}]
           /\ loaded' \in [Handlers -> UserRow \union {None}]
           /\ mine' \in [Handlers -> UserRow \union {None}]
           /\ seen' \in [Handlers -> [Members -> SubRow \union {None}]]
           /\ subLoaded' \in [Handlers -> SubRow \union {None}]
           /\ subMine' \in [Handlers -> SubRow \union {None}]
           /\ locks' \in [Handlers -> SUBSET {"user", "sub"}]
           /\ \A g \in Handlers : /\ step'[g] = "idle" <=> ev'[g] = None
                                  /\ who'[g] = None <=> mine'[g] = None
                                  /\ HandlerOK(g)'
<1>1. ASSUME NEW g \in Handlers
      PROVE  HandlerOK(g)'
  <2>1. CASE g = h
    BY <2>1 DEF Close, NoRows, HandlerOK, TypeInv, TypeOK
  <2>2. CASE g # h
    BY <2>2, OthersKeep DEF Close, TypeInv, TypeOK
  <2> QED BY <2>1, <2>2
<1>2. NoRows \in [Members -> SubRow \union {None}]
  BY DEF NoRows
<1> QED BY <1>1, <1>2 DEF Close, TypeInv, TypeOK, Steps

LEMMA RefuseTyped ==
    ASSUME TypeInv, NEW h \in Handlers, Close(h), UNCHANGED <<dbVars, whopVars>>,
           faults' \in Nat
    PROVE  TypeInv'
<1>1. RowsStay
  BY DEF RowsStay, dbVars
<1> QED BY <1>1, ClosedTyped DEF TypeInv, TypeOK, dbVars, whopVars

(***************************************************************************)
(* A step of h that leaves rows and queue alone keeps the types when what  *)
(* it writes about h is well typed.                                        *)
(***************************************************************************)
LEMMA WhopTyped ==
    ASSUME TypeInv, WhopStep
    PROVE  TypeInv'
<1>1. PICK k \in Kinds, m \in Members, p \in Plans \union {None},
           a \in Emails \union {None} :
         /\ Send(k, m, p, a)
         /\ standing' \in [Members -> Plans \union {None}]
  <2>1. PICK m \in Members : Activate(m) \/ ChangePlan(m) \/ Expire(m) \/ FailPayment(m)
    BY DEF WhopStep
  <2>2. CASE Activate(m)
    <3>1. PICK p \in Plans, a \in MailsOf[OwnerOf[m]] \union {None} :
             /\ standing' = [standing EXCEPT ![m] = p]
             /\ Send("went_valid", m, p, a)
      BY <2>2 DEF Activate
    <3>2. standing' \in [Members -> Plans \union {None}] /\ "went_valid" \in Kinds
      BY <3>1 DEF TypeInv, TypeOK, Kinds
    <3>3. a \in Emails \union {None}
      BY <3>1, ConstantsOK
    <3> QED BY <3>1, <3>2, <3>3
  <2>3. CASE ChangePlan(m)
    <3>1. PICK p \in Plans : /\ standing' = [standing EXCEPT ![m] = p]
                             /\ Send("updated", m, p, None)
      BY <2>3 DEF ChangePlan
    <3>2. standing' \in [Members -> Plans \union {None}] /\ "updated" \in Kinds
      BY <3>1 DEF TypeInv, TypeOK, Kinds
    <3> QED BY <3>1, <3>2
  <2>4. CASE Expire(m)
    <3>1. /\ standing' \in [Members -> Plans \union {None}] /\ "went_invalid" \in Kinds
          /\ Send("went_invalid", m, None, None)
      BY <2>4 DEF Expire, TypeInv, TypeOK, Kinds
    <3> QED BY <3>1
  <2>5. CASE FailPayment(m)
    <3>1. /\ standing' \in [Members -> Plans \union {None}] /\ "payment_failed" \in Kinds
          /\ Send("payment_failed", m, None, None)
      BY <2>5 DEF FailPayment, TypeInv, TypeOK, Kinds
    <3> QED BY <3>1
  <2> QED BY <2>1, <2>2, <2>3, <2>4, <2>5
<1>2. /\ sent' \in Nat /\ queue' \in Seq(Event)
  <2>1. [id |-> sent, kind |-> k, member |-> m, plan |-> p, mail |-> a] \in Event
    BY DEF TypeInv, TypeOK, Event
  <2> QED BY <1>1, <2>1 DEF Send, TypeInv, TypeOK
<1>3. RowsStay /\ UNCHANGED <<dbVars, txVars, faults>>
  BY <1>1 DEF Send, RowsStay, dbVars
<1>4. \A g \in Handlers : HandlerOK(g)'
  BY <1>3, OthersKeep DEF txVars, rowVars, subVars
<1> QED BY <1>1, <1>2, <1>3, <1>4 DEF TypeInv, TypeOK, dbVars, txVars, rowVars, subVars

LEMMA RegisterTyped ==
    ASSUME TypeInv, NEW w \in Whops, NEW e \in MailsOf[w], Register(e)
    PROVE  TypeInv'
<1>1. e \in Emails /\ NewUser(None) \in UserRow
  BY ConstantsOK, NewUserTyped
<1>2. users' \in [Emails -> UserRow \union {None}] /\ RowsStay
  BY <1>1, NoneIsNoRow DEF Register, RowsStay, TypeInv, TypeOK
<1>3. UNCHANGED <<subs, displaced, whopVars, txVars, faults>>
  BY DEF Register
<1>4. \A g \in Handlers : HandlerOK(g)'
  BY <1>2, <1>3, OthersKeep DEF txVars, rowVars, subVars
<1> QED BY <1>2, <1>3, <1>4 DEF TypeInv, TypeOK, whopVars, txVars, rowVars, subVars

LEMMA FindTyped ==
    ASSUME TypeInv, NEW h \in Handlers,
           Take(h) \/ FindByEmail(h) \/ LoadSubs(h) \/ Link(h) \/ CreateUser(h)
    PROVE  TypeInv'
<1> USE NoneIsNoRow
<1>1. CASE Take(h)
  <2>1. PICK i \in DOMAIN queue :
           /\ ev' = [ev EXCEPT ![h] = queue[i]]
           /\ LET w == OwnerOf[queue[i].member] IN
              \/ \E e \in Emails :
                    /\ users[e] # None /\ users[e].whop = w
                    /\ who' = [who EXCEPT ![h] = e]
                    /\ loaded' = [loaded EXCEPT ![h] = users[e]]
                    /\ mine' = [mine EXCEPT ![h] = users[e]]
                    /\ step' = [step EXCEPT ![h] = "eager"]
              \/ /\ step' = [step EXCEPT ![h] = NoUserStep(queue[i])]
                 /\ UNCHANGED rowVars
    BY <1>1 DEF Take
  <2>2. queue[i] \in Event
    BY <2>1 DEF TypeInv, TypeOK
  <2>3. /\ NoUserStep(queue[i]) \in {"email", "create", "sub", "commit"}
        /\ NoUserStep(queue[i]) = "sub" => queue[i].kind = "payment_failed"
        /\ NoUserStep(queue[i]) = "email" => queue[i].mail # None
    BY <2>2 DEF NoUserStep, Event, Kinds
  <2>4. step[h] = "idle" /\ UNCHANGED <<dbVars, whopVars, subVars, locks, faults>>
    BY <1>1 DEF Take
  <2>5. TypeOK'
    <3>1. CASE UNCHANGED rowVars /\ step' = [step EXCEPT ![h] = NoUserStep(queue[i])]
      BY <2>1, <2>2, <2>3, <2>4, <3>1
         DEF TypeInv, TypeOK, Steps, dbVars, whopVars, rowVars, subVars
    <3>2. ASSUME NEW e \in Emails, users[e] # None,
                 who' = [who EXCEPT ![h] = e],
                 loaded' = [loaded EXCEPT ![h] = users[e]],
                 mine' = [mine EXCEPT ![h] = users[e]],
                 step' = [step EXCEPT ![h] = "eager"]
          PROVE  TypeOK'
      BY <2>1, <2>2, <2>4, <3>2
         DEF TypeInv, TypeOK, Steps, dbVars, whopVars, subVars
    <3> QED BY <2>1, <3>1, <3>2
  <2>6. HandlerOK(h)'
    <3>1. loaded[h] # None => who[h] # None /\ users[who[h]] # None
      BY DEF TypeInv, HandlerOK
    <3>2. subLoaded[h] = None
      BY <2>4 DEF TypeInv, TypeOK, HandlerOK
    <3> QED BY <2>1, <2>3, <2>4, <3>1, <3>2
            DEF TypeInv, TypeOK, HandlerOK, dbVars, rowVars, subVars
  <2>7. \A g \in Handlers \ {h} : HandlerOK(g)'
    <3>1. RowsStay
      BY <2>4 DEF RowsStay, dbVars
    <3> QED BY <2>1, <2>4, <3>1, OthersKeep DEF TypeInv, TypeOK, rowVars, subVars
  <2> QED BY <2>5, <2>6, <2>7 DEF TypeInv
<1>2. CASE FindByEmail(h)
  <2> DEFINE e == ev[h].mail
  <2>1. e \in Emails /\ WhopOf(h) \in Whops /\ step[h] = "email"
    BY <1>2, HasEvent DEF FindByEmail, TypeInv, HandlerOK
  <2>2. UNCHANGED <<dbVars, whopVars, ev, subVars, locks, faults>>
    BY <1>2 DEF FindByEmail
  <2>3. RowsStay
    BY <2>2 DEF RowsStay, dbVars
  <2>4. CASE users[e] = None
    <3>1. step' = [step EXCEPT ![h] = "create"] /\ UNCHANGED rowVars
      BY <1>2, <2>4 DEF FindByEmail
    <3>2. TypeOK'
      BY <2>1, <2>2, <3>1 DEF TypeInv, TypeOK, Steps, dbVars, whopVars, rowVars, subVars
    <3>3. HandlerOK(h)'
      BY <2>1, <2>2, <3>1
         DEF TypeInv, TypeOK, HandlerOK, dbVars, rowVars, subVars, MemberOf
    <3>4. \A g \in Handlers \ {h} : HandlerOK(g)'
      BY <2>2, <2>3, <3>1, OthersKeep DEF TypeInv, TypeOK, rowVars, subVars
    <3> QED BY <3>2, <3>3, <3>4 DEF TypeInv
  <2>5. CASE users[e] # None
    <3>1. /\ step' = [step EXCEPT ![h] = "eager"]
          /\ who' = [who EXCEPT ![h] = e]
          /\ loaded' = [loaded EXCEPT ![h] = users[e]]
          /\ mine' = [mine EXCEPT ![h] = [users[e] EXCEPT !.whop = WhopOf(h)]]
      BY <1>2, <2>5 DEF FindByEmail
    <3>2. users[e] \in UserRow
      BY <2>1, <2>5 DEF TypeInv, TypeOK
    <3>3. [users[e] EXCEPT !.whop = WhopOf(h)] \in UserRow
      BY <2>1, <3>2 DEF UserRow
    <3> HIDE DEF e
    <3>4. TypeOK'
      BY <2>1, <2>2, <3>1, <3>2, <3>3 DEF TypeInv, TypeOK, Steps, dbVars, whopVars, subVars
    <3>5. HandlerOK(h)'
      BY <2>1, <2>2, <2>5, <3>1
         DEF TypeInv, TypeOK, HandlerOK, dbVars, subVars, MemberOf
    <3>6. \A g \in Handlers \ {h} : HandlerOK(g)'
      BY <2>2, <2>3, <3>1, OthersKeep DEF TypeInv, TypeOK, subVars
    <3> QED BY <3>4, <3>5, <3>6 DEF TypeInv
  <2> QED BY <2>4, <2>5
<1>3. CASE Link(h)
  <2>1. CASE Refuse(h)
    BY <2>1, RefuseTyped DEF Refuse, TypeInv, TypeOK
  <2>2. CASE /\ step[h] = "link" /\ step' = [step EXCEPT ![h] = "sub"]
             /\ locks' = [locks EXCEPT ![h] = @ \union {"user"}]
             /\ UNCHANGED <<dbVars, whopVars, ev, rowVars, subVars, faults>>
    <3>1. TypeOK'
      BY <2>2 DEF TypeInv, TypeOK, Steps, dbVars, whopVars, rowVars, subVars
    <3>2. HandlerOK(h)'
      BY <2>2 DEF TypeInv, TypeOK, HandlerOK, dbVars, rowVars, subVars, MemberOf
    <3>3. \A g \in Handlers \ {h} : HandlerOK(g)'
      BY <2>2, OthersKeep DEF TypeInv, TypeOK, RowsStay, dbVars, rowVars, subVars
    <3> QED BY <3>1, <3>2, <3>3 DEF TypeInv
  <2> QED BY <1>3, <2>1, <2>2 DEF Link
<1>4. CASE CreateUser(h)
  <2> DEFINE e == IF ev[h].mail # None THEN ev[h].mail ELSE PlaceholderOf[WhopOf(h)]
  <2>1. CASE Refuse(h)
    BY <2>1, RefuseTyped DEF Refuse, TypeInv, TypeOK
  <2>2. CASE ~Refuse(h)
    <3>1. /\ step[h] = "create" /\ e \in Emails /\ NewUser(WhopOf(h)) \in UserRow
      BY <1>4, HasEvent, NewUserTyped DEF CreateUser, TypeInv
    <3>2. /\ step' = [step EXCEPT ![h] = "sub"]
          /\ who' = [who EXCEPT ![h] = e]
          /\ mine' = [mine EXCEPT ![h] = NewUser(WhopOf(h))]
          /\ locks' = [locks EXCEPT ![h] = @ \union {"user"}]
          /\ UNCHANGED <<dbVars, whopVars, ev, loaded, subVars, faults>>
      BY <1>4, <2>2 DEF CreateUser
    <3>3. loaded[h] = None
      BY <3>1 DEF TypeInv, HandlerOK
    <3> HIDE DEF e
    <3>4. TypeOK'
      BY <3>1, <3>2 DEF TypeInv, TypeOK, Steps, dbVars, whopVars, subVars
    <3>5. HandlerOK(h)'
      BY <3>1, <3>2, <3>3
         DEF TypeInv, TypeOK, HandlerOK, dbVars, subVars, MemberOf
    <3>6. \A g \in Handlers \ {h} : HandlerOK(g)'
      BY <3>2, OthersKeep DEF TypeInv, TypeOK, RowsStay, dbVars, subVars
    <3> QED BY <3>4, <3>5, <3>6 DEF TypeInv
  <2> QED BY <2>1, <2>2
<1>5. CASE LoadSubs(h)
  <2> DEFINE rows == [m \in Members |->
                        IF subs[m] # None /\ subs[m].user = who[h] THEN subs[m] ELSE None]
  <2>1. /\ step[h] = "eager"
        /\ step' = [step EXCEPT ![h] = IF mine[h] = loaded[h] THEN "sub" ELSE "link"]
        /\ seen' = [seen EXCEPT ![h] = rows]
        /\ UNCHANGED <<dbVars, whopVars, ev, rowVars, subLoaded, subMine, locks, faults>>
    BY <1>5 DEF LoadSubs
  <2>2. /\ rows \in [Members -> SubRow \union {None}]
        /\ \A m \in Members : rows[m] # None => subs[m] # None
    BY DEF TypeInv, TypeOK
  <2> HIDE DEF rows
  <2>3. TypeOK'
    <3>1. step' \in [Handlers -> Steps] /\ seen' \in [Handlers -> [Members -> SubRow \union {None}]]
      BY <2>1, <2>2 DEF TypeInv, TypeOK, Steps
    <3>2. \A g \in Handlers : step'[g] = "idle" <=> ev'[g] = None
      BY <2>1 DEF TypeInv, TypeOK
    <3> QED BY <2>1, <3>1, <3>2 DEF TypeInv, TypeOK, dbVars, whopVars, rowVars
  <2>4. HandlerOK(h)'
    BY <2>1, <2>2 DEF TypeInv, TypeOK, HandlerOK, dbVars, rowVars, MemberOf
  <2>5. \A g \in Handlers \ {h} : HandlerOK(g)'
    BY <2>1, OthersKeep DEF TypeInv, TypeOK, RowsStay, dbVars, rowVars
  <2> QED BY <2>3, <2>4, <2>5 DEF TypeInv
<1> QED BY <1>1, <1>2, <1>3, <1>4, <1>5

LEMMA KnownTyped ==
    ASSUME TypeOK, NEW h \in Handlers, HandlerOK(h), NEW m \in Members
    PROVE  /\ Known(h, m) \in SubRow \union {None}
           /\ Known(h, m) # None => subs[m] # None
           /\ subs[m] # None => Known(h, m) # None
BY DEF TypeOK, HandlerOK, Known

LEMMA SubTyped ==
    ASSUME TypeInv, NEW h \in Handlers,
           ReadSub(h) \/ FlushSub(h) \/ DuplicateSub(h) \/ ReadOthers(h) \/ TooManyOthers(h)
    PROVE  TypeInv'
<1> USE NoneIsNoRow
<1>0. HandlerOK(h) /\ TypeOK
  BY DEF TypeInv
<1>1. CASE ReadSub(h)
  <2> DEFINE old == Known(h, MemberOf(h))
             new == IF Upserts(ev[h])
                    THEN [user   |-> IF old = None THEN who[h] ELSE old.user,
                          tier   |-> ResolveTier(ev[h].plan),
                          status |-> "active"]
                    ELSE IF old = None THEN None
                    ELSE [old EXCEPT !.status = StatusAfter(ev[h].kind)]
  <2>1. /\ step[h] = "sub"
        /\ step' = [step EXCEPT ![h] = "flush"]
        /\ subLoaded' = [subLoaded EXCEPT ![h] = old]
        /\ subMine' = [subMine EXCEPT ![h] = new]
        /\ UNCHANGED <<dbVars, whopVars, ev, rowVars, seen, locks, faults>>
    BY <1>1 DEF ReadSub
  <2>2. ev[h] \in Event /\ MemberOf(h) \in Members
    BY <1>0, <2>1, HasEvent
  <2>3. old \in SubRow \union {None}
    BY <1>0, <2>2, KnownTyped
  <2>4. new \in SubRow \union {None} /\ (old # None => new # None)
    <3>1. CASE Upserts(ev[h])
      <4>1. who[h] \in Emails
        BY <1>0, <2>1, <3>1 DEF HandlerOK, TypeOK, Upserts
      <4>2. ResolveTier(ev[h].plan) \in TierNames
        BY <2>2, TierResolved DEF Event
      <4>3. (IF old = None THEN who[h] ELSE old.user) \in Emails
        BY <2>3, <4>1 DEF SubRow
      <4>4. new \in SubRow
        BY <3>1, <4>2, <4>3 DEF SubRow, SubStatus
      <4> QED BY <4>4
    <3>2. CASE ~Upserts(ev[h]) /\ old = None
      BY <3>2
    <3>3. CASE ~Upserts(ev[h]) /\ old # None
      <4>1. StatusAfter(ev[h].kind) \in SubStatus
        BY <2>2, <3>3 DEF StatusAfter, SubStatus, Upserts, Event, Kinds
      <4>2. [old EXCEPT !.status = StatusAfter(ev[h].kind)] \in SubRow
        BY <2>3, <3>3, <4>1 DEF SubRow
      <4> QED BY <3>3, <4>2
    <3> QED BY <3>1, <3>2, <3>3
  <2> HIDE DEF old, new
  <2>5. TypeOK'
    BY <1>0, <2>1, <2>3, <2>4 DEF TypeOK, Steps, dbVars, whopVars, rowVars
  <2>6. HandlerOK(h)'
    <3>1. old # None => subs[MemberOf(h)] # None
      BY <1>0, <2>2, KnownTyped DEF old
    <3> QED BY <1>0, <2>1, <2>2, <2>4, <3>1 DEF TypeOK, HandlerOK, dbVars, rowVars, MemberOf
  <2>7. \A g \in Handlers \ {h} : HandlerOK(g)'
    BY <1>0, <2>1, OthersKeep DEF TypeOK, RowsStay, dbVars, rowVars
  <2> QED BY <2>5, <2>6, <2>7 DEF TypeInv
<1>2. CASE FlushSub(h)
  <2>1. /\ step[h] = "flush"
        /\ locks' \in {locks, [locks EXCEPT ![h] = @ \union {"sub"}]}
        /\ step' = [step EXCEPT ![h] = IF ev[h].kind = "went_invalid"
                                       THEN "others" ELSE "commit"]
        /\ UNCHANGED <<dbVars, whopVars, ev, who, loaded, subVars, faults>>
    BY <1>2 DEF FlushSub
  <2>2. ev[h] \in Event
    BY <1>0, <2>1, HasEvent
  <2>3. /\ mine' \in [Handlers -> UserRow \union {None}]
        /\ \A g \in Handlers : mine'[g] = None <=> mine[g] = None
    <3>1. CASE Upserts(ev[h])
      <4>1. mine[h] \in UserRow
        BY <1>0, <2>1, <3>1 DEF HandlerOK, TypeOK, Upserts
      <4>2. ApplyTierLimits(mine[h], ResolveTier(ev[h].plan)) \in UserRow
        BY <2>2, <4>1, TierResolved, RowTyped DEF Event
      <4> QED BY <1>0, <1>2, <3>1, <4>1, <4>2 DEF FlushSub, TypeOK
    <3>2. CASE ~Upserts(ev[h])
      BY <1>0, <1>2, <3>2 DEF FlushSub, TypeOK
    <3> QED BY <3>1, <3>2
  <2>4. TypeOK'
    <3>1. step' \in [Handlers -> Steps]
      BY <1>0, <2>1 DEF TypeOK, Steps
    <3>2. locks' \in [Handlers -> SUBSET {"user", "sub"}]
      BY <1>0, <2>1 DEF TypeOK
    <3>3. \A g \in Handlers : step'[g] = "idle" <=> ev'[g] = None
      BY <1>0, <2>1 DEF TypeOK
    <3> QED BY <1>0, <2>1, <2>3, <3>1, <3>2, <3>3 DEF TypeOK, dbVars, whopVars, subVars
  <2>5. HandlerOK(h)'
    BY <1>0, <2>1 DEF TypeOK, HandlerOK, dbVars, subVars, MemberOf
  <2>6. \A g \in Handlers \ {h} : HandlerOK(g)'
    BY <1>0, <2>1, OthersKeep DEF TypeOK, RowsStay, dbVars, subVars
  <2> QED BY <2>4, <2>5, <2>6 DEF TypeInv
<1>3. CASE DuplicateSub(h) \/ TooManyOthers(h)
  BY <1>0, <1>3, RefuseTyped DEF DuplicateSub, TooManyOthers, Refuse, TypeOK
<1>4. CASE ReadOthers(h)
  <2>1. /\ step[h] = "others" /\ step' = [step EXCEPT ![h] = "commit"]
        /\ UNCHANGED <<dbVars, whopVars, ev, who, loaded, subVars, locks, faults>>
    BY <1>4 DEF ReadOthers
  <2>2. PICK t \in TierNames : mine' = [mine EXCEPT ![h] = ApplyTierLimits(@, t)]
    <3>1. "free" \in TierNames /\ \A m \in OtherActive(h) : Known(h, m).tier \in TierNames
      BY <1>0, KnownTyped, NoneIsNoRow DEF OtherActive, SubRow, TierNames
    <3> QED BY <1>4, <3>1 DEF ReadOthers
  <2>3. mine[h] \in UserRow
    BY <1>0, <2>1 DEF HandlerOK, TypeOK
  <2>4. ApplyTierLimits(mine[h], t) \in UserRow
    BY <2>2, <2>3, RowTyped
  <2>5. TypeOK'
    BY <1>0, <2>1, <2>2, <2>3, <2>4 DEF TypeOK, Steps, dbVars, whopVars, subVars
  <2>6. HandlerOK(h)'
    BY <1>0, <2>1 DEF TypeOK, HandlerOK, dbVars, subVars, MemberOf
  <2>7. \A g \in Handlers \ {h} : HandlerOK(g)'
    BY <1>0, <2>1, OthersKeep DEF TypeOK, RowsStay, dbVars, subVars
  <2> QED BY <2>5, <2>6, <2>7 DEF TypeInv
<1> QED BY <1>1, <1>2, <1>3, <1>4

LEMMA CommitTyped ==
    ASSUME TypeInv, NEW h \in Handlers, Commit(h)
    PROVE  TypeInv'
<1> USE NoneIsNoRow
<1>1. HandlerOK(h) /\ TypeOK
  BY DEF TypeInv
<1>2. step[h] = "commit" /\ MemberOf(h) \in Members
  BY <1>1, HasEvent DEF Commit
<1>3. /\ users' \in [Emails -> UserRow \union {None}]
      /\ \A e \in Emails : users[e] # None => users'[e] # None
  <2>1. CASE mine[h] = loaded[h]
    BY <1>1, <2>1 DEF Commit, TypeOK
  <2>2. CASE mine[h] # loaded[h]
    <3> DEFINE row == IF loaded[h] = None THEN mine[h]
                      ELSE SaveUser(users[who[h]], loaded[h], mine[h])
    <3>1. users' = [users EXCEPT ![who[h]] = row]
      BY <1>1, <2>2 DEF Commit, TypeOK
    <3>2. who[h] \in Emails /\ mine[h] \in UserRow
      BY <1>1, <2>2 DEF HandlerOK, TypeOK
    <3>3. loaded[h] # None => loaded[h] \in UserRow /\ users[who[h]] \in UserRow
      BY <1>1, <3>2 DEF HandlerOK, TypeOK
    <3>4. row \in UserRow
      BY <3>2, <3>3, SaveUserTyped
    <3> HIDE DEF row
    <3> QED BY <1>1, <3>1, <3>4 DEF TypeOK
  <2> QED BY <2>1, <2>2
<1>4. /\ subs' \in [Members -> SubRow \union {None}]
      /\ \A m \in Members : subs[m] # None => subs'[m] # None
  <2>1. CASE subMine[h] = subLoaded[h]
    BY <1>1, <2>1 DEF Commit, TypeOK
  <2>2. CASE subMine[h] # subLoaded[h]
    <3> DEFINE row == IF subLoaded[h] = None THEN subMine[h]
                      ELSE SaveSub(subs[MemberOf(h)], subLoaded[h], subMine[h])
    <3>1. subs' = [subs EXCEPT ![MemberOf(h)] = row]
      BY <1>1, <1>2, <2>2 DEF Commit, TypeOK
    <3>2. subMine[h] \in SubRow
      BY <1>1, <2>2 DEF HandlerOK, TypeOK
    <3>3. subLoaded[h] # None => subLoaded[h] \in SubRow /\ subs[MemberOf(h)] \in SubRow
      BY <1>1, <1>2 DEF HandlerOK, TypeOK
    <3>4. row \in SubRow
      BY <3>2, <3>3, SaveSubTyped
    <3> HIDE DEF row
    <3> QED BY <1>1, <3>1, <3>4 DEF TypeOK
  <2> QED BY <2>1, <2>2
<1>5. UNCHANGED <<standing, sent>> /\ queue' \in Seq(Event) /\ faults' \in Nat
  <2>1. \A i \in DOMAIN queue : RemoveAt(queue, i) \in Seq(Event)
    BY <1>1 DEF RemoveAt, TypeOK
  <2> QED BY <1>1, <2>1 DEF Commit, Answer, TypeOK
<1>6. Close(h) /\ RowsStay
  BY <1>3, <1>4 DEF Commit, RowsStay
<1>7. displaced' \subseteq Whops
  BY <1>1 DEF Commit, TypeOK
<1> QED BY <1>1, <1>3, <1>4, <1>5, <1>6, <1>7, ClosedTyped DEF TypeInv, TypeOK

(***************************************************************************)
(* Every reachable state is well typed, whatever overlaps and fails.       *)
(***************************************************************************)
LEMMA TypeInvCorrect == Spec => []TypeInv
<1>1. Init => TypeInv
  BY DEF Init, NoRows, TypeInv, TypeOK, HandlerOK, Steps
<1>2. TypeInv /\ [Next]_vars => TypeInv'
  <2> SUFFICES ASSUME TypeInv, [Next]_vars PROVE TypeInv'
    OBVIOUS
  <2>1. CASE WhopStep
    BY <2>1, WhopTyped
  <2>2. ASSUME NEW w \in Whops, NEW e \in MailsOf[w], Register(e) PROVE TypeInv'
    BY <2>2, RegisterTyped
  <2>3. ASSUME NEW h \in Handlers, HandlerStep(h) PROVE TypeInv'
    <3>1. CASE BreakDeadlock(h)
      BY <3>1, RefuseTyped DEF BreakDeadlock, Refuse, TypeInv, TypeOK
    <3> QED BY <2>3, <3>1, FindTyped, SubTyped, CommitTyped DEF HandlerStep
  <2>4. ASSUME NEW h \in Handlers, DatabaseFails(h) PROVE TypeInv'
    BY <2>4, RefuseTyped DEF DatabaseFails, TypeInv, TypeOK
  <2>5. CASE UNCHANGED vars
    <3>1. TypeOK'
      BY <2>5 DEF vars, TypeInv, TypeOK
    <3>2. \A g \in Handlers : HandlerOK(g)'
      BY <2>5, OthersKeep DEF vars, RowsStay
    <3> QED BY <3>1, <3>2 DEF TypeInv
  <2> QED BY <2>1, <2>2, <2>3, <2>4, <2>5 DEF Next
<1> QED BY <1>1, <1>2, PTL DEF Spec

THEOREM BillingTypeCorrect == Spec => []TypeOK
<1>1. TypeInv => TypeOK
  BY DEF TypeInv
<1> QED BY <1>1, TypeInvCorrect, PTL

-----------------------------------------------------------------------------
(***************************************************************************)
(* PositionsMatchTier.  The rows the sessions hold fit as well, and no two *)
(* tiers share a max_positions: a session that writes one of the columns   *)
(* tier and max_positions writes the other.                                *)
(***************************************************************************)
PositionsInv == /\ PositionsMatchTier
                /\ \A h \in Handlers : Fits(loaded[h]) /\ Fits(mine[h])

LEMMA PositionsTell ==
    ASSUME NEW s \in TierNames, NEW t \in TierNames,
           TIER_LIMITS[s].max_positions = TIER_LIMITS[t].max_positions
    PROVE  s = t
BY DEF TIER_LIMITS, TierNames

LEMMA AppliedFits ==
    ASSUME NEW row \in UserRow, NEW t \in TierNames
    PROVE  Fits(ApplyTierLimits(row, t))
BY LimitsTyped DEF Fits, ApplyTierLimits, UserRow

LEMMA NewFits ==
    ASSUME NEW w \in Whops \union {None}
    PROVE  Fits(NewUser(w))
BY DEF Fits, NewUser, TIER_LIMITS, TierNames

LEMMA SavedFits ==
    ASSUME NEW now \in UserRow, NEW old \in UserRow, NEW new \in UserRow,
           Fits(now), Fits(old), Fits(new)
    PROVE  Fits(SaveUser(now, old, new))
<1>1. /\ now.max_positions = TIER_LIMITS[now.tier].max_positions
      /\ old.max_positions = TIER_LIMITS[old.tier].max_positions
      /\ new.max_positions = TIER_LIMITS[new.tier].max_positions
  BY NoneIsNoRow DEF Fits
<1>2. old.tier \in TierNames /\ new.tier \in TierNames
  BY DEF UserRow
<1>3. new.tier # old.tier <=> new.max_positions # old.max_positions
  BY <1>1, <1>2, PositionsTell
<1> QED BY <1>1, <1>3 DEF Fits, SaveUser, Column

LEMMA FitsStep ==
    ASSUME TypeInv, PositionsInv, NEW h \in Handlers, HandlerStep(h)
    PROVE  PositionsInv'
<1> USE NoneIsNoRow
<1>0. TypeOK /\ HandlerOK(h)
  BY DEF TypeInv
<1>1. CASE Close(h) /\ UNCHANGED users
  BY <1>0, <1>1 DEF Close, PositionsInv, PositionsMatchTier, Fits, TypeOK
<1>2. CASE Take(h)
  <2>1. UNCHANGED users
    BY <1>2 DEF Take, dbVars
  <2>2. \/ UNCHANGED rowVars
        \/ \E e \in Emails : /\ loaded' = [loaded EXCEPT ![h] = users[e]]
                             /\ mine' = [mine EXCEPT ![h] = users[e]]
    BY <1>2 DEF Take
  <2> QED BY <1>0, <2>1, <2>2 DEF PositionsInv, PositionsMatchTier, rowVars, TypeOK
<1>3. CASE FindByEmail(h)
  <2> DEFINE e == ev[h].mail
  <2>1. UNCHANGED users /\ e \in Emails
    BY <1>0, <1>3, HasEvent DEF FindByEmail, HandlerOK, dbVars
  <2>2. CASE users[e] = None
    BY <1>3, <2>1, <2>2 DEF FindByEmail, PositionsInv, PositionsMatchTier, rowVars
  <2>3. CASE users[e] # None
    <3>1. /\ loaded' = [loaded EXCEPT ![h] = users[e]]
          /\ mine' = [mine EXCEPT ![h] = [users[e] EXCEPT !.whop = WhopOf(h)]]
      BY <1>3, <2>3 DEF FindByEmail
    <3>2. users[e] \in UserRow /\ Fits(users[e])
      BY <1>0, <2>1, <2>3 DEF TypeOK, PositionsInv, PositionsMatchTier
    <3>3. Fits([users[e] EXCEPT !.whop = WhopOf(h)])
      BY <3>2 DEF Fits, UserRow
    <3> HIDE DEF e
    <3> QED BY <1>0, <2>1, <3>1, <3>2, <3>3 DEF PositionsInv, PositionsMatchTier, TypeOK
  <2> QED BY <2>2, <2>3
<1>4. CASE UNCHANGED <<users, loaded, mine>>
  BY <1>4 DEF PositionsInv, PositionsMatchTier
<1>5. CASE CreateUser(h) /\ ~Close(h)
  <2>1. /\ UNCHANGED <<users, loaded>>
        /\ mine' = [mine EXCEPT ![h] = NewUser(WhopOf(h))]
    BY <1>5 DEF CreateUser, Refuse, dbVars
  <2>2. Fits(NewUser(WhopOf(h)))
    BY <1>0, <1>5, HasEvent, NewFits DEF CreateUser
  <2> QED BY <1>0, <2>1, <2>2 DEF PositionsInv, PositionsMatchTier, TypeOK
<1>6. CASE FlushSub(h) /\ Upserts(ev[h])
  <2>1. /\ UNCHANGED <<users, loaded>> /\ step[h] = "flush"
        /\ mine' = [mine EXCEPT ![h] = ApplyTierLimits(@, ResolveTier(ev[h].plan))]
    BY <1>6 DEF FlushSub, dbVars
  <2>2. mine[h] \in UserRow /\ ResolveTier(ev[h].plan) \in TierNames
    BY <1>0, <1>6, <2>1, HasEvent, TierResolved DEF HandlerOK, TypeOK, Upserts, Event
  <2>3. Fits(ApplyTierLimits(mine[h], ResolveTier(ev[h].plan)))
    BY <2>2, AppliedFits
  <2> QED BY <1>0, <2>1, <2>3 DEF PositionsInv, PositionsMatchTier, TypeOK
<1>7. CASE ReadOthers(h)
  <2>1. UNCHANGED <<users, loaded>> /\ mine[h] \in UserRow
    BY <1>0, <1>7 DEF ReadOthers, dbVars, HandlerOK, TypeOK
  <2>2. PICK t \in TierNames : mine' = [mine EXCEPT ![h] = ApplyTierLimits(@, t)]
    <3>1. "free" \in TierNames /\ \A m \in OtherActive(h) : Known(h, m).tier \in TierNames
      BY <1>0, KnownTyped, NoneIsNoRow DEF OtherActive, SubRow, TierNames
    <3> QED BY <1>7, <3>1 DEF ReadOthers
  <2>3. Fits(ApplyTierLimits(mine[h], t))
    BY <2>1, <2>2, AppliedFits
  <2> QED BY <1>0, <2>1, <2>2, <2>3 DEF PositionsInv, PositionsMatchTier, TypeOK
<1>8. CASE Commit(h)
  <2>1. \A e \in Emails : Fits(users'[e])
    <3>1. CASE mine[h] = loaded[h]
      BY <1>8, <3>1 DEF Commit, PositionsInv, PositionsMatchTier
    <3>2. CASE mine[h] # loaded[h]
      <4> DEFINE row == IF loaded[h] = None THEN mine[h]
                        ELSE SaveUser(users[who[h]], loaded[h], mine[h])
      <4>1. users' = [users EXCEPT ![who[h]] = row]
        BY <1>0, <1>8, <3>2 DEF Commit, TypeOK
      <4>2. who[h] \in Emails /\ mine[h] \in UserRow
        BY <1>0, <3>2 DEF HandlerOK, TypeOK
      <4>3. loaded[h] # None => loaded[h] \in UserRow /\ users[who[h]] \in UserRow
        BY <1>0, <4>2 DEF HandlerOK, TypeOK
      <4>4. Fits(row)
        BY <4>2, <4>3, SavedFits DEF PositionsInv, PositionsMatchTier
      <4> HIDE DEF row
      <4> QED BY <1>0, <4>1, <4>4 DEF PositionsInv, PositionsMatchTier, TypeOK
    <3> QED BY <3>1, <3>2
  <2>2. \A g \in Handlers : Fits(loaded'[g]) /\ Fits(mine'[g])
    BY <1>0, <1>8 DEF Commit, Close, Fits, PositionsInv, TypeOK
  <2> QED BY <2>1, <2>2 DEF PositionsInv, PositionsMatchTier
<1>9. CASE Link(h)
  BY <1>1, <1>4, <1>9 DEF Link, Refuse, dbVars, rowVars
<1>10. CASE ReadSub(h)
  BY <1>4, <1>10 DEF ReadSub, dbVars, rowVars
<1>11. CASE FlushSub(h) /\ ~Upserts(ev[h])
  BY <1>4, <1>11 DEF FlushSub, dbVars
<1>12. CASE CreateUser(h) /\ Close(h)
  BY <1>1, <1>12 DEF CreateUser, dbVars, Refuse
<1>13. CASE DuplicateSub(h) \/ TooManyOthers(h) \/ BreakDeadlock(h)
  BY <1>1, <1>13 DEF DuplicateSub, TooManyOthers, BreakDeadlock, Refuse, dbVars
<1>14. CASE LoadSubs(h)
  BY <1>4, <1>14 DEF LoadSubs, dbVars, rowVars
<1> QED BY <1>2, <1>3, <1>5, <1>6, <1>7, <1>8, <1>9, <1>10, <1>11, <1>12, <1>13, <1>14
        DEF HandlerStep

(***************************************************************************)
(* max_positions and tier of a users row always belong together, however   *)
(* many deliveries overlap, although each writes only the columns it has   *)
(* changed (whop.py:45, _apply_tier_limits).                               *)
(***************************************************************************)
THEOREM PositionsCorrect == Spec => []PositionsMatchTier
<1>1. Init => PositionsInv
  BY DEF Init, PositionsInv, PositionsMatchTier, Fits
<1>2. TypeInv /\ PositionsInv /\ [Next]_vars => PositionsInv'
  <2> SUFFICES ASSUME TypeInv, PositionsInv, [Next]_vars PROVE PositionsInv'
    OBVIOUS
  <2>1. ASSUME NEW h \in Handlers, HandlerStep(h) PROVE PositionsInv'
    BY <2>1, FitsStep
  <2>2. ASSUME NEW h \in Handlers, DatabaseFails(h) PROVE PositionsInv'
    BY <2>2 DEF DatabaseFails, Close, dbVars, PositionsInv, PositionsMatchTier, Fits,
                TypeInv, TypeOK
  <2>3. ASSUME NEW w \in Whops, NEW e \in MailsOf[w], Register(e) PROVE PositionsInv'
    <3>1. /\ users' = [users EXCEPT ![e] = NewUser(None)]
          /\ UNCHANGED <<loaded, mine>>
      BY <2>3 DEF Register, txVars, rowVars
    <3>2. Fits(NewUser(None))
      BY NewFits
    <3> QED BY <3>1, <3>2 DEF PositionsInv, PositionsMatchTier, TypeInv, TypeOK
  <2>4. WhopStep => UNCHANGED <<users, loaded, mine>>
    BY DEF WhopStep, Activate, ChangePlan, Expire, FailPayment, Send, dbVars, txVars, rowVars
  <2>5. CASE UNCHANGED <<users, loaded, mine>>
    BY <2>5 DEF PositionsInv, PositionsMatchTier
  <2>6. UNCHANGED vars => UNCHANGED <<users, loaded, mine>>
    BY DEF vars
  <2> QED BY <2>1, <2>2, <2>3, <2>4, <2>5, <2>6 DEF Next
<1>3. PositionsInv => PositionsMatchTier
  BY DEF PositionsInv
<1> QED BY <1>1, <1>2, <1>3, TypeInvCorrect, PTL DEF Spec

-----------------------------------------------------------------------------
(***************************************************************************)
(* LimitsMatchTier, for deliveries that do not overlap.  The rows the      *)
(* session holds have both limits of their tier, and the row it has loaded *)
(* is still the one in the table: what it saves is the row it means, whole.*)
(***************************************************************************)
Whole(row) == row # None => /\ row.max_pairs = TIER_LIMITS[row.tier].max_pairs
                            /\ row.max_positions = TIER_LIMITS[row.tier].max_positions

Fresh(h) == loaded[h] # None => users[who[h]] = loaded[h]

SerialInv == /\ LimitsMatchTier
             /\ \A h \in Handlers : Whole(loaded[h]) /\ Whole(mine[h]) /\ Fresh(h)

LEMMA AppliedWhole ==
    ASSUME NEW row \in UserRow, NEW t \in TierNames
    PROVE  Whole(ApplyTierLimits(row, t))
BY LimitsTyped DEF Whole, ApplyTierLimits, UserRow

LEMMA NewWhole ==
    ASSUME NEW w \in Whops \union {None}
    PROVE  Whole(NewUser(w))
BY DEF Whole, NewUser, TIER_LIMITS, TierNames

LEMMA SavedWhole ==
    ASSUME NEW old \in UserRow, NEW new \in UserRow
    PROVE  SaveUser(old, old, new) = new
BY DEF SaveUser, Column, UserRow

\* A step of the only handler that leaves the table alone, and what it then owes.
LEMMA SessionKeepsWhole ==
    ASSUME TypeOK, SerialInv, NEW h \in Handlers, \A g \in Handlers : g = h,
           UNCHANGED users, Whole(loaded'[h]), Whole(mine'[h]),
           loaded'[h] # None => users[who'[h]] = loaded'[h]
    PROVE  SerialInv'
BY DEF SerialInv, LimitsMatchTier, Fresh

LEMMA WholeStep ==
    ASSUME TypeInv, SerialInv, NEW h \in Handlers, \A g \in Handlers : g = h, HandlerStep(h)
    PROVE  SerialInv'
<1> USE NoneIsNoRow
<1>0. TypeOK /\ HandlerOK(h) /\ Whole(loaded[h]) /\ Whole(mine[h]) /\ Fresh(h)
  BY DEF TypeInv, SerialInv
<1>1. CASE Close(h) /\ UNCHANGED users
  <2>1. loaded'[h] = None /\ mine'[h] = None
    BY <1>0, <1>1 DEF Close, TypeOK
  <2>2. Whole(loaded'[h]) /\ Whole(mine'[h])
    BY <2>1 DEF Whole
  <2> QED BY <1>0, <1>1, <2>1, <2>2, SessionKeepsWhole
<1>2. CASE Take(h)
  <2>1. UNCHANGED users
    BY <1>2 DEF Take, dbVars
  <2>2. CASE UNCHANGED rowVars
    BY <1>0, <2>1, <2>2, SessionKeepsWhole DEF rowVars, Fresh
  <2>3. ASSUME NEW e \in Emails, users[e] # None,
               who' = [who EXCEPT ![h] = e],
               loaded' = [loaded EXCEPT ![h] = users[e]],
               mine' = [mine EXCEPT ![h] = users[e]]
        PROVE  SerialInv'
    <3>1. who'[h] = e /\ loaded'[h] = users[e] /\ mine'[h] = users[e]
      BY <1>0, <2>3 DEF TypeOK
    <3>2. Whole(users[e])
      BY DEF SerialInv, LimitsMatchTier, Whole
    <3> QED BY <1>0, <2>1, <3>1, <3>2, SessionKeepsWhole
  <2> QED BY <1>2, <2>2, <2>3 DEF Take
<1>3. CASE FindByEmail(h)
  <2> DEFINE e == ev[h].mail
  <2>1. UNCHANGED users /\ e \in Emails
    BY <1>0, <1>3, HasEvent DEF FindByEmail, HandlerOK, dbVars
  <2>2. CASE users[e] = None
    <3>1. UNCHANGED rowVars
      BY <1>3, <2>2 DEF FindByEmail
    <3> QED BY <1>0, <2>1, <3>1, SessionKeepsWhole DEF rowVars, Fresh
  <2>3. CASE users[e] # None
    <3>1. /\ who'[h] = e
          /\ loaded'[h] = users[e]
          /\ mine'[h] = [users[e] EXCEPT !.whop = WhopOf(h)]
      BY <1>0, <1>3, <2>3 DEF FindByEmail, TypeOK
    <3>2. users[e] \in UserRow /\ Whole(users[e])
      BY <1>0, <2>1, <2>3 DEF TypeOK, SerialInv, LimitsMatchTier, Whole
    <3>3. Whole([users[e] EXCEPT !.whop = WhopOf(h)])
      BY <3>2 DEF Whole, UserRow
    <3> HIDE DEF e
    <3> QED BY <1>0, <2>1, <3>1, <3>2, <3>3, SessionKeepsWhole
  <2> QED BY <2>2, <2>3
<1>4. CASE UNCHANGED <<users, who, loaded, mine>>
  BY <1>0, <1>4, SessionKeepsWhole DEF Fresh
<1>5. CASE CreateUser(h) /\ step'[h] = "sub"
  <2>1. /\ UNCHANGED <<users, loaded>>
        /\ mine'[h] = NewUser(WhopOf(h)) /\ loaded[h] = None
    BY <1>0, <1>5 DEF CreateUser, Refuse, Close, dbVars, TypeOK, HandlerOK
  <2>2. Whole(NewUser(WhopOf(h)))
    BY <1>0, <1>5, HasEvent, NewWhole DEF CreateUser
  <2> QED BY <1>0, <2>1, <2>2, SessionKeepsWhole
<1>6. CASE FlushSub(h) /\ Upserts(ev[h])
  <2>1. /\ UNCHANGED <<users, who, loaded>> /\ step[h] = "flush"
        /\ mine' = [mine EXCEPT ![h] = ApplyTierLimits(@, ResolveTier(ev[h].plan))]
    BY <1>6 DEF FlushSub, dbVars
  <2>2. mine[h] \in UserRow /\ ResolveTier(ev[h].plan) \in TierNames
    BY <1>0, <1>6, <2>1, HasEvent, TierResolved DEF HandlerOK, TypeOK, Upserts, Event
  <2>3. mine'[h] = ApplyTierLimits(mine[h], ResolveTier(ev[h].plan))
    BY <1>0, <2>1 DEF TypeOK
  <2>4. Whole(mine'[h])
    BY <2>2, <2>3, AppliedWhole
  <2> QED BY <1>0, <2>1, <2>4, SessionKeepsWhole DEF Fresh
<1>7. CASE ReadOthers(h)
  <2>1. UNCHANGED <<users, who, loaded>> /\ mine[h] \in UserRow
    BY <1>0, <1>7 DEF ReadOthers, dbVars, HandlerOK, TypeOK
  <2>2. PICK t \in TierNames : mine' = [mine EXCEPT ![h] = ApplyTierLimits(@, t)]
    <3>1. "free" \in TierNames /\ \A m \in OtherActive(h) : Known(h, m).tier \in TierNames
      BY <1>0, KnownTyped, NoneIsNoRow DEF OtherActive, SubRow, TierNames
    <3> QED BY <1>7, <3>1 DEF ReadOthers
  <2>3. mine'[h] = ApplyTierLimits(mine[h], t)
    BY <1>0, <2>2 DEF TypeOK
  <2>4. Whole(mine'[h])
    BY <2>1, <2>2, <2>3, AppliedWhole
  <2> QED BY <1>0, <2>1, <2>4, SessionKeepsWhole DEF Fresh
<1>8. CASE Commit(h)
  <2>1. \A e \in Emails : Whole(users'[e])
    <3>1. CASE mine[h] = loaded[h]
      BY <1>8, <3>1 DEF Commit, SerialInv, LimitsMatchTier, Whole
    <3>2. CASE mine[h] # loaded[h]
      <4>1. who[h] \in Emails /\ mine[h] \in UserRow
        BY <1>0, <3>2 DEF HandlerOK, TypeOK
      <4>2. users' = [users EXCEPT ![who[h]] = mine[h]]
        <5>1. CASE loaded[h] = None
          BY <1>8, <3>2, <5>1 DEF Commit
        <5>2. CASE loaded[h] # None
          <6>1. loaded[h] \in UserRow /\ users[who[h]] = loaded[h]
            BY <1>0, <5>2 DEF TypeOK, Fresh
          <6>2. SaveUser(users[who[h]], loaded[h], mine[h]) = mine[h]
            BY <4>1, <6>1, SavedWhole
          <6> QED BY <1>0, <1>8, <3>2, <5>2, <6>2 DEF Commit, TypeOK
        <5> QED BY <5>1, <5>2
      <4> QED BY <1>0, <4>1, <4>2 DEF SerialInv, LimitsMatchTier, Whole, TypeOK
    <3> QED BY <3>1, <3>2
  <2>2. loaded'[h] = None /\ mine'[h] = None
    BY <1>0, <1>8 DEF Commit, Close, TypeOK
  <2>3. \A g \in Handlers : Whole(loaded'[g]) /\ Whole(mine'[g]) /\ Fresh(g)'
    BY <2>2 DEF Whole, Fresh
  <2> QED BY <2>1, <2>3 DEF SerialInv, LimitsMatchTier, Whole
<1>9. CASE Link(h)
  BY <1>1, <1>4, <1>9 DEF Link, Refuse, dbVars, rowVars
<1>10. CASE ReadSub(h)
  BY <1>4, <1>10 DEF ReadSub, dbVars, rowVars
<1>11. CASE FlushSub(h) /\ ~Upserts(ev[h])
  BY <1>4, <1>11 DEF FlushSub, dbVars
<1>12. CASE CreateUser(h) /\ Close(h)
  BY <1>1, <1>12 DEF CreateUser, Close, dbVars, Refuse
<1>13. CASE DuplicateSub(h) \/ TooManyOthers(h) \/ BreakDeadlock(h)
  BY <1>1, <1>13 DEF DuplicateSub, TooManyOthers, BreakDeadlock, Refuse, dbVars
<1>14. CreateUser(h) => Close(h) \/ step'[h] = "sub"
  BY <1>0 DEF CreateUser, Refuse, TypeOK
<1>15. CASE LoadSubs(h)
  BY <1>4, <1>15 DEF LoadSubs, dbVars, rowVars
<1> QED BY <1>2, <1>3, <1>5, <1>6, <1>7, <1>8, <1>9, <1>10, <1>11, <1>12, <1>13, <1>14, <1>15
        DEF HandlerStep

LEMMA SerialInvCorrect ==
    ASSUME \A g, h \in Handlers : g = h
    PROVE  Spec => []SerialInv
<1>1. Init => SerialInv
  BY DEF Init, SerialInv, LimitsMatchTier, Whole, Fresh
<1>2. TypeInv /\ SerialInv /\ [Next]_vars => SerialInv'
  <2> SUFFICES ASSUME TypeInv, SerialInv, [Next]_vars PROVE SerialInv'
    OBVIOUS
  <2>1. ASSUME NEW h \in Handlers, HandlerStep(h) PROVE SerialInv'
    BY <2>1, WholeStep
  <2>2. ASSUME NEW h \in Handlers, DatabaseFails(h) PROVE SerialInv'
    <3>1. /\ loaded'[h] = None /\ mine'[h] = None /\ UNCHANGED users /\ TypeOK
      BY <2>2 DEF DatabaseFails, Close, dbVars, TypeInv, TypeOK
    <3>2. Whole(loaded'[h]) /\ Whole(mine'[h])
      BY <3>1 DEF Whole
    <3> QED BY <3>1, <3>2, SessionKeepsWhole
  <2>3. ASSUME NEW w \in Whops, NEW e \in MailsOf[w], Register(e) PROVE SerialInv'
    <3>1. /\ users' = [users EXCEPT ![e] = NewUser(None)]
          /\ users[e] = None
          /\ UNCHANGED <<who, loaded, mine>>
      BY <2>3 DEF Register, txVars, rowVars
    <3>2. Whole(NewUser(None))
      BY NewWhole
    <3>3. \A h \in Handlers : loaded[h] # None => users'[who[h]] = users[who[h]]
      BY <3>1 DEF TypeInv, TypeOK, HandlerOK
    <3>4. \A h \in Handlers : Whole(loaded'[h]) /\ Whole(mine'[h]) /\ Fresh(h)'
      BY <3>1, <3>3 DEF SerialInv, Fresh
    <3>5. \A f \in Emails : Whole(users'[f])
      BY <3>1, <3>2 DEF SerialInv, LimitsMatchTier, Whole, TypeInv, TypeOK
    <3> QED BY <3>4, <3>5 DEF SerialInv, LimitsMatchTier, Whole
  <2>4. WhopStep => UNCHANGED <<users, who, loaded, mine>>
    BY DEF WhopStep, Activate, ChangePlan, Expire, FailPayment, Send, dbVars, txVars, rowVars
  <2>5. CASE UNCHANGED <<users, who, loaded, mine>>
    BY <2>5 DEF SerialInv, LimitsMatchTier, Whole, Fresh
  <2>6. UNCHANGED vars => UNCHANGED <<users, who, loaded, mine>>
    BY DEF vars
  <2> QED BY <2>1, <2>2, <2>3, <2>4, <2>5, <2>6 DEF Next
<1> QED BY <1>1, <1>2, TypeInvCorrect, PTL DEF Spec

(***************************************************************************)
(* While deliveries do not overlap, both limits of a users row belong to   *)
(* its tier, whatever was registered, refused or rolled back meanwhile     *)
(* (whop.py:45, _apply_tier_limits; with overlap max_pairs may stay        *)
(* behind).                                                                *)
(***************************************************************************)
THEOREM SerialLimitsCorrect ==
    ASSUME \A g, h \in Handlers : g = h
    PROVE  Spec => []LimitsMatchTier
<1>1. SerialInv => LimitsMatchTier
  BY DEF SerialInv
<1>2. Spec => []SerialInv
  BY SerialInvCorrect
<1> QED BY <1>1, <1>2, PTL

-----------------------------------------------------------------------------
(***************************************************************************)
(* OneAccount.  A handler that is going to link a row at its commit holds  *)
(* the lock of that row and, through the unique index, of the link: at     *)
(* most one handler links an account and at most one handler links a row,  *)
(* and while it does no other row can get that link.  A session that found *)
(* its row linked may lose the link before its commit, and then the        *)
(* account is among the displaced.                                         *)
(***************************************************************************)
Linking(h) == /\ who[h] # None /\ step[h] \notin {"eager", "link"}
              /\ loaded[h] = None \/ loaded[h].whop # WhopOf(h)

LinkFree(h) ==
    /\ "user" \in locks[h]
    /\ \A e \in Emails \ {who[h]} : users[e] # None => users[e].whop # WhopOf(h)
    /\ loaded[h] = None => users[who[h]] = None

LinkedOrLost(e, w) == users[e].whop = w \/ w \in displaced

SessionOK(h) ==
    /\ who[h] # None => mine[h].whop = WhopOf(h)
    /\ loaded[h] # None /\ loaded[h].whop # None => LinkedOrLost(who[h], loaded[h].whop)
    /\ step[h] \in {"eager", "link"} => loaded[h] # None
    /\ step[h] \in {"idle", "email", "eager", "link", "create"} => subMine[h] = None
    /\ Linking(h) => LinkFree(h)
    /\ subMine[h] # None /\ subLoaded[h] = None => who[h] # None /\ subMine[h].user = who[h]

OneLinker == \A g, h \in Handlers :
    /\ Linking(g) /\ Linking(h)
    /\ WhopOf(g) = WhopOf(h) \/ who[g] = who[h]
    => g = h

AccountInv == /\ OneAccount
              /\ OneLinker
              /\ \A h \in Handlers : SessionOK(h)

(***************************************************************************)
(* A step of h that writes nothing to the database.                        *)
(***************************************************************************)
SameSession(g) ==
    /\ step'[g] = step[g] /\ ev'[g] = ev[g] /\ who'[g] = who[g] /\ loaded'[g] = loaded[g]
    /\ mine'[g] = mine[g] /\ subLoaded'[g] = subLoaded[g] /\ subMine'[g] = subMine[g]
    /\ locks'[g] = locks[g]

LEMMA SessionStep ==
    ASSUME AccountInv, NEW h \in Handlers, UNCHANGED dbVars,
           \A g \in Handlers \ {h} : SameSession(g),
           SessionOK(h)',
           \A g \in Handlers \ {h} :
              Linking(h)' /\ Linking(g) => WhopOf(g) # WhopOf(h)' /\ who[g] # who'[h]
    PROVE  AccountInv'
<1>1. OneAccount'
  BY DEF AccountInv, OneAccount, dbVars
<1>2. ASSUME NEW g \in Handlers \ {h}
      PROVE  /\ Linking(g)' <=> Linking(g)
             /\ WhopOf(g)' = WhopOf(g) /\ who'[g] = who[g]
             /\ SessionOK(g)'
  BY <1>2 DEF AccountInv, SameSession, SessionOK, LinkedOrLost, Linking, LinkFree, WhopOf,
              MemberOf, dbVars
<1>3. OneLinker'
  <2> SUFFICES ASSUME NEW f \in Handlers, NEW g \in Handlers, Linking(f)', Linking(g)',
                      WhopOf(f)' = WhopOf(g)' \/ who'[f] = who'[g]
               PROVE  f = g
    BY DEF OneLinker
  <2>1. CASE f # h /\ g # h
    BY <1>2, <2>1 DEF AccountInv, OneLinker
  <2>2. CASE f = h \/ g = h
    BY <1>2, <2>2
  <2> QED BY <2>1, <2>2
<1> QED BY <1>1, <1>2, <1>3 DEF AccountInv

LEMMA ClosedSession ==
    ASSUME TypeInv, AccountInv, NEW h \in Handlers, Close(h), UNCHANGED dbVars
    PROVE  AccountInv'
<1>1. \A g \in Handlers \ {h} : SameSession(g)
  BY DEF Close, SameSession, TypeInv, TypeOK
<1>2. SessionOK(h)' /\ ~Linking(h)'
  BY DEF Close, SessionOK, Linking, TypeInv, TypeOK
<1> QED BY <1>1, <1>2, SessionStep

(***************************************************************************)
(* Finding the account.                                                    *)
(***************************************************************************)
LEMMA TakeKeepsAccounts ==
    ASSUME TypeInv, AccountInv, NEW h \in Handlers, Take(h)
    PROVE  AccountInv'
<1> USE NoneIsNoRow
<1>0. TypeOK /\ HandlerOK(h)
  BY DEF TypeInv
<1>1. /\ step[h] = "idle" /\ UNCHANGED <<dbVars, subVars, locks>>
      /\ who[h] = None /\ loaded[h] = None /\ subLoaded[h] = None
  BY <1>0 DEF Take, HandlerOK, TypeOK
<1>2. PICK i \in DOMAIN queue :
         /\ ev' = [ev EXCEPT ![h] = queue[i]]
         /\ LET w == OwnerOf[queue[i].member] IN
            \/ \E e \in Emails :
                  /\ users[e] # None /\ users[e].whop = w
                  /\ who' = [who EXCEPT ![h] = e]
                  /\ loaded' = [loaded EXCEPT ![h] = users[e]]
                  /\ mine' = [mine EXCEPT ![h] = users[e]]
                  /\ step' = [step EXCEPT ![h] = "eager"]
            \/ /\ step' = [step EXCEPT ![h] = NoUserStep(queue[i])]
               /\ UNCHANGED rowVars
  BY DEF Take
<1>3. \A g \in Handlers \ {h} : SameSession(g)
  BY <1>0, <1>1, <1>2 DEF SameSession, TypeOK, rowVars, subVars
<1>4. WhopOf(h)' = OwnerOf[queue[i].member]
  BY <1>0, <1>2 DEF TypeOK, WhopOf, MemberOf
<1>6. subMine[h] = None
  BY <1>1 DEF AccountInv, SessionOK
<1>7. ~Linking(h)' /\ SessionOK(h)'
  <2>1. CASE UNCHANGED rowVars /\ step' = [step EXCEPT ![h] = NoUserStep(queue[i])]
    <3>1. step'[h] \notin {"eager", "link"}
      BY <1>0, <2>1 DEF TypeOK, NoUserStep
    <3>2. who'[h] = None /\ loaded'[h] = None /\ subMine'[h] = None
      BY <1>1, <1>6, <2>1 DEF rowVars, subVars
    <3> QED BY <3>1, <3>2 DEF Linking, SessionOK
  <2>2. ASSUME NEW e \in Emails, users[e] # None, users[e].whop = OwnerOf[queue[i].member],
               who' = [who EXCEPT ![h] = e],
               loaded' = [loaded EXCEPT ![h] = users[e]],
               mine' = [mine EXCEPT ![h] = users[e]],
               step' = [step EXCEPT ![h] = "eager"]
        PROVE  ~Linking(h)' /\ SessionOK(h)'
    <3>1. /\ who'[h] = e /\ loaded'[h] = users[e] /\ mine'[h] = users[e]
          /\ step'[h] = "eager" /\ subMine'[h] = None /\ users' = users
      BY <1>0, <1>1, <1>6, <2>2 DEF TypeOK, subVars, dbVars
    <3> QED BY <1>4, <2>2, <3>1 DEF Linking, SessionOK, LinkedOrLost
  <2> QED BY <1>2, <2>1, <2>2
<1> QED BY <1>1, <1>3, <1>7, SessionStep

LEMMA FindKeepsAccounts ==
    ASSUME TypeInv, AccountInv, NEW h \in Handlers, FindByEmail(h)
    PROVE  AccountInv'
<1> USE NoneIsNoRow
<1> DEFINE e == ev[h].mail
<1>0. TypeOK /\ HandlerOK(h) /\ SessionOK(h)
  BY DEF TypeInv, AccountInv
<1>1. /\ step[h] = "email" /\ UNCHANGED <<dbVars, ev, subVars, locks>>
      /\ e \in Emails /\ WhopOf(h) \in Whops /\ WhopOf(h)' = WhopOf(h)
  BY <1>0, HasEvent DEF FindByEmail, HandlerOK, WhopOf, MemberOf
<1>2. who[h] = None /\ loaded[h] = None /\ subMine[h] = None
  BY <1>0, <1>1 DEF HandlerOK, SessionOK
<1>3. CASE users[e] = None
  <2>1. step' = [step EXCEPT ![h] = "create"] /\ UNCHANGED rowVars
    BY <1>3 DEF FindByEmail
  <2>2. \A g \in Handlers \ {h} : SameSession(g)
    BY <1>0, <1>1, <2>1 DEF SameSession, TypeOK, rowVars, subVars
  <2>3. /\ who'[h] = None /\ loaded'[h] = None /\ subMine'[h] = None
        /\ step'[h] = "create"
    BY <1>0, <1>1, <1>2, <2>1 DEF TypeOK, rowVars, subVars
  <2>4. SessionOK(h)' /\ ~Linking(h)'
    BY <2>3 DEF SessionOK, Linking
  <2> QED BY <1>1, <2>2, <2>4, SessionStep
<1>4. CASE users[e] # None
  <2>1. /\ step' = [step EXCEPT ![h] = "eager"]
        /\ who' = [who EXCEPT ![h] = e]
        /\ loaded' = [loaded EXCEPT ![h] = users[e]]
        /\ mine' = [mine EXCEPT ![h] = [users[e] EXCEPT !.whop = WhopOf(h)]]
    BY <1>4 DEF FindByEmail
  <2>2. \A g \in Handlers \ {h} : SameSession(g)
    BY <1>0, <1>1, <2>1 DEF SameSession, TypeOK, subVars
  <2>3. [users[e] EXCEPT !.whop = WhopOf(h)].whop = WhopOf(h)
    BY <1>0, <1>1, <1>4 DEF TypeOK, UserRow
  <2>4. /\ who'[h] = e /\ loaded'[h] = users[e] /\ subMine'[h] = None
        /\ step'[h] = "eager" /\ mine'[h].whop = WhopOf(h) /\ users' = users
    BY <1>0, <1>1, <1>2, <2>1, <2>3 DEF TypeOK, subVars, dbVars
  <2>5. SessionOK(h)' /\ ~Linking(h)'
    BY <1>1, <1>4, <2>4 DEF SessionOK, LinkedOrLost, Linking
  <2> QED BY <1>1, <2>2, <2>5, SessionStep
<1> QED BY <1>3, <1>4

LEMMA LoadKeepsAccounts ==
    ASSUME TypeInv, AccountInv, NEW h \in Handlers, LoadSubs(h)
    PROVE  AccountInv'
<1>0. TypeOK /\ HandlerOK(h) /\ SessionOK(h)
  BY DEF TypeInv, AccountInv
<1>1. /\ who[h] # None /\ loaded[h] # None
      /\ mine[h].whop = WhopOf(h) /\ subMine[h] = None
  BY <1>0 DEF LoadSubs, SessionOK, HandlerOK
<1>2. /\ step' = [step EXCEPT ![h] = IF mine[h] = loaded[h] THEN "sub" ELSE "link"]
      /\ UNCHANGED <<dbVars, ev, rowVars, subLoaded, subMine, locks>>
  BY DEF LoadSubs
<1>3. \A g \in Handlers \ {h} : SameSession(g)
  BY <1>0, <1>2 DEF SameSession, TypeOK, rowVars
<1>4. ~Linking(h)' /\ SessionOK(h)'
  <2>1. /\ step'[h] \in {"sub", "link"} /\ (step'[h] = "sub" => mine[h] = loaded[h])
        /\ UNCHANGED <<users, displaced, ev, who, loaded, mine, subLoaded, subMine>>
        /\ WhopOf(h)' = WhopOf(h)
    BY <1>0, <1>2 DEF TypeOK, dbVars, rowVars, WhopOf, MemberOf
  <2>2. ~Linking(h)'
    BY <1>1, <2>1 DEF Linking
  <2> QED BY <1>0, <1>1, <2>1, <2>2 DEF SessionOK, LinkedOrLost
<1> QED BY <1>2, <1>3, <1>4, SessionStep

LEMMA LinkKeepsAccounts ==
    ASSUME TypeInv, AccountInv, NEW h \in Handlers, Link(h)
    PROVE  AccountInv'
<1> USE NoneIsNoRow
<1>0. TypeOK /\ HandlerOK(h) /\ SessionOK(h)
  BY DEF TypeInv, AccountInv
<1>1. /\ step[h] = "link" /\ who[h] # None /\ loaded[h] # None
      /\ mine[h].whop = WhopOf(h) /\ subMine[h] = None
  BY <1>0 DEF Link, SessionOK, HandlerOK, TypeOK
<1>2. CASE Refuse(h)
  BY <1>2, ClosedSession DEF Refuse
<1>3. CASE ~Refuse(h)
  <2>1. /\ step' = [step EXCEPT ![h] = "sub"]
        /\ locks' = [locks EXCEPT ![h] = @ \union {"user"}]
        /\ UNCHANGED <<dbVars, ev, rowVars, subVars>>
        /\ ~RowBusy(h, who[h]) /\ ~LinkBusy(h, WhopOf(h))
        /\ \A e \in Emails \ {who[h]} : users[e] # None => users[e].whop # WhopOf(h)
    BY <1>3 DEF Link
  <2>2. \A g \in Handlers \ {h} : SameSession(g)
    BY <1>0, <2>1 DEF SameSession, TypeOK, rowVars, subVars
  <2>3. /\ who'[h] = who[h] /\ loaded'[h] = loaded[h] /\ mine'[h] = mine[h]
        /\ subMine'[h] = None /\ step'[h] = "sub" /\ users' = users /\ displaced' = displaced
        /\ "user" \in locks'[h] /\ WhopOf(h)' = WhopOf(h)
    BY <1>0, <1>1, <2>1 DEF TypeOK, rowVars, subVars, dbVars, WhopOf, MemberOf
  <2>4. LinkFree(h)'
    BY <1>1, <2>1, <2>3 DEF LinkFree
  <2>5. SessionOK(h)'
    BY <1>0, <1>1, <2>3, <2>4 DEF SessionOK, LinkedOrLost
  <2>6. ASSUME NEW g \in Handlers \ {h}, Linking(g)
        PROVE  WhopOf(g) # WhopOf(h)' /\ who[g] # who'[h]
    <3>1. "user" \in locks[g] /\ mine[g].whop = WhopOf(g)
      BY <2>6 DEF AccountInv, SessionOK, Linking, LinkFree
    <3> QED BY <2>1, <2>3, <3>1 DEF LinkBusy, RowBusy
  <2> QED BY <2>1, <2>2, <2>5, <2>6, SessionStep
<1> QED BY <1>2, <1>3

LEMMA CreateKeepsAccounts ==
    ASSUME TypeInv, AccountInv, NEW h \in Handlers, CreateUser(h)
    PROVE  AccountInv'
<1> USE NoneIsNoRow
<1> DEFINE e == IF ev[h].mail # None THEN ev[h].mail ELSE PlaceholderOf[WhopOf(h)]
<1>0. TypeOK /\ HandlerOK(h) /\ SessionOK(h)
  BY DEF TypeInv, AccountInv
<1>1. CASE Refuse(h)
  BY <1>1, ClosedSession DEF Refuse
<1>2. CASE ~Refuse(h)
  <2>1. /\ step[h] = "create" /\ who[h] = None /\ loaded[h] = None /\ subMine[h] = None
        /\ e \in Emails /\ WhopOf(h) \in Whops
    BY <1>0, HasEvent DEF CreateUser, HandlerOK, SessionOK
  <2>2. /\ users[e] = None /\ ~Linked(WhopOf(h))
        /\ ~RowBusy(h, e) /\ ~LinkBusy(h, WhopOf(h))
        /\ step' = [step EXCEPT ![h] = "sub"]
        /\ who' = [who EXCEPT ![h] = e]
        /\ mine' = [mine EXCEPT ![h] = NewUser(WhopOf(h))]
        /\ locks' = [locks EXCEPT ![h] = @ \union {"user"}]
        /\ UNCHANGED <<dbVars, ev, loaded, subVars>>
    BY <1>2 DEF CreateUser
  <2> HIDE DEF e
  <2>3. \A g \in Handlers \ {h} : SameSession(g)
    BY <1>0, <2>2 DEF SameSession, TypeOK, subVars
  <2>4. /\ who'[h] = e /\ loaded'[h] = None /\ mine'[h].whop = WhopOf(h)
        /\ subMine'[h] = None /\ step'[h] = "sub" /\ users' = users
        /\ "user" \in locks'[h] /\ WhopOf(h)' = WhopOf(h)
    BY <1>0, <2>1, <2>2 DEF TypeOK, subVars, dbVars, WhopOf, MemberOf, NewUser
  <2>5. LinkFree(h)'
    BY <2>2, <2>4 DEF LinkFree, Linked
  <2>6. SessionOK(h)'
    BY <2>1, <2>4, <2>5 DEF SessionOK
  <2>7. ASSUME NEW g \in Handlers \ {h}, Linking(g)
        PROVE  WhopOf(g) # WhopOf(h)' /\ who[g] # who'[h]
    <3>1. "user" \in locks[g] /\ mine[g].whop = WhopOf(g)
      BY <2>7 DEF AccountInv, SessionOK, Linking, LinkFree
    <3> QED BY <2>2, <2>4, <3>1 DEF LinkBusy, RowBusy
  <2> QED BY <2>2, <2>3, <2>6, <2>7, SessionStep
<1> QED BY <1>1, <1>2

(***************************************************************************)
(* The subscription.                                                       *)
(***************************************************************************)
LEMMA SubKeepsAccounts ==
    ASSUME TypeInv, AccountInv, NEW h \in Handlers,
           ReadSub(h) \/ FlushSub(h) \/ DuplicateSub(h) \/ ReadOthers(h) \/ TooManyOthers(h)
    PROVE  AccountInv'
<1> USE NoneIsNoRow
<1>0. TypeOK /\ HandlerOK(h) /\ SessionOK(h)
  BY DEF TypeInv, AccountInv
<1>1. CASE DuplicateSub(h) \/ TooManyOthers(h)
  BY <1>1, ClosedSession DEF DuplicateSub, TooManyOthers, Refuse
<1>2. CASE ReadSub(h) \/ FlushSub(h) \/ ReadOthers(h)
  <2>1. /\ UNCHANGED <<dbVars, ev, who, loaded>>
        /\ step[h] \in {"sub", "flush", "others"}
        /\ step'[h] \in {"flush", "others", "commit"}
        /\ locks[h] \subseteq locks'[h]
    BY <1>0, <1>2 DEF ReadSub, FlushSub, ReadOthers, rowVars, TypeOK
  <2>2. \A g \in Handlers \ {h} : SameSession(g)
    BY <1>0, <1>2 DEF ReadSub, FlushSub, ReadOthers, SameSession, rowVars, subVars, TypeOK
  <2>3. who[h] # None => mine'[h].whop = mine[h].whop
    <3>1. ASSUME NEW t, who[h] # None
          PROVE  ApplyTierLimits(mine[h], t).whop = mine[h].whop
      BY <1>0, <3>1 DEF ApplyTierLimits, TypeOK, UserRow
    <3> QED BY <1>0, <1>2, <3>1 DEF ReadSub, FlushSub, ReadOthers, rowVars, TypeOK
  <2>4. subMine'[h] # None /\ subLoaded'[h] = None
        => who[h] # None /\ subMine'[h].user = who[h]
    <3>1. CASE ReadSub(h)
      <4>1. CASE Upserts(ev[h])
        <5>1. who[h] # None
          BY <1>0, <3>1, <4>1 DEF ReadSub, HandlerOK, Upserts
        <5> QED BY <1>0, <3>1, <4>1, <5>1 DEF ReadSub, TypeOK
      <4>2. CASE ~Upserts(ev[h])
        BY <1>0, <3>1, <4>2 DEF ReadSub, TypeOK
      <4> QED BY <4>1, <4>2
    <3>2. CASE FlushSub(h) \/ ReadOthers(h)
      BY <1>0, <3>2 DEF FlushSub, ReadOthers, subVars, SessionOK
    <3> QED BY <1>2, <3>1, <3>2
  <2>5. Linking(h)' <=> Linking(h)
    BY <2>1 DEF Linking, WhopOf, MemberOf
  <2>6. SessionOK(h)'
    <3>1. WhopOf(h)' = WhopOf(h) /\ users' = users /\ displaced' = displaced
      BY <2>1 DEF WhopOf, MemberOf, dbVars
    <3>2. Linking(h)' => LinkFree(h)'
      BY <1>0, <2>1, <2>5, <3>1 DEF SessionOK, LinkFree
    <3> QED BY <1>0, <2>1, <2>3, <2>4, <3>1, <3>2 DEF SessionOK, LinkedOrLost
  <2>7. ASSUME NEW g \in Handlers \ {h}, Linking(h)', Linking(g)
        PROVE  WhopOf(g) # WhopOf(h)' /\ who[g] # who'[h]
    BY <2>1, <2>5, <2>7 DEF AccountInv, OneLinker, WhopOf, MemberOf
  <2> QED BY <2>1, <2>2, <2>6, <2>7, SessionStep
<1> QED BY <1>1, <1>2

(***************************************************************************)
(* A commit.  It keeps every row, writes a link only if the handler was    *)
(* linking, leaves the handler's row linked to its account unless that has *)
(* been displaced, and records the account it displaces.                   *)
(***************************************************************************)
LEMMA CommitLinks ==
    ASSUME TypeInv, AccountInv, NEW h \in Handlers, Commit(h)
    PROVE  /\ \A e \in Emails :
                 \/ users'[e] = users[e]
                 \/ /\ users[e] # None /\ users'[e] # None
                    /\ users'[e].whop = users[e].whop
                 \/ /\ e = who[h] /\ Linking(h) /\ users'[e] # None
                    /\ users'[e].whop = WhopOf(h)
           /\ who[h] # None => /\ users'[who[h]] # None
                               /\ \/ users'[who[h]].whop = WhopOf(h)
                                  \/ WhopOf(h) \in displaced
<1> USE NoneIsNoRow
<1>0. TypeOK /\ HandlerOK(h) /\ SessionOK(h) /\ step[h] = "commit"
  BY DEF TypeInv, AccountInv, Commit
<1>1. CASE mine[h] = loaded[h]
  <2>1. users' = users
    BY <1>1 DEF Commit
  <2>2. WhopOf(h) # None
    BY <1>0, HasEvent
  <2>3. who[h] # None => LinkedOrLost(who[h], WhopOf(h)) /\ users[who[h]] # None
    BY <1>0, <1>1, <2>2 DEF SessionOK, HandlerOK, TypeOK
  <2> QED BY <2>1, <2>3 DEF LinkedOrLost
<1>2. CASE mine[h] # loaded[h] /\ loaded[h] = None
  <2>1. /\ who[h] \in Emails /\ mine[h] \in UserRow /\ mine[h].whop = WhopOf(h)
    BY <1>0, <1>2 DEF TypeOK, SessionOK
  <2>2. users' = [users EXCEPT ![who[h]] = mine[h]] /\ Linking(h)
    BY <1>0, <1>2, <2>1 DEF Commit, Linking
  <2> QED BY <1>0, <2>1, <2>2 DEF TypeOK
<1>3. CASE mine[h] # loaded[h] /\ loaded[h] # None
  <2> DEFINE row == SaveUser(users[who[h]], loaded[h], mine[h])
  <2>1. /\ who[h] \in Emails /\ loaded[h] \in UserRow /\ mine[h] \in UserRow
        /\ users[who[h]] \in UserRow /\ mine[h].whop = WhopOf(h)
    BY <1>0, <1>3 DEF TypeOK, HandlerOK, SessionOK
  <2>2. users' = [users EXCEPT ![who[h]] = row]
    BY <1>0, <1>3, <2>1 DEF Commit, TypeOK
  <2>3. row \in UserRow
    BY <2>1, SaveUserTyped
  <2>4. row.whop = IF WhopOf(h) # loaded[h].whop THEN WhopOf(h) ELSE users[who[h]].whop
    BY <2>1 DEF SaveUser, Column
  <2>5. users'[who[h]] = row /\ \A e \in Emails \ {who[h]} : users'[e] = users[e]
    BY <1>0, <2>1, <2>2 DEF TypeOK
  <2> HIDE DEF row
  <2>6. CASE WhopOf(h) # loaded[h].whop
    BY <1>0, <2>1, <2>3, <2>4, <2>5, <2>6 DEF Linking
  <2>7. CASE WhopOf(h) = loaded[h].whop
    <3>1. WhopOf(h) # None
      BY <1>0, HasEvent
    <3>2. users[who[h]].whop = WhopOf(h) \/ WhopOf(h) \in displaced
      BY <1>0, <1>3, <2>7, <3>1 DEF SessionOK, LinkedOrLost
    <3> QED BY <2>1, <2>3, <2>4, <2>5, <2>7, <3>2
  <2> QED BY <2>6, <2>7
<1> QED BY <1>1, <1>2, <1>3

LEMMA CommitDisplaces ==
    ASSUME TypeInv, AccountInv, NEW h \in Handlers, Commit(h),
           NEW e \in Emails, users[e] # None, users[e].whop # None
    PROVE  /\ users'[e] # None
           /\ users'[e].whop = users[e].whop \/ users[e].whop \in displaced'
<1>0. TypeOK /\ OneAccount
  BY DEF TypeInv, AccountInv
<1>1. PICK w \in Whops : w = users[e].whop /\ Linked(w)
  BY <1>0 DEF TypeOK, UserRow, Linked
<1>2. CASE e = who[h] /\ Linking(h) /\ users'[e] # None /\ users'[e].whop = WhopOf(h)
  <2>1. CASE w # WhopOf(h)
    <3>1. ASSUME NEW f \in Emails, users'[f] # None, users'[f].whop = w
          PROVE  FALSE
      <4>1. f # e
        BY <1>2, <2>1, <3>1
      <4>2. users[f] # None /\ users[f].whop = w
        BY <1>2, <2>1, <3>1, <4>1, CommitLinks
      <4> QED BY <1>0, <1>1, <4>1, <4>2 DEF OneAccount
    <3>2. ~Linked(w)'
      BY <3>1 DEF Linked
    <3>3. w \in {v \in Whops : Linked(v) /\ ~Linked(v)'}
      BY <1>1, <3>2
    <3>4. w \in displaced'
      BY <3>3 DEF Commit
    <3> QED BY <1>1, <1>2, <3>4
  <2> QED BY <1>1, <1>2, <2>1
<1> QED BY <1>2, CommitLinks

LEMMA CommitSubs ==
    ASSUME TypeInv, AccountInv, NEW h \in Handlers, Commit(h),
           NEW m \in Members, subs'[m] # None
    PROVE  \/ subs[m] # None /\ subs'[m].user = subs[m].user
           \/ m = MemberOf(h) /\ who[h] # None /\ subs'[m].user = who[h]
<1> USE NoneIsNoRow
<1>0. TypeOK /\ HandlerOK(h) /\ SessionOK(h)
  BY DEF TypeInv, AccountInv
<1>1. MemberOf(h) \in Members
  BY <1>0, HasEvent DEF Commit
<1>2. CASE subMine[h] = subLoaded[h] \/ m # MemberOf(h)
  BY <1>0, <1>1, <1>2 DEF Commit, TypeOK
<1>3. CASE subMine[h] # subLoaded[h] /\ m = MemberOf(h) /\ subLoaded[h] = None
  <2>1. subs'[m] = subMine[h]
    BY <1>0, <1>1, <1>3 DEF Commit, TypeOK
  <2> QED BY <1>0, <1>3, <2>1 DEF SessionOK
<1>4. CASE subMine[h] # subLoaded[h] /\ m = MemberOf(h) /\ subLoaded[h] # None
  <2>1. subs'[m] = SaveSub(subs[m], subLoaded[h], subMine[h])
    BY <1>0, <1>1, <1>4 DEF Commit, TypeOK
  <2>2. subs[m] # None
    BY <1>0, <1>4 DEF HandlerOK
  <2> QED BY <2>1, <2>2 DEF SaveSub
<1> QED BY <1>2, <1>3, <1>4

LEMMA CommitKeepsAccounts ==
    ASSUME TypeInv, AccountInv, NEW h \in Handlers, Commit(h)
    PROVE  AccountInv'
<1> USE NoneIsNoRow
<1>0. TypeOK /\ HandlerOK(h) /\ SessionOK(h) /\ step[h] = "commit"
  BY DEF TypeInv, AccountInv, Commit
<1>1. WhopOf(h) \in Whops /\ WhopOf(h) = OwnerOf[MemberOf(h)]
  BY <1>0, HasEvent DEF WhopOf
<1>2. displaced \subseteq displaced'
  BY DEF Commit
<1>3. Linking(h) => LinkFree(h)
  BY <1>0 DEF SessionOK
<1>4. OneAccount'
  <2>1. ASSUME NEW e \in Emails, NEW f \in Emails, users'[e] # None, users'[f] # None,
               users'[e].whop # None, users'[e].whop = users'[f].whop
        PROVE  e = f
    <3>1. CASE e = who[h] /\ Linking(h) /\ users'[e].whop = WhopOf(h)
      <4>1. CASE f # who[h]
        BY <1>3, <2>1, <3>1, <4>1, CommitLinks DEF LinkFree
      <4> QED BY <3>1, <4>1
    <3>2. CASE f = who[h] /\ Linking(h) /\ users'[f].whop = WhopOf(h)
      <4>1. CASE e # who[h]
        BY <1>3, <2>1, <3>2, <4>1, CommitLinks DEF LinkFree
      <4> QED BY <3>2, <4>1
    <3>3. CASE /\ ~(e = who[h] /\ Linking(h) /\ users'[e].whop = WhopOf(h))
               /\ ~(f = who[h] /\ Linking(h) /\ users'[f].whop = WhopOf(h))
      <4>1. /\ users[e] # None /\ users[f] # None
            /\ users'[e].whop = users[e].whop /\ users'[f].whop = users[f].whop
        BY <2>1, <3>3, CommitLinks
      <4> QED BY <2>1, <4>1 DEF AccountInv, OneAccount
    <3> QED BY <3>1, <3>2, <3>3
  <2>2. ASSUME NEW m \in Members, subs'[m] # None
        PROVE  /\ users'[subs'[m].user] # None
               /\ users'[subs'[m].user].whop = OwnerOf[m] \/ OwnerOf[m] \in displaced'
    <3>1. CASE m = MemberOf(h) /\ who[h] # None /\ subs'[m].user = who[h]
      BY <1>1, <1>2, <3>1, CommitLinks
    <3>2. CASE subs[m] # None /\ subs'[m].user = subs[m].user
      <4> DEFINE e == subs[m].user
      <4>1. /\ e \in Emails /\ OwnerOf[m] # None /\ users[e] # None
            /\ users[e].whop = OwnerOf[m] \/ OwnerOf[m] \in displaced
        BY <1>0, <3>2, ConstantsOK DEF AccountInv, OneAccount, TypeOK, SubRow
      <4>2. users'[e] # None
        BY <4>1, CommitLinks
      <4>3. CASE users[e].whop = OwnerOf[m]
        BY <3>2, <4>1, <4>3, CommitDisplaces
      <4>4. CASE OwnerOf[m] \in displaced
        BY <1>2, <3>2, <4>2, <4>4
      <4> QED BY <4>1, <4>3, <4>4
    <3> QED BY <2>2, <3>1, <3>2, CommitSubs
  <2> QED BY <2>1, <2>2 DEF OneAccount
<1>5. ASSUME NEW g \in Handlers \ {h}
      PROVE  SameSession(g) /\ WhopOf(g)' = WhopOf(g) /\ (Linking(g)' <=> Linking(g))
  BY <1>0, <1>5 DEF Commit, Close, SameSession, TypeOK, WhopOf, MemberOf, Linking
<1>6. SessionOK(h)' /\ ~Linking(h)'
  BY <1>0 DEF Commit, Close, SessionOK, Linking, TypeOK
<1>7. ASSUME NEW g \in Handlers \ {h}
      PROVE  SessionOK(g)'
  <2>1. SessionOK(g) /\ HandlerOK(g)
    BY DEF AccountInv, TypeInv
  <2>2. ASSUME loaded[g] # None, loaded[g].whop # None
        PROVE  LinkedOrLost(who[g], loaded[g].whop)'
    <3> DEFINE e == who[g]
               w == loaded[g].whop
    <3>1. /\ e \in Emails /\ users[e] # None
          /\ users[e].whop = w \/ w \in displaced
      BY <1>0, <2>1, <2>2 DEF SessionOK, HandlerOK, TypeOK, LinkedOrLost
    <3>2. users'[e].whop = w \/ w \in displaced'
      BY <1>2, <2>2, <3>1, CommitDisplaces
    <3> QED BY <1>5, <3>2 DEF LinkedOrLost, SameSession
  <2>3. ASSUME Linking(g)
        PROVE  LinkFree(g)'
    <3>1. LinkFree(g) /\ who[g] \in Emails
      BY <1>0, <2>1, <2>3 DEF SessionOK, Linking, TypeOK
    <3>2. Linking(h) => WhopOf(g) # WhopOf(h) /\ who[g] # who[h]
      BY <1>7, <2>3 DEF AccountInv, OneLinker
    <3>3. \A e \in Emails \ {who[g]} : users'[e] # None => users'[e].whop # WhopOf(g)
      BY <3>1, <3>2, CommitLinks DEF LinkFree
    <3>4. loaded[g] = None => users'[who[g]] = None
      BY <3>1, <3>2, CommitLinks DEF LinkFree
    <3> QED BY <1>5, <3>1, <3>3, <3>4 DEF LinkFree, SameSession
  <2> QED BY <1>5, <2>1, <2>2, <2>3 DEF SessionOK, SameSession
<1>8. OneLinker'
  <2> SUFFICES ASSUME NEW f \in Handlers, NEW g \in Handlers, Linking(f)', Linking(g)',
                      WhopOf(f)' = WhopOf(g)' \/ who'[f] = who'[g]
               PROVE  f = g
    BY DEF OneLinker
  <2>1. f # h /\ g # h
    BY <1>6
  <2> QED BY <1>5, <2>1 DEF AccountInv, OneLinker, SameSession
<1> QED BY <1>4, <1>6, <1>7, <1>8 DEF AccountInv

LEMMA RegisterKeepsAccounts ==
    ASSUME TypeInv, AccountInv, NEW w \in Whops, NEW new \in MailsOf[w], Register(new)
    PROVE  AccountInv'
<1> USE NoneIsNoRow
<1>0. TypeOK
  BY DEF TypeInv
<1>1. /\ new \in Emails /\ users[new] = None
      /\ users' = [users EXCEPT ![new] = NewUser(None)]
      /\ \A g \in Handlers : "user" \in locks[g] => who[g] # new
      /\ UNCHANGED <<subs, displaced, step, ev, who, loaded, mine, subLoaded, subMine, locks>>
  BY ConstantsOK DEF Register, txVars, rowVars, subVars
<1>2. NewUser(None).whop = None /\ NewUser(None) # None
  BY NewUserTyped DEF NewUser
<1>3. /\ users'[new] # None /\ users'[new].whop = None
      /\ \A e \in Emails \ {new} : users'[e] = users[e]
  BY <1>0, <1>1, <1>2 DEF TypeOK
<1>4. OneAccount'
  <2>1. \A e, f \in Emails :
           users'[e] # None /\ users'[f] # None /\ users'[e].whop # None
           /\ users'[e].whop = users'[f].whop => e = f
    BY <1>1, <1>3 DEF AccountInv, OneAccount
  <2>2. ASSUME NEW m \in Members, subs'[m] # None
        PROVE  /\ users'[subs'[m].user] # None
               /\ users'[subs'[m].user].whop = OwnerOf[m] \/ OwnerOf[m] \in displaced'
    <3>1. subs[m].user \in Emails /\ subs[m].user # new
      BY <1>0, <1>1, <2>2 DEF TypeOK, SubRow, AccountInv, OneAccount
    <3> QED BY <1>1, <1>3, <2>2, <3>1 DEF AccountInv, OneAccount
  <2> QED BY <2>1, <2>2 DEF OneAccount
<1>5. \A g \in Handlers : WhopOf(g)' = WhopOf(g) /\ (Linking(g)' <=> Linking(g))
  BY <1>1 DEF WhopOf, MemberOf, Linking
<1>6. OneLinker'
  BY <1>1, <1>5 DEF AccountInv, OneLinker
<1>7. ASSUME NEW g \in Handlers
      PROVE  SessionOK(g)'
  <2>1. SessionOK(g) /\ HandlerOK(g)
    BY DEF AccountInv, TypeInv
  <2>2. loaded[g] # None /\ loaded[g].whop # None => LinkedOrLost(who[g], loaded[g].whop)'
    BY <1>0, <1>1, <1>3, <2>1 DEF SessionOK, HandlerOK, TypeOK, LinkedOrLost
  <2>3. ASSUME Linking(g)
        PROVE  LinkFree(g)'
    <3>1. LinkFree(g) /\ who[g] \in Emails /\ who[g] # new
      BY <1>0, <1>1, <2>1, <2>3 DEF SessionOK, Linking, LinkFree, TypeOK
    <3>2. WhopOf(g) # None
      <4>1. step[g] # "idle"
        BY <2>1, <2>3 DEF HandlerOK, Linking
      <4> QED BY <1>0, <4>1, HasEvent
    <3> QED BY <1>1, <1>3, <1>5, <3>1, <3>2 DEF LinkFree
  <2> QED BY <1>1, <1>5, <2>1, <2>2, <2>3 DEF SessionOK
<1> QED BY <1>4, <1>6, <1>7 DEF AccountInv

LEMMA AccountInvCorrect == Spec => []AccountInv
<1>1. Init => AccountInv
  BY DEF Init, NoRows, AccountInv, OneAccount, OneLinker, SessionOK, Linking
<1>2. TypeInv /\ AccountInv /\ [Next]_vars => AccountInv'
  <2> SUFFICES ASSUME TypeInv, AccountInv, [Next]_vars PROVE AccountInv'
    OBVIOUS
  <2>1. ASSUME NEW h \in Handlers, HandlerStep(h) PROVE AccountInv'
    <3>1. CASE BreakDeadlock(h)
      BY <3>1, ClosedSession DEF BreakDeadlock, Refuse
    <3> QED BY <2>1, <3>1, TakeKeepsAccounts, FindKeepsAccounts, LoadKeepsAccounts,
               LinkKeepsAccounts, CreateKeepsAccounts, SubKeepsAccounts, CommitKeepsAccounts DEF HandlerStep
  <2>2. ASSUME NEW h \in Handlers, DatabaseFails(h) PROVE AccountInv'
    BY <2>2, ClosedSession DEF DatabaseFails
  <2>3. ASSUME NEW w \in Whops, NEW e \in MailsOf[w], Register(e) PROVE AccountInv'
    BY <2>3, RegisterKeepsAccounts
  <2>4. CASE WhopStep \/ UNCHANGED vars
    <3>1. UNCHANGED <<users, subs, displaced, step, ev, who, loaded, mine, subLoaded, subMine,
                      locks>>
      BY <2>4 DEF WhopStep, Activate, ChangePlan, Expire, FailPayment, Send, vars, dbVars,
                  txVars, rowVars, subVars
    <3>2. \A g \in Handlers : /\ WhopOf(g)' = WhopOf(g) /\ (Linking(g)' <=> Linking(g))
                              /\ SessionOK(g)'
      BY <3>1 DEF AccountInv, SessionOK, LinkedOrLost, Linking, LinkFree, WhopOf, MemberOf
    <3> QED BY <3>1, <3>2 DEF AccountInv, OneAccount, OneLinker
  <2> QED BY <2>1, <2>2, <2>3, <2>4 DEF Next
<1> QED BY <1>1, <1>2, TypeInvCorrect, PTL DEF Spec

(***************************************************************************)
(* A Whop account is linked to at most one users row, and its              *)
(* subscriptions hang on that row unless another account that used the     *)
(* same address has taken the row over: for any number of accounts,        *)
(* addresses they share, overlapping deliveries, refused ones, repeats and *)
(* registrations (whop.py:53, _find_or_create_user).                       *)
(***************************************************************************)
THEOREM OneAccountCorrect == Spec => []OneAccount
<1>1. AccountInv => OneAccount
  BY DEF AccountInv
<1> QED BY <1>1, AccountInvCorrect, PTL

-----------------------------------------------------------------------------
(***************************************************************************)
(* TierFollowsMemberships is about an empty queue, and says nothing of the *)
(* events that emptied it.  Its invariant does.  First, the queue: the     *)
(* last event of a membership that is still on its way says how it stands  *)
(* with Whop, and without such an event the subscription row says it; the  *)
(* row exists before an event that needs it; and a membership whose        *)
(* payment failed is valid, or the event that ends it follows.             *)
(***************************************************************************)
Decides(x) == x.kind # "payment_failed"

EventsOrdered ==
    /\ \A i \in DOMAIN queue : queue[i].id < sent
    /\ \A i, j \in DOMAIN queue : queue[i].id = queue[j].id => i = j

LastOf(m, i) == /\ queue[i].member = m /\ Decides(queue[i])
                /\ \A j \in DOMAIN queue :
                      j > i => ~(queue[j].member = m /\ Decides(queue[j]))

SaysStanding(x, m) == IF x.kind = "went_invalid" THEN standing[m] = None
                      ELSE standing[m] = x.plan /\ x.plan # None

SubAgrees(m) ==
    IF standing[m] = None THEN subs[m] = None \/ subs[m].status = "inactive"
    ELSE /\ subs[m] # None /\ subs[m].status \in {"active", "past_due"}
         /\ subs[m].tier = ResolveTier(standing[m])

Told(m) == \/ \E i \in DOMAIN queue : LastOf(m, i) /\ SaysStanding(queue[i], m)
           \/ /\ \A i \in DOMAIN queue : ~(queue[i].member = m /\ Decides(queue[i]))
              /\ SubAgrees(m)

Introduced(i) == queue[i].kind # "went_valid" =>
    \/ subs[queue[i].member] # None
    \/ \E j \in DOMAIN queue : /\ j < i /\ queue[j].member = queue[i].member
                               /\ queue[j].kind = "went_valid"

DueHasStanding(i) == queue[i].kind = "payment_failed" =>
    \/ standing[queue[i].member] # None
    \/ \E j \in DOMAIN queue : j > i /\ queue[j].member = queue[i].member /\ Decides(queue[j])

QueueInv == /\ EventsOrdered
            /\ \A m \in Members : Told(m)
            /\ \A i \in DOMAIN queue : Introduced(i) /\ DueHasStanding(i)

(***************************************************************************)
(* Then the session: it works on the event at the head, has found a users  *)
(* row by the time it needs one, and what it has read of the subscription  *)
(* and made of it is still so when it commits.                             *)
(***************************************************************************)
Made(h) ==
    LET old == subLoaded[h] IN
    IF Upserts(ev[h])
    THEN [user   |-> IF old = None THEN who[h] ELSE old.user,
          tier   |-> ResolveTier(ev[h].plan),
          status |-> "active"]
    ELSE IF old = None THEN None
    ELSE [old EXCEPT !.status = StatusAfter(ev[h].kind)]

TierMade(h) ==
    /\ Upserts(ev[h]) => mine[h].tier = ResolveTier(ev[h].plan)
    /\ ev[h].kind = "went_invalid" =>
          \/ OtherActive(h) = {} /\ mine[h].tier = "free"
          \/ \E m \in OtherActive(h) : mine[h].tier = subs[m].tier

Working(h) ==
    /\ queue # <<>> /\ ev[h] = queue[1]
    /\ ev[h].kind # "went_valid" \/ step[h] \in {"sub", "flush", "others", "commit"}
       => who[h] # None
    /\ step[h] \in {"email", "link", "create"} => ev[h].kind = "went_valid"
    /\ \A m \in Members : seen[h][m] # None => seen[h][m] = subs[m]
    /\ step[h] \in {"flush", "others", "commit"} =>
          subLoaded[h] = subs[MemberOf(h)] /\ subMine[h] = Made(h)
    /\ ev[h].kind = "payment_failed" => mine[h] = loaded[h]
    /\ step[h] = "eager" /\ ev[h].kind # "went_valid" => mine[h] = loaded[h]
    /\ step[h] = "commit" => TierMade(h)

(***************************************************************************)
(* And the database: the tier of a users row is that of one of its         *)
(* subscriptions that has not ended, or free without an active one.        *)
(***************************************************************************)
SupportedTier(e) ==
    \/ /\ users[e].tier = "free"
       /\ \A m \in Members : subs[m] # None /\ subs[m].user = e => subs[m].status # "active"
    \/ \E m \in Members : /\ subs[m] # None /\ subs[m].user = e
                          /\ subs[m].status # "inactive"
                          /\ subs[m].tier = users[e].tier

SettleInv == /\ QueueInv
             /\ \A h \in Handlers : step[h] # "idle" => Working(h)
             /\ \A e \in Emails : users[e] # None => SupportedTier(e)

(***************************************************************************)
(* What Whop does to the queue.  An event it sends is the last word on its *)
(* membership, unless it only tells of a failed payment.                   *)
(***************************************************************************)
LEMMA EventFields ==
    ASSUME NEW x \in Event
    PROVE  /\ x.id \in Nat /\ x.kind \in Kinds /\ x.member \in Members
           /\ x.plan \in Plans \union {None}
BY DEF Event

LEMMA QueueFrame ==
    ASSUME QueueInv, UNCHANGED <<queue, standing, sent, subs>>
    PROVE  QueueInv'
BY DEF QueueInv, EventsOrdered, Told, LastOf, SaysStanding, SubAgrees, Introduced,
       DueHasStanding

LEMMA SendFacts ==
    ASSUME TypeOK, NEW k \in Kinds, NEW m \in Members, NEW p \in Plans \union {None},
           NEW a \in Emails \union {None}, Send(k, m, p, a)
    PROVE  \E n \in Nat, x \in Event :
              /\ x.id = sent /\ x.kind = k /\ x.member = m /\ x.plan = p
              /\ \A i \in 1 .. n : queue[i] \in Event /\ queue'[i] = queue[i]
              /\ queue'[n + 1] = x
              /\ sent \in Nat /\ sent' = sent + 1
              /\ DOMAIN queue = 1 .. n /\ DOMAIN queue' = 1 .. (n + 1)
<1> DEFINE x == [id |-> sent, kind |-> k, member |-> m, plan |-> p, mail |-> a]
<1>1. queue' = Append(queue, x) /\ sent' = sent + 1 /\ sent \in Nat /\ queue \in Seq(Event)
  BY DEF Send, TypeOK
<1>2. x \in Event /\ x.id = sent /\ x.kind = k /\ x.member = m /\ x.plan = p
  BY <1>1 DEF Event
<1> HIDE DEF x
<1>3. /\ Len(queue) \in Nat
      /\ \A i \in 1 .. Len(queue) : queue[i] \in Event /\ queue'[i] = queue[i]
      /\ queue'[Len(queue) + 1] = x
      /\ DOMAIN queue = 1 .. Len(queue) /\ DOMAIN queue' = 1 .. (Len(queue) + 1)
  BY <1>1
<1> QED BY <1>1, <1>2, <1>3

LEMMA SendKeepsQueue ==
    ASSUME TypeOK, QueueInv, NEW k \in Kinds, NEW m \in Members,
           NEW p \in Plans \union {None}, NEW a \in Emails \union {None}, Send(k, m, p, a),
           \A n \in Members : n # m => standing'[n] = standing[n],
           k # "went_valid" => standing[m] # None,
           k = "payment_failed" => standing' = standing,
           k = "went_invalid" => standing'[m] = None,
           k \in {"went_valid", "updated"} => standing'[m] = p /\ p # None
    PROVE  QueueInv'
<1>1. PICK n \in Nat, x \in Event :
         /\ x.id = sent /\ x.kind = k /\ x.member = m /\ x.plan = p
         /\ \A i \in 1 .. n : queue[i] \in Event /\ queue'[i] = queue[i]
         /\ queue'[n + 1] = x
         /\ sent \in Nat /\ sent' = sent + 1
         /\ DOMAIN queue = 1 .. n /\ DOMAIN queue' = 1 .. (n + 1)
  BY SendFacts
<1>2. subs' = subs
  BY DEF Send, dbVars
<1>3. EventsOrdered'
  <2>1. \A i \in 1 .. n : queue[i].id < sent /\ queue[i].id \in Nat
    BY <1>1, EventFields DEF QueueInv, EventsOrdered
  <2>2. \A i, j \in 1 .. n : queue[i].id = queue[j].id => i = j
    BY <1>1 DEF QueueInv, EventsOrdered
  <2>3. \A i \in 1 .. (n + 1) : queue'[i].id < sent'
    BY <1>1, <2>1
  <2>4. \A i, j \in 1 .. (n + 1) : queue'[i].id = queue'[j].id => i = j
    BY <1>1, <2>1, <2>2
  <2> QED BY <1>1, <2>3, <2>4 DEF EventsOrdered
<1>4. ASSUME NEW q \in Members, q # m \/ ~Decides(x) PROVE Told(q)'
  <2>1. standing'[q] = standing[q]
    BY <1>1, <1>4 DEF Decides
  <2>2. \A i \in 1 .. n : LastOf(q, i) => LastOf(q, i)'
    BY <1>1, <1>4 DEF LastOf, Decides
  <2>3. SubAgrees(q)' <=> SubAgrees(q)
    BY <1>2, <2>1 DEF SubAgrees
  <2>4. \A i \in 1 .. n : SaysStanding(queue[i], q)' <=> SaysStanding(queue[i], q)
    BY <1>1, <2>1 DEF SaysStanding
  <2>5. CASE \E i \in 1 .. n : LastOf(q, i) /\ SaysStanding(queue[i], q)
    BY <1>1, <2>2, <2>4, <2>5 DEF Told
  <2>6. CASE /\ \A i \in 1 .. n : ~(queue[i].member = q /\ Decides(queue[i]))
             /\ SubAgrees(q)
    <3>1. \A i \in 1 .. (n + 1) : ~(queue'[i].member = q /\ Decides(queue'[i]))
      BY <1>1, <1>4, <2>6
    <3> QED BY <1>1, <2>3, <2>6, <3>1 DEF Told, Decides
  <2> QED BY <1>1, <2>5, <2>6 DEF QueueInv, Told
<1>5. ASSUME Decides(x) PROVE Told(m)'
  <2>1. LastOf(m, n + 1)'
    BY <1>1, <1>5 DEF LastOf, Decides
  <2>2. SaysStanding(queue[n + 1], m)'
    BY <1>1, <1>5 DEF SaysStanding, Decides, Kinds
  <2>3. n + 1 \in DOMAIN queue'
    BY <1>1
  <2> QED BY <2>1, <2>2, <2>3 DEF Told
<1>6. ASSUME NEW i \in 1 .. (n + 1) PROVE Introduced(i)'
  <2>1. CASE i # n + 1
    <3>1. i \in 1 .. n /\ queue'[i] = queue[i]
      BY <1>1, <2>1
    <3>2. Introduced(i)
      BY <1>1, <3>1 DEF QueueInv
    <3>3. \A j \in 1 .. n : queue'[j] = queue[j] /\ j \in 1 .. (n + 1)
      BY <1>1
    <3> QED BY <1>1, <1>2, <3>1, <3>2, <3>3 DEF Introduced
  <2>2. CASE i = n + 1
    <3> SUFFICES ASSUME k # "went_valid", subs[m] = None
                 PROVE  \E j \in 1 .. n : queue[j].member = m /\ queue[j].kind = "went_valid"
      <4>1. \A j \in 1 .. n : j \in 1 .. (n + 1) /\ j < n + 1 /\ queue'[j] = queue[j]
        BY <1>1
      <4> QED BY <1>1, <1>2, <2>2, <4>1 DEF Introduced
    <3>1. ~SubAgrees(m)
      BY DEF SubAgrees
    <3>2. PICK l \in 1 .. n : LastOf(m, l) /\ SaysStanding(queue[l], m)
      BY <1>1, <3>1 DEF QueueInv, Told
    <3>3. queue[l].member = m /\ queue[l].kind \in {"went_valid", "updated"}
      BY <1>1, <3>2, EventFields DEF LastOf, SaysStanding, Decides, Kinds
    <3>4. Introduced(l)
      BY <1>1 DEF QueueInv
    <3> QED BY <1>1, <3>3, <3>4 DEF Introduced
  <2> QED BY <2>1, <2>2
<1>7. ASSUME NEW i \in 1 .. (n + 1) PROVE DueHasStanding(i)'
  <2>1. CASE i # n + 1
    <3>1. i \in 1 .. n /\ queue'[i] = queue[i] /\ i < n + 1 /\ n + 1 \in 1 .. (n + 1)
      BY <1>1, <2>1
    <3>2. DueHasStanding(i)
      BY <1>1, <3>1 DEF QueueInv
    <3>3. CASE queue[i].member = m /\ Decides(x)
      BY <1>1, <3>1, <3>3 DEF DueHasStanding, Decides
    <3>4. CASE ~(queue[i].member = m /\ Decides(x))
      <4>1. queue[i].member \in Members
        BY <1>1, <3>1, EventFields
      <4>2. standing'[queue[i].member] = standing[queue[i].member]
        BY <1>1, <3>4, <4>1 DEF Decides
      <4>3. \A j \in 1 .. n : queue'[j] = queue[j] /\ j \in 1 .. (n + 1)
        BY <1>1
      <4> QED BY <1>1, <3>1, <3>2, <4>2, <4>3 DEF DueHasStanding, Decides
    <3> QED BY <3>3, <3>4
  <2>2. CASE i = n + 1
    BY <1>1, <2>2 DEF DueHasStanding
  <2> QED BY <2>1, <2>2
<1> QED BY <1>1, <1>3, <1>4, <1>5, <1>6, <1>7 DEF QueueInv

(***************************************************************************)
(* The steps of the one session before its commit write nothing to the     *)
(* database, so what it has read is still so when it commits.              *)
(***************************************************************************)
LEMMA SettleFrame ==
    ASSUME SettleInv, NEW h \in Handlers, \A g \in Handlers : g = h,
           UNCHANGED <<dbVars, whopVars>>, step'[h] # "idle" => Working(h)'
    PROVE  SettleInv'
<1>1. QueueInv'
  BY QueueFrame DEF SettleInv, dbVars, whopVars
<1>2. \A e \in Emails : users'[e] # None => SupportedTier(e)'
  BY DEF SettleInv, SupportedTier, dbVars
<1> QED BY <1>1, <1>2 DEF SettleInv

LEMMA ClosedSettles ==
    ASSUME TypeOK, SettleInv, NEW h \in Handlers, \A g \in Handlers : g = h,
           UNCHANGED <<dbVars, whopVars>>, Close(h)
    PROVE  SettleInv'
<1>1. step'[h] = "idle"
  BY DEF Close, TypeOK
<1> QED BY <1>1, SettleFrame

LEMMA HeadFacts ==
    ASSUME TypeOK, QueueInv, queue # <<>>
    PROVE  /\ queue[1] \in Event /\ 1 \in DOMAIN queue
           /\ queue[1].kind # "went_valid" => subs[queue[1].member] # None
<1>1. queue[1] \in Event /\ 1 \in DOMAIN queue /\ DOMAIN queue = 1 .. Len(queue)
  BY DEF TypeOK
<1>2. Introduced(1) /\ ~(\E j \in DOMAIN queue : j < 1)
  BY <1>1 DEF QueueInv
<1> QED BY <1>1, <1>2 DEF Introduced

LEMMA TakeSettles ==
    ASSUME TypeInv, AccountInv, SettleInv, Window = 1, displaced = {},
           NEW h \in Handlers, \A g \in Handlers : g = h, Take(h)
    PROVE  SettleInv'
<1>1. TypeOK /\ QueueInv /\ OneAccount
  BY DEF TypeInv, SettleInv, AccountInv
<1>2. /\ UNCHANGED <<dbVars, whopVars>> /\ queue' = queue
      /\ loaded[h] = None /\ mine[h] = None
  BY <1>1 DEF Take, TypeInv, TypeOK, HandlerOK, whopVars
<1>3. \A m \in Members : seen'[h][m] = None
  BY <1>1 DEF Take, TypeInv, HandlerOK, subVars
<1>4. PICK i \in DOMAIN queue :
         /\ i <= Window
         /\ ev' = [ev EXCEPT ![h] = queue[i]]
         /\ LET w == OwnerOf[queue[i].member] IN
            \/ \E e \in Emails :
                  /\ users[e] # None /\ users[e].whop = w
                  /\ who' = [who EXCEPT ![h] = e]
                  /\ loaded' = [loaded EXCEPT ![h] = users[e]]
                  /\ mine' = [mine EXCEPT ![h] = users[e]]
                  /\ step' = [step EXCEPT ![h] = "eager"]
            \/ /\ ~Linked(w)
               /\ step' = [step EXCEPT ![h] = NoUserStep(queue[i])]
               /\ UNCHANGED rowVars
  BY DEF Take
<1>5. i = 1 /\ queue # <<>>
  BY <1>1, <1>4 DEF TypeOK
<1>6. ev'[h] = queue[1]
  BY <1>1, <1>4, <1>5 DEF TypeOK
<1>7. CASE Linked(OwnerOf[queue[1].member]) /\ step' = [step EXCEPT ![h] = "eager"]
  <2>1. step'[h] = "eager"
    BY <1>1, <1>7 DEF TypeOK
  <2>2. who'[h] # None /\ mine'[h] = loaded'[h]
    <3>1. PICK e \in Emails : /\ who' = [who EXCEPT ![h] = e]
                              /\ loaded' = [loaded EXCEPT ![h] = users[e]]
                              /\ mine' = [mine EXCEPT ![h] = users[e]]
      BY <1>4, <1>5, <1>7
    <3> QED BY <1>1, <3>1, NoneIsNoRow DEF TypeOK
  <2>3. Working(h)'
    BY <1>2, <1>3, <1>5, <1>6, <2>1, <2>2 DEF Working
  <2> QED BY <1>2, <2>3, SettleFrame
<1>8. CASE ~Linked(OwnerOf[queue[1].member])
  <2>1. queue[1].kind = "went_valid"
    <3>1. queue[1].member \in Members
      BY <1>1, <1>5, HeadFacts, EventFields
    <3>2. subs[queue[1].member] # None
          => /\ subs[queue[1].member].user \in Emails
             /\ users[subs[queue[1].member].user] # None
             /\ users[subs[queue[1].member].user].whop = OwnerOf[queue[1].member]
      BY <1>1, <3>1 DEF OneAccount, TypeOK, SubRow
    <3>3. subs[queue[1].member] = None
      BY <1>8, <3>2 DEF Linked
    <3> QED BY <1>1, <1>5, <3>3, HeadFacts
  <2>2. step'[h] \in {"email", "create"}
    BY <1>1, <1>4, <1>5, <1>8, <2>1 DEF NoUserStep, Linked, TypeOK
  <2>3. Working(h)'
    BY <1>2, <1>3, <1>5, <1>6, <2>1, <2>2 DEF Working
  <2> QED BY <1>2, <2>3, SettleFrame
<1> QED BY <1>4, <1>5, <1>7, <1>8 DEF Linked

LEMMA AccountSettles ==
    ASSUME TypeInv, SettleInv, NEW h \in Handlers, \A g \in Handlers : g = h,
           FindByEmail(h) \/ Link(h) \/ CreateUser(h)
    PROVE  SettleInv'
<1>1. TypeOK /\ HandlerOK(h) /\ step[h] \in {"email", "link", "create"} /\ Working(h)
  BY DEF TypeInv, SettleInv, FindByEmail, Link, CreateUser
<1>2. ev[h] = queue[1] /\ queue # <<>> /\ ev[h].kind = "went_valid"
  BY <1>1 DEF Working
<1>3. CASE Close(h) /\ UNCHANGED <<dbVars, whopVars>>
  BY <1>1, <1>3, ClosedSettles
<1>4. CASE /\ UNCHANGED <<dbVars, whopVars, ev, seen>>
           /\ step'[h] \in {"create", "eager", "sub"}
           /\ step'[h] = "sub" => who'[h] # None
  <2>1. subs' = subs /\ queue' = queue /\ ev' = ev /\ seen' = seen
    BY <1>4 DEF dbVars, whopVars
  <2>2. Working(h)'
    BY <1>1, <1>2, <1>4, <2>1 DEF Working
  <2> QED BY <1>4, <2>2, SettleFrame
<1>5. CASE FindByEmail(h)
  <2>1. UNCHANGED <<dbVars, whopVars, ev, seen>> /\ step'[h] \in {"create", "eager"}
    BY <1>1, <1>5 DEF FindByEmail, TypeOK, subVars
  <2> QED BY <1>4, <2>1
<1>6. CASE Link(h) /\ ~Close(h)
  <2>1. UNCHANGED <<dbVars, whopVars, ev, who, seen>> /\ step'[h] = "sub" /\ step[h] = "link"
    BY <1>1, <1>6 DEF Link, Refuse, TypeOK, rowVars, subVars
  <2>2. who[h] # None
    BY <1>1, <1>2, <2>1 DEF HandlerOK
  <2> QED BY <1>4, <2>1, <2>2
<1>7. CASE CreateUser(h) /\ ~Close(h)
  <2>1. UNCHANGED <<dbVars, whopVars, ev, seen>> /\ step'[h] = "sub"
    BY <1>1, <1>7 DEF CreateUser, Refuse, TypeOK, subVars
  <2>2. who'[h] # None
    BY <1>1, <1>7, HasEvent, NoneIsNoRow DEF CreateUser, Refuse, TypeOK
  <2> QED BY <1>4, <2>1, <2>2
<1>8. CASE Close(h)
  BY <1>3, <1>8 DEF Link, CreateUser, FindByEmail, Refuse
<1> QED BY <1>5, <1>6, <1>7, <1>8

LEMMA LoadSettles ==
    ASSUME TypeInv, SettleInv, NEW h \in Handlers, \A g \in Handlers : g = h, LoadSubs(h)
    PROVE  SettleInv'
<1>1. /\ TypeOK /\ HandlerOK(h) /\ Working(h) /\ step[h] = "eager"
      /\ UNCHANGED <<dbVars, whopVars, ev, rowVars>>
  BY DEF TypeInv, SettleInv, LoadSubs
<1>2. /\ subs' = subs /\ queue' = queue /\ ev' = ev /\ who' = who
      /\ mine' = mine /\ loaded' = loaded /\ who[h] # None
      /\ step'[h] = IF mine[h] = loaded[h] THEN "sub" ELSE "link"
  BY <1>1 DEF LoadSubs, TypeOK, HandlerOK, dbVars, whopVars, rowVars
<1>3. \A m \in Members : seen'[h][m] # None => seen'[h][m] = subs[m]
  BY <1>1 DEF LoadSubs, TypeOK
<1>4. mine[h] # loaded[h] => ev[h].kind = "went_valid"
  BY <1>1 DEF Working
<1>5. Working(h)'
  BY <1>1, <1>2, <1>3, <1>4 DEF Working
<1> QED BY <1>1, <1>5, SettleFrame

LEMMA ReadSettles ==
    ASSUME TypeInv, SettleInv, NEW h \in Handlers, \A g \in Handlers : g = h, ReadSub(h)
    PROVE  SettleInv'
<1>1. /\ TypeOK /\ Working(h) /\ step[h] = "sub" /\ MemberOf(h) \in Members
      /\ UNCHANGED <<dbVars, whopVars, ev, rowVars, seen>>
  BY HasEvent DEF TypeInv, SettleInv, ReadSub
<1>2. Known(h, MemberOf(h)) = subs[MemberOf(h)]
  BY <1>1 DEF Known, Working
<1>3. /\ step'[h] = "flush" /\ subLoaded'[h] = subs[MemberOf(h)] /\ seen' = seen
      /\ who' = who /\ mine' = mine /\ loaded' = loaded /\ subs' = subs /\ queue' = queue
  BY <1>1, <1>2 DEF ReadSub, TypeOK, rowVars, dbVars, whopVars
<1>4. subMine'[h] = Made(h)'
  BY <1>1, <1>2, <1>3 DEF ReadSub, TypeOK, Made, MemberOf
<1>5. Working(h)'
  BY <1>1, <1>3, <1>4 DEF Working, MemberOf
<1> QED BY <1>1, <1>5, SettleFrame

LEMMA FlushSettles ==
    ASSUME TypeInv, SettleInv, NEW h \in Handlers, \A g \in Handlers : g = h, FlushSub(h)
    PROVE  SettleInv'
<1>1. /\ TypeOK /\ HandlerOK(h) /\ Working(h) /\ step[h] = "flush"
      /\ UNCHANGED <<dbVars, whopVars, ev, who, loaded, subVars>>
  BY DEF TypeInv, SettleInv, FlushSub
<1>2. /\ step'[h] = IF ev[h].kind = "went_invalid" THEN "others" ELSE "commit"
      /\ subs' = subs /\ queue' = queue /\ seen' = seen
      /\ subLoaded' = subLoaded /\ subMine' = subMine
  BY <1>1 DEF FlushSub, TypeOK, dbVars, whopVars, subVars
<1>3. mine[h] \in UserRow
  BY <1>1 DEF Working, TypeOK
<1>4. Upserts(ev[h]) => mine'[h].tier = ResolveTier(ev[h].plan)
  <2> SUFFICES ASSUME Upserts(ev[h]) PROVE mine'[h].tier = ResolveTier(ev[h].plan)
    OBVIOUS
  <2>1. mine'[h] = ApplyTierLimits(mine[h], ResolveTier(ev[h].plan))
    BY <1>1 DEF FlushSub, TypeOK
  <2> QED BY <1>3, <2>1 DEF ApplyTierLimits, UserRow
<1>5. ~Upserts(ev[h]) => mine' = mine
  BY DEF FlushSub
<1>6. Made(h)' = Made(h) /\ MemberOf(h)' = MemberOf(h)
  BY <1>1, <1>2 DEF Made, MemberOf
<1>7. step'[h] = "commit" => TierMade(h)'
  BY <1>1, <1>2, <1>4 DEF TierMade, Upserts
<1>8. ev[h].kind = "payment_failed" => mine'[h] = loaded'[h]
  BY <1>1, <1>5 DEF Working, Upserts
<1>9. Working(h)'
  BY <1>1, <1>2, <1>6, <1>7, <1>8 DEF Working
<1> QED BY <1>1, <1>9, SettleFrame

LEMMA OthersSettles ==
    ASSUME TypeInv, SettleInv, NEW h \in Handlers, \A g \in Handlers : g = h, ReadOthers(h)
    PROVE  SettleInv'
<1>1. /\ TypeOK /\ HandlerOK(h) /\ Working(h) /\ step[h] = "others"
      /\ UNCHANGED <<dbVars, whopVars, ev, who, loaded, subVars>>
  BY DEF TypeInv, SettleInv, ReadOthers
<1>2. /\ step'[h] = "commit" /\ ev[h].kind = "went_invalid"
      /\ subs' = subs /\ queue' = queue /\ seen' = seen
      /\ subLoaded' = subLoaded /\ subMine' = subMine
  BY <1>1 DEF ReadOthers, TypeOK, HandlerOK, dbVars, whopVars, subVars
<1>3. mine[h] \in UserRow
  BY <1>1 DEF Working, TypeOK
<1>4. OtherActive(h)' = OtherActive(h) /\ Made(h)' = Made(h) /\ MemberOf(h)' = MemberOf(h)
  BY <1>1, <1>2 DEF OtherActive, Made, MemberOf
<1>5. TierMade(h)'
  <2>1. ASSUME NEW t, mine' = [mine EXCEPT ![h] = ApplyTierLimits(@, t)]
        PROVE  mine'[h].tier = t
    BY <1>1, <1>3, <2>1 DEF TypeOK, ApplyTierLimits, UserRow
  <2>2. CASE /\ OtherActive(h) = {}
             /\ mine' = [mine EXCEPT ![h] = ApplyTierLimits(@, "free")]
    BY <1>1, <1>2, <1>4, <2>1, <2>2 DEF TierMade, Upserts
  <2>3. ASSUME NEW m \in OtherActive(h),
               mine' = [mine EXCEPT ![h] = ApplyTierLimits(@, Known(h, m).tier)]
        PROVE  TierMade(h)'
    <3>1. Known(h, m) = subs[m]
      BY <1>1 DEF Known, Working, OtherActive
    <3> QED BY <1>1, <1>2, <1>4, <2>1, <2>3, <3>1 DEF TierMade, Upserts
  <2> QED BY <2>2, <2>3 DEF ReadOthers
<1>6. Working(h)'
  BY <1>1, <1>2, <1>4, <1>5 DEF Working
<1> QED BY <1>1, <1>6, SettleFrame

(***************************************************************************)
(* The commit.  What it writes is what the session made, on the rows it    *)
(* has read.                                                               *)
(***************************************************************************)
LEMMA CommitWrites ==
    ASSUME TypeInv, SerialInv, AccountInv, AccountInv', SettleInv, displaced' = {},
           NEW h \in Handlers, Commit(h)
    PROVE  /\ who[h] \in Emails /\ MemberOf(h) \in Members
           /\ users' = [users EXCEPT ![who[h]] = mine[h]]
           /\ subs' = [subs EXCEPT ![MemberOf(h)] = Made(h)]
           /\ Made(h) # None /\ Made(h).user = who[h]
<1>1. /\ TypeOK /\ HandlerOK(h) /\ Fresh(h) /\ Working(h) /\ SessionOK(h) /\ step[h] = "commit"
      /\ QueueInv
  BY DEF TypeInv, SerialInv, AccountInv, SettleInv, Commit
<1>2. /\ who[h] \in Emails /\ MemberOf(h) \in Members /\ mine[h] \in UserRow
      /\ subLoaded[h] = subs[MemberOf(h)] /\ subMine[h] = Made(h)
  BY <1>1, HasEvent DEF Working, TypeOK
<1>3. users' = [users EXCEPT ![who[h]] = mine[h]]
  <2>1. CASE mine[h] = loaded[h]
    <3>1. loaded[h] # None /\ users[who[h]] = loaded[h] /\ users' = users
      BY <1>1, <1>2, <2>1, NoneIsNoRow DEF Fresh, Commit
    <3> QED BY <1>1, <1>2, <2>1, <3>1 DEF TypeOK
  <2>2. CASE mine[h] # loaded[h] /\ loaded[h] = None
    BY <2>2 DEF Commit
  <2>3. CASE mine[h] # loaded[h] /\ loaded[h] # None
    <3>1. loaded[h] \in UserRow /\ users[who[h]] = loaded[h]
      BY <1>1, <2>3 DEF TypeOK, Fresh
    <3>2. SaveUser(users[who[h]], loaded[h], mine[h]) = mine[h]
      BY <1>2, <3>1, SavedWhole
    <3> QED BY <1>1, <2>3, <3>2 DEF Commit, TypeOK
  <2> QED BY <2>1, <2>2, <2>3
<1>4. Made(h) # None
  <2>1. Upserts(ev[h]) => Made(h) # None
    <3> SUFFICES ASSUME Upserts(ev[h]) PROVE Made(h) \in SubRow
      BY NoneIsNoRow
    <3>1. Made(h) # None => Made(h) \in SubRow
      BY <1>1, <1>2 DEF TypeOK
    <3>2. ResolveTier(ev[h].plan) \in TierNames
      BY <1>1, HasEvent, EventFields, TierResolved
    <3>3. (IF subLoaded[h] = None THEN who[h] ELSE subLoaded[h].user) \in Emails
      BY <1>1, <1>2 DEF TypeOK, SubRow
    <3> QED BY <3>2, <3>3 DEF Made, SubRow, SubStatus
  <2>2. ~Upserts(ev[h]) => subs[MemberOf(h)] # None
    BY <1>1, HeadFacts DEF Upserts, Working, MemberOf
  <2>3. ASSUME subs[MemberOf(h)] # None, ~Upserts(ev[h]) PROVE Made(h) # None
    <3>1. ev[h].kind \in {"went_invalid", "payment_failed"}
      BY <1>1, <2>3, HasEvent, EventFields DEF Upserts, Kinds
    <3>2. StatusAfter(ev[h].kind) \in SubStatus
      BY <3>1 DEF StatusAfter, SubStatus
    <3>3. subs[MemberOf(h)] \in SubRow
      BY <1>1, <1>2, <2>3 DEF TypeOK
    <3>4. Made(h) \in SubRow
      BY <1>2, <2>3, <3>2, <3>3 DEF Made, SubRow
    <3> QED BY <3>4, NoneIsNoRow
  <2> QED BY <2>1, <2>2, <2>3
<1>5. subLoaded[h] # None => Made(h).user = subLoaded[h].user /\ subLoaded[h] \in SubRow
  BY <1>1, <1>2 DEF Made, TypeOK, SubRow
<1>6. Made(h) \in SubRow
  BY <1>1, <1>2, <1>4 DEF TypeOK
<1>7. subs' = [subs EXCEPT ![MemberOf(h)] = Made(h)]
  <2>1. CASE Made(h) = subLoaded[h]
    BY <1>1, <1>2, <2>1 DEF Commit, TypeOK
  <2>2. CASE Made(h) # subLoaded[h] /\ subLoaded[h] = None
    BY <1>2, <2>2 DEF Commit
  <2>3. CASE Made(h) # subLoaded[h] /\ subLoaded[h] # None
    <3>1. SaveSub(subs[MemberOf(h)], subLoaded[h], subMine[h]) = Made(h)
      BY <1>2, <1>5, <1>6, <2>3 DEF SaveSub, Column, SubRow
    <3> QED BY <1>1, <1>2, <2>3, <3>1 DEF Commit, TypeOK
  <2> QED BY <2>1, <2>2, <2>3
<1>8. Made(h).user = who[h]
  <2>1. subs'[MemberOf(h)] = Made(h) /\ users'[who[h]] = mine[h]
    BY <1>1, <1>2, <1>3, <1>7 DEF TypeOK
  <2>2. mine[h].whop = OwnerOf[MemberOf(h)] /\ mine[h] # None /\ OwnerOf[MemberOf(h)] # None
    BY <1>1, <1>2, HasEvent, NoneIsNoRow DEF SessionOK, WhopOf
  <2>3. /\ users'[Made(h).user] # None
        /\ users'[Made(h).user].whop = OwnerOf[MemberOf(h)]
    BY <1>2, <1>4, <2>1 DEF AccountInv, OneAccount
  <2>4. Made(h).user \in Emails
    BY <1>6 DEF SubRow
  <2> QED BY <1>2, <2>1, <2>2, <2>3, <2>4 DEF AccountInv, OneAccount
<1> QED BY <1>2, <1>3, <1>4, <1>7, <1>8

(***************************************************************************)
(* The status and the tier the subscription row then has.                  *)
(***************************************************************************)
LEMMA MadeFacts ==
    ASSUME TypeInv, NEW h \in Handlers, Working(h), step[h] = "commit", QueueInv
    PROVE  /\ Upserts(ev[h]) => /\ Made(h).status = "active"
                                /\ Made(h).tier = ResolveTier(ev[h].plan)
           /\ ~Upserts(ev[h]) => /\ subs[MemberOf(h)] # None
                                 /\ Made(h).tier = subs[MemberOf(h)].tier
                                 /\ Made(h).user = subs[MemberOf(h)].user
           /\ ev[h].kind = "went_invalid" => Made(h).status = "inactive"
           /\ ev[h].kind = "payment_failed" => Made(h).status = "past_due"
<1>1. /\ TypeOK /\ subLoaded[h] = subs[MemberOf(h)] /\ queue # <<>> /\ ev[h] = queue[1]
      /\ MemberOf(h) \in Members /\ ev[h].kind \in Kinds
  BY HasEvent, EventFields DEF TypeInv, Working
<1>2. Upserts(ev[h]) => /\ Made(h).status = "active"
                        /\ Made(h).tier = ResolveTier(ev[h].plan)
  BY DEF Made
<1>3. ASSUME ~Upserts(ev[h])
      PROVE  /\ subs[MemberOf(h)] # None
             /\ Made(h).tier = subs[MemberOf(h)].tier
             /\ Made(h).user = subs[MemberOf(h)].user
             /\ Made(h).status = StatusAfter(ev[h].kind)
  <2>1. subs[MemberOf(h)] # None
    BY <1>1, <1>3, HeadFacts DEF Upserts, MemberOf
  <2>2. subs[MemberOf(h)] \in SubRow
    BY <1>1, <2>1 DEF TypeOK
  <2> QED BY <1>1, <1>3, <2>1, <2>2 DEF Made, SubRow
<1> QED BY <1>2, <1>3 DEF StatusAfter, Upserts

(***************************************************************************)
(* The row of the account stands by one of its subscriptions, or is free.  *)
(***************************************************************************)
LEMMA CommitSupports ==
    ASSUME TypeInv, SerialInv, AccountInv, AccountInv', SettleInv, displaced' = {},
           NEW h \in Handlers, Commit(h), NEW e \in Emails, users'[e] # None
    PROVE  SupportedTier(e)'
<1> DEFINE m == MemberOf(h)
           u == who[h]
<1>1. /\ u \in Emails /\ m \in Members /\ Made(h) # None /\ Made(h).user = u
      /\ users' = [users EXCEPT ![u] = mine[h]] /\ subs' = [subs EXCEPT ![m] = Made(h)]
  BY CommitWrites
<1>2. TypeOK /\ Working(h) /\ Fresh(h) /\ step[h] = "commit" /\ TierMade(h) /\ QueueInv
  BY DEF TypeInv, SettleInv, SerialInv, Commit, Working
<1>3. /\ subs'[m] = Made(h) /\ users'[u] = mine[h]
      /\ \A n \in Members : n # m => subs'[n] = subs[n]
      /\ \A f \in Emails : f # u => users'[f] = users[f]
  BY <1>1, <1>2 DEF TypeOK
<1>4. ev[h].kind \in Kinds
  BY <1>2, HasEvent, EventFields
<1>5. subs[m] # None => subs[m].user = u
  <2>1. subs[m] # None => Made(h).user = subs[m].user
    BY <1>1, <1>2 DEF Made, Working, TypeOK, SubRow
  <2> QED BY <1>1, <2>1
<1> HIDE DEF m, u
<1>6. CASE e # u
  <2>1. SupportedTier(e) /\ users'[e] = users[e]
    BY <1>3, <1>6 DEF SettleInv
  <2>2. \A n \in Members : /\ subs[n] # None /\ subs[n].user = e => subs'[n] = subs[n]
                           /\ subs'[n] # None /\ subs'[n].user = e => subs'[n] = subs[n]
    BY <1>1, <1>3, <1>5, <1>6
  <2> QED BY <2>1, <2>2 DEF SupportedTier
<1>7. CASE e = u /\ Upserts(ev[h])
  <2>1. subs'[m] # None /\ subs'[m].user = e /\ subs'[m].status # "inactive"
        /\ subs'[m].tier = users'[e].tier
    BY <1>1, <1>2, <1>3, <1>7, MadeFacts DEF TierMade
  <2> QED BY <1>1, <2>1 DEF SupportedTier
<1>8. CASE e = u /\ ev[h].kind = "went_invalid"
  <2>1. subs'[m].status = "inactive"
    BY <1>2, <1>3, <1>8, MadeFacts
  <2>2. CASE OtherActive(h) = {} /\ mine[h].tier = "free"
    <3>1. ASSUME NEW n \in Members, subs'[n] # None, subs'[n].user = e
          PROVE  subs'[n].status # "active"
      BY <1>3, <1>8, <2>1, <2>2, <3>1 DEF OtherActive, m, u
    <3> QED BY <1>3, <1>8, <2>2, <3>1 DEF SupportedTier
  <2>3. ASSUME NEW n \in OtherActive(h), mine[h].tier = subs[n].tier PROVE SupportedTier(e)'
    <3>1. n \in Members /\ n # m /\ subs[n] # None /\ subs[n].user = u
          /\ subs[n].status = "active"
      BY DEF OtherActive, m, u
    <3> QED BY <1>3, <1>8, <2>3, <3>1 DEF SupportedTier
  <2> QED BY <1>2, <1>8, <2>2, <2>3 DEF TierMade
<1>9. CASE e = u /\ ev[h].kind = "payment_failed"
  <2>1. users[u] = mine[h] /\ users[u] # None
    BY <1>1, <1>2, <1>9, NoneIsNoRow DEF Working, Fresh, TypeOK, u
  <2>2. SupportedTier(u) /\ users'[u] = users[u]
    BY <1>1, <1>3, <2>1 DEF SettleInv
  <2>3. /\ subs[m] # None /\ Made(h).status = "past_due" /\ Made(h).tier = subs[m].tier
    BY <1>2, <1>9, MadeFacts DEF Upserts, m
  <2>4. CASE /\ users[u].tier = "free"
             /\ \A n \in Members :
                   subs[n] # None /\ subs[n].user = u => subs[n].status # "active"
    <3>1. \A n \in Members : subs'[n] # None /\ subs'[n].user = u => subs'[n].status # "active"
      BY <1>3, <2>3, <2>4
    <3> QED BY <1>9, <2>2, <2>4, <3>1 DEF SupportedTier
  <2>5. ASSUME NEW n \in Members, subs[n] # None, subs[n].user = u,
               subs[n].status # "inactive", subs[n].tier = users[u].tier
        PROVE  SupportedTier(e)'
    <3>1. /\ subs'[n] # None /\ subs'[n].user = u /\ subs'[n].status # "inactive"
          /\ subs'[n].tier = users'[u].tier
      BY <1>1, <1>3, <2>2, <2>3, <2>5
    <3> QED BY <1>9, <2>5, <3>1 DEF SupportedTier
  <2> QED BY <2>2, <2>4, <2>5 DEF SupportedTier
<1> QED BY <1>4, <1>6, <1>7, <1>8, <1>9 DEF Upserts, Kinds

(***************************************************************************)
(* The answer: the event at the head leaves the queue, or stays for Whop   *)
(* to send again.                                                          *)
(***************************************************************************)
LEMMA AnswerQueue ==
    ASSUME TypeOK, EventsOrdered, NEW h \in Handlers, queue # <<>>, ev[h] = queue[1],
           Answer(h)
    PROVE  \E n \in Nat, d \in {0, 1} :
              /\ d <= n
              /\ DOMAIN queue = 1 .. n /\ DOMAIN queue' = 1 .. (n - d)
              /\ \A i \in 1 .. (n - d) : queue'[i] = queue[i + d]
<1>1. PICK n \in Nat : n = Len(queue)
  BY DEF TypeOK
<1>2. queue \in Seq(Event) /\ DOMAIN queue = 1 .. n /\ n >= 1
  BY <1>1 DEF TypeOK
<1>3. CASE queue' = queue
  <2>1. \A i \in 1 .. (n - 0) : queue'[i] = queue[i + 0]
    BY <1>2, <1>3
  <2> QED BY <1>2, <1>3, <2>1
<1>4. ASSUME NEW i \in DOMAIN queue, queue[i] = ev[h], queue' = RemoveAt(queue, i)
      PROVE  /\ DOMAIN queue' = 1 .. (n - 1)
             /\ \A j \in 1 .. (n - 1) : queue'[j] = queue[j + 1]
  <2>1. i = 1
    BY <1>2, <1>4 DEF EventsOrdered
  <2>2. queue' = SubSeq(queue, 1, 0) \o SubSeq(queue, 2, n)
    BY <1>1, <1>4, <2>1 DEF RemoveAt
  <2>3. /\ SubSeq(queue, 1, 0) \in Seq(Event) /\ Len(SubSeq(queue, 1, 0)) = 0
        /\ SubSeq(queue, 2, n) \in Seq(Event) /\ Len(SubSeq(queue, 2, n)) = n - 1
        /\ \A j \in 1 .. (n - 1) : SubSeq(queue, 2, n)[j] = queue[j + 1]
    BY <1>1, <1>2
  <2> QED BY <1>2, <2>2, <2>3
<1>5. CASE \E i \in DOMAIN queue : queue[i] = ev[h] /\ queue' = RemoveAt(queue, i)
  BY <1>2, <1>4, <1>5
<1> QED BY <1>3, <1>5 DEF Answer

LEMMA CommitKeepsQueue ==
    ASSUME TypeInv, SerialInv, AccountInv, AccountInv', SettleInv, displaced' = {},
           NEW h \in Handlers, Commit(h)
    PROVE  QueueInv'
<1>1. PICK m \in Members, x \in Event : m = MemberOf(h) /\ x = ev[h]
  BY CommitWrites, HasEvent DEF TypeInv, Commit
<1>2. /\ TypeOK /\ QueueInv /\ EventsOrdered /\ Working(h) /\ step[h] = "commit"
      /\ queue # <<>> /\ x = queue[1] /\ x \in Event /\ x.kind \in Kinds /\ x.member = m
      /\ sent' = sent /\ standing' = standing
  BY <1>1, HasEvent, EventFields
     DEF TypeInv, SettleInv, QueueInv, Commit, Working, MemberOf, Answer
<1>3. PICK n \in Nat, d \in {0, 1} :
         /\ d <= n
         /\ DOMAIN queue = 1 .. n /\ DOMAIN queue' = 1 .. (n - d)
         /\ \A i \in 1 .. (n - d) : queue'[i] = queue[i + d]
  BY <1>1, <1>2, AnswerQueue DEF Commit
<1>4. /\ \A i \in 1 .. (n - d) : i + d \in 1 .. n
      /\ \A i \in 1 .. n : i # 1 \/ d = 0 => i - d \in 1 .. (n - d) /\ queue'[i - d] = queue[i]
  BY <1>3
<1>5. /\ subs'[m] = Made(h) /\ subs'[m] # None
      /\ \A q \in Members : q # m => subs'[q] = subs[q]
      /\ subs \in [Members -> SubRow \union {None}]
  BY <1>1, <1>2, CommitWrites DEF TypeOK
<1>6. /\ Upserts(x) => subs'[m].status = "active" /\ subs'[m].tier = ResolveTier(x.plan)
      /\ ~Upserts(x) => subs[m] # None /\ subs'[m].tier = subs[m].tier
      /\ x.kind = "went_invalid" => subs'[m].status = "inactive"
      /\ x.kind = "payment_failed" => subs'[m].status = "past_due"
  BY <1>1, <1>2, <1>5, MadeFacts
<1>7. EventsOrdered'
  <2>1. ASSUME NEW i \in 1 .. (n - d) PROVE queue'[i].id < sent'
    BY <1>2, <1>3, <1>4 DEF EventsOrdered
  <2>2. ASSUME NEW i \in 1 .. (n - d), NEW j \in 1 .. (n - d), queue'[i].id = queue'[j].id
        PROVE  i = j
    <3>1. PICK a \in 1 .. n, c \in 1 .. n : a = i + d /\ c = j + d
      BY <1>4
    <3>2. queue[a].id = queue[c].id
      BY <1>3, <2>2, <3>1
    <3>3. a = c
      BY <1>2, <1>3, <3>2 DEF EventsOrdered
    <3> QED BY <1>3, <3>1, <3>3
  <2> QED BY <1>3, <2>1, <2>2 DEF EventsOrdered
<1>8. ASSUME NEW q \in Members, NEW l \in 1 .. n, LastOf(q, l), SaysStanding(queue[l], q),
             l # 1 \/ d = 0
      PROVE  Told(q)'
  <2>1. l - d \in DOMAIN queue' /\ queue'[l - d] = queue[l]
    <3>1. l - d \in 1 .. (n - d) /\ queue'[l - d] = queue[l]
      BY <1>4, <1>8
    <3> QED BY <1>3, <3>1
  <2>2. LastOf(q, l - d)'
    <3>1. ASSUME NEW j \in 1 .. (n - d), j > l - d
          PROVE  ~(queue'[j].member = q /\ Decides(queue'[j]))
      <4>1. j + d \in 1 .. n /\ j + d > l
        BY <1>4, <3>1
      <4>2. ~(queue[j + d].member = q /\ Decides(queue[j + d]))
        BY <1>3, <1>8, <4>1 DEF LastOf
      <4> QED BY <1>3, <4>2
    <3> QED BY <1>3, <1>8, <2>1, <3>1 DEF LastOf, Decides
  <2>3. SaysStanding(queue[l - d], q)'
    BY <1>2, <1>8, <2>1 DEF SaysStanding
  <2> QED BY <2>1, <2>2, <2>3 DEF Told
<1>9. ASSUME LastOf(m, 1), SaysStanding(x, m), d = 1
      PROVE  Told(m)'
  <2>1. \A i \in DOMAIN queue' : ~(queue'[i].member = m /\ Decides(queue'[i]))
    <3>1. ASSUME NEW j \in 1 .. (n - d)
          PROVE  ~(queue'[j].member = m /\ Decides(queue'[j]))
      <4>1. j + d \in 1 .. n /\ j + d > 1
        BY <1>4, <1>9, <3>1
      <4>2. ~(queue[j + d].member = m /\ Decides(queue[j + d]))
        BY <1>3, <1>9, <4>1 DEF LastOf
      <4> QED BY <1>3, <4>2
    <3> QED BY <1>3, <3>1
  <2>2. x.kind # "payment_failed"
    BY <1>2, <1>9 DEF LastOf, Decides
  <2>3. SubAgrees(m)'
    BY <1>2, <1>5, <1>6, <1>9, <2>2 DEF SubAgrees, SaysStanding, Upserts, Kinds
  <2> QED BY <2>1, <2>3 DEF Told, Decides
<1>10. ASSUME NEW q \in Members, SubAgrees(q),
              \A i \in 1 .. n : ~(queue[i].member = q /\ Decides(queue[i]))
       PROVE  Told(q)'
  <2>1. \A i \in DOMAIN queue' : ~(queue'[i].member = q /\ Decides(queue'[i]))
    <3>1. ASSUME NEW j \in 1 .. (n - d)
          PROVE  ~(queue'[j].member = q /\ Decides(queue'[j]))
      <4>1. j + d \in 1 .. n
        BY <1>4
      <4>2. ~(queue[j + d].member = q /\ Decides(queue[j + d]))
        BY <1>10, <4>1
      <4> QED BY <1>3, <4>2
    <3> QED BY <1>3, <3>1
  <2>2. SubAgrees(q)'
    <3>1. CASE q # m
      BY <1>2, <1>5, <1>10, <3>1 DEF SubAgrees
    <3>2. CASE q = m
      <4>1. 1 \in 1 .. n /\ x.kind = "payment_failed"
        BY <1>2, <1>3, <1>10, <3>2, HeadFacts DEF Decides
      <4>2. standing[m] # None
        BY <1>2, <1>3, <1>10, <3>2, <4>1 DEF QueueInv, DueHasStanding
      <4> QED BY <1>2, <1>5, <1>6, <1>10, <3>2, <4>1, <4>2 DEF SubAgrees, Upserts
    <3> QED BY <3>1, <3>2
  <2> QED BY <2>1, <2>2 DEF Told, Decides
<1>11. ASSUME NEW q \in Members PROVE Told(q)'
  <2>1. CASE \E l \in 1 .. n : LastOf(q, l) /\ SaysStanding(queue[l], q)
    <3>1. PICK l \in 1 .. n : LastOf(q, l) /\ SaysStanding(queue[l], q)
      BY <2>1
    <3>2. CASE l # 1 \/ d = 0
      BY <1>8, <3>1, <3>2
    <3>3. CASE l = 1 /\ d = 1
      <4>1. q = m
        BY <1>2, <3>1, <3>3 DEF LastOf
      <4> QED BY <1>2, <1>9, <3>1, <3>3, <4>1
    <3> QED BY <3>2, <3>3
  <2>2. CASE ~ \E l \in 1 .. n : LastOf(q, l) /\ SaysStanding(queue[l], q)
    <3>1. Told(q)
      BY <1>2, <1>11 DEF QueueInv
    <3>2. SubAgrees(q) /\ \A i \in 1 .. n : ~(queue[i].member = q /\ Decides(queue[i]))
      BY <1>3, <2>2, <3>1 DEF Told
    <3> QED BY <1>10, <3>2
  <2> QED BY <2>1, <2>2
<1>12. ASSUME NEW i \in 1 .. (n - d) PROVE Introduced(i)' /\ DueHasStanding(i)'
  <2>1. i + d \in 1 .. n /\ queue'[i] = queue[i + d] /\ queue[i + d].member \in Members
    <3>1. i + d \in 1 .. n
      BY <1>4
    <3>2. queue'[i] = queue[i + d]
      BY <1>3
    <3>3. queue[i + d] \in Event
      BY <1>2, <1>3, <3>1 DEF TypeOK
    <3> QED BY <3>1, <3>2, <3>3, EventFields
  <2>2. Introduced(i + d) /\ DueHasStanding(i + d)
    BY <1>2, <1>3, <2>1 DEF QueueInv
  <2>3. Introduced(i)'
    <3>1. CASE queue[i + d].kind = "went_valid" \/ queue[i + d].member = m
      BY <1>5, <2>1, <3>1 DEF Introduced
    <3>2. CASE queue[i + d].kind # "went_valid" /\ queue[i + d].member # m
      <4>1. CASE subs[queue[i + d].member] # None
        BY <1>5, <2>1, <3>2, <4>1 DEF Introduced
      <4>2. ASSUME NEW j \in 1 .. n, j < i + d, queue[j].member = queue[i + d].member,
                   queue[j].kind = "went_valid"
            PROVE  Introduced(i)'
        <5>1. j # 1
          BY <1>2, <3>2, <4>2
        <5>2. j - d \in 1 .. (n - d) /\ queue'[j - d] = queue[j]
          BY <1>4, <4>2, <5>1
        <5>3. j - d \in DOMAIN queue' /\ j - d < i
          BY <1>3, <4>2, <5>2
        <5> QED BY <2>1, <4>2, <5>2, <5>3 DEF Introduced
      <4> QED BY <1>3, <2>2, <3>2, <4>1, <4>2 DEF Introduced
    <3> QED BY <3>1, <3>2
  <2>4. DueHasStanding(i)'
    <3>1. CASE standing[queue[i + d].member] # None
      BY <1>2, <2>1, <3>1 DEF DueHasStanding
    <3>2. ASSUME NEW j \in 1 .. n, j > i + d, queue[j].member = queue[i + d].member,
                 Decides(queue[j])
          PROVE  DueHasStanding(i)'
      <4>1. j - d \in 1 .. (n - d) /\ queue'[j - d] = queue[j]
        BY <1>4, <3>2
      <4>2. j - d \in DOMAIN queue' /\ j - d > i
        BY <1>3, <3>2, <4>1
      <4> QED BY <2>1, <3>2, <4>1, <4>2 DEF DueHasStanding, Decides
    <3>3. CASE queue[i + d].kind # "payment_failed"
      BY <2>1, <3>3 DEF DueHasStanding
    <3> QED BY <1>3, <2>2, <3>1, <3>2, <3>3 DEF DueHasStanding
  <2> QED BY <2>3, <2>4
<1> QED BY <1>3, <1>7, <1>11, <1>12 DEF QueueInv

LEMMA CommitSettles ==
    ASSUME TypeInv, SerialInv, AccountInv, SettleInv, displaced' = {},
           NEW h \in Handlers, \A g \in Handlers : g = h, Commit(h)
    PROVE  SettleInv'
<1>1. AccountInv'
  BY CommitKeepsAccounts
<1>2. QueueInv'
  BY <1>1, CommitKeepsQueue
<1>3. \A e \in Emails : users'[e] # None => SupportedTier(e)'
  BY <1>1, CommitSupports
<1>4. step'[h] = "idle"
  BY DEF Commit, Close, TypeInv, TypeOK
<1> QED BY <1>2, <1>3, <1>4 DEF SettleInv

(***************************************************************************)
(* Whop goes on while the session works: the event at the head stays.      *)
(***************************************************************************)
LEMMA WhopSettles ==
    ASSUME TypeInv, SettleInv, WhopStep
    PROVE  SettleInv'
<1>1. TypeOK /\ QueueInv
  BY DEF TypeInv, SettleInv
<1>2. PICK k \in Kinds, m \in Members, p \in Plans \union {None},
           a \in Emails \union {None} :
         /\ Send(k, m, p, a)
         /\ \A n \in Members : n # m => standing'[n] = standing[n]
         /\ k # "went_valid" => standing[m] # None
         /\ k = "payment_failed" => standing' = standing
         /\ k = "went_invalid" => standing'[m] = None
         /\ k \in {"went_valid", "updated"} => standing'[m] = p /\ p # None
  <2>1. PICK m \in Members : Activate(m) \/ ChangePlan(m) \/ Expire(m) \/ FailPayment(m)
    BY DEF WhopStep
  <2>2. CASE Activate(m)
    <3>1. PICK p \in Plans, a \in MailsOf[OwnerOf[m]] \union {None} :
             /\ standing' = [standing EXCEPT ![m] = p]
             /\ Send("went_valid", m, p, a)
      BY <2>2 DEF Activate
    <3>2. a \in Emails \union {None}
      BY ConstantsOK
    <3>3. /\ standing'[m] = p /\ \A n \in Members : n # m => standing'[n] = standing[n]
          /\ p # None /\ "went_valid" \in Kinds
      BY <1>1, <3>1, NoneIsNoRow DEF TypeOK, Kinds
    <3> QED BY <3>1, <3>2, <3>3
  <2>3. CASE ChangePlan(m)
    <3>1. PICK p \in Plans : /\ standing' = [standing EXCEPT ![m] = p]
                             /\ Send("updated", m, p, None)
      BY <2>3 DEF ChangePlan
    <3>2. /\ standing'[m] = p /\ \A n \in Members : n # m => standing'[n] = standing[n]
          /\ p # None /\ standing[m] # None /\ "updated" \in Kinds
      BY <1>1, <2>3, <3>1, NoneIsNoRow DEF ChangePlan, TypeOK, Kinds
    <3> QED BY <3>1, <3>2
  <2>4. CASE Expire(m)
    <3>1. /\ standing'[m] = None /\ \A n \in Members : n # m => standing'[n] = standing[n]
          /\ standing[m] # None /\ "went_invalid" \in Kinds
          /\ Send("went_invalid", m, None, None)
      BY <1>1, <2>4 DEF Expire, TypeOK, Kinds
    <3> QED BY <3>1
  <2>5. CASE FailPayment(m)
    <3>1. /\ standing' = standing /\ standing[m] # None /\ "payment_failed" \in Kinds
          /\ Send("payment_failed", m, None, None)
      BY <2>5 DEF FailPayment, Kinds
    <3> QED BY <3>1
  <2> QED BY <2>1, <2>2, <2>3, <2>4, <2>5
<1>3. QueueInv'
  BY <1>1, <1>2, SendKeepsQueue
<1>4. UNCHANGED <<users, subs, step, ev, who, loaded, mine, seen, subLoaded, subMine>>
  BY <1>2 DEF Send, dbVars, txVars, rowVars, subVars
<1>5. queue # <<>> => queue' # <<>> /\ queue'[1] = queue[1]
  <2>1. PICK n \in Nat, x \in Event :
           /\ \A i \in 1 .. n : queue'[i] = queue[i]
           /\ DOMAIN queue = 1 .. n /\ DOMAIN queue' = 1 .. (n + 1)
    BY <1>1, <1>2, SendFacts
  <2>2. queue # <<>> => 1 \in 1 .. n
    BY <1>1, <2>1, HeadFacts
  <2>3. queue' # <<>>
    BY <2>1
  <2> QED BY <2>1, <2>2, <2>3
<1>6. ASSUME NEW g \in Handlers, step'[g] # "idle"
      PROVE  Working(g)'
  <2>1. Working(g)
    BY <1>4, <1>6 DEF SettleInv
  <2>2. MemberOf(g)' = MemberOf(g) /\ Made(g)' = Made(g)
    BY <1>4 DEF MemberOf, Made
  <2>3. OtherActive(g)' = OtherActive(g)
    BY <1>4, <2>2 DEF OtherActive
  <2>4. TierMade(g)' <=> TierMade(g)
    BY <1>4, <2>3 DEF TierMade
  <2> QED BY <1>4, <1>5, <2>1, <2>2, <2>4 DEF Working
<1>7. \A e \in Emails : users'[e] # None => SupportedTier(e)'
  BY <1>4 DEF SettleInv, SupportedTier
<1> QED BY <1>3, <1>6, <1>7 DEF SettleInv

(***************************************************************************)
(* A row that registers is free and has no subscriptions.                  *)
(***************************************************************************)
LEMMA RegisterSettles ==
    ASSUME TypeInv, AccountInv, SettleInv, NEW r \in Emails, Register(r)
    PROVE  SettleInv'
<1>1. users[r] = None /\ users' = [users EXCEPT ![r] = NewUser(None)]
  BY DEF Register
<1>2. TypeOK /\ OneAccount
  BY DEF TypeInv, AccountInv
<1>3. UNCHANGED <<subs, queue, standing, sent, step, ev, who, loaded, mine, seen, subLoaded,
                  subMine>>
  BY DEF Register, whopVars, txVars, rowVars, subVars
<1>4. QueueInv'
  BY <1>3, QueueFrame DEF SettleInv
<1>5. ASSUME NEW g \in Handlers, step'[g] # "idle"
      PROVE  Working(g)'
  <2>1. Working(g)
    BY <1>3, <1>5 DEF SettleInv
  <2>2. MemberOf(g)' = MemberOf(g) /\ Made(g)' = Made(g)
    BY <1>3 DEF MemberOf, Made
  <2>3. OtherActive(g)' = OtherActive(g)
    BY <1>3, <2>2 DEF OtherActive
  <2>4. TierMade(g)' <=> TierMade(g)
    BY <1>3, <2>3 DEF TierMade
  <2> QED BY <1>3, <2>1, <2>2, <2>4 DEF Working
<1>6. ASSUME NEW e \in Emails, users'[e] # None
      PROVE  SupportedTier(e)'
  <2>1. CASE e = r
    <3>1. users'[e].tier = "free"
      BY <1>1, <1>2, <2>1 DEF TypeOK, NewUser
    <3>2. \A m \in Members : subs[m] # None => subs[m].user # e
      BY <1>1, <1>2, <2>1 DEF OneAccount
    <3> QED BY <1>3, <3>1, <3>2 DEF SupportedTier
  <2>2. CASE e # r
    <3>1. users'[e] = users[e]
      BY <1>1, <1>2, <2>2 DEF TypeOK
    <3> QED BY <1>3, <1>6, <3>1 DEF SettleInv, SupportedTier
  <2> QED BY <2>1, <2>2
<1> QED BY <1>4, <1>5, <1>6 DEF SettleInv

(***************************************************************************)
(* While deliveries are handled one at a time and in order, SettleInv      *)
(* holds, and with an empty queue it says what the tier of a row is.       *)
(***************************************************************************)
LEMMA SettledTier ==
    ASSUME TypeOK, OneAccount, displaced = {} => SettleInv
    PROVE  TierFollowsMemberships
<1> SUFFICES ASSUME queue = <<>>, displaced = {}, SettleInv, NEW e \in Emails, users[e] # None
             PROVE  \/ users[e].tier = "free" /\ PaidOf(users[e].whop) = {}
                    \/ \E m \in ValidOf(users[e].whop) : users[e].tier = ResolveTier(standing[m])
  BY DEF TierFollowsMemberships, Settled
<1>1. \A m \in Members : SubAgrees(m)
  BY DEF SettleInv, QueueInv, Told
<1>2. SupportedTier(e)
  BY DEF SettleInv
<1>3. \A m \in Members : subs[m] # None => subs[m] \in SubRow /\ subs[m].user \in Emails
  BY DEF TypeOK, SubRow
<1>4. CASE /\ users[e].tier = "free"
           /\ \A m \in Members : subs[m] # None /\ subs[m].user = e
                                 => subs[m].status # "active"
  <2> SUFFICES ASSUME NEW m \in PaidOf(users[e].whop) PROVE FALSE
    BY <1>4
  <2>1. /\ m \in Members /\ OwnerOf[m] = users[e].whop /\ standing[m] # None
        /\ subs[m] # None /\ subs[m].status # "past_due"
    BY DEF PaidOf, ValidOf
  <2>2. subs[m].status = "active"
    BY <1>1, <2>1 DEF SubAgrees
  <2>3. /\ users[subs[m].user] # None /\ users[subs[m].user].whop = OwnerOf[m]
        /\ OwnerOf[m] # None
    BY <2>1, ConstantsOK DEF OneAccount
  <2>4. subs[m].user = e
    BY <1>3, <2>1, <2>3 DEF OneAccount
  <2> QED BY <1>4, <2>1, <2>2, <2>4
<1>5. ASSUME NEW m \in Members, subs[m] # None, subs[m].user = e,
             subs[m].status # "inactive", subs[m].tier = users[e].tier
      PROVE  \E n \in ValidOf(users[e].whop) : users[e].tier = ResolveTier(standing[n])
  <2>1. standing[m] # None /\ users[e].tier = ResolveTier(standing[m])
    BY <1>1, <1>5 DEF SubAgrees
  <2>2. OwnerOf[m] = users[e].whop
    BY <1>5 DEF OneAccount
  <2> QED BY <2>1, <2>2 DEF ValidOf
<1> QED BY <1>2, <1>4, <1>5 DEF SupportedTier

(***************************************************************************)
(* Once every event has been answered, an account has the tier of one of   *)
(* its valid memberships, and is free when it has none that is paid, if    *)
(* Whop's events are handled one at a time and in order, whatever is lost, *)
(* refused or sent again (whop.py:185, the webhook).                       *)
(***************************************************************************)
THEOREM SerialTierCorrect ==
    ASSUME \A g, h \in Handlers : g = h, Window = 1
    PROVE  Spec => []TierFollowsMemberships
<1> DEFINE Inv == displaced = {} => SettleInv
<1>1. Init => Inv
  <2> SUFFICES ASSUME Init PROVE SettleInv
    OBVIOUS
  <2>1. QueueInv
    BY DEF Init, NoRows, QueueInv, EventsOrdered, Told, SubAgrees
  <2> QED BY <2>1 DEF Init, SettleInv
<1>2. TypeInv /\ SerialInv /\ AccountInv /\ Inv /\ [Next]_vars => Inv'
  <2> SUFFICES ASSUME TypeInv, SerialInv, AccountInv, Inv, [Next]_vars, displaced' = {}
               PROVE  SettleInv'
    OBVIOUS
  <2>0. displaced = {} /\ SettleInv
    <3>1. displaced \subseteq displaced'
      BY DEF Next, WhopStep, Activate, ChangePlan, Expire, FailPayment, Send, HandlerStep, Take,
             FindByEmail, LoadSubs, Link, CreateUser, ReadSub, FlushSub, DuplicateSub,
             ReadOthers, TooManyOthers, Commit, BreakDeadlock, DatabaseFails, Refuse,
             Register, dbVars, vars
    <3> QED BY <3>1
  <2>1. ASSUME NEW h \in Handlers, HandlerStep(h) PROVE SettleInv'
    <3>1. TypeOK /\ \A g \in Handlers : g = h
      BY DEF TypeInv
    <3>2. CASE DuplicateSub(h) \/ TooManyOthers(h) \/ BreakDeadlock(h)
      BY <2>0, <3>1, <3>2, ClosedSettles DEF DuplicateSub, TooManyOthers, BreakDeadlock, Refuse
    <3> QED BY <2>0, <2>1, <3>1, <3>2, TakeSettles, AccountSettles, LoadSettles, ReadSettles,
               FlushSettles, OthersSettles, CommitSettles DEF HandlerStep
  <2>2. ASSUME NEW h \in Handlers, DatabaseFails(h) PROVE SettleInv'
    BY <2>0, <2>2, ClosedSettles DEF DatabaseFails, TypeInv
  <2>3. CASE \E w \in Whops : \E e \in MailsOf[w] : Register(e)
    BY <2>0, <2>3, ConstantsOK, RegisterSettles
  <2>4. CASE WhopStep
    BY <2>0, <2>4, WhopSettles
  <2>5. CASE UNCHANGED vars
    <3>1. QueueInv'
      BY <2>0, <2>5, QueueFrame DEF SettleInv, vars
    <3>2. \A g \in Handlers : Working(g)' <=> Working(g)
      BY <2>5 DEF vars, Working, TierMade, OtherActive, Made, MemberOf
    <3> QED BY <2>0, <2>5, <3>1, <3>2 DEF SettleInv, SupportedTier, vars
  <2> QED BY <2>1, <2>2, <2>3, <2>4, <2>5 DEF Next
<1>3. TypeInv /\ AccountInv /\ Inv => TierFollowsMemberships
  BY SettledTier DEF TypeInv, AccountInv
<1>4. Spec => []SerialInv
  BY SerialInvCorrect
<1> QED BY <1>1, <1>2, <1>3, <1>4, TypeInvCorrect, AccountInvCorrect, PTL DEF Spec
=============================================================================
