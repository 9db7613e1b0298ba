---------------------------- MODULE Access_proofs ----------------------------
(***************************************************************************)
(* Proofs about Access, for any number of requests, attempts, ages and     *)
(* secrets: the type invariant; the bounds of the two middlewares, which   *)
(* count around an await; and that an enabled second factor was verified,  *)
(* in which the middlewares play no part.                                  *)
(***************************************************************************)
EXTENDS Access, Induction, FiniteSetTheorems

-----------------------------------------------------------------------------
(***************************************************************************)
(* Lists of ages.  All that the middlewares ask of a list is how many of   *)
(* its ages are below a bound, so that is what the lemmas follow.          *)
(***************************************************************************)
Young(ages, i, k) == {j \in 1 .. i : ages[j] < k}
Count(ages, k)    == Cardinality(Young(ages, Len(ages), k))
One(b)            == IF b THEN 1 ELSE 0

LEMMA AgesNatural ==
    ASSUME NEW w \in Nat, NEW ages \in Seq(0 .. w)
    PROVE  ages \in Seq(Nat)
OBVIOUS

LEMMA YoungFinite ==
    ASSUME NEW ages, NEW i \in Nat, NEW k
    PROVE  IsFiniteSet(Young(ages, i, k)) /\ Cardinality(Young(ages, i, k)) \in Nat
<1>1. Young(ages, i, k) \in SUBSET (1 .. i)
  BY DEF Young
<1>2. IsFiniteSet(1 .. i)
  BY FS_Interval
<1>3. IsFiniteSet(Young(ages, i, k))
  BY <1>1, <1>2, FS_Subset
<1> QED BY <1>3, FS_CardinalityType

LEMMA CountType ==
    ASSUME NEW S, NEW ages \in Seq(S), NEW k
    PROVE  Count(ages, k) \in Nat
BY YoungFinite DEF Count

LEMMA YoungStep ==
    ASSUME NEW ages, NEW i \in Nat \ {0}, NEW k
    PROVE  Cardinality(Young(ages, i, k))
              = Cardinality(Young(ages, i - 1, k)) + One(ages[i] < k)
<1>1. i - 1 \in Nat /\ i \notin Young(ages, i - 1, k)
  BY DEF Young
<1>2. CASE ages[i] < k
  <2>1. Young(ages, i, k) = Young(ages, i - 1, k) \union {i}
    BY <1>2 DEF Young
  <2> QED BY <1>1, <1>2, <2>1, YoungFinite, FS_AddElement DEF One
<1>3. CASE ~(ages[i] < k)
  <2>1. Young(ages, i, k) = Young(ages, i - 1, k)
    BY <1>3 DEF Young
  <2> QED BY <1>1, <1>3, <2>1, YoungFinite DEF One
<1> QED BY <1>2, <1>3

LEMMA CountAppend ==
    ASSUME NEW S, NEW ages \in Seq(S), NEW a \in S, NEW k
    PROVE  Count(Append(ages, a), k) = Count(ages, k) + One(a < k)
<1> DEFINE longer == Append(ages, a)
<1>1. /\ Len(longer) = Len(ages) + 1 /\ longer[Len(ages) + 1] = a
      /\ \A j \in 1 .. Len(ages) : longer[j] = ages[j]
  OBVIOUS
<1>2. Young(longer, Len(ages), k) = Young(ages, Len(ages), k)
  BY <1>1 DEF Young
<1>3. Len(ages) + 1 \in Nat \ {0} /\ (Len(ages) + 1) - 1 = Len(ages)
  OBVIOUS
<1> HIDE DEF longer
<1>4. Cardinality(Young(longer, Len(ages) + 1, k))
         = Cardinality(Young(longer, (Len(ages) + 1) - 1, k)) + One(longer[Len(ages) + 1] < k)
  BY <1>3, YoungStep
<1> QED BY <1>1, <1>2, <1>3, <1>4 DEF Count, longer

LEMMA CountMonotone ==
    ASSUME NEW ages \in Seq(Nat), NEW k \in Nat, NEW l \in Nat, k <= l
    PROVE  Count(ages, k) <= Count(ages, l)
<1>1. Young(ages, Len(ages), k) \subseteq Young(ages, Len(ages), l)
  BY DEF Young
<1> QED BY <1>1, YoungFinite, FS_Subset DEF Count

LEMMA CountZero ==
    ASSUME NEW ages \in Seq(Nat)
    PROVE  Count(ages, 0) = 0
<1>1. Young(ages, Len(ages), 0) = {}
  BY DEF Young
<1> QED BY <1>1, FS_EmptySet DEF Count

(***************************************************************************)
(* Time makes an age below k of one below k - 1.                           *)
(***************************************************************************)
LEMMA AgedFacts ==
    ASSUME NEW w \in Nat, NEW ages \in Seq(0 .. w)
    PROVE  /\ Aged(ages, w) \in Seq(0 .. w)
           /\ \A k \in 1 .. w : Count(Aged(ages, w), k) = Count(ages, k - 1)
<1>1. /\ Aged(ages, w) \in Seq(0 .. w) /\ Len(Aged(ages, w)) = Len(ages)
      /\ \A i \in 1 .. Len(ages) : Aged(ages, w)[i] = Older(ages[i], w)
  <2>1. \A a \in 0 .. w : Older(a, w) \in 0 .. w
    BY DEF Older
  <2>2. Aged(ages, w) = [i \in 1 .. Len(ages) |-> Older(ages[i], w)]
    BY DEF Aged
  <2>3. \A i \in 1 .. Len(ages) : ages[i] \in 0 .. w
    OBVIOUS
  <2>4. Aged(ages, w) \in [1 .. Len(ages) -> 0 .. w]
    BY <2>1, <2>2, <2>3
  <2> QED BY <2>2, <2>4
<1>2. ASSUME NEW k \in 1 .. w PROVE Count(Aged(ages, w), k) = Count(ages, k - 1)
  <2>1. \A i \in 1 .. Len(ages) : Aged(ages, w)[i] < k <=> ages[i] < k - 1
    BY <1>1 DEF Older
  <2>2. Young(Aged(ages, w), Len(ages), k) = Young(ages, Len(ages), k - 1)
    BY <2>1 DEF Young
  <2> QED BY <1>1, <2>2 DEF Count
<1> QED BY <1>1, <1>2

(***************************************************************************)
(* Pruning.  The recursion is defined, and by induction over it: what is   *)
(* kept are ages, as many as are below the window, and as many below each  *)
(* smaller bound as before.                                                *)
(***************************************************************************)
LEMMA KeptDefined ==
    ASSUME NEW w \in Nat, NEW ages \in Seq(0 .. w), NEW window \in Nat
    PROVE  /\ Kept(ages, window) \in [0 .. Len(ages) -> Seq(0 .. w)]
           /\ Kept(ages, window)[0] = <<>>
           /\ \A i \in 1 .. Len(ages) :
                 Kept(ages, window)[i] =
                    IF ages[i] < window THEN Append(Kept(ages, window)[i - 1], ages[i])
                    ELSE Kept(ages, window)[i - 1]
<1> DEFINE n == Len(ages)
           S == Seq(0 .. w)
           next(i, s) == IF ages[i] < window THEN Append(s, ages[i]) ELSE s
           step == [p \in (1 .. n) \X S |-> next(p[1], p[2])]
<1>1. n \in Nat /\ <<>> \in S
  OBVIOUS
<1>2. ASSUME NEW i \in 1 .. n, NEW s \in S PROVE next(i, s) \in S
  <2>1. ages[i] \in 0 .. w
    OBVIOUS
  <2>2. Append(s, ages[i]) \in S
    BY <2>1
  <2> QED BY <2>2
<1>3. /\ step \in [(1 .. n) \X S -> S]
      /\ \A i \in 1 .. n, s \in S : step[<<i, s>>] = next(i, s)
  <2> HIDE DEF n, S, next
  <2> QED BY <1>2
<1>4. PICK f : Recursion(f, n, S, <<>>, step)
  <2>1. step \in [(1 .. n) \X S -> S]
    BY <1>3
  <2> HIDE DEF n, S, step
  <2> QED BY <1>1, <2>1, RecursionExists
<1>5. \A i \in 1 .. n : f[i] = next(i, f[i - 1])
  <2> HIDE DEF S, step, next
  <2>1. \A i \in 1 .. n : i - 1 \in 0 .. n
    BY <1>1
  <2> HIDE DEF n
  <2> QED BY <1>3, <1>4, <2>1 DEF Recursion
<1>6. f = [i \in 0 .. n |-> IF i = 0 THEN <<>> ELSE next(i, f[i - 1])]
  <2> HIDE DEF S, step, next
  <2> QED BY <1>1, <1>4, <1>5 DEF Recursion
<1> DEFINE g == Kept(ages, window)
<1>7. g = [i \in 0 .. n |-> IF i = 0 THEN <<>> ELSE next(i, g[i - 1])]
  BY <1>6 DEF Kept
<1>8. f = g
  <2> DEFINE T == {i \in 0 .. n : f[i] = g[i]}
  <2> HIDE DEF S, step, next, g
  <2>1. 0 \in T
    BY <1>1, <1>6, <1>7
  <2>2. ASSUME NEW i \in 1 .. n, i - 1 \in T PROVE i \in T
    <3>1. i \in 0 .. n /\ i # 0 /\ f[i - 1] = g[i - 1]
      BY <2>2
    <3>2. f[i] = next(i, f[i - 1]) /\ g[i] = next(i, g[i - 1])
      BY <1>6, <1>7, <3>1, Zenon
    <3> QED BY <3>1, <3>2
  <2>3. 0 .. n \subseteq T
    <3> HIDE DEF T, n
    <3> QED BY <1>1, <2>1, <2>2, InductionUpTo
  <2> QED BY <1>6, <1>7, <2>3
<1> HIDE DEF g
<1>9. /\ g \in [0 .. n -> S] /\ g[0] = <<>>
      /\ \A i \in 1 .. n : g[i] = next(i, g[i - 1])
  <2> HIDE DEF S, step, next
  <2> QED BY <1>4, <1>5, <1>8 DEF Recursion
<1> QED BY <1>9 DEF g

LEMMA WithinFacts ==
    ASSUME NEW w \in Nat, NEW ages \in Seq(0 .. w), NEW window \in Nat
    PROVE  /\ Within(ages, window) \in Seq(0 .. w)
           /\ Len(Within(ages, window)) = Count(ages, window)
           /\ \A k \in 0 .. window : Count(Within(ages, window), k) = Count(ages, k)
<1> DEFINE n == Len(ages)
           g == Kept(ages, window)
           Agrees(i) == /\ Len(g[i]) = Cardinality(Young(ages, i, window))
                        /\ \A k \in 0 .. window :
                              Count(g[i], k) = Cardinality(Young(ages, i, k))
           T == {i \in 0 .. n : Agrees(i)}
<1>1. /\ n \in Nat /\ g \in [0 .. n -> Seq(0 .. w)] /\ g[0] = <<>>
      /\ \A i \in 1 .. n :
            g[i] = IF ages[i] < window THEN Append(g[i - 1], ages[i]) ELSE g[i - 1]
  BY KeptDefined
<1>2. \A i \in 1 .. n : i - 1 \in 0 .. n /\ i \in Nat \ {0} /\ ages[i] \in 0 .. w
  OBVIOUS
<1> HIDE DEF n, g
<1>3. 0 \in T
  <2>1. \A k : Young(ages, 0, k) = {} /\ Young(<<>>, 0, k) = {}
    BY DEF Young
  <2>2. Len(<<>>) = 0
    OBVIOUS
  <2>3. Agrees(0)
    BY <1>1, <2>1, <2>2, FS_EmptySet DEF Count
  <2> QED BY <1>1, <2>3
<1>4. ASSUME NEW i \in 1 .. n, i - 1 \in T PROVE i \in T
  <2> DEFINE s == g[i - 1]
             a == ages[i]
  <2>1. s \in Seq(0 .. w) /\ a \in 0 .. w /\ i \in Nat \ {0} /\ Agrees(i - 1)
    BY <1>1, <1>2, <1>4
  <2>2. \A k \in 0 .. window : Cardinality(Young(ages, i, k))
                                  = Cardinality(Young(ages, i - 1, k)) + One(a < k)
    BY <2>1, YoungStep
  <2>3. window \in 0 .. window /\ i \in 0 .. n
    OBVIOUS
  <2>4. CASE a < window
    <3>1. g[i] = Append(s, a) /\ Len(g[i]) = Len(s) + 1
      <4>1. g[i] = Append(s, a)
        BY <1>1, <2>4
      <4>2. Len(Append(s, a)) = Len(s) + 1
        BY <2>1
      <4> QED BY <4>1, <4>2
    <3>2. ASSUME NEW k \in 0 .. window
          PROVE  Count(g[i], k) = Cardinality(Young(ages, i, k))
      <4>1. Count(Append(s, a), k) = Count(s, k) + One(a < k)
        BY <2>1, CountAppend
      <4> QED BY <2>1, <2>2, <3>1, <4>1
    <3>3. Len(g[i]) = Cardinality(Young(ages, i, window))
      BY <2>1, <2>2, <2>3, <2>4, <3>1 DEF One
    <3> QED BY <2>3, <3>2, <3>3
  <2>5. CASE ~(a < window)
    <3>1. g[i] = s
      BY <1>1, <2>5
    <3>2. \A k \in 0 .. window : One(a < k) = 0
      BY <2>1, <2>5 DEF One
    <3>3. \A k \in 0 .. window : Cardinality(Young(ages, i - 1, k)) \in Nat
      BY <1>2, YoungFinite
    <3>4. \A k \in 0 .. window :
             Cardinality(Young(ages, i, k)) = Cardinality(Young(ages, i - 1, k))
      BY <2>2, <3>2, <3>3
    <3> QED BY <2>1, <2>3, <3>1, <3>4
  <2> QED BY <2>4, <2>5
<1>5. n \in T
  <2> HIDE DEF T
  <2>1. n \in 0 .. n
    BY <1>1
  <2> QED BY <1>1, <1>3, <1>4, <2>1, InductionUpTo
<1>6. Within(ages, window) = g[n] /\ g[n] \in Seq(0 .. w) /\ Agrees(n)
  BY <1>1, <1>5 DEF Within, g, n
<1> QED BY <1>6 DEF Count, n

-----------------------------------------------------------------------------
(***************************************************************************)
(* The types.  TypeOK is inductive as it stands.  Its two halves change    *)
(* apart: the lists of ages, and the account with the requests in flight.  *)
(***************************************************************************)
ListsTyped ==
    /\ failed_attempts \in Seq(0 .. lockout) /\ rejected \in Seq(0 .. lockout)
    /\ requests \in Seq(0 .. Minute) /\ served \in Seq(0 .. Minute)

RequestsTyped ==
    /\ stage \in [Requests -> Stages] /\ kind \in [Requests -> Kinds]
    /\ now \in [Requests -> 0 .. lockout]
    /\ row \in [Requests -> Row \union {None}]
    /\ status \in [Requests -> {0, 200, 401, 429, 500}]
    /\ \A r \in Requests : /\ stage[r] = "commit" => row[r] \in Row /\ kind[r] \in Setups
                           /\ row[r] # None => row[r].secret <= generated

AccountOK == /\ user \in Row /\ generated \in Secrets /\ proved \in 0 .. generated
             /\ user.secret <= generated /\ torn \in BOOLEAN

LEMMA TypeParts == TypeOK <=> ListsTyped /\ AccountOK /\ RequestsTyped
BY DEF TypeOK, ListsTyped, AccountOK, RequestsTyped

LEMMA RowFacts == \A x \in Row : x # None /\ x.secret \in Nat
<1>1. Secrets \subseteq Nat
  BY ConstantsOK DEF Secrets
<1>2. \A x \in Row : x \in [secret : Nat, enabled : BOOLEAN] /\ x.secret \in Nat
  BY <1>1 DEF Row
<1> QED BY <1>2, ConstantsOK

LEMMA SessionRows ==
    ASSUME RequestsTyped, NEW r \in Requests
    PROVE  /\ stage[r] = "commit" => row[r] \in Row /\ kind[r] \in Setups
           /\ row[r] # None => row[r] \in Row /\ row[r].secret <= generated
<1>1. row[r] \in Row \union {None}
  BY DEF RequestsTyped
<1>2. /\ stage[r] = "commit" => row[r] \in Row /\ kind[r] \in Setups
      /\ row[r] # None => row[r].secret <= generated
  BY Zenon DEF RequestsTyped
<1> QED BY <1>1, <1>2

LEMMA InitTyped == ASSUME Init PROVE TypeOK
<1>1. ListsTyped
  BY ConstantsOK DEF Init, ListsTyped
<1>2. AccountOK
  <2>1. user \in Row /\ generated \in Secrets /\ user.secret = 0
    BY ConstantsOK DEF Init, Row, Secrets
  <2>2. generated = 0 /\ proved \in 0 .. generated
    BY DEF Init
  <2>3. torn \in BOOLEAN
    BY DEF Init
  <2> QED BY <2>1, <2>2, <2>3 DEF AccountOK
<1>3. RequestsTyped
  BY ConstantsOK DEF Init, RequestsTyped, Stages, Kinds
<1> QED BY <1>1, <1>2, <1>3, TypeParts

LEMMA ListsStep == ASSUME TypeOK, [Next]_vars PROVE ListsTyped'
<1> USE ConstantsOK DEF ListsTyped
<1>1. /\ Within(failed_attempts, lockout) \in Seq(0 .. lockout)
      /\ Within(requests, Minute) \in Seq(0 .. Minute)
      /\ Within(served, Minute) \in Seq(0 .. Minute)
  BY TypeParts, WithinFacts
<1>2. 0 \in 0 .. lockout /\ 0 \in 0 .. Minute
  OBVIOUS
<1>3. \A r \in Requests : now[r] \in 0 .. lockout
  BY TypeParts DEF RequestsTyped
<1>4. ASSUME NEW r \in Requests, MiddlewareStep(r) PROVE ListsTyped'
  <2>1. CASE RefuseLogin(r) \/ BeginLogin(r) \/ BeginSetup(r)
    BY <1>1, <2>1, TypeParts DEF RefuseLogin, BeginLogin, BeginSetup, Begin
  <2>2. CASE Deny(r)
    BY <1>1, <2>2, TypeParts DEF Deny
  <2>3. CASE Admit(r)
    <3>1. /\ Append(Within(requests, Minute), 0) \in Seq(0 .. Minute)
          /\ Append(Within(served, Minute), 0) \in Seq(0 .. Minute)
      BY <1>1, <1>2
    <3> QED BY <2>3, <3>1, TypeParts DEF Admit
  <2>4. CASE Respond(r)
    <3>1. /\ failed_attempts' \in {Append(failed_attempts, now[r]), <<>>, failed_attempts}
          /\ rejected' \in {<<>>, rejected} /\ UNCHANGED <<requests, served>>
      BY <2>4 DEF Respond, Record
    <3>2. /\ Append(failed_attempts, now[r]) \in Seq(0 .. lockout)
          /\ <<>> \in Seq(0 .. lockout)
      BY <1>3, TypeParts
    <3>3. failed_attempts' \in Seq(0 .. lockout) /\ rejected' \in Seq(0 .. lockout)
      BY <3>1, <3>2, TypeParts, Zenon
    <3> QED BY <3>1, <3>3, TypeParts
  <2> QED BY <1>4, <2>1, <2>2, <2>3, <2>4 DEF MiddlewareStep
<1>5. ASSUME NEW r \in Requests, HandlerStep(r) PROVE ListsTyped'
  <2>1. CASE Login(r)
    <3>1. /\ rejected' \in {Append(rejected, now[r]), rejected}
          /\ UNCHANGED <<failed_attempts, requests, served>>
      BY <2>1 DEF Login
    <3>2. Append(rejected, now[r]) \in Seq(0 .. lockout)
      BY <1>3, TypeParts
    <3> QED BY <3>1, <3>2, TypeParts
  <2>2. CASE Setup(r) \/ Commit(r) \/ CommitFails(r)
    BY <2>2, TypeParts DEF Setup, Commit, CommitFails
  <2> QED BY <1>5, <2>1, <2>2 DEF HandlerStep
<1>6. CASE Tick
  <2>1. /\ Aged(failed_attempts, lockout) \in Seq(0 .. lockout)
        /\ Aged(rejected, lockout) \in Seq(0 .. lockout)
        /\ Aged(requests, Minute) \in Seq(0 .. Minute)
        /\ Aged(served, Minute) \in Seq(0 .. Minute)
    BY TypeParts, AgedFacts
  <2>2. /\ Within(Aged(rejected, lockout), lockout) \in Seq(0 .. lockout)
        /\ Within(Aged(served, Minute), Minute) \in Seq(0 .. Minute)
    BY <2>1, WithinFacts
  <2> QED BY <1>6, <2>1, <2>2 DEF Tick
<1>7. CASE UNCHANGED vars
  BY <1>7, TypeParts DEF vars
<1> QED BY <1>4, <1>5, <1>6, <1>7 DEF Next

(***************************************************************************)
(* A request that is answered, or over, waits for no commit and leaves the *)
(* others as they are.                                                     *)
(***************************************************************************)
LEMMA ReplyTyped ==
    ASSUME TypeOK, NEW r \in Requests, NEW s, Reply(r, s),
           kind[r] = "login" => s \in {200, 401, 429, 500},
           generated' \in Secrets, generated <= generated'
    PROVE  RequestsTyped'
<1>1. RequestsTyped /\ generated \in Nat /\ generated' \in Nat /\ 0 \in 0 .. lockout
  BY ConstantsOK, TypeParts DEF AccountOK, Secrets
<1>2. ASSUME NEW q \in Requests
      PROVE  /\ stage[q] = "commit" => row[q] \in Row /\ kind[q] \in Setups
             /\ row[q] # None => row[q].secret \in Nat /\ row[q].secret <= generated
  BY <1>1, SessionRows, RowFacts
<1>3. /\ stage' \in [Requests -> Stages] /\ kind' \in [Requests -> Kinds]
      /\ now' \in [Requests -> 0 .. lockout]
      /\ row' \in [Requests -> Row \union {None}]
      /\ status' \in [Requests -> {0, 200, 401, 429, 500}]
  BY <1>1 DEF RequestsTyped, Reply, Close, Stages, Kinds
<1>4. ASSUME NEW q \in Requests
      PROVE  /\ stage'[q] = "commit" => q # r /\ stage[q] = "commit"
             /\ q # r => kind'[q] = kind[q] /\ row'[q] = row[q]
             /\ row'[q] = row[q] \/ row'[q] = None
  BY <1>1 DEF RequestsTyped, Reply, Close
<1>5. ASSUME NEW q \in Requests
      PROVE  /\ stage'[q] = "commit" => row'[q] \in Row /\ kind'[q] \in Setups
             /\ row'[q] # None => row'[q].secret <= generated'
  <2>1. stage'[q] = "commit" => row'[q] \in Row /\ kind'[q] \in Setups
    BY <1>2, <1>4
  <2>2. ASSUME row'[q] # None PROVE row'[q].secret <= generated'
    <3>1. row'[q] = row[q]
      BY <1>4, <2>2
    <3> QED BY <1>1, <1>2, <2>2, <3>1
  <2> QED BY <2>1, <2>2
<1> QED BY <1>3, <1>5 DEF RequestsTyped

LEMMA BeginTyped ==
    ASSUME TypeOK, NEW r \in Requests, NEW k \in Kinds, Begin(r, k)
    PROVE  AccountOK' /\ RequestsTyped'
<1>1. 0 \in 0 .. lockout /\ "limit" \in Stages /\ "limit" # "commit"
  BY ConstantsOK DEF Stages
<1>2. AccountOK'
  BY TypeParts DEF Begin, account, AccountOK
<1>3. RequestsTyped'
  BY <1>1, TypeParts DEF Begin, account, RequestsTyped
<1> QED BY <1>2, <1>3

LEMMA MiddlewareTyped ==
    ASSUME TypeOK, NEW r \in Requests, MiddlewareStep(r)
    PROVE  AccountOK' /\ RequestsTyped'
<1>1. AccountOK /\ RequestsTyped /\ generated \in Nat
  BY ConstantsOK, TypeParts DEF AccountOK, Secrets
<1>2. "login" \in Kinds /\ Setups \subseteq Kinds
  BY DEF Kinds
<1>3. CASE RefuseLogin(r)
  BY <1>1, <1>3 DEF RefuseLogin, account, requestVars, AccountOK, RequestsTyped
<1>4. CASE BeginLogin(r) \/ BeginSetup(r)
  BY <1>2, <1>4, BeginTyped DEF BeginLogin, BeginSetup
<1>5. CASE Deny(r)
  <2>1. Reply(r, 429) /\ UNCHANGED account
    BY <1>5 DEF Deny
  <2>2. RequestsTyped'
    BY <1>1, <2>1, ReplyTyped DEF account, AccountOK
  <2> QED BY <1>1, <2>1, <2>2 DEF account, AccountOK
<1>6. CASE Admit(r)
  <2>1. "load" \in Stages /\ "load" # "commit"
    BY DEF Stages
  <2> QED BY <1>1, <1>6, <2>1 DEF Admit, account, AccountOK, RequestsTyped
<1>7. CASE Respond(r)
  <2>1. Close(r) /\ UNCHANGED account
    BY <1>7 DEF Respond
  <2>2. RequestsTyped'
    BY <1>1, <2>1, ConstantsOK DEF Close, account, RequestsTyped, Stages, Kinds
  <2> QED BY <1>1, <2>1, <2>2 DEF account, AccountOK
<1> QED BY <1>3, <1>4, <1>5, <1>6, <1>7 DEF MiddlewareStep

LEMMA LoginTyped ==
    ASSUME TypeOK, NEW r \in Requests, Login(r)
    PROVE  AccountOK' /\ RequestsTyped'
<1>1. UNCHANGED account /\ generated \in Secrets /\ generated <= generated
  BY ConstantsOK, TypeParts DEF Login, AccountOK, Secrets
<1>2. PICK s \in {200, 401, 500} : Reply(r, s)
  BY DEF Login, LoginAnswer
<1>3. RequestsTyped'
  BY <1>1, <1>2, ReplyTyped DEF account
<1> QED BY <1>1, <1>3, TypeParts DEF account, AccountOK

LEMMA SetupTyped ==
    ASSUME TypeOK, NEW r \in Requests, Setup(r)
    PROVE  AccountOK' /\ RequestsTyped'
<1>1. PICK c \in Codes :
          IF SetupAnswer(kind[r], user, c) = 200
          THEN /\ stage' = [stage EXCEPT ![r] = "commit"]
               /\ row' = [row EXCEPT ![r] = user]
               /\ torn' = (torn \/ \E q \in Requests : stage[q] = "commit")
               /\ proved' = IF kind[r] = "verify" /\ VerifyTotp(user.secret, c)
                             THEN c ELSE proved
               /\ UNCHANGED <<kind, now, status>>
          ELSE /\ Reply(r, SetupAnswer(kind[r], user, c))
               /\ UNCHANGED <<torn, proved>>
  BY DEF Setup
<1>2. /\ kind[r] \in Setups /\ kind[r] # "login"
      /\ UNCHANGED <<user, generated>>
  BY DEF Setup, Setups
<1>3. /\ AccountOK /\ RequestsTyped /\ generated \in Secrets
      /\ generated \in Nat /\ generated <= generated
  BY ConstantsOK, TypeParts DEF AccountOK, Secrets
<1>4. CASE SetupAnswer(kind[r], user, c) # 200
  <2>1. RequestsTyped'
    BY <1>1, <1>2, <1>3, <1>4, ReplyTyped
  <2>2. AccountOK'
    BY <1>1, <1>2, <1>3, <1>4 DEF AccountOK
  <2> QED BY <2>1, <2>2
<1>5. CASE SetupAnswer(kind[r], user, c) = 200
  <2>1. proved' \in 0 .. generated'
    BY <1>1, <1>2, <1>3, <1>5 DEF Codes, AccountOK
  <2>2. torn' \in BOOLEAN
    BY <1>1, <1>5
  <2>3. AccountOK'
    BY <1>2, <1>3, <2>1, <2>2 DEF AccountOK
  <2>4. "commit" \in Stages /\ user \in Row /\ user.secret <= generated
    BY <1>3 DEF Stages, AccountOK
  <2>5. RequestsTyped'
    BY <1>1, <1>2, <1>3, <1>5, <2>4 DEF RequestsTyped
  <2> QED BY <2>3, <2>5
<1> QED BY <1>4, <1>5

LEMMA CommitTyped ==
    ASSUME TypeOK, NEW r \in Requests, Commit(r)
    PROVE  AccountOK' /\ RequestsTyped'
<1>1. /\ AccountOK /\ row[r] \in Row /\ kind[r] # "login" /\ row[r].secret <= generated
      /\ Reply(r, 200) /\ UNCHANGED <<proved, torn>>
  <2>1. /\ stage[r] = "commit" /\ Reply(r, 200) /\ UNCHANGED <<proved, torn>>
    BY DEF Commit
  <2>2. row[r] \in Row /\ kind[r] # "login" /\ (row[r] # None => row[r].secret <= generated)
    BY <2>1, TypeParts, SessionRows DEF Setups
  <2>3. row[r] # None
    BY <2>2, RowFacts
  <2> QED BY <2>1, <2>2, <2>3, TypeParts
<1>2. generated' \in Secrets /\ generated <= generated' /\ generated \in Nat
  <2>1. CASE CommitEnable(r)
    BY <1>1, <2>1, ConstantsOK DEF CommitEnable, AccountOK, Secrets
  <2>2. CASE CommitVerify(r) \/ CommitDisable(r)
    BY <1>1, <2>2, ConstantsOK DEF CommitVerify, CommitDisable, AccountOK, Secrets
  <2> QED BY <2>1, <2>2 DEF Commit
<1>3. PICK secret \in Secrets, enabled \in BOOLEAN :
         secret <= generated' /\ Save([secret |-> secret, enabled |-> enabled], r)
  <2>1. CASE CommitEnable(r)
    <3>1. /\ generated + 1 \in Secrets /\ generated + 1 <= generated'
          /\ row[r].enabled \in BOOLEAN
      BY <1>1, <1>2, <2>1 DEF CommitEnable, Row
    <3>2. [row[r] EXCEPT !.secret = generated + 1]
             = [secret |-> generated + 1, enabled |-> row[r].enabled]
      BY <1>1 DEF Row
    <3> QED BY <2>1, <3>1, <3>2, Zenon DEF CommitEnable
  <2>2. CASE CommitVerify(r)
    <3>1. /\ row[r].secret \in Secrets /\ row[r].secret <= generated'
      BY <1>1, <1>2, <2>2 DEF CommitVerify, Row
    <3>2. \A e : [row[r] EXCEPT !.enabled = e] = [secret |-> row[r].secret, enabled |-> e]
      BY <1>1 DEF Row
    <3>3. TRUE \in BOOLEAN
      OBVIOUS
    <3> QED BY <2>2, <3>1, <3>2, <3>3, Zenon DEF CommitVerify
  <2>3. CASE CommitDisable(r)
    <3>1. 0 \in Secrets /\ 0 <= generated'
      BY <1>2, ConstantsOK DEF Secrets
    <3>2. FALSE \in BOOLEAN
      OBVIOUS
    <3> QED BY <2>3, <3>1, <3>2, Zenon DEF CommitDisable
  <2> QED BY <2>1, <2>2, <2>3 DEF Commit
<1>4. user' \in Row /\ user'.secret <= generated'
  <2>1. user.secret \in Secrets /\ user.enabled \in BOOLEAN /\ user.secret <= generated'
    BY <1>1, <1>2 DEF AccountOK, Row, Secrets
  <2>2. PICK n \in Secrets, e \in BOOLEAN :
           user' = [secret |-> n, enabled |-> e] /\ n <= generated'
    BY <1>3, <2>1, Zenon DEF Save
  <2> QED BY <2>2 DEF Row
<1>5. AccountOK'
  BY <1>1, <1>2, <1>4 DEF AccountOK, Secrets
<1> QED BY <1>1, <1>2, <1>5, ReplyTyped

LEMMA TypeStep == ASSUME TypeOK, [Next]_vars PROVE TypeOK'
<1>1. AccountOK' /\ RequestsTyped'
  <2>1. CASE \E r \in Requests : MiddlewareStep(r)
    BY <2>1, MiddlewareTyped
  <2>2. ASSUME NEW r \in Requests, HandlerStep(r)
        PROVE  AccountOK' /\ RequestsTyped'
    <3>1. CASE CommitFails(r)
      <4>1. Reply(r, 500) /\ UNCHANGED account
        BY <3>1 DEF CommitFails
      <4>2. AccountOK /\ generated \in Secrets /\ generated <= generated
        BY ConstantsOK, TypeParts DEF AccountOK, Secrets
      <4>3. RequestsTyped'
        BY <4>1, <4>2, ReplyTyped DEF account
      <4> QED BY <4>1, <4>2, <4>3 DEF account, AccountOK
    <3> QED BY <2>2, <3>1, LoginTyped, SetupTyped, CommitTyped DEF HandlerStep
  <2>3. CASE Tick
    <3>1. \A a \in 0 .. lockout : Older(a, lockout) \in 0 .. lockout
      BY ConstantsOK DEF Older
    <3>2. now' \in [Requests -> 0 .. lockout]
      BY <2>3, <3>1, ConstantsOK, TypeParts DEF Tick, RequestsTyped
    <3> QED BY <2>3, <3>2, TypeParts DEF Tick, account, AccountOK, RequestsTyped
  <2>4. CASE UNCHANGED vars
    BY <2>4, TypeParts DEF vars, AccountOK, RequestsTyped
  <2> QED BY <2>1, <2>2, <2>3, <2>4 DEF Next
<1>2. TypeOK' <=> ListsTyped' /\ AccountOK' /\ RequestsTyped'
  BY DEF TypeOK, ListsTyped, AccountOK, RequestsTyped
<1> QED BY <1>1, <1>2, ListsStep

(***************************************************************************)
(* Every reachable state is well typed; no row in a session and no second  *)
(* factor has a secret that was not generated.                             *)
(***************************************************************************)
THEOREM AccessTypeCorrect == Spec => []TypeOK
BY InitTyped, TypeStep, PTL DEF Spec

-----------------------------------------------------------------------------
(***************************************************************************)
(* The rate limit.  A request is recorded in the step that lets it         *)
(* through, so the recorded ones and the started ones are equally many     *)
(* below every age, and the check before the record keeps both down.       *)
(***************************************************************************)
RateInv == /\ \A k \in 0 .. Minute : Count(served, k) = Count(requests, k)
           /\ Count(requests, Minute) <= rpm

LEMMA RateAdmit ==
    ASSUME TypeOK, RateInv, NEW r \in Requests, Admit(r)
    PROVE  RateInv'
<1> DEFINE let == Within(requests, Minute)
           begun == Within(served, Minute)
<1>1. /\ Minute \in Nat /\ 0 \in 0 .. Minute /\ Minute \in 0 .. Minute
      /\ requests \in Seq(0 .. Minute) /\ served \in Seq(0 .. Minute)
  BY ConstantsOK DEF TypeOK
<1>2. /\ let \in Seq(0 .. Minute) /\ begun \in Seq(0 .. Minute)
      /\ Len(let) = Count(requests, Minute)
      /\ \A k \in 0 .. Minute : /\ Count(let, k) = Count(requests, k)
                                /\ Count(begun, k) = Count(served, k)
  BY <1>1, WithinFacts
<1>3. /\ Len(let) < rpm
      /\ requests' = Append(let, 0) /\ served' = Append(begun, 0)
  <2>1. Len(let) \in Nat
    BY <1>2
  <2> QED BY <2>1, ConstantsOK DEF Admit, OverLimit
<1> HIDE DEF let, begun
<1>4. \A k \in 0 .. Minute : /\ Count(requests', k) = Count(requests, k) + One(0 < k)
                             /\ Count(served', k) = Count(served, k) + One(0 < k)
  <2>1. ASSUME NEW k \in 0 .. Minute
        PROVE  /\ Count(Append(let, 0), k) = Count(let, k) + One(0 < k)
               /\ Count(Append(begun, 0), k) = Count(begun, k) + One(0 < k)
    BY <1>1, <1>2, CountAppend
  <2> QED BY <1>2, <1>3, <2>1
<1>5. Count(requests', Minute) <= rpm
  BY <1>1, <1>2, <1>3, <1>4, ConstantsOK DEF One
<1> QED BY <1>4, <1>5 DEF RateInv

LEMMA RateStep == ASSUME TypeOK, RateInv, [Next]_vars PROVE RateInv'
<1>1. /\ Minute \in Nat /\ Minute \in 0 .. Minute /\ rpm \in Nat
      /\ requests \in Seq(0 .. Minute) /\ served \in Seq(0 .. Minute)
  BY ConstantsOK DEF TypeOK
<1>2. CASE \E r \in Requests : Deny(r)
  <2>1. requests' = Within(requests, Minute) /\ served' = served
    BY <1>2 DEF Deny
  <2>2. \A k \in 0 .. Minute : Count(requests', k) = Count(requests, k)
    BY <1>1, <2>1, WithinFacts
  <2> QED BY <1>1, <2>1, <2>2 DEF RateInv
<1>3. CASE Tick
  <2> DEFINE begun == Aged(served, Minute)
  <2>1. /\ begun \in Seq(0 .. Minute) /\ requests' = Aged(requests, Minute)
        /\ served' = Within(begun, Minute)
    BY <1>1, <1>3, AgedFacts DEF Tick
  <2>2. \A k \in 1 .. Minute : /\ Count(requests', k) = Count(requests, k - 1)
                               /\ Count(begun, k) = Count(served, k - 1)
    BY <1>1, <2>1, AgedFacts
  <2>3. requests' \in Seq(Nat) /\ served' \in Seq(Nat) /\ requests \in Seq(Nat)
    <3>1. requests' \in Seq(0 .. Minute) /\ served' \in Seq(0 .. Minute)
      BY <1>1, <2>1, AgedFacts, WithinFacts
    <3> QED BY <1>1, <3>1, AgesNatural
  <2>4. \A k \in 0 .. Minute : Count(served', k) = Count(begun, k)
    BY <1>1, <2>1, WithinFacts
  <2> HIDE DEF begun
  <2>5. ASSUME NEW k \in 0 .. Minute PROVE Count(served', k) = Count(requests', k)
    <3>1. CASE k = 0
      BY <2>3, <3>1, CountZero
    <3>2. CASE k # 0
      <4>1. k \in 1 .. Minute /\ k - 1 \in 0 .. Minute
        BY <3>2, <1>1
      <4> QED BY <2>2, <2>4, <4>1 DEF RateInv
    <3> QED BY <3>1, <3>2
  <2>6. Count(requests', Minute) <= rpm
    <3>1. Minute \in 1 .. Minute /\ Minute - 1 \in Nat /\ Minute - 1 <= Minute
      BY ConstantsOK
    <3>2. Count(requests, Minute - 1) <= Count(requests, Minute)
      BY <1>1, <2>3, <3>1, CountMonotone
    <3>3. /\ Count(requests, Minute - 1) \in Nat /\ Count(requests, Minute) \in Nat
      BY <1>1, CountType
    <3> QED BY <1>1, <2>2, <3>1, <3>2, <3>3 DEF RateInv
  <2> QED BY <2>5, <2>6 DEF RateInv
<1>4. ASSUME UNCHANGED <<requests, served>> PROVE RateInv'
  BY <1>4 DEF RateInv
<1>5. ASSUME NEW r \in Requests, MiddlewareStep(r), ~Deny(r), ~Admit(r)
      PROVE  UNCHANGED <<requests, served>>
  BY <1>5 DEF MiddlewareStep, RefuseLogin, BeginLogin, BeginSetup, Begin, Respond
<1>6. ASSUME NEW r \in Requests, HandlerStep(r)
      PROVE  UNCHANGED <<requests, served>>
  BY <1>6 DEF HandlerStep, Login, Setup, Commit, CommitFails
<1> QED BY <1>2, <1>3, <1>4, <1>5, <1>6, RateAdmit DEF Next, vars

LEMMA EmptyCount == \A k : Count(<<>>, k) = 0
<1>1. Len(<<>>) = 0
  OBVIOUS
<1>2. \A k : Young(<<>>, 0, k) = {}
  BY DEF Young
<1> QED BY <1>1, <1>2, FS_EmptySet DEF Count

(***************************************************************************)
(* In no window are more than rpm handlers of an address started, however  *)
(* many requests overlap in the middleware.                                *)
(***************************************************************************)
THEOREM RateBoundedCorrect == Spec => []RateBounded
<1>1. Init => RateInv
  BY EmptyCount, ConstantsOK DEF Init, RateInv
<1>2. TypeOK /\ RateInv => RateBounded
  <2> SUFFICES ASSUME TypeOK, RateInv PROVE RateBounded
    OBVIOUS
  <2>1. Len(Within(served, Minute)) = Count(served, Minute) /\ Minute \in 0 .. Minute
    BY ConstantsOK, WithinFacts DEF TypeOK
  <2> QED BY <2>1 DEF RateInv, RateBounded
<1> QED BY <1>1, <1>2, RateStep, AccessTypeCorrect, PTL DEF Spec

-----------------------------------------------------------------------------
(***************************************************************************)
(* The lockout.  Each login that may still fail was let through while      *)
(* there was room, so the recorded failures and the logins in flight are   *)
(* together at most what one check before the await allows for all of      *)
(* them.  And each failure since the last success is recorded, or belongs  *)
(* to a login whose answer is on its way out.                              *)
(***************************************************************************)
Out(r)    == stage[r] # "idle" /\ kind[r] = "login"
Logins    == {r \in Requests : Out(r)}
Bad(r)    == stage[r] = "answer" /\ status[r] = 401
Failed(k) == {r \in Requests : Bad(r) /\ now[r] < k}

FailInv ==
    /\ \A r \in Requests : stage[r] = "answer" => kind[r] = "login"
    /\ Count(failed_attempts, lockout) + Cardinality(Logins)
          <= max_attempts - 1 + Cardinality(Requests)
    /\ \A k \in 0 .. lockout :
          Count(rejected, k) <= Count(failed_attempts, k) + Cardinality(Failed(k))

LEMMA InFlightFinite ==
    /\ IsFiniteSet(Logins) /\ Cardinality(Logins) \in Nat
    /\ Cardinality(Logins) <= Cardinality(Requests) /\ Cardinality(Requests) \in Nat
    /\ \A k : IsFiniteSet(Failed(k)) /\ Cardinality(Failed(k)) \in Nat
<1>1. IsFiniteSet(Requests) /\ Logins \in SUBSET Requests
  BY ConstantsOK DEF Logins
<1>2. /\ IsFiniteSet(Logins) /\ Cardinality(Logins) \in Nat
      /\ Cardinality(Logins) <= Cardinality(Requests) /\ Cardinality(Requests) \in Nat
  BY <1>1, FS_Subset, FS_CardinalityType
<1>3. \A k : Failed(k) \in SUBSET Requests
  BY DEF Failed
<1>4. \A k : IsFiniteSet(Failed(k)) /\ Cardinality(Failed(k)) \in Nat
  BY <1>1, <1>3, FS_Subset, FS_CardinalityType
<1> QED BY <1>2, <1>4

LEMMA ListFacts ==
    ASSUME TypeOK
    PROVE  /\ lockout \in Nat \ {0} /\ lockout \in 0 .. lockout /\ max_attempts \in Nat \ {0}
           /\ failed_attempts \in Seq(0 .. lockout) /\ rejected \in Seq(0 .. lockout)
           /\ \A r \in Requests : now[r] \in 0 .. lockout
           /\ Count(failed_attempts, lockout) \in Nat
           /\ \A k \in 0 .. lockout : /\ Count(failed_attempts, k) \in Nat
                                      /\ Count(rejected, k) \in Nat
<1>1. /\ lockout \in Nat \ {0} /\ max_attempts \in Nat \ {0}
      /\ failed_attempts \in Seq(0 .. lockout) /\ rejected \in Seq(0 .. lockout)
      /\ \A r \in Requests : now[r] \in 0 .. lockout
  BY ConstantsOK DEF TypeOK
<1> QED BY <1>1, CountType

(***************************************************************************)
(* The step of one request leaves the others as they are.                  *)
(***************************************************************************)
Apart(r) == \A q \in Requests \ {r} : /\ stage'[q] = stage[q] /\ kind'[q] = kind[q]
                                      /\ now'[q] = now[q] /\ status'[q] = status[q]

LEMMA RequestApart ==
    ASSUME TypeOK, NEW r \in Requests, MiddlewareStep(r) \/ HandlerStep(r)
    PROVE  Apart(r)
<1>1. ASSUME NEW s, Reply(r, s) PROVE Apart(r)
  BY <1>1 DEF Reply, Close, Apart, TypeOK
<1>2. CASE RefuseLogin(r) \/ BeginLogin(r) \/ BeginSetup(r) \/ Admit(r) \/ Respond(r)
  BY <1>2 DEF RefuseLogin, BeginLogin, BeginSetup, Begin, Admit, Respond, Close, Apart,
              TypeOK, requestVars
<1>3. CASE Deny(r) \/ Login(r) \/ Commit(r) \/ CommitFails(r)
  BY <1>1, <1>3 DEF Deny, Login, Commit, CommitFails
<1>4. CASE Setup(r)
  <2>1. PICK c \in Codes :
          \/ Reply(r, SetupAnswer(kind[r], user, c))
          \/ stage' = [stage EXCEPT ![r] = "commit"] /\ UNCHANGED <<kind, now, status>>
    BY <1>4 DEF Setup
  <2> QED BY <1>1, <2>1 DEF Apart, TypeOK
<1> QED BY <1>2, <1>3, <1>4 DEF MiddlewareStep, HandlerStep

(***************************************************************************)
(* A step that neither brings a login on its way nor fails one, and keeps  *)
(* the lists up to pruning.                                                *)
(***************************************************************************)
LEMMA QuietStep ==
    ASSUME TypeOK, FailInv, NEW r \in Requests, Apart(r),
           Out(r)' => Out(r), ~Bad(r), ~Bad(r)', stage'[r] = "answer" => kind'[r] = "login",
           rejected' = rejected,
           \A k \in 0 .. lockout : Count(failed_attempts', k) = Count(failed_attempts, k)
    PROVE  FailInv'
<1>1. \A k : Failed(k)' = Failed(k)
  BY DEF Apart, Failed, Bad
<1>2. Logins' \in SUBSET Logins
  BY DEF Apart, Logins, Out
<1>3. Cardinality(Logins') <= Cardinality(Logins) /\ Cardinality(Logins') \in Nat
  BY <1>2, InFlightFinite, FS_Subset, FS_CardinalityType
<1>4. \A q \in Requests : stage'[q] = "answer" => kind'[q] = "login"
  BY DEF Apart, FailInv
<1>5. Count(failed_attempts', lockout) + Cardinality(Logins')
         <= max_attempts - 1 + Cardinality(Requests)
  BY <1>3, ListFacts, InFlightFinite DEF FailInv
<1>6. \A k \in 0 .. lockout :
         Count(rejected', k) <= Count(failed_attempts', k) + Cardinality(Failed(k)')
  BY <1>1 DEF FailInv
<1> QED BY <1>4, <1>5, <1>6 DEF FailInv

(***************************************************************************)
(* A login is let in: the check has found room for one more failure.       *)
(***************************************************************************)
LEMMA BeginLoginKeeps ==
    ASSUME TypeOK, FailInv, NEW r \in Requests, BeginLogin(r)
    PROVE  FailInv'
<1> DEFINE left == Within(failed_attempts, lockout)
<1>1. /\ failed_attempts' = left /\ rejected' = rejected /\ ~(Len(left) >= max_attempts)
      /\ Len(left) = Count(failed_attempts, lockout)
      /\ \A k \in 0 .. lockout : Count(left, k) = Count(failed_attempts, k)
  BY ListFacts, WithinFacts DEF BeginLogin, Begin, LockedOut
<1>2. stage' = [stage EXCEPT ![r] = "limit"] /\ kind' = [kind EXCEPT ![r] = "login"]
      /\ now' = [now EXCEPT ![r] = 0] /\ status' = status /\ stage[r] = "idle"
  BY DEF BeginLogin, Begin
<1> HIDE DEF left
<1>3. \A k : Failed(k)' = Failed(k)
  BY <1>2 DEF Failed, Bad, TypeOK
<1>4. \A q \in Requests : stage'[q] = "answer" => kind'[q] = "login"
  BY <1>2 DEF FailInv, TypeOK
<1>5. Logins' \in SUBSET Requests
  BY DEF Logins
<1>6. Cardinality(Logins') <= Cardinality(Requests) /\ Cardinality(Logins') \in Nat
  BY <1>5, ConstantsOK, FS_Subset, FS_CardinalityType
<1>7. Count(failed_attempts', lockout) + Cardinality(Logins')
         <= max_attempts - 1 + Cardinality(Requests)
  BY <1>1, <1>6, ListFacts, InFlightFinite
<1>8. \A k \in 0 .. lockout :
         Count(rejected', k) <= Count(failed_attempts', k) + Cardinality(Failed(k)')
  BY <1>1, <1>3 DEF FailInv
<1> QED BY <1>4, <1>7, <1>8 DEF FailInv

(***************************************************************************)
(* A login fails: its answer stands for it until it is recorded.           *)
(***************************************************************************)
LEMMA LoginKeeps ==
    ASSUME TypeOK, FailInv, NEW r \in Requests, Login(r)
    PROVE  FailInv'
<1>1. PICK p \in BOOLEAN, c \in Codes :
          LET answer == LoginAnswer(user, p, c) IN
          /\ \/ Reply(r, answer)
             \/ answer = 200 /\ Reply(r, 500)
          /\ rejected' = IF answer = 401 THEN Append(rejected, now[r]) ELSE rejected
  BY DEF Login
<1>2. stage[r] = "load" /\ kind[r] = "login" /\ failed_attempts' = failed_attempts
      /\ Apart(r) /\ Out(r) /\ ~Bad(r)
  BY RequestApart DEF Login, HandlerStep, Out, Bad
<1> DEFINE answer == LoginAnswer(user, p, c)
<1>3. CASE answer = 401
  <2>1. /\ stage' = [stage EXCEPT ![r] = "answer"] /\ status' = [status EXCEPT ![r] = 401]
        /\ UNCHANGED <<kind, now>> /\ rejected' = Append(rejected, now[r])
    BY <1>1, <1>2, <1>3 DEF Reply
  <2> HIDE DEF answer
  <2>2. Logins' = Logins /\ Bad(r)'
    BY <1>2, <2>1 DEF Logins, Out, Bad, TypeOK
  <2>3. \A k : Failed(k)' = IF now[r] < k THEN Failed(k) \union {r} ELSE Failed(k)
    BY <1>2, <2>1, <2>2 DEF Failed, Bad, TypeOK
  <2>4. \A k : r \notin Failed(k)
    BY <1>2 DEF Failed
  <2>5. \A k : Cardinality(Failed(k)') = Cardinality(Failed(k)) + One(now[r] < k)
    BY <2>3, <2>4, InFlightFinite, FS_AddElement DEF One
  <2>6. \A k \in 0 .. lockout : Count(rejected', k) = Count(rejected, k) + One(now[r] < k)
    BY <2>1, ListFacts, CountAppend
  <2>7. ASSUME NEW k \in 0 .. lockout
        PROVE  Count(rejected', k) <= Count(failed_attempts', k) + Cardinality(Failed(k)')
    <3>1. Count(rejected, k) <= Count(failed_attempts, k) + Cardinality(Failed(k))
      BY DEF FailInv
    <3>2. One(now[r] < k) \in Nat
      BY DEF One
    <3> QED BY <1>2, <2>5, <2>6, <3>1, <3>2, ListFacts, InFlightFinite
  <2>8. \A q \in Requests : stage'[q] = "answer" => kind'[q] = "login"
    BY <1>2, <2>1 DEF FailInv, TypeOK
  <2> QED BY <1>2, <2>2, <2>7, <2>8 DEF FailInv
<1>4. CASE answer # 401
  <2>1. PICK s \in {200, 500} : Reply(r, s)
    BY <1>1, <1>4 DEF LoginAnswer
  <2>2. /\ stage' = [stage EXCEPT ![r] = "answer"] /\ status' = [status EXCEPT ![r] = s]
        /\ kind' = kind /\ rejected' = rejected
    BY <1>1, <1>2, <1>4, <2>1 DEF Reply
  <2>3. ~Bad(r)' /\ kind'[r] = "login"
    BY <1>2, <2>2 DEF Bad, TypeOK
  <2> QED BY <1>2, <2>2, <2>3, QuietStep
<1> QED BY <1>3, <1>4

(***************************************************************************)
(* The answer goes out: a failure is recorded in the step its login ends.  *)
(***************************************************************************)
LEMMA RespondKeeps ==
    ASSUME TypeOK, FailInv, NEW r \in Requests, Respond(r)
    PROVE  FailInv'
<1>1. /\ stage[r] = "answer" /\ kind[r] = "login" /\ Record(r) /\ Apart(r)
      /\ rejected' = IF status[r] = 200 THEN <<>> ELSE rejected
      /\ stage' = [stage EXCEPT ![r] = "idle"]
  BY RequestApart DEF Respond, Close, MiddlewareStep, FailInv
<1>2. r \in Logins /\ Logins' = Logins \ {r}
  BY <1>1 DEF Logins, Out, Apart, TypeOK
<1>3. Cardinality(Logins') = Cardinality(Logins) - 1
  BY <1>2, InFlightFinite, FS_RemoveElement
<1>4. \A k : Failed(k)' = Failed(k) \ {r}
  BY <1>1 DEF Failed, Bad, Apart, TypeOK
<1>5. \A k : /\ Cardinality(Failed(k)') \in Nat
             /\ r \notin Failed(k) => Cardinality(Failed(k)') = Cardinality(Failed(k))
             /\ r \in Failed(k) => Cardinality(Failed(k)') = Cardinality(Failed(k)) - 1
  BY <1>4, InFlightFinite, FS_RemoveElement, FS_CardinalityType
<1>6. \A q \in Requests : stage'[q] = "answer" => kind'[q] = "login"
  BY <1>1 DEF FailInv, Apart, TypeOK
<1>7. CASE status[r] = 401
  <2>1. failed_attempts' = Append(failed_attempts, now[r]) /\ rejected' = rejected
    BY <1>1, <1>7 DEF Record
  <2>2. \A k \in 0 .. lockout :
           Count(failed_attempts', k) = Count(failed_attempts, k) + One(now[r] < k)
    BY <2>1, ListFacts, CountAppend
  <2>3. Count(failed_attempts', lockout) + Cardinality(Logins')
           <= max_attempts - 1 + Cardinality(Requests)
    <3>1. One(now[r] < lockout) \in 0 .. 1
      BY DEF One
    <3>2. Count(failed_attempts', lockout)
             = Count(failed_attempts, lockout) + One(now[r] < lockout)
      BY <2>2, ListFacts
    <3>3. Count(failed_attempts, lockout) + Cardinality(Logins)
             <= max_attempts - 1 + Cardinality(Requests)
      BY DEF FailInv
    <3> QED BY <1>3, <3>1, <3>2, <3>3, ListFacts, InFlightFinite
  <2>4. ASSUME NEW k \in 0 .. lockout
        PROVE  Count(rejected', k) <= Count(failed_attempts', k) + Cardinality(Failed(k)')
    <3>1. Count(rejected, k) <= Count(failed_attempts, k) + Cardinality(Failed(k))
      BY DEF FailInv
    <3>2. r \in Failed(k) <=> now[r] < k
      BY <1>1, <1>7 DEF Failed, Bad
    <3>3. Cardinality(Failed(k)') + One(now[r] < k) = Cardinality(Failed(k))
      BY <1>5, <3>2, InFlightFinite DEF One
    <3>4. One(now[r] < k) \in Nat
      BY DEF One
    <3> QED BY <2>1, <2>2, <3>1, <3>3, <3>4, <1>5, ListFacts, InFlightFinite
  <2> QED BY <1>6, <2>3, <2>4 DEF FailInv
<1>8. CASE status[r] = 200
  <2>1. failed_attempts' = <<>> /\ rejected' = <<>>
    BY <1>1, <1>8 DEF Record
  <2>2. \A k : Count(failed_attempts', k) = 0 /\ Count(rejected', k) = 0
    BY <2>1, EmptyCount
  <2>3. Count(failed_attempts', lockout) + Cardinality(Logins')
           <= max_attempts - 1 + Cardinality(Requests)
    BY <1>3, <2>2, ListFacts, InFlightFinite
  <2> QED BY <1>5, <1>6, <2>2, <2>3 DEF FailInv
<1>9. CASE status[r] # 401 /\ status[r] # 200
  <2>1. failed_attempts' = failed_attempts /\ rejected' = rejected
    BY <1>1, <1>9 DEF Record
  <2>2. ~Bad(r) /\ ~Bad(r)' /\ Out(r) /\ stage'[r] # "answer"
    BY <1>1, <1>9 DEF Bad, Out, TypeOK
  <2> QED BY <1>1, <2>1, <2>2, QuietStep
<1> QED BY <1>7, <1>8, <1>9

(***************************************************************************)
(* Time passes: a bound k looks at what was below k - 1 before, in every   *)
(* list and in the logins whose answer is on its way.                      *)
(***************************************************************************)
LEMMA TickKeeps ==
    ASSUME TypeOK, FailInv, Tick
    PROVE  FailInv'
<1> DEFINE aged == Aged(rejected, lockout)
<1>1. /\ failed_attempts' = Aged(failed_attempts, lockout)
      /\ rejected' = Within(aged, lockout) /\ aged \in Seq(0 .. lockout)
      /\ UNCHANGED <<stage, kind, status>>
  BY ListFacts, AgedFacts DEF Tick
<1>2. /\ failed_attempts' \in Seq(Nat) /\ rejected' \in Seq(Nat)
      /\ failed_attempts \in Seq(Nat)
  <2>1. /\ failed_attempts' \in Seq(0 .. lockout) /\ rejected' \in Seq(0 .. lockout)
    BY <1>1, ListFacts, AgedFacts, WithinFacts
  <2> QED BY <2>1, ListFacts, AgesNatural
<1>3. \A k \in 1 .. lockout : /\ Count(failed_attempts', k) = Count(failed_attempts, k - 1)
                              /\ Count(aged, k) = Count(rejected, k - 1)
  BY <1>1, ListFacts, AgedFacts
<1>4. \A k \in 0 .. lockout : Count(rejected', k) = Count(aged, k)
  BY <1>1, ListFacts, WithinFacts
<1> HIDE DEF aged
<1>5. \A k \in 1 .. lockout : Failed(k)' = Failed(k - 1)
  <2>1. ASSUME NEW r \in Requests, Bad(r)
        PROVE  /\ now'[r] = Older(now[r], lockout) /\ Bad(r)'
    BY <1>1, <2>1 DEF Tick, Bad, FailInv
  <2>2. \A r \in Requests : Bad(r)' <=> Bad(r)
    BY <1>1 DEF Bad
  <2>3. \A r \in Requests, k \in 1 .. lockout : Older(now[r], lockout) < k <=> now[r] < k - 1
    BY ListFacts DEF Older
  <2> QED BY <2>1, <2>2, <2>3 DEF Failed
<1>6. Logins' = Logins
  BY <1>1 DEF Logins, Out
<1>7. Count(failed_attempts', lockout) <= Count(failed_attempts, lockout)
      /\ Count(failed_attempts', lockout) \in Nat
  <2>1. lockout \in 1 .. lockout /\ lockout - 1 \in Nat /\ lockout - 1 <= lockout
    BY ConstantsOK
  <2>2. Count(failed_attempts, lockout - 1) <= Count(failed_attempts, lockout)
    BY <1>2, <2>1, ListFacts, CountMonotone
  <2> QED BY <1>2, <1>3, <2>1, <2>2, CountType
<1>8. Count(failed_attempts', lockout) + Cardinality(Logins')
         <= max_attempts - 1 + Cardinality(Requests)
  BY <1>6, <1>7, ListFacts, InFlightFinite DEF FailInv
<1>9. ASSUME NEW k \in 0 .. lockout
      PROVE  Count(rejected', k) <= Count(failed_attempts', k) + Cardinality(Failed(k)')
  <2>1. CASE k = 0
    <3>1. Count(rejected', 0) = 0 /\ Count(failed_attempts', 0) = 0
      BY <1>2, CountZero
    <3>2. Failed(0)' = {}
      <4>1. \A r \in Requests : now'[r] \in Nat
        <5>1. \A r \in Requests : Older(now[r], lockout) \in Nat
          BY ListFacts DEF Older
        <5> QED BY <5>1 DEF Tick
      <4> QED BY <4>1 DEF Failed
    <3> QED BY <2>1, <3>1, <3>2, FS_EmptySet
  <2>2. CASE k # 0
    <3>1. k \in 1 .. lockout /\ k - 1 \in 0 .. lockout
      BY <2>2, ListFacts
    <3> QED BY <1>3, <1>4, <1>5, <3>1 DEF FailInv
  <2> QED BY <2>1, <2>2
<1>10. \A q \in Requests : stage'[q] = "answer" => kind'[q] = "login"
  BY <1>1 DEF FailInv
<1> QED BY <1>8, <1>9, <1>10 DEF FailInv

LEMMA FailStep == ASSUME TypeOK, FailInv, [Next]_vars PROVE FailInv'
<1>1. ASSUME NEW r \in Requests, MiddlewareStep(r) PROVE FailInv'
  <2> USE <1>1, RequestApart
  <2>1. CASE RefuseLogin(r)
    <3>1. /\ failed_attempts' = Within(failed_attempts, lockout) /\ rejected' = rejected
          /\ stage[r] = "idle" /\ UNCHANGED <<stage, kind, status>>
      BY <2>1 DEF RefuseLogin, requestVars
    <3>2. \A k \in 0 .. lockout : Count(failed_attempts', k) = Count(failed_attempts, k)
      BY <3>1, ListFacts, WithinFacts
    <3>3. ~Bad(r) /\ ~Bad(r)' /\ ~Out(r)' /\ stage'[r] # "answer" /\ Apart(r)
      BY <3>1 DEF Bad, Out
    <3> QED BY <3>1, <3>2, <3>3, QuietStep
  <2>2. CASE BeginSetup(r)
    <3>1. /\ stage[r] = "idle" /\ stage'[r] = "limit" /\ kind'[r] # "login"
          /\ UNCHANGED <<failed_attempts, rejected>>
      BY <2>2 DEF BeginSetup, Begin, Setups, TypeOK
    <3>2. ~Bad(r) /\ ~Bad(r)' /\ ~Out(r)' /\ stage'[r] # "answer" /\ Apart(r)
      BY <3>1 DEF Bad, Out
    <3> QED BY <3>1, <3>2, QuietStep
  <2>3. CASE Deny(r)
    <3>1. /\ stage[r] = "limit" /\ Reply(r, 429) /\ UNCHANGED <<failed_attempts, rejected>>
      BY <2>3 DEF Deny
    <3>2. ~Bad(r) /\ ~Bad(r)' /\ (Out(r)' => Out(r)) /\ (stage'[r] = "answer" => kind'[r] = "login")
      BY <3>1 DEF Bad, Out, Reply, Close, TypeOK
    <3> QED BY <3>1, <3>2, QuietStep
  <2>4. CASE Admit(r)
    <3>1. /\ stage[r] = "limit" /\ stage'[r] = "load"
          /\ UNCHANGED <<failed_attempts, rejected, kind>>
      BY <2>4 DEF Admit, TypeOK
    <3>2. ~Bad(r) /\ ~Bad(r)' /\ (Out(r)' => Out(r)) /\ stage'[r] # "answer"
      BY <3>1 DEF Bad, Out
    <3> QED BY <3>1, <3>2, QuietStep
  <2> QED BY <2>1, <2>2, <2>3, <2>4, BeginLoginKeeps, RespondKeeps DEF MiddlewareStep
<1>2. ASSUME NEW r \in Requests, HandlerStep(r), ~Login(r) PROVE FailInv'
  <2>1. /\ stage[r] \in {"load", "commit"} /\ kind[r] \in Setups
        /\ UNCHANGED <<failed_attempts, rejected>>
    BY <1>2 DEF HandlerStep, Setup, Commit, CommitFails, TypeOK
  <2>2. stage'[r] \in {"idle", "commit"} /\ kind'[r] \in {kind[r], "login"}
        /\ (stage'[r] # "idle" => kind'[r] = kind[r])
    <3>1. ASSUME NEW s, Reply(r, s) PROVE stage'[r] = "idle" /\ kind'[r] = "login"
      BY <2>1, <3>1 DEF Reply, Close, Setups, TypeOK
    <3>2. CASE Setup(r)
      <4>1. \/ \E s : Reply(r, s)
            \/ stage' = [stage EXCEPT ![r] = "commit"] /\ kind' = kind
        BY <3>2 DEF Setup
      <4> QED BY <3>1, <4>1 DEF TypeOK
    <3>3. CASE Commit(r) \/ CommitFails(r)
      BY <3>1, <3>3 DEF Commit, CommitFails
    <3> QED BY <1>2, <3>2, <3>3 DEF HandlerStep
  <2>3. ~Bad(r) /\ ~Bad(r)' /\ (Out(r)' => Out(r)) /\ stage'[r] # "answer" /\ Apart(r)
    BY <1>2, <2>1, <2>2, RequestApart DEF Bad, Out
  <2> QED BY <2>1, <2>3, QuietStep
<1>3. CASE UNCHANGED vars
  <2>1. /\ UNCHANGED <<failed_attempts, rejected, stage, kind, now, status>>
    BY <1>3 DEF vars
  <2>2. Logins' = Logins /\ \A k : Failed(k)' = Failed(k)
    BY <2>1 DEF Logins, Out, Failed, Bad
  <2> QED BY <2>1, <2>2 DEF FailInv
<1> QED BY <1>1, <1>2, <1>3, LoginKeeps, TickKeeps DEF Next, HandlerStep

(***************************************************************************)
(* However logins overlap, the failures of one lockout period are at most  *)
(* the allowed ones and one for each further request in flight.            *)
(***************************************************************************)
THEOREM FailuresBoundedCorrect == Spec => []FailuresBounded
<1>1. ASSUME Init PROVE FailInv
  <2>1. Logins = {} /\ \A k : Failed(k) = {}
    BY <1>1 DEF Init, Logins, Out, Failed, Bad
  <2>2. \A k : Count(failed_attempts, k) = 0 /\ Count(rejected, k) = 0
    BY <1>1, EmptyCount DEF Init
  <2>3. Cardinality(Requests) \in Nat /\ max_attempts \in Nat \ {0}
    BY InFlightFinite, ConstantsOK
  <2>4. \A r \in Requests : stage[r] # "answer"
    BY <1>1 DEF Init
  <2> QED BY <2>1, <2>2, <2>3, <2>4, FS_EmptySet DEF FailInv
<1>2. ASSUME TypeOK, FailInv PROVE FailuresBounded
  <2>1. Failed(lockout) \in SUBSET Logins
    BY <1>2 DEF Failed, Bad, Logins, Out, FailInv
  <2>2. Cardinality(Failed(lockout)) <= Cardinality(Logins)
    BY <2>1, InFlightFinite, FS_Subset
  <2>3. Len(Within(rejected, lockout)) = Count(rejected, lockout)
    BY <1>2, ListFacts, WithinFacts
  <2>4. Count(rejected, lockout)
           <= Count(failed_attempts, lockout) + Cardinality(Failed(lockout))
    BY <1>2, ListFacts DEF FailInv
  <2> QED BY <1>2, <2>2, <2>3, <2>4, ListFacts, InFlightFinite DEF FailInv, FailuresBounded
<1> QED BY <1>1, <1>2, FailStep, AccessTypeCorrect, PTL DEF Spec

-----------------------------------------------------------------------------
(***************************************************************************)
(* The second factor.  While its requests have not overlapped, at most one *)
(* of them is between its SELECT and its commit, and what it has loaded    *)
(* and checked is still so.                                                *)
(***************************************************************************)
Waiting(r) == stage[r] = "commit"

AccountTyped ==
    /\ user \in Row /\ generated \in Secrets /\ torn \in BOOLEAN
    /\ stage \in [Requests -> Stages] /\ kind \in [Requests -> Kinds]
    /\ row \in [Requests -> Row \union {None}]
    /\ \A r \in Requests : Waiting(r) => row[r] \in Row /\ kind[r] \in Setups

StillSo(r) ==
    /\ row[r] = user
    /\ kind[r] = "enable" => ~user.enabled
    /\ kind[r] = "verify" => user.secret # 0 /\ user.secret = proved

Verified == user.enabled => user.secret # 0 /\ user.secret = proved

SetupInv == ~torn => /\ \A q, r \in Requests : Waiting(q) /\ Waiting(r) => q = r
                     /\ \A r \in Requests : Waiting(r) => StillSo(r)
                     /\ Verified

IInv == AccountTyped /\ SetupInv

LEMMA InitHolds == ASSUME Init PROVE IInv
<1>1. user \in Row /\ generated \in Secrets
  BY ConstantsOK DEF Init, Row, Secrets
<1>2. \A r \in Requests : ~Waiting(r)
  BY DEF Init, Waiting
<1>3. AccountTyped
  BY <1>1, <1>2 DEF Init, AccountTyped, Stages, Kinds
<1>4. SetupInv
  BY <1>2 DEF Init, SetupInv, Verified
<1> QED BY <1>3, <1>4 DEF IInv

-----------------------------------------------------------------------------
(***************************************************************************)
(* Steps that leave the account alone and bring no request to its commit.  *)
(***************************************************************************)
Elsewhere(r) ==
    /\ UNCHANGED account
    /\ \A q \in Requests \ {r} : /\ stage'[q] = stage[q]
                                 /\ kind'[q] = kind[q] /\ row'[q] = row[q]
    /\ stage'[r] # "commit"
    /\ stage' \in [Requests -> Stages] /\ kind' \in [Requests -> Kinds]
    /\ row' \in [Requests -> Row \union {None}]

LEMMA ElsewhereKeeps ==
    ASSUME IInv, NEW r \in Requests, Elsewhere(r)
    PROVE  IInv'
<1> USE DEF IInv, Elsewhere, account
<1>1. \A q \in Requests : Waiting(q)' => /\ q # r /\ Waiting(q)
                                         /\ kind'[q] = kind[q] /\ row'[q] = row[q]
  BY DEF Waiting
<1>2. AccountTyped'
  BY <1>1 DEF AccountTyped
<1>3. \A q \in Requests : Waiting(q) /\ StillSo(q) /\ Waiting(q)' => StillSo(q)'
  BY <1>1 DEF StillSo
<1>4. SetupInv'
  BY <1>1, <1>3 DEF SetupInv, Verified
<1> QED BY <1>2, <1>4

LEMMA ReplyIsElsewhere ==
    ASSUME IInv, NEW r \in Requests, NEW s, Reply(r, s), UNCHANGED account
    PROVE  Elsewhere(r)
BY DEF IInv, AccountTyped, Elsewhere, Reply, Close, Stages, Kinds, Setups

LEMMA MiddlewareStepOf ==
    ASSUME IInv, NEW r \in Requests, MiddlewareStep(r)
    PROVE  IInv'
<1> USE DEF IInv, AccountTyped, account
<1>1. CASE RefuseLogin(r)
  <2>1. UNCHANGED <<account, stage, kind, row>>
    BY <1>1 DEF RefuseLogin, requestVars
  <2> QED BY <2>1 DEF SetupInv, Waiting, StillSo, Verified
<1>2. CASE BeginLogin(r) \/ BeginSetup(r)
  <2>1. Elsewhere(r)
    BY <1>2 DEF BeginLogin, BeginSetup, Begin, Elsewhere, Stages, Kinds, Setups
  <2> QED BY <2>1, ElsewhereKeeps
<1>3. CASE Deny(r)
  <2>1. Elsewhere(r)
    BY <1>3, ReplyIsElsewhere DEF Deny
  <2> QED BY <2>1, ElsewhereKeeps
<1>4. CASE Admit(r)
  <2>1. Elsewhere(r)
    BY <1>4 DEF Admit, Elsewhere, Stages
  <2> QED BY <2>1, ElsewhereKeeps
<1>5. CASE Respond(r)
  <2>1. Elsewhere(r)
    BY <1>5 DEF Respond, Close, Elsewhere, Stages, Kinds
  <2> QED BY <2>1, ElsewhereKeeps
<1> QED BY <1>1, <1>2, <1>3, <1>4, <1>5 DEF MiddlewareStep

-----------------------------------------------------------------------------
(***************************************************************************)
(* A handler that passes its checks is the only one before its commit, or  *)
(* there is an overlap; the checks are what StillSo says.                  *)
(***************************************************************************)
LEMMA SetupOf ==
    ASSUME IInv, NEW r \in Requests, Setup(r)
    PROVE  IInv'
<1> USE DEF IInv
<1>1. PICK c \in Codes :
          IF SetupAnswer(kind[r], user, c) = 200
          THEN /\ stage' = [stage EXCEPT ![r] = "commit"]
               /\ row' = [row EXCEPT ![r] = user]
               /\ torn' = (torn \/ \E q \in Requests : stage[q] = "commit")
               /\ proved' = IF kind[r] = "verify" /\ VerifyTotp(user.secret, c)
                             THEN c ELSE proved
               /\ UNCHANGED <<kind, now, status>>
          ELSE /\ Reply(r, SetupAnswer(kind[r], user, c))
               /\ UNCHANGED <<torn, proved>>
  BY DEF Setup
<1>2. /\ kind[r] \in Setups /\ stage[r] = "load"
      /\ UNCHANGED <<user, generated>>
  BY DEF Setup
<1>3. CASE SetupAnswer(kind[r], user, c) # 200
  <2>1. Elsewhere(r)
    BY <1>1, <1>2, <1>3, ReplyIsElsewhere DEF account
  <2> QED BY <2>1, ElsewhereKeeps
<1>4. CASE SetupAnswer(kind[r], user, c) = 200
  <2> USE <1>4
  <2>1. /\ kind[r] = "enable" => ~user.enabled
        /\ kind[r] = "verify" => user.secret # 0 /\ c = user.secret
    BY <1>2 DEF SetupAnswer, VerifyTotp, Setups
  <2>2. AccountTyped'
    BY <1>1, <1>2 DEF AccountTyped, Waiting, Stages
  <2>3. ASSUME ~torn' PROVE \A q \in Requests : Waiting(q)' <=> q = r
    <3>1. \A q \in Requests : stage[q] # "commit"
      BY <1>1, <2>3, Zenon
    <3>2. stage' = [stage EXCEPT ![r] = "commit"] /\ stage \in [Requests -> Stages]
      BY <1>1 DEF AccountTyped
    <3> QED BY <3>1, <3>2 DEF Waiting
  <2>4. ASSUME ~torn' PROVE Verified'
    <3>1. Verified
      BY <1>1, <2>4 DEF SetupInv, AccountTyped
    <3>2. proved' = proved \/ proved' = user.secret
      BY <1>1 DEF VerifyTotp
    <3> QED BY <1>2, <3>1, <3>2 DEF Verified
  <2>5. ASSUME ~torn' PROVE StillSo(r)'
    <3>1. row'[r] = user /\ kind'[r] = kind[r]
      BY <1>1 DEF AccountTyped
    <3>2. kind[r] = "verify" => proved' = user.secret
      BY <1>1, <2>1 DEF VerifyTotp
    <3> QED BY <1>2, <2>1, <3>1, <3>2 DEF StillSo
  <2>6. SetupInv'
    BY <2>3, <2>4, <2>5 DEF SetupInv
  <2> QED BY <2>2, <2>6
<1> QED BY <1>3, <1>4

(***************************************************************************)
(* The commit.  Without an overlap the row it loaded is the stored one, so *)
(* what it writes is what it computed.                                     *)
(***************************************************************************)
LEMMA CommitOf ==
    ASSUME IInv, NEW r \in Requests, Commit(r)
    PROVE  IInv'
<1> USE DEF IInv
<1>1. /\ Waiting(r) /\ row[r] \in Row /\ kind[r] \in Setups
      /\ UNCHANGED <<proved, torn>>
  BY DEF Commit, AccountTyped, Waiting
<1>2. /\ \A q \in Requests \ {r} : /\ stage'[q] = stage[q]
                                   /\ kind'[q] = kind[q] /\ row'[q] = row[q]
      /\ stage'[r] # "commit"
      /\ stage' \in [Requests -> Stages] /\ kind' \in [Requests -> Kinds]
      /\ row' \in [Requests -> Row \union {None}]
  BY <1>1 DEF Commit, Reply, Close, AccountTyped, Stages, Kinds, Setups
<1>3. user' \in Row /\ generated' \in Secrets
  <2> USE ConstantsOK DEF AccountTyped, Row, Secrets, Save
  <2>1. CASE CommitEnable(r)
    <3>1. /\ generated \in 0 .. MaxSecrets /\ generated < MaxSecrets
          /\ generated' = generated + 1
      BY <2>1 DEF CommitEnable
    <3>2. generated + 1 \in 0 .. MaxSecrets
      BY <3>1
    <3> QED BY <1>1, <2>1, <3>1, <3>2 DEF CommitEnable
  <2>2. CASE CommitVerify(r)
    BY <1>1, <2>2 DEF CommitVerify
  <2>3. CASE CommitDisable(r)
    <3>1. 0 \in Secrets /\ generated' = generated
      BY <2>3 DEF CommitDisable
    <3>2. PICK e \in BOOLEAN, n \in Secrets : user' = [secret |-> n, enabled |-> e]
      <4>1. user' = [secret  |-> IF 0 # row[r].secret THEN 0 ELSE user.secret,
                     enabled |-> IF FALSE # row[r].enabled THEN FALSE ELSE user.enabled]
        BY <2>3 DEF CommitDisable
      <4>2. /\ user.secret \in Secrets /\ user.enabled \in BOOLEAN
            /\ FALSE \in BOOLEAN
        BY DEF Secrets
      <4> QED BY <3>1, <4>1, <4>2, Zenon
    <3> QED BY <3>1, <3>2
  <2> QED BY <2>1, <2>2, <2>3 DEF Commit
<1>4. AccountTyped'
  BY <1>1, <1>2, <1>3 DEF AccountTyped, Waiting
<1>5. SetupInv'
  <2> SUFFICES ASSUME ~torn
               PROVE  (\A q \in Requests : ~Waiting(q)') /\ Verified'
    BY <1>1 DEF SetupInv
  <2>1. \A q \in Requests : ~Waiting(q)'
    BY <1>1, <1>2 DEF SetupInv, Waiting
  <2>2. StillSo(r)
    BY <1>1 DEF SetupInv
  <2>3. Verified'
    <3> USE DEF StillSo, Verified, Save, AccountTyped, Row
    <3>1. CASE CommitEnable(r)
      <4>1. user'.enabled = FALSE
        BY <1>1, <2>2, <3>1 DEF CommitEnable
      <4> QED BY <4>1
    <3>2. CASE CommitVerify(r)
      <4>1. user'.secret = user.secret /\ kind[r] = "verify"
        BY <1>1, <2>2, <3>2 DEF CommitVerify
      <4> QED BY <1>1, <2>2, <4>1
    <3>3. CASE CommitDisable(r)
      <4>1. user'.enabled = FALSE
        BY <1>1, <2>2, <3>3 DEF CommitDisable
      <4> QED BY <4>1
    <3> QED BY <3>1, <3>2, <3>3 DEF Commit
  <2> QED BY <2>1, <2>3
<1> QED BY <1>4, <1>5

LEMMA HandlerStepOf ==
    ASSUME IInv, NEW r \in Requests, HandlerStep(r)
    PROVE  IInv'
<1>1. CASE Login(r)
  <2>1. PICK s : Reply(r, s) /\ UNCHANGED account
    BY <1>1 DEF Login
  <2>2. Elsewhere(r)
    BY <2>1, ReplyIsElsewhere
  <2> QED BY <2>2, ElsewhereKeeps
<1>2. CASE CommitFails(r)
  <2>1. Elsewhere(r)
    BY <1>2, ReplyIsElsewhere DEF CommitFails
  <2> QED BY <2>1, ElsewhereKeeps
<1> QED BY <1>1, <1>2, SetupOf, CommitOf DEF HandlerStep

LEMMA StepHolds == ASSUME IInv, [Next]_vars PROVE IInv'
<1>1. CASE Tick \/ UNCHANGED vars
  <2>1. UNCHANGED <<account, stage, kind, row>>
    BY <1>1 DEF Tick, vars, account
  <2> QED BY <2>1 DEF IInv, AccountTyped, SetupInv, Waiting, StillSo, Verified, account
<1> QED BY <1>1, MiddlewareStepOf, HandlerStepOf DEF Next

-----------------------------------------------------------------------------
LEMMA Invariant == Spec => []IInv
BY InitHolds, StepHolds, PTL DEF Spec

(***************************************************************************)
(* While the requests of two_factor.py do not overlap, an enabled second   *)
(* factor has a secret of which /verify was given a code.                  *)
(***************************************************************************)
THEOREM EnabledWasVerifiedCorrect == Spec => []EnabledWasVerified
<1>1. IInv => EnabledWasVerified
  BY DEF IInv, SetupInv, Verified, EnabledWasVerified
<1> QED BY <1>1, Invariant, PTL
===============================================================================
