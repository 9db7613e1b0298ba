--------------------------- MODULE BotControl_proofs ---------------------------
(***************************************************************************)
(* Proofs about BotControl, for any number of requests, bot rows, keys and *)
(* labels, any limit of keys and any tiers: the type invariant, the three  *)
(* properties of the keys and those of the bot.                            *)
(***************************************************************************)
EXTENDS BotControl, TLAPS, FiniteSetTheorems, WellFoundedInduction

-----------------------------------------------------------------------------
(***************************************************************************)
(* Of one request: what it has in hand at each stage.                      *)
(***************************************************************************)
HasRow(r) == op[r] \in BotOps /\ stage[r] \in {"key", "commit"}

ReqOK(r) ==
    /\ stage[r] = "idle" => op[r] = "status"
    /\ op[r] \in BotOps => stage[r] \in {"idle", "user", "bot", "key", "commit"}
    /\ op[r] \in BotOps /\ ~HasRow(r) => which[r] = None
    /\ HasRow(r) => which[r] \in Rows /\ loaded[r] \in BotRow
    /\ op[r] = "store" => stage[r] \in {"label", "count", "commit"}
    /\ stage[r] \in {"label", "count"} => op[r] = "store"
    /\ op[r] = "store" /\ stage[r] \in {"count", "commit"} => label[r] \in Labels
    /\ op[r] \in {"delete", "validate"} => stage[r] \in {"key", "commit"}
    /\ op[r] \in {"delete", "validate"} /\ stage[r] = "commit" => which[r] \in Keys
    /\ op[r] = "validate" /\ stage[r] = "commit" => loaded[r] \in KeyRow

TypeInv == TypeOK /\ \A r \in Requests : ReqOK(r)

(***************************************************************************)
(* Of the keys: the requests that have counted and not inserted yet add to *)
(* the rows; without twins, no two requests are on their way with one      *)
(* label, and none with the label of a row.                                *)
(***************************************************************************)
Late == {r \in Requests : op[r] = "store" /\ stage[r] = "commit"}

CountInv == Cardinality(Stored) + Cardinality(Late) < MaxKeys + Cardinality(Requests)

LabelInv ==
    ~twins => /\ \A j, k \in Stored : j # k => keys[j].label # keys[k].label
              /\ \A q \in Requests, l \in Labels : PastLabel(q, l) => ~LabelTaken(l)
              /\ \A q, r \in Requests, l \in Labels :
                    PastLabel(q, l) /\ PastLabel(r, l) => q = r

(***************************************************************************)
(* Of the bot: a new row is stopped; while the tier has not gone down no   *)
(* request has loaded a higher one; while requests do not have the row     *)
(* together, the amounts one has loaded are the stored ones.               *)
(***************************************************************************)
StartInv == \A r \in Requests :
    HasRow(r) /\ bots[which[r]] = None => loaded[r].status = "stopped"

TierInv == ~lowered =>
    /\ \A b \in BotIds : bots[b].positions <= max_positions(tier)
    /\ \A r \in Requests :
          /\ max_positions(mytier[r]) <= max_positions(tier)
          /\ HasRow(r) => loaded[r].positions <= max_positions(tier)

SameRange(r) == LET b == which[r] IN
    bots[b] # None => loaded[r].min = bots[b].min /\ loaded[r].max = bots[b].max

RangeInv == ~loose /\ ~torn =>
    /\ \A b \in BotIds : bots[b].min <= bots[b].max
    /\ \A r \in Requests : HasRow(r) => loaded[r].min <= loaded[r].max /\ SameRange(r)
    /\ \A q, r \in Requests : HasRow(q) /\ HasRow(r) /\ which[q] = which[r] => q = r

IInv == TypeInv /\ CountInv /\ LabelInv /\ StartInv /\ TierInv /\ RangeInv

-----------------------------------------------------------------------------
(***************************************************************************)
(* Facts about the data.                                                   *)
(***************************************************************************)
LEMMA TierFacts ==
    ASSUME NEW t \in TierNames
    PROVE  max_positions(t) \in Nat /\ (t = "free" => max_positions(t) = 0)
BY DEF TierNames, max_positions

LEMMA AmountFacts == Least \in Amounts /\ Greatest \in Amounts /\ Least <= Greatest
<1>1. PICK lo \in Amounts, hi \in Amounts : \A a \in Amounts : lo <= a /\ a <= hi
  BY ConstantsOK
<1>2. Least \in Amounts /\ \A a \in Amounts : Least <= a
  BY <1>1 DEF Least
<1>3. Greatest \in Amounts
  BY <1>1 DEF Greatest
<1> QED BY <1>2, <1>3

LEMMA NewBotFacts ==
    ASSUME NEW t \in TierNames
    PROVE  /\ NewBot(t) \in BotRow /\ NewBot(t).status = "stopped"
           /\ NewBot(t).positions <= max_positions(t)
           /\ NewBot(t).min <= NewBot(t).max
BY TierFacts, AmountFacts DEF NewBot, BotRow

\* A set of bot rows that is not empty has a newest one.
LEMMA NewestFacts ==
    ASSUME TypeOK, BotIds # {}
    PROVE  Newest \in BotIds
<1> DEFINE n == Cardinality(Rows)
           T == {n - b : b \in BotIds}
<1>1. n \in Nat /\ BotIds \subseteq 1 .. n
  BY ConstantsOK, FS_CardinalityType DEF BotIds
<1> HIDE DEF n
<1>2. T \subseteq Nat /\ T # {}
  <2>1. \A b \in BotIds : n - b \in Nat
    BY <1>1
  <2> QED BY <2>1
<1>3. PICK m \in T : \A k \in T : <<k, m>> \notin OpToRel(<, Nat)
  BY <1>2, WFMin, NatLessThanWellFounded, Zenon
<1>4. \A k \in T : ~(k < m)
  BY <1>2, <1>3, Zenon DEF OpToRel
<1>5. PICK b \in BotIds : m = n - b
  OBVIOUS
<1>6. \A a \in BotIds : a <= b
  <2>1. \A a \in BotIds : ~(n - a < n - b)
    BY <1>4, <1>5
  <2> QED BY <1>1, <2>1
<1> QED BY <1>6 DEF Newest

LEMMA StoredFinite ==
    /\ \A S \in SUBSET Keys : IsFiniteSet(S) /\ Cardinality(S) \in Nat
    /\ \A S \in SUBSET Requests : IsFiniteSet(S) /\ Cardinality(S) \in Nat
                                 /\ Cardinality(S) <= Cardinality(Requests)
    /\ Cardinality(Requests) \in Nat \ {0}
BY ConstantsOK, FS_Subset, FS_CardinalityType, FS_EmptySet

-----------------------------------------------------------------------------
LEMMA InitHolds == ASSUME Init PROVE IInv
<1> USE DEF Init
<1>1. TypeInv
  BY DEF TypeInv, TypeOK, ReqOK, HasRow, Stored, Exists, BotOps, KeyOps, Stages
<1>2. CountInv
  <2>1. Late = {} /\ Stored \in SUBSET Keys
    BY DEF Late, Stored
  <2> QED BY <2>1, StoredFinite, FS_EmptySet, ConstantsOK DEF CountInv
<1>3. LabelInv
  <2>1. \A j, k \in Stored : j # k => keys[j].label # keys[k].label
    <3> SUFFICES ASSUME NEW j \in Stored, NEW k \in Stored, j # k
                 PROVE  keys[j].label # keys[k].label
      OBVIOUS
    <3>1. j \in Keys /\ k \in Keys /\ j \in Nat /\ k \in Nat
      BY ConstantsOK DEF Stored
    <3>2. j < k \/ k < j
      BY <3>1
    <3> QED BY <3>1, <3>2
  <2> QED BY <2>1 DEF LabelInv, PastLabel
<1>4. StartInv /\ RangeInv
  BY DEF StartInv, RangeInv, HasRow, BotIds
<1>5. TierInv
  <2>1. tier \in TierNames /\ "free" \in TierNames
    BY ConstantsOK DEF TierNames
  <2> QED BY <2>1, TierFacts DEF TierInv, HasRow, BotIds
<1> QED BY <1>1, <1>2, <1>3, <1>4, <1>5 DEF IInv

-----------------------------------------------------------------------------
(***************************************************************************)
(* Steps that say nothing of the keys, or nothing of the bot: no request   *)
(* comes any nearer to changing them than it was.                          *)
(***************************************************************************)
KeyQuiet ==
    /\ Stored' \subseteq Stored /\ twins' = twins
    /\ \A k \in Stored' : keys'[k].label = keys[k].label
    /\ Late' \subseteq Late
    /\ \A q \in Requests, l \in Labels : PastLabel(q, l)' => PastLabel(q, l)

BotQuiet ==
    /\ UNCHANGED <<tier, bots, lowered, loose, torn>>
    /\ \A q \in Requests :
          /\ mytier'[q] \in {mytier[q], tier, "free"}
          /\ HasRow(q)' => HasRow(q) /\ which'[q] = which[q] /\ loaded'[q] = loaded[q]

LEMMA KeyQuietKeeps ==
    ASSUME IInv, TypeOK', KeyQuiet
    PROVE  CountInv' /\ LabelInv'
<1>1. CountInv'
  <2>1. /\ Stored \in SUBSET Keys /\ Stored' \in SUBSET Keys
        /\ Late \in SUBSET Requests /\ Late' \in SUBSET Requests
    BY DEF Stored, Late
  <2>2. /\ Cardinality(Stored') <= Cardinality(Stored)
        /\ Cardinality(Late') <= Cardinality(Late)
    BY <2>1, StoredFinite, FS_Subset DEF KeyQuiet
  <2>3. /\ Cardinality(Stored) \in Nat /\ Cardinality(Stored') \in Nat
        /\ Cardinality(Late) \in Nat /\ Cardinality(Late') \in Nat
    BY <2>1, StoredFinite
  <2> QED BY <2>2, <2>3, StoredFinite, ConstantsOK DEF CountInv, IInv
<1>2. LabelInv'
  <2>1. \A l : LabelTaken(l)' => LabelTaken(l)
    BY DEF KeyQuiet, LabelTaken
  <2> QED BY <2>1 DEF IInv, LabelInv, KeyQuiet
<1> QED BY <1>1, <1>2

LEMMA BotQuietKeeps ==
    ASSUME IInv, BotQuiet
    PROVE  StartInv' /\ TierInv' /\ RangeInv'
<1> USE DEF IInv, BotQuiet
<1>1. StartInv'
  BY DEF StartInv
<1>2. TierInv'
  <2>1. tier \in TierNames /\ max_positions(tier) \in Nat /\ max_positions("free") = 0
    BY TierFacts, ConstantsOK DEF TypeInv, TypeOK, TierNames
  <2>2. ASSUME ~lowered, NEW q \in Requests
        PROVE  max_positions(mytier'[q]) <= max_positions(tier)
    BY <2>1, <2>2 DEF TierInv
  <2>3. BotIds' = BotIds
    BY DEF BotIds
  <2> QED BY <2>2, <2>3 DEF TierInv
<1>3. RangeInv'
  BY DEF RangeInv, SameRange, BotIds
<1> QED BY <1>1, <1>2, <1>3

-----------------------------------------------------------------------------
(***************************************************************************)
(* A step of one request leaves the others alone; one that ends has        *)
(* nothing in hand.                                                        *)
(***************************************************************************)
ReqTypes ==
    /\ op \in [Requests -> BotOps \union KeyOps]
    /\ stage \in [Requests -> Stages]
    /\ mytier \in [Requests -> Tiers \union {"free"}]
    /\ which \in [Requests -> Rows \union Keys \union {None}]
    /\ loaded \in [Requests -> BotRow \union KeyRow \union {None}]
    /\ label \in [Requests -> Labels \union {None}]

Alone(r) ==
    /\ ReqTypes'
    /\ \A q \in Requests \ {r} :
          /\ op'[q] = op[q] /\ stage'[q] = stage[q] /\ mytier'[q] = mytier[q]
          /\ which'[q] = which[q] /\ loaded'[q] = loaded[q] /\ label'[q] = label[q]

Ended(r) == /\ Alone(r)
            /\ op'[r] = "status" /\ stage'[r] = "idle" /\ which'[r] = None
            /\ mytier'[r] = "free"

LEMMA CloseEnds ==
    ASSUME TypeOK, NEW r \in Requests, Close(r)
    PROVE  Ended(r)
BY DEF TypeOK, Close, Ended, Alone, ReqTypes, BotOps, KeyOps, Stages

LEMMA AloneTyped ==
    ASSUME TypeInv, NEW r \in Requests, Alone(r), ReqOK(r)'
    PROVE  \A q \in Requests : ReqOK(q)'
BY DEF TypeInv, Alone, ReqOK, HasRow

LEMMA EndedReqOK ==
    ASSUME NEW r \in Requests, Ended(r)
    PROVE  /\ ReqOK(r)' /\ ~HasRow(r)' /\ r \notin Late'
           /\ \A l \in Labels : ~PastLabel(r, l)'
BY DEF Ended, ReqOK, HasRow, Late, PastLabel, BotOps, KeyOps

LEMMA EndedQuiet ==
    ASSUME NEW r \in Requests, Ended(r)
    PROVE  /\ Late' \subseteq Late
           /\ \A q \in Requests, l \in Labels : PastLabel(q, l)' => PastLabel(q, l)
           /\ \A q \in Requests :
                 /\ mytier'[q] \in {mytier[q], tier, "free"}
                 /\ HasRow(q)' => HasRow(q) /\ which'[q] = which[q] /\ loaded'[q] = loaded[q]
<1>1. \A q \in Requests \ {r} : HasRow(q)' => HasRow(q)
  BY DEF Ended, Alone, HasRow
<1>2. \A q \in Requests \ {r}, l \in Labels : PastLabel(q, l)' => PastLabel(q, l)
  BY DEF Ended, Alone, PastLabel
<1>3. \A q \in Requests \ {r} : q \in Late' => q \in Late
  BY DEF Ended, Alone, Late
<1> QED BY <1>1, <1>2, <1>3, EndedReqOK DEF Ended, Alone, Late

(***************************************************************************)
(* Requests that only read and move on, or give up.                        *)
(***************************************************************************)
LEMMA BeginOf ==
    ASSUME IInv, NEW r \in Requests, Begin(r)
    PROVE  TypeInv' /\ KeyQuiet /\ BotQuiet
<1> USE DEF IInv, TypeInv, TypeOK, Begin, batchVars, seen
<1>1. PICK o \in BotOps \union KeyOps :
          /\ op' = [op EXCEPT ![r] = o]
          /\ stage' = [stage EXCEPT ![r] = CASE o \in BotOps -> "user"
                                             [] o = "store"  -> "label"
                                             [] o \in {"delete", "validate"} -> "key"]
  OBVIOUS
<1>2. op'[r] = o /\ stage'[r] \in {"user", "label", "key"}
  BY <1>1 DEF BotOps, KeyOps
<1>3. /\ o \in BotOps => stage'[r] = "user"
      /\ o = "store" => stage'[r] = "label"
      /\ o \in {"delete", "validate"} => stage'[r] = "key"
  BY <1>1 DEF BotOps
<1>4. which[r] = None
  BY DEF ReqOK, HasRow, BotOps
<1>5. Alone(r)
  BY <1>1, <1>2 DEF Alone, ReqTypes, Stages
<1>6. ReqOK(r)' /\ ~HasRow(r)' /\ r \notin Late' /\ \A l \in Labels : ~PastLabel(r, l)'
  BY <1>2, <1>3, <1>4 DEF ReqOK, HasRow, Late, PastLabel, BotOps, KeyOps
<1>7. TypeInv'
  <2>1. \A q \in Requests : ReqOK(q)'
    BY <1>5, <1>6, AloneTyped
  <2>2. requests' \in Nat /\ ReqTypes' /\ UNCHANGED <<tier, bots, keys, batch, running>>
        /\ UNCHANGED <<spent, lowered, loose, torn, twins, changes, batches>>
    BY <1>5 DEF Alone
  <2> HIDE DEF Begin
  <2>3. TypeOK'
    BY <2>2 DEF ReqTypes, Stored, Exists
  <2> QED BY <2>1, <2>3
<1>8. KeyQuiet
  BY <1>5, <1>6 DEF KeyQuiet, Stored, Exists, Alone, Late, PastLabel
<1>9. BotQuiet
  BY <1>5, <1>6 DEF BotQuiet, Alone, HasRow
<1> QED BY <1>7, <1>8, <1>9

LEMMA RaiseOf ==
    ASSUME IInv, NEW r \in Requests, Raise(r)
    PROVE  TypeInv' /\ KeyQuiet /\ BotQuiet
<1> USE DEF IInv, Raise, batchVars, seen
<1>1. Ended(r)
  BY CloseEnds DEF TypeInv
<1>2. TypeInv'
  BY <1>1, AloneTyped, EndedReqOK DEF TypeInv, TypeOK, Ended, Alone, ReqTypes, Stored, Exists
<1>3. KeyQuiet /\ BotQuiet
  BY <1>1, EndedQuiet DEF KeyQuiet, BotQuiet, Stored, Exists
<1> QED BY <1>2, <1>3

LEMMA LoadUserOf ==
    ASSUME IInv, NEW r \in Requests, LoadUser(r)
    PROVE  TypeInv' /\ KeyQuiet /\ BotQuiet
<1> USE DEF IInv, LoadUser, Goto, batchVars, seen
<1>1. Alone(r)
  BY DEF TypeInv, TypeOK, Alone, ReqTypes, Stages
<1>2. ReqOK(r)' /\ ~HasRow(r)' /\ r \notin Late' /\ \A l \in Labels : ~PastLabel(r, l)'
  <2>1. op[r] \in BotOps /\ which[r] = None /\ op[r] \notin {"store", "delete", "validate"}
    BY DEF TypeInv, TypeOK, ReqOK, HasRow, BotOps, KeyOps
  <2>2. stage'[r] = "bot"
    BY DEF TypeInv, TypeOK
  <2> QED BY <2>1, <2>2 DEF ReqOK, HasRow, Late, PastLabel
<1>3. TypeInv'
  BY <1>1, <1>2, AloneTyped DEF TypeInv, TypeOK, Alone, ReqTypes, Stored, Exists
<1>4. KeyQuiet
  BY <1>1, <1>2 DEF KeyQuiet, Stored, Exists, Alone, Late, PastLabel
<1>5. BotQuiet
  BY <1>1, <1>2 DEF BotQuiet, Alone, HasRow, TypeInv, TypeOK
<1> QED BY <1>3, <1>4, <1>5

LEMMA FindValidKeyOf ==
    ASSUME IInv, NEW r \in Requests, FindValidKey(r)
    PROVE  TypeInv' /\ KeyQuiet /\ BotQuiet
<1> USE DEF IInv, FindValidKey, Goto, batchVars, seen
<1>1. Alone(r)
  BY DEF TypeInv, TypeOK, Alone, ReqTypes, Stages
<1>2. HasRow(r) /\ op'[r] = "start" /\ stage'[r] = "commit"
  BY DEF HasRow, BotOps, TypeInv, TypeOK
<1>3. ReqOK(r)' /\ r \notin Late' /\ \A l \in Labels : ~PastLabel(r, l)'
  BY <1>2 DEF TypeInv, ReqOK, HasRow, Late, PastLabel, BotOps
<1>4. TypeInv'
  BY <1>1, <1>3, AloneTyped DEF TypeInv, TypeOK, Alone, ReqTypes, Stored, Exists
<1>5. KeyQuiet
  BY <1>1, <1>3 DEF KeyQuiet, Stored, Exists, Alone, Late, PastLabel
<1>6. BotQuiet
  BY <1>1, <1>2 DEF BotQuiet, Alone, HasRow
<1> QED BY <1>4, <1>5, <1>6

LEMMA FindKeyOf ==
    ASSUME IInv, NEW r \in Requests, FindKey(r)
    PROVE  TypeInv' /\ KeyQuiet /\ BotQuiet
<1> USE DEF IInv, FindKey, Goto, batchVars, seen
<1>1. PICK k \in Stored :
          /\ which' = [which EXCEPT ![r] = k]
          /\ loaded' = [loaded EXCEPT ![r] = IF op[r] = "validate" THEN keys[k] ELSE None]
  OBVIOUS
<1>2. k \in Keys /\ keys[k] \in KeyRow
  BY DEF TypeInv, TypeOK, Stored, Exists
<1>3. Alone(r)
  BY <1>1, <1>2 DEF TypeInv, TypeOK, Alone, ReqTypes, Stages
<1>4. ReqOK(r)' /\ ~HasRow(r)' /\ r \notin Late' /\ \A l \in Labels : ~PastLabel(r, l)'
  <2>1. /\ op'[r] = op[r] /\ stage'[r] = "commit" /\ which'[r] = k
        /\ op[r] = "validate" => loaded'[r] = keys[k]
    BY <1>1 DEF TypeInv, TypeOK
  <2> QED BY <1>2, <2>1 DEF ReqOK, HasRow, Late, PastLabel, BotOps
<1>5. TypeInv'
  BY <1>3, <1>4, AloneTyped DEF TypeInv, TypeOK, Alone, ReqTypes, Stored, Exists
<1>6. KeyQuiet
  BY <1>3, <1>4 DEF KeyQuiet, Stored, Exists, Alone, Late, PastLabel
<1>7. BotQuiet
  BY <1>3, <1>4 DEF BotQuiet, Alone, HasRow
<1> QED BY <1>5, <1>6, <1>7

-----------------------------------------------------------------------------
(***************************************************************************)
(* Storing a key: the label, the count, the row.                           *)
(***************************************************************************)
LEMMA CheckLabelOf ==
    ASSUME IInv, NEW r \in Requests, CheckLabel(r)
    PROVE  TypeInv' /\ CountInv' /\ LabelInv' /\ BotQuiet
<1> USE DEF IInv, CheckLabel, Goto, batchVars
<1>1. PICK l \in Labels :
          /\ ~LabelTaken(l)
          /\ label' = [label EXCEPT ![r] = l]
          /\ twins' = (twins \/ \E q \in Requests : PastLabel(q, l))
  OBVIOUS
<1>2. Alone(r)
  BY <1>1 DEF TypeInv, TypeOK, Alone, ReqTypes, Stages
<1>3. op'[r] = "store" /\ stage'[r] = "count" /\ label'[r] = l
  BY <1>1 DEF TypeInv, TypeOK, ReqOK
<1>4. ReqOK(r)' /\ ~HasRow(r)' /\ r \notin Late'
  BY <1>3 DEF ReqOK, HasRow, Late, BotOps
<1>5. TypeInv'
  <2>1. \A q \in Requests : ReqOK(q)'
    BY <1>2, <1>4, AloneTyped
  <2>2. twins' \in BOOLEAN
    BY <1>1
  <2> QED BY <1>2, <2>1, <2>2 DEF TypeInv, TypeOK, Alone, ReqTypes, Stored, Exists
<1>6. CountInv'
  <2>1. Late' = Late /\ Stored' = Stored
    BY <1>2, <1>4 DEF Late, Alone, Stored, Exists
  <2> QED BY <2>1 DEF CountInv
<1>7. LabelInv'
  <2> SUFFICES ASSUME ~twins'
               PROVE  LabelInv'
    BY DEF LabelInv
  <2>1. ~twins /\ \A q \in Requests : ~PastLabel(q, l)
    BY <1>1, Zenon
  <2>2. \A q \in Requests, m \in Labels : PastLabel(q, m)' => PastLabel(q, m) \/ (q = r /\ m = l)
    BY <1>2, <1>3 DEF Alone, PastLabel
  <2>3. \A m : LabelTaken(m)' => LabelTaken(m)
    BY DEF LabelTaken, Stored, Exists
  <2>4. \A q \in Requests, m \in Labels : PastLabel(q, m)' => ~LabelTaken(m)'
    BY <1>1, <2>1, <2>2, <2>3 DEF LabelInv
  <2>5. \A q, p \in Requests, m \in Labels :
            PastLabel(q, m)' /\ PastLabel(p, m)' => q = p
    BY <2>1, <2>2 DEF LabelInv
  <2>6. \A j, k \in Stored' : j # k => keys'[j].label # keys'[k].label
    BY <2>1 DEF LabelInv, Stored, Exists
  <2> QED BY <2>4, <2>5, <2>6 DEF LabelInv
<1>8. BotQuiet
  BY <1>2, <1>4 DEF BotQuiet, Alone, HasRow
<1> QED BY <1>5, <1>6, <1>7, <1>8

LEMMA CountKeysOf ==
    ASSUME IInv, NEW r \in Requests, CountKeys(r)
    PROVE  TypeInv' /\ CountInv' /\ LabelInv' /\ BotQuiet
<1> USE DEF IInv, CountKeys, Goto, batchVars, seen
<1>1. Alone(r)
  BY DEF TypeInv, TypeOK, Alone, ReqTypes, Stages
<1>2. op'[r] = "store" /\ stage'[r] = "commit" /\ label'[r] \in Labels
  BY DEF TypeInv, TypeOK, ReqOK
<1>3. ReqOK(r)' /\ ~HasRow(r)'
  BY <1>2 DEF ReqOK, HasRow, BotOps
<1>4. TypeInv'
  BY <1>1, <1>3, AloneTyped DEF TypeInv, TypeOK, Alone, ReqTypes, Stored, Exists
<1>5. CountInv'
  <2>1. Stored' = Stored /\ Stored \in SUBSET Keys /\ Late' \in SUBSET Requests
    BY DEF Stored, Exists, Late
  <2>2. /\ Cardinality(Stored) \in Nat /\ Cardinality(Late') \in Nat
        /\ Cardinality(Late') <= Cardinality(Requests)
    BY <2>1, StoredFinite
  <2> QED BY <2>1, <2>2, StoredFinite, ConstantsOK DEF CountInv
<1>6. LabelInv'
  <2>1. \A q \in Requests, l \in Labels : PastLabel(q, l)' => PastLabel(q, l)
    BY <1>1 DEF Alone, PastLabel, TypeInv, ReqOK
  <2> QED BY <2>1 DEF LabelInv, LabelTaken, Stored, Exists
<1>7. BotQuiet
  BY <1>1, <1>3 DEF BotQuiet, Alone, HasRow
<1> QED BY <1>4, <1>5, <1>6, <1>7

LEMMA CommitStoreOf ==
    ASSUME IInv, NEW r \in Requests, CommitStore(r)
    PROVE  TypeInv' /\ CountInv' /\ LabelInv' /\ BotQuiet
<1> USE DEF IInv, CommitStore, batchVars
<1>1. Ended(r)
  BY CloseEnds DEF TypeInv
<1>2. /\ NewKey \in Keys /\ NewKey \notin spent /\ NewKey \notin Stored
      /\ label[r] \in Labels /\ PastLabel(r, label[r]) /\ r \in Late
  BY DEF NewKey, TypeInv, TypeOK, ReqOK, PastLabel, Late
<1> HIDE DEF NewKey
<1>3. /\ [label |-> label[r], is_valid |-> TRUE] \in KeyRow
      /\ [label |-> label[r], is_valid |-> TRUE] # None
  <2>1. [label |-> label[r], is_valid |-> TRUE] \in KeyRow
    BY <1>2 DEF KeyRow
  <2>2. None \notin KeyRow
    BY ConstantsOK
  <2> QED BY <2>1, <2>2
<1>4. /\ keys'[NewKey] = [label |-> label[r], is_valid |-> TRUE]
      /\ \A k \in Keys \ {NewKey} : keys'[k] = keys[k]
      /\ keys' \in [Keys -> KeyRow \union {None}]
  BY <1>2, <1>3 DEF TypeInv, TypeOK
<1>5. Stored' = Stored \union {NewKey}
  BY <1>2, <1>3, <1>4 DEF Stored, Exists
<1>6. TypeInv'
  <2>1. \A q \in Requests : ReqOK(q)'
    BY <1>1, AloneTyped, EndedReqOK DEF Ended
  <2> QED BY <1>1, <1>2, <1>4, <1>5, <2>1 DEF TypeInv, TypeOK, Ended, Alone, ReqTypes
<1>7. CountInv'
  <2>1. Late' = Late \ {r}
    BY <1>1, EndedReqOK DEF Ended, Alone, Late
  <2>2. Stored \in SUBSET Keys /\ Late \in SUBSET Requests
    BY DEF Stored, Late
  <2>3. /\ Cardinality(Stored') = Cardinality(Stored) + 1
        /\ Cardinality(Late') = Cardinality(Late) - 1
    BY <1>2, <1>5, <2>1, <2>2, StoredFinite, FS_AddElement, FS_RemoveElement
  <2>4. Cardinality(Stored) \in Nat /\ Cardinality(Late) \in Nat
    BY <2>2, StoredFinite
  <2> QED BY <2>3, <2>4, StoredFinite, ConstantsOK DEF CountInv
<1>8. LabelInv'
  <2> SUFFICES ASSUME ~twins
               PROVE  LabelInv'
    BY DEF LabelInv
  <2>1. \A q \in Requests, m \in Labels : PastLabel(q, m)' => PastLabel(q, m) /\ q # r
    BY <1>1, EndedQuiet, EndedReqOK
  <2>2. \A m : LabelTaken(m)' => LabelTaken(m) \/ m = label[r]
    BY <1>2, <1>4, <1>5 DEF LabelTaken, Stored
  <2>3. \A q \in Requests, m \in Labels : PastLabel(q, m)' => ~LabelTaken(m)'
    BY <1>2, <2>1, <2>2 DEF LabelInv
  <2>4. \A q, p \in Requests, m \in Labels :
            PastLabel(q, m)' /\ PastLabel(p, m)' => q = p
    BY <2>1 DEF LabelInv
  <2>5. \A j, k \in Stored' : j # k => keys'[j].label # keys'[k].label
    <3>1. ~LabelTaken(label[r])
      BY <1>2 DEF LabelInv
    <3>2. \A k \in Stored : /\ k # NewKey /\ keys'[k] = keys[k]
                            /\ keys[k].label # label[r]
      BY <1>2, <1>4, <3>1 DEF LabelTaken, Stored
    <3>3. keys'[NewKey].label = label[r]
      BY <1>4
    <3> QED BY <1>5, <3>2, <3>3 DEF LabelInv
  <2> QED BY <2>3, <2>4, <2>5 DEF LabelInv
<1>9. BotQuiet
  BY <1>1, EndedQuiet DEF BotQuiet
<1> QED BY <1>6, <1>7, <1>8, <1>9

(***************************************************************************)
(* Steps that change or remove rows, and make none.                        *)
(***************************************************************************)
LEMMA CommitDeleteOf ==
    ASSUME IInv, NEW r \in Requests, CommitDelete(r)
    PROVE  TypeInv' /\ KeyQuiet /\ BotQuiet
<1> USE DEF IInv, CommitDelete, batchVars, seen
<1>1. Ended(r)
  BY CloseEnds DEF TypeInv
<1>2. /\ keys' \in [Keys -> KeyRow \union {None}]
      /\ \A k \in Keys : keys'[k] = keys[k] \/ keys'[k] = None
  BY DEF TypeInv, TypeOK
<1>3. Stored' \subseteq Stored /\ \A k \in Stored' : keys'[k] = keys[k]
  BY <1>2 DEF Stored, Exists
<1>4. TypeInv'
  <2>1. \A q \in Requests : ReqOK(q)'
    BY <1>1, AloneTyped, EndedReqOK DEF Ended
  <2> QED BY <1>1, <1>2, <1>3, <2>1 DEF TypeInv, TypeOK, Ended, Alone, ReqTypes
<1>5. KeyQuiet /\ BotQuiet
  BY <1>1, <1>3, EndedQuiet DEF KeyQuiet, BotQuiet
<1> QED BY <1>4, <1>5

LEMMA CommitValidateOf ==
    ASSUME IInv, NEW r \in Requests, CommitValidate(r)
    PROVE  TypeInv' /\ KeyQuiet /\ BotQuiet
<1> USE DEF IInv, CommitValidate, batchVars, seen
<1>1. Ended(r)
  BY CloseEnds DEF TypeInv
<1>2. PICK ok \in BOOLEAN :
        keys' = [keys EXCEPT ![which[r]].is_valid = Column(@, loaded[r].is_valid, ok)]
  OBVIOUS
<1>3. /\ which[r] \in Keys /\ keys[which[r]] \in KeyRow
  BY DEF TypeInv, TypeOK, ReqOK, Exists
<1>4. PICK v \in BOOLEAN : keys' = [keys EXCEPT ![which[r]].is_valid = v]
  <2>1. Column(keys[which[r]].is_valid, loaded[r].is_valid, ok) \in BOOLEAN
    BY <1>3 DEF Column, KeyRow
  <2> QED BY <1>2, <1>3, <2>1 DEF TypeInv, TypeOK
<1>5. /\ keys' \in [Keys -> KeyRow \union {None}]
      /\ \A k \in Keys \ {which[r]} : keys'[k] = keys[k]
      /\ keys'[which[r]] \in KeyRow /\ keys'[which[r]].label = keys[which[r]].label
  BY <1>3, <1>4 DEF TypeInv, TypeOK, KeyRow
<1>6. Stored' = Stored /\ \A k \in Stored' : keys'[k].label = keys[k].label
  BY <1>3, <1>5, ConstantsOK DEF Stored, Exists
<1>7. TypeInv'
  <2>1. \A q \in Requests : ReqOK(q)'
    BY <1>1, AloneTyped, EndedReqOK DEF Ended
  <2> QED BY <1>1, <1>5, <1>6, <2>1 DEF TypeInv, TypeOK, Ended, Alone, ReqTypes
<1>8. KeyQuiet /\ BotQuiet
  BY <1>1, <1>6, EndedQuiet DEF KeyQuiet, BotQuiet
<1> QED BY <1>7, <1>8

LEMMA BatchStepOf ==
    ASSUME IInv, BatchStep
    PROVE  TypeInv' /\ KeyQuiet /\ BotQuiet
<1> USE DEF IInv, requestVars, seen
<1>1. UNCHANGED <<tier, bots, requestVars, seen, requests, changes>>
  BY DEF BatchStep, StartBatch, CommitBatch, BatchFails, EndBatch
<1>2. batch' \subseteq Keys /\ running' \in BOOLEAN /\ batches' \in Nat
  <2>1. CASE StartBatch
    BY <2>1 DEF StartBatch, TypeInv, TypeOK, Stored
  <2>2. CASE EndBatch
    BY <2>2 DEF EndBatch, TypeInv, TypeOK
  <2> QED BY <2>1, <2>2 DEF BatchStep, CommitBatch, BatchFails
<1>3. /\ keys' \in [Keys -> KeyRow \union {None}]
      /\ Stored' = Stored
      /\ \A k \in Stored : keys'[k].label = keys[k].label
  <2>1. CASE UNCHANGED keys
    BY <2>1 DEF TypeInv, TypeOK, Stored, Exists
  <2>2. CASE CommitBatch
    <3>1. PICK failed \in SUBSET batch :
             keys' = [k \in Keys |-> IF k \in failed
                                     THEN [keys[k] EXCEPT !.is_valid = FALSE] ELSE keys[k]]
      BY <2>2 DEF CommitBatch
    <3>2. \A k \in failed : k \in Keys /\ keys[k] \in KeyRow
      BY <2>2 DEF CommitBatch, TypeInv, TypeOK, Stored, Exists
    <3>3. \A k \in failed : /\ [keys[k] EXCEPT !.is_valid = FALSE] \in KeyRow
                            /\ [keys[k] EXCEPT !.is_valid = FALSE].label = keys[k].label
      BY <3>2 DEF KeyRow
    <3> QED BY <3>1, <3>2, <3>3, ConstantsOK DEF TypeInv, TypeOK, Stored, Exists
  <2> QED BY <2>1, <2>2 DEF BatchStep, StartBatch, BatchFails
<1>4. TypeInv'
  <2>1. \A q \in Requests : ReqOK(q)'
    BY <1>1 DEF TypeInv, ReqOK, HasRow
  <2> QED BY <1>1, <1>2, <1>3, <2>1 DEF TypeInv, TypeOK
<1>5. KeyQuiet /\ BotQuiet
  BY <1>1, <1>3 DEF KeyQuiet, BotQuiet, Late, PastLabel, HasRow
<1> QED BY <1>4, <1>5

-----------------------------------------------------------------------------
(***************************************************************************)
(* A request takes a bot row in hand.                                      *)
(***************************************************************************)
Taken(r, b, row) ==
    /\ HasRow(r)' /\ which'[r] = b /\ loaded'[r] = row
    /\ \A q \in Requests \ {r} :
          /\ HasRow(q)' => HasRow(q)
          /\ which'[q] = which[q] /\ loaded'[q] = loaded[q]
    /\ UNCHANGED <<tier, bots, mytier, lowered, loose>>

LEMMA TakeOf ==
    ASSUME IInv, NEW r \in Requests, NEW b \in Rows, NEW row \in BotRow,
           stage[r] = "bot", Take(r, b, row),
           UNCHANGED <<mytier, label, spent, lowered, loose, twins>>, torn' \in BOOLEAN
    PROVE  TypeInv' /\ KeyQuiet /\ Taken(r, b, row)
<1> USE DEF IInv, Take, Goto, batchVars
<1>1. op[r] \in BotOps
  BY DEF TypeInv, TypeOK, ReqOK, BotOps, KeyOps
<1>2. Alone(r)
  BY DEF TypeInv, TypeOK, Alone, ReqTypes, Stages
<1>3. /\ op'[r] = op[r] /\ stage'[r] \in {"key", "commit"}
      /\ which'[r] = b /\ loaded'[r] = row
  BY DEF TypeInv, TypeOK
<1>4. ReqOK(r)' /\ HasRow(r)' /\ r \notin Late' /\ \A l \in Labels : ~PastLabel(r, l)'
  BY <1>1, <1>3 DEF ReqOK, HasRow, Late, PastLabel, BotOps
<1>5. TypeInv'
  BY <1>2, <1>4, AloneTyped DEF TypeInv, TypeOK, Alone, ReqTypes, Stored, Exists
<1>6. KeyQuiet
  BY <1>2, <1>4 DEF KeyQuiet, Stored, Exists, Alone, Late, PastLabel
<1>7. Taken(r, b, row)
  BY <1>2, <1>3, <1>4 DEF Taken, Alone, HasRow
<1> QED BY <1>5, <1>6, <1>7

LEMMA LoadBotOf ==
    ASSUME IInv, NEW r \in Requests, LoadBot(r)
    PROVE  TypeInv' /\ KeyQuiet /\ StartInv' /\ TierInv' /\ RangeInv'
<1> USE DEF IInv
<1>1. /\ Newest \in Rows /\ bots[Newest] \in BotRow /\ bots[Newest] # None
  BY NewestFacts DEF LoadBot, TypeInv, TypeOK, BotIds
<1>2. torn' \in BOOLEAN
  BY DEF LoadBot
<1>3. TypeInv' /\ KeyQuiet /\ Taken(r, Newest, bots[Newest])
  BY <1>1, <1>2, TakeOf DEF LoadBot
<1>4. StartInv'
  BY <1>1, <1>3 DEF StartInv, Taken
<1>5. TierInv'
  BY <1>1, <1>3 DEF TierInv, Taken, BotIds
<1>6. RangeInv'
  <2> SUFFICES ASSUME ~loose, ~torn'
               PROVE  RangeInv'
    BY <1>3 DEF RangeInv, Taken
  <2>1. ~torn /\ \A q \in Requests : ~WorksOn(q, Newest)
    BY DEF LoadBot
  <2>2. \A q \in Requests : HasRow(q) => which[q] # Newest
    BY <2>1 DEF WorksOn, HasRow
  <2>3. \A b \in BotIds' : bots'[b].min <= bots'[b].max
    BY <1>3, <2>1 DEF RangeInv, Taken, BotIds
  <2>4. \A q \in Requests : HasRow(q)' => loaded'[q].min <= loaded'[q].max /\ SameRange(q)'
    BY <1>1, <1>3, <2>1 DEF RangeInv, Taken, SameRange, BotIds
  <2>5. \A p, q \in Requests : HasRow(p)' /\ HasRow(q)' /\ which'[p] = which'[q] => p = q
    BY <1>3, <2>1, <2>2 DEF RangeInv, Taken
  <2> QED BY <2>3, <2>4, <2>5 DEF RangeInv
<1> QED BY <1>3, <1>4, <1>5, <1>6

LEMMA CreateBotOf ==
    ASSUME IInv, NEW r \in Requests, CreateBot(r)
    PROVE  TypeInv' /\ KeyQuiet /\ StartInv' /\ TierInv' /\ RangeInv'
<1> USE DEF IInv
<1>1. PICK b \in Rows : /\ \A q \in Requests : ~WorksOn(q, b)
                        /\ Take(r, b, NewBot(mytier[r]))
  BY DEF CreateBot
<1>2. mytier[r] \in TierNames /\ tier \in TierNames
  BY ConstantsOK DEF TypeInv, TypeOK, TierNames
<1>3. torn' = torn /\ torn \in BOOLEAN
  BY DEF CreateBot, seen, TypeInv, TypeOK
<1>4. TypeInv' /\ KeyQuiet /\ Taken(r, b, NewBot(mytier[r]))
  BY <1>1, <1>2, <1>3, TakeOf, NewBotFacts DEF CreateBot, seen
<1>5. bots[b] = None
  BY DEF CreateBot, BotIds
<1>6. StartInv'
  BY <1>2, <1>4, NewBotFacts DEF StartInv, Taken
<1>7. TierInv'
  <2> SUFFICES ASSUME ~lowered PROVE TierInv'
    BY <1>4 DEF TierInv, Taken
  <2>1. NewBot(mytier[r]).positions <= max_positions(tier)
    <3>1. /\ NewBot(mytier[r]).positions <= max_positions(mytier[r])
          /\ NewBot(mytier[r]).positions \in Nat
      BY <1>2, NewBotFacts DEF BotRow
    <3>2. max_positions(mytier[r]) <= max_positions(tier)
      BY DEF TierInv
    <3> QED BY <1>2, <3>1, <3>2, TierFacts
  <2> QED BY <1>4, <2>1 DEF TierInv, Taken, BotIds
<1>8. RangeInv'
  <2> SUFFICES ASSUME ~loose, ~torn
               PROVE  RangeInv'
    BY <1>3, <1>4 DEF RangeInv, Taken
  <2>1. \A q \in Requests : HasRow(q) => which[q] # b
    BY <1>1 DEF WorksOn, HasRow
  <2>2. \A a \in BotIds' : bots'[a].min <= bots'[a].max
    BY <1>4 DEF RangeInv, Taken, BotIds
  <2>3. \A q \in Requests : HasRow(q)' => loaded'[q].min <= loaded'[q].max /\ SameRange(q)'
    BY <1>2, <1>4, <1>5, NewBotFacts DEF RangeInv, Taken, SameRange
  <2>4. \A p, q \in Requests : HasRow(p)' /\ HasRow(q)' /\ which'[p] = which'[q] => p = q
    BY <1>4, <2>1 DEF RangeInv, Taken
  <2> QED BY <2>2, <2>3, <2>4 DEF RangeInv
<1> QED BY <1>4, <1>6, <1>7, <1>8

(***************************************************************************)
(* A request commits its bot row: columns it has not changed keep what is  *)
(* stored meanwhile.                                                       *)
(***************************************************************************)
Stores(r, new) == bots'[which[r]] = IF bots[which[r]] = None THEN new
                                    ELSE SaveBot(bots[which[r]], loaded[r], new)

LEMMA SaveFacts ==
    ASSUME IInv, NEW r \in Requests, op[r] \in BotOps, NEW new \in BotRow, Save(r, new),
           loose' \in BOOLEAN
    PROVE  /\ Ended(r) /\ HasRow(r) /\ which[r] \in Rows /\ loaded[r] \in BotRow
           /\ Stores(r, new) /\ bots'[which[r]] \in BotRow
           /\ \A b \in Rows \ {which[r]} : bots'[b] = bots[b]
           /\ TypeInv' /\ KeyQuiet
<1> USE DEF IInv
<1>1. Ended(r)
  BY CloseEnds DEF Save, TypeInv
<1>2. HasRow(r) /\ which[r] \in Rows /\ loaded[r] \in BotRow
  BY DEF Save, TypeInv, ReqOK, HasRow
<1>3. \A old \in BotRow : SaveBot(old, loaded[r], new) \in BotRow
  BY <1>2 DEF SaveBot, Column, BotRow
<1>4. bots' = [bots EXCEPT ![which[r]] = IF bots[which[r]] = None THEN new
                                        ELSE SaveBot(bots[which[r]], loaded[r], new)]
  BY DEF Save
<1>5. bots[which[r]] \in BotRow \union {None}
  BY <1>2 DEF TypeInv, TypeOK
<1> HIDE DEF IInv
<1>6. Stores(r, new) /\ bots'[which[r]] \in BotRow
  <2>1. bots \in [Rows -> BotRow \union {None}]
    BY DEF IInv, TypeInv, TypeOK
  <2>2. Stores(r, new)
    BY <1>2, <1>4, <2>1 DEF Stores
  <2> QED BY <1>3, <1>5, <2>2 DEF Stores
<1>7. /\ \A b \in Rows \ {which[r]} : bots'[b] = bots[b]
      /\ bots' \in [Rows -> BotRow \union {None}]
  BY <1>2, <1>4, <1>6 DEF IInv, TypeInv, TypeOK
<1>8. TypeInv'
  <2>1. \A q \in Requests : ReqOK(q)'
    BY <1>1, AloneTyped, EndedReqOK DEF Ended, IInv
  <2>2. TypeOK /\ UNCHANGED <<tier, keys, batch, running, batches, spent, lowered, torn, twins>>
        /\ UNCHANGED <<requests, changes>>
    BY DEF Save, batchVars, IInv, TypeInv
  <2>3. TypeOK'
    BY <1>1, <1>7, <2>2 DEF TypeOK, Ended, Alone, ReqTypes, Stored, Exists
  <2> QED BY <2>1, <2>3 DEF TypeInv
<1>9. KeyQuiet
  BY <1>1, EndedQuiet DEF KeyQuiet, Save, Stored, Exists
<1> QED BY <1>1, <1>2, <1>6, <1>7, <1>8, <1>9

LEMMA SaveKeeps ==
    ASSUME IInv, NEW r \in Requests, op[r] \in BotOps, NEW new \in BotRow, Save(r, new),
           loose' \in BOOLEAN, loose => loose',
           ~lowered => new.positions <= max_positions(tier),
           ~loose' /\ ~torn => new.min <= new.max
    PROVE  TypeInv' /\ KeyQuiet /\ StartInv' /\ TierInv' /\ RangeInv'
<1> DEFINE w == which[r]
<1>1. /\ Ended(r) /\ HasRow(r) /\ w \in Rows /\ loaded[r] \in BotRow
      /\ Stores(r, new) /\ bots'[w] \in BotRow
      /\ \A b \in Rows \ {w} : bots'[b] = bots[b]
      /\ TypeInv' /\ KeyQuiet
  BY SaveFacts
<1>2. /\ bots'[w] # None /\ UNCHANGED <<tier, lowered, torn>>
      /\ bots[w] \in BotRow \union {None} /\ None \notin BotRow
  BY <1>1, ConstantsOK DEF Save, IInv, TypeInv, TypeOK
<1>3. \A q \in Requests : HasRow(q)' =>
          HasRow(q) /\ q # r /\ which'[q] = which[q] /\ loaded'[q] = loaded[q]
                    /\ which[q] \in Rows
  BY <1>1, EndedQuiet, EndedReqOK DEF IInv, TypeInv, ReqOK
<1>4. StartInv'
  BY <1>1, <1>2, <1>3 DEF IInv, StartInv
<1>5. TierInv'
  <2> SUFFICES ASSUME ~lowered PROVE TierInv'
    BY <1>2 DEF TierInv
  <2>1. bots'[w].positions <= max_positions(tier)
    <3>1. /\ new.positions <= max_positions(tier)
          /\ bots[w] # None => bots[w].positions <= max_positions(tier)
      BY <1>1 DEF IInv, TierInv, BotIds
    <3> QED BY <1>1, <3>1 DEF Stores, SaveBot, Column
  <2>2. \A q \in Requests : max_positions(mytier'[q]) <= max_positions(tier)
    <3>1. tier \in TierNames /\ max_positions(tier) \in Nat /\ max_positions("free") = 0
      BY TierFacts, ConstantsOK DEF IInv, TypeInv, TypeOK, TierNames
    <3> QED BY <1>1, <3>1, EndedQuiet DEF IInv, TierInv
  <2>3. \A b \in BotIds' : bots'[b].positions <= max_positions(tier)
    BY <1>1, <1>2, <2>1 DEF IInv, TierInv, BotIds
  <2> QED BY <1>2, <1>3, <2>2, <2>3 DEF IInv, TierInv
<1>6. RangeInv'
  <2> SUFFICES ASSUME ~loose', ~torn PROVE RangeInv'
    BY <1>2 DEF RangeInv
  <2>1. bots'[w].min <= bots'[w].max
    <3>1. bots[w] # None => loaded[r].min = bots[w].min /\ loaded[r].max = bots[w].max
      BY <1>1 DEF IInv, RangeInv, SameRange
    <3>2. bots'[w].min = new.min /\ bots'[w].max = new.max
      BY <1>1, <3>1 DEF Stores, SaveBot, Column
    <3> QED BY <3>2
  <2>2. \A b \in BotIds' : bots'[b].min <= bots'[b].max
    BY <1>1, <2>1 DEF IInv, RangeInv, BotIds
  <2>3. \A q \in Requests : HasRow(q)' => which[q] # w
    BY <1>1, <1>3 DEF IInv, RangeInv
  <2>4. \A q \in Requests : HasRow(q)' => loaded'[q].min <= loaded'[q].max /\ SameRange(q)'
    BY <1>1, <1>3, <2>3 DEF IInv, RangeInv, SameRange
  <2>5. \A p, q \in Requests : HasRow(p)' /\ HasRow(q)' /\ which'[p] = which'[q] => p = q
    BY <1>3 DEF IInv, RangeInv
  <2> QED BY <2>2, <2>4, <2>5 DEF RangeInv
<1> QED BY <1>1, <1>4, <1>5, <1>6

LEMMA HandKeeps ==
    ASSUME IInv, NEW r \in Requests, HasRow(r)
    PROVE  /\ loaded[r] \in BotRow
           /\ ~lowered => loaded[r].positions <= max_positions(tier)
           /\ ~loose /\ ~torn => loaded[r].min <= loaded[r].max
BY DEF IInv, TypeInv, ReqOK, TierInv, RangeInv

\* status, start and stop write the row they have loaded, with another status.
LEMMA StatusOf ==
    ASSUME IInv, NEW r \in Requests, CommitStatus(r) \/ CommitStart(r) \/ CommitStop(r)
    PROVE  TypeInv' /\ KeyQuiet /\ StartInv' /\ TierInv' /\ RangeInv'
<1>1. HasRow(r) /\ op[r] \in BotOps /\ loose' = loose /\ loose \in BOOLEAN
  BY DEF CommitStatus, CommitStart, CommitStop, Save, HasRow, BotOps, IInv, TypeInv, TypeOK
<1>2. PICK s \in {"stopped", "running", "error"} : Save(r, [loaded[r] EXCEPT !.status = s])
  <2>1. loaded[r].status \in {"stopped", "running", "error"}
        /\ loaded[r] = [loaded[r] EXCEPT !.status = loaded[r].status]
    BY <1>1, HandKeeps DEF BotRow
  <2> QED BY <2>1 DEF CommitStatus, CommitStart, CommitStop
<1> DEFINE new == [loaded[r] EXCEPT !.status = s]
<1>3. new \in BotRow /\ new.positions = loaded[r].positions
      /\ new.min = loaded[r].min /\ new.max = loaded[r].max
  BY <1>1, HandKeeps DEF BotRow
<1> HIDE DEF new
<1>4. Save(r, new)
  BY <1>2 DEF new
<1> QED BY <1>1, <1>3, <1>4, HandKeeps, SaveKeeps

\* PATCH /settings: what is given is within the tier the request has loaded.
LEMMA GivenFacts ==
    ASSUME NEW row \in BotRow, NEW p \in Positions \union {None},
           NEW lo \in Amounts \union {None}, NEW hi \in Amounts \union {None}
    PROVE  /\ Given(row, p, lo, hi) \in BotRow
           /\ Given(row, p, lo, hi).status = row.status
           /\ Given(row, p, lo, hi).positions = (IF p # None THEN p ELSE row.positions)
           /\ Given(row, p, lo, hi).min = (IF lo # None THEN lo ELSE row.min)
           /\ Given(row, p, lo, hi).max = (IF hi # None THEN hi ELSE row.max)
<1>1. (IF p # None THEN p ELSE row.positions) \in Nat
  BY ConstantsOK DEF BotRow
<1>2. (IF lo # None THEN lo ELSE row.min) \in Amounts
  BY DEF BotRow
<1>3. (IF hi # None THEN hi ELSE row.max) \in Amounts
  BY DEF BotRow
<1> QED BY <1>1, <1>2, <1>3 DEF Given, BotRow

LEMMA SettingsOf ==
    ASSUME IInv, NEW r \in Requests, CommitSettings(r)
    PROVE  TypeInv' /\ KeyQuiet /\ StartInv' /\ TierInv' /\ RangeInv'
<1>1. PICK p \in Positions \union {None}, lo \in Amounts \union {None},
           hi \in Amounts \union {None} :
          /\ Acceptable(mytier[r], p, lo, hi)
          /\ Save(r, Given(loaded[r], p, lo, hi))
          /\ loose' = (loose \/ (lo = None) # (hi = None))
  BY DEF CommitSettings
<1>2. HasRow(r) /\ op[r] \in BotOps /\ loaded[r] \in BotRow
  BY HandKeeps DEF CommitSettings, Save, HasRow, BotOps
<1> DEFINE row == loaded[r]
           new == Given(loaded[r], p, lo, hi)
<1>3. /\ new \in BotRow
      /\ new.positions = (IF p # None THEN p ELSE loaded[r].positions)
      /\ new.min = (IF lo # None THEN lo ELSE loaded[r].min)
      /\ new.max = (IF hi # None THEN hi ELSE loaded[r].max)
  <2>1. row \in BotRow
    BY <1>2
  <2> HIDE DEF row
  <2>2. /\ Given(row, p, lo, hi) \in BotRow
        /\ Given(row, p, lo, hi).positions = (IF p # None THEN p ELSE row.positions)
        /\ Given(row, p, lo, hi).min = (IF lo # None THEN lo ELSE row.min)
        /\ Given(row, p, lo, hi).max = (IF hi # None THEN hi ELSE row.max)
    BY <2>1, GivenFacts
  <2> QED BY <2>2 DEF row
<1> HIDE DEF new
<1>4. ~lowered => new.positions <= max_positions(tier)
  <2>1. ASSUME ~lowered, p # None PROVE p <= max_positions(tier)
    <3>1. /\ mytier[r] \in TierNames /\ tier \in TierNames /\ p \in Nat
          /\ max_positions(mytier[r]) <= max_positions(tier)
      BY <2>1, ConstantsOK DEF IInv, TypeInv, TypeOK, TierNames, TierInv
    <3> QED BY <1>1, <2>1, <3>1, TierFacts DEF Acceptable
  <2> QED BY <1>2, <1>3, <2>1, HandKeeps
<1>5. ~loose' /\ ~torn => new.min <= new.max
  <2>1. ASSUME ~loose', ~torn PROVE new.min <= new.max
    <3>1. ~loose /\ (lo = None <=> hi = None)
      BY <1>1, <2>1
    <3> QED BY <1>1, <1>2, <1>3, <2>1, <3>1, HandKeeps DEF Acceptable
  <2> QED BY <2>1
<1>6. loose' \in BOOLEAN /\ (loose => loose') /\ Save(r, new)
  BY <1>1 DEF new
<1> QED BY <1>2, <1>3, <1>4, <1>5, <1>6, SaveKeeps

-----------------------------------------------------------------------------
(***************************************************************************)
(* The tier changes; a heartbeat grows old.                                *)
(***************************************************************************)
LEMMA ChangeTierOf ==
    ASSUME IInv, ChangeTier
    PROVE  IInv'
<1> USE DEF IInv
<1>1. PICK t \in Tiers \ {tier} :
          /\ tier' = t
          /\ lowered' = (lowered \/ max_positions(t) < max_positions(tier))
  BY DEF ChangeTier
<1>2. /\ UNCHANGED <<bots, keys, op, stage, mytier, which, loaded, label, batch, running>>
      /\ UNCHANGED <<spent, loose, torn, twins, requests, batches>>
      /\ changes' \in Nat
  BY DEF ChangeTier, requestVars, batchVars, TypeInv, TypeOK
<1>3. TypeInv'
  BY <1>1, <1>2 DEF TypeInv, TypeOK, ReqOK, HasRow, Stored, Exists
<1>4. CountInv' /\ LabelInv'
  BY <1>2 DEF CountInv, LabelInv, Stored, Exists, Late, PastLabel, LabelTaken
<1>5. StartInv' /\ RangeInv'
  BY <1>2 DEF StartInv, RangeInv, SameRange, HasRow, BotIds
<1>6. TierInv'
  <2> SUFFICES ASSUME ~lowered' PROVE TierInv'
    BY DEF TierInv
  <2>1. ~lowered /\ max_positions(tier) <= max_positions(tier')
    <3>1. tier \in TierNames /\ t \in TierNames
      BY ConstantsOK DEF TypeInv, TypeOK
    <3>2. ~lowered /\ ~(max_positions(t) < max_positions(tier))
      BY <1>1, Zenon
    <3>3. max_positions(t) \in Nat /\ max_positions(tier) \in Nat
      BY <3>1, TierFacts
    <3> QED BY <1>1, <3>2, <3>3
  <2>2. /\ max_positions(tier) \in Nat /\ max_positions(tier') \in Nat
        /\ \A q \in Requests : max_positions(mytier[q]) \in Nat
        /\ \A b \in BotIds : bots[b].positions \in Nat
        /\ \A q \in Requests : HasRow(q) => loaded[q].positions \in Nat
    <3>1. tier \in TierNames /\ t \in TierNames /\ \A q \in Requests : mytier[q] \in TierNames
      BY ConstantsOK DEF TypeInv, TypeOK, TierNames
    <3>2. \A b \in BotIds : bots[b] \in BotRow
      BY DEF BotIds, TypeInv, TypeOK
    <3> QED BY <1>1, <3>1, <3>2, TierFacts DEF TypeInv, ReqOK, BotRow
  <2>3. /\ \A b \in BotIds : bots[b].positions <= max_positions(tier')
        /\ \A q \in Requests :
              /\ max_positions(mytier[q]) <= max_positions(tier')
              /\ HasRow(q) => loaded[q].positions <= max_positions(tier')
    BY <2>1, <2>2 DEF TierInv
  <2> QED BY <1>2, <2>3 DEF TierInv, BotIds, HasRow
<1> QED BY <1>3, <1>4, <1>5, <1>6

LEMMA AgeOf ==
    ASSUME IInv, Age
    PROVE  IInv'
<1> USE DEF IInv
<1>1. PICK b \in BotIds : bots' = [bots EXCEPT ![b].stale = TRUE]
  BY DEF Age
<1>2. /\ UNCHANGED <<tier, keys, op, stage, mytier, which, loaded, label, batch, running>>
      /\ UNCHANGED <<spent, lowered, loose, torn, twins, requests, changes, batches>>
  BY DEF Age, requestVars, batchVars, seen
<1>3. b \in Rows /\ bots[b] \in BotRow
  BY DEF BotIds, TypeInv, TypeOK
<1>4. bots \in [Rows -> BotRow \union {None}]
  BY DEF TypeInv, TypeOK
<1>5. bots'[b] = [bots[b] EXCEPT !.stale = TRUE]
  BY <1>1, <1>3, <1>4
<1>6. /\ bots'[b] \in BotRow /\ bots'[b].positions = bots[b].positions
      /\ bots'[b].min = bots[b].min /\ bots'[b].max = bots[b].max
  BY <1>3, <1>5 DEF BotRow
<1>7. /\ bots' \in [Rows -> BotRow \union {None}]
      /\ \A a \in Rows \ {b} : bots'[a] = bots[a]
  BY <1>1, <1>3, <1>4, <1>6
<1>8. TypeInv'
  BY <1>2, <1>7 DEF TypeInv, TypeOK, ReqOK, HasRow, Stored, Exists
<1>9. CountInv' /\ LabelInv'
  BY <1>2 DEF CountInv, LabelInv, Stored, Exists, Late, PastLabel, LabelTaken
<1>10. BotIds' = BotIds /\ \A a \in BotIds : /\ bots'[a].positions = bots[a].positions
                                             /\ bots'[a].min = bots[a].min
                                             /\ bots'[a].max = bots[a].max
  BY <1>3, <1>6, <1>7, ConstantsOK DEF BotIds
<1>11. StartInv' /\ TierInv'
  BY <1>2, <1>10 DEF StartInv, TierInv, HasRow, BotIds, TypeInv, ReqOK
<1>12. RangeInv'
  <2>1. \A q \in Requests : HasRow(q) => (SameRange(q)' <=> SameRange(q))
    BY <1>2, <1>10 DEF SameRange, TypeInv, ReqOK, BotIds
  <2> QED BY <1>2, <1>10, <2>1 DEF RangeInv, HasRow
<1> QED BY <1>8, <1>9, <1>11, <1>12

-----------------------------------------------------------------------------
LEMMA UserStepOf ==
    ASSUME IInv, NEW r \in Requests, UserStep(r)
    PROVE  IInv'
<1>1. TypeInv' /\ KeyQuiet /\ BotQuiet
  BY BeginOf, LoadUserOf, RaiseOf DEF UserStep, CommitFails
<1> QED BY <1>1, KeyQuietKeeps, BotQuietKeeps DEF IInv, TypeInv

LEMMA BotStepOf ==
    ASSUME IInv, NEW r \in Requests, BotStep(r)
    PROVE  IInv'
<1>1. CASE FindValidKey(r) \/ RefuseStart(r)
  <2>1. TypeInv' /\ KeyQuiet /\ BotQuiet
    BY <1>1, FindValidKeyOf, RaiseOf DEF RefuseStart
  <2> QED BY <2>1, KeyQuietKeeps, BotQuietKeeps DEF IInv, TypeInv
<1>2. CASE LoadBot(r) \/ CreateBot(r) \/ CommitStatus(r) \/ CommitStart(r) \/ CommitStop(r)
           \/ CommitSettings(r)
  <2>1. TypeInv' /\ KeyQuiet /\ StartInv' /\ TierInv' /\ RangeInv'
    BY <1>2, LoadBotOf, CreateBotOf, StatusOf, SettingsOf
  <2> QED BY <2>1, KeyQuietKeeps DEF IInv, TypeInv
<1> QED BY <1>1, <1>2 DEF BotStep

LEMMA KeyStepOf ==
    ASSUME IInv, NEW r \in Requests, KeyStep(r)
    PROVE  IInv'
<1>1. CASE CheckLabel(r) \/ CountKeys(r) \/ CommitStore(r)
  <2>1. TypeInv' /\ CountInv' /\ LabelInv' /\ BotQuiet
    BY <1>1, CheckLabelOf, CountKeysOf, CommitStoreOf
  <2> QED BY <2>1, BotQuietKeeps DEF IInv
<1>2. CASE RefuseKey(r) \/ FindKey(r) \/ KeyNotFound(r) \/ CommitDelete(r) \/ CommitValidate(r)
  <2>1. TypeInv' /\ KeyQuiet /\ BotQuiet
    BY <1>2, RaiseOf, FindKeyOf, CommitDeleteOf, CommitValidateOf DEF RefuseKey, KeyNotFound
  <2> QED BY <2>1, KeyQuietKeeps, BotQuietKeeps DEF IInv, TypeInv
<1> QED BY <1>1, <1>2 DEF KeyStep

LEMMA StepHolds == ASSUME IInv, [Next]_vars PROVE IInv'
<1>1. CASE BatchStep
  BY <1>1, BatchStepOf, KeyQuietKeeps, BotQuietKeeps DEF IInv, TypeInv
<1>2. CASE UNCHANGED vars
  <2>1. KeyQuiet /\ BotQuiet
    BY <1>2 DEF vars, KeyQuiet, BotQuiet, Stored, Exists, Late, PastLabel, HasRow
  <2>2. TypeInv'
    BY <1>2 DEF vars, IInv, TypeInv, TypeOK, ReqOK, HasRow, Stored, Exists
  <2> QED BY <2>1, <2>2, KeyQuietKeeps, BotQuietKeeps DEF IInv, TypeInv
<1> QED BY <1>1, <1>2, UserStepOf, BotStepOf, KeyStepOf, ChangeTierOf, AgeOf DEF Next

LEMMA Invariant == Spec => []IInv
BY InitHolds, StepHolds, PTL DEF Spec

-----------------------------------------------------------------------------
(***************************************************************************)
(* What a step may do to the keys and to the bot rows.                     *)
(***************************************************************************)
LEMMA KeysChangeBy ==
    ASSUME [Next]_vars
    PROVE  \/ keys' = keys
           \/ CommitBatch
           \/ \E r \in Requests : CommitStore(r) \/ CommitDelete(r) \/ CommitValidate(r)
<1>1. CASE UNCHANGED vars
  BY <1>1 DEF vars
<1>2. CASE ChangeTier \/ Age \/ BatchStep
  BY <1>2 DEF ChangeTier, Age, BatchStep, StartBatch, BatchFails
<1>3. ASSUME NEW r \in Requests, UserStep(r)
      PROVE  keys' = keys
  BY <1>3 DEF UserStep, Begin, LoadUser, CommitFails, Raise, Goto
<1>4. ASSUME NEW r \in Requests, BotStep(r)
      PROVE  keys' = keys
  BY <1>4 DEF BotStep, LoadBot, CreateBot, Take, FindValidKey, RefuseStart, Raise, Goto,
              CommitStatus, CommitStart, CommitStop, CommitSettings, Save
<1>5. ASSUME NEW r \in Requests, KeyStep(r)
      PROVE  keys' = keys \/ CommitStore(r) \/ CommitDelete(r) \/ CommitValidate(r)
  BY <1>5 DEF KeyStep, CheckLabel, CountKeys, RefuseKey, FindKey, KeyNotFound, Raise, Goto
<1> QED BY <1>1, <1>2, <1>3, <1>4, <1>5 DEF Next

LEMMA InvalidStep ==
    ASSUME IInv, [Next]_vars, NEW k \in Keys,
           Exists(k), ~keys[k].is_valid, keys'[k] # None, keys'[k].is_valid
    PROVE  \E r \in Requests : /\ op[r] = "validate" /\ stage[r] = "commit"
                               /\ which[r] = k /\ ~loaded[r].is_valid
<1> USE DEF IInv, TypeInv, TypeOK
<1>1. k \in spent
  BY DEF Stored
<1>2. ASSUME NEW r \in Requests, CommitStore(r)
      PROVE  FALSE
  <2>1. NewKey \notin spent
    BY <1>2 DEF CommitStore, NewKey
  <2> QED BY <1>1, <1>2, <2>1 DEF CommitStore
<1>3. ASSUME NEW r \in Requests, CommitDelete(r)
      PROVE  FALSE
  BY <1>3 DEF CommitDelete
<1>4. ASSUME CommitBatch
      PROVE  FALSE
  <2>1. PICK failed \in SUBSET batch :
           keys' = [j \in Keys |-> IF j \in failed
                                   THEN [keys[j] EXCEPT !.is_valid = FALSE] ELSE keys[j]]
    BY <1>4 DEF CommitBatch
  <2>2. keys[k] \in KeyRow
    BY DEF Exists
  <2> QED BY <2>1, <2>2 DEF KeyRow
<1>5. ASSUME NEW r \in Requests, CommitValidate(r)
      PROVE  op[r] = "validate" /\ stage[r] = "commit" /\ which[r] = k /\ ~loaded[r].is_valid
  <2>1. PICK ok \in BOOLEAN :
          keys' = [keys EXCEPT ![which[r]].is_valid = Column(@, loaded[r].is_valid, ok)]
    BY <1>5 DEF CommitValidate
  <2>2. /\ op[r] = "validate" /\ stage[r] = "commit" /\ which[r] \in Keys
        /\ loaded[r] \in KeyRow /\ keys[k] \in KeyRow
    BY <1>5 DEF CommitValidate, ReqOK, Exists
  <2>3. which[r] = k
    BY <2>1, <2>2
  <2>4. keys'[k].is_valid = Column(keys[k].is_valid, loaded[r].is_valid, ok)
    BY <2>1, <2>2, <2>3 DEF KeyRow
  <2>5. ~loaded[r].is_valid
    BY <2>2, <2>4 DEF Column, KeyRow
  <2> QED BY <2>2, <2>3, <2>5
<1>6. keys' # keys
  OBVIOUS
<1> QED BY <1>2, <1>3, <1>4, <1>5, <1>6, KeysChangeBy

LEMMA DeletedStep ==
    ASSUME IInv, [Next]_vars, NEW k \in spent, keys[k] = None
    PROVE  keys'[k] = None
<1> USE DEF IInv, TypeInv, TypeOK
<1>1. k \in Keys /\ k \notin Stored
  BY DEF Stored, Exists
<1>2. ASSUME NEW r \in Requests, CommitStore(r)
      PROVE  keys'[k] = None
  <2>1. NewKey # k
    BY <1>2 DEF CommitStore, NewKey
  <2> QED BY <1>1, <1>2, <2>1 DEF CommitStore
<1>3. ASSUME NEW r \in Requests, CommitDelete(r)
      PROVE  keys'[k] = None
  BY <1>1, <1>3 DEF CommitDelete
<1>4. ASSUME NEW r \in Requests, CommitValidate(r)
      PROVE  keys'[k] = None
  <2>1. which[r] # k
    BY <1>4 DEF CommitValidate, Exists
  <2> QED BY <1>1, <1>4, <2>1 DEF CommitValidate
<1>5. ASSUME CommitBatch
      PROVE  keys'[k] = None
  BY <1>1, <1>5 DEF CommitBatch
<1> QED BY <1>2, <1>3, <1>4, <1>5, KeysChangeBy

LEMMA BotsChangeBy ==
    ASSUME [Next]_vars
    PROVE  \/ bots' = bots
           \/ Age
           \/ \E r \in Requests : \/ CommitStatus(r) \/ CommitStart(r) \/ CommitStop(r)
                                  \/ CommitSettings(r)
<1>1. CASE UNCHANGED vars
  BY <1>1 DEF vars
<1>2. CASE ChangeTier \/ BatchStep
  BY <1>2 DEF ChangeTier, BatchStep, StartBatch, CommitBatch, BatchFails, EndBatch
<1>3. ASSUME NEW r \in Requests, UserStep(r)
      PROVE  bots' = bots
  BY <1>3 DEF UserStep, Begin, LoadUser, CommitFails, Raise, Goto
<1>4. ASSUME NEW r \in Requests, BotStep(r)
      PROVE  bots' = bots \/ CommitStatus(r) \/ CommitStart(r) \/ CommitStop(r)
                          \/ CommitSettings(r)
  BY <1>4 DEF BotStep, LoadBot, CreateBot, Take, FindValidKey, RefuseStart, Raise, Goto
<1>5. ASSUME NEW r \in Requests, KeyStep(r)
      PROVE  bots' = bots
  BY <1>5 DEF KeyStep, CheckLabel, CountKeys, RefuseKey, CommitStore, FindKey, KeyNotFound,
              CommitDelete, CommitValidate, Raise, Goto
<1> QED BY <1>1, <1>2, <1>3, <1>4, <1>5 DEF Next

LEMMA StartStep ==
    ASSUME IInv, [Next]_vars, NEW b \in Rows,
           bots'[b] # None, bots'[b].status = "running",
           bots[b] = None \/ bots[b].status # "running"
    PROVE  \E r \in Requests : op[r] = "start" /\ stage[r] = "commit" /\ which[r] = b
<1>1. ASSUME NEW r \in Requests, op[r] \in BotOps, NEW new \in BotRow, Save(r, new),
             loose' \in BOOLEAN
      PROVE  which[r] = b /\ new.status = "running" /\ loaded[r].status # "running"
  <2>1. /\ Stores(r, new) /\ HasRow(r) /\ loaded[r] \in BotRow
        /\ \A a \in Rows \ {which[r]} : bots'[a] = bots[a]
    BY <1>1, SaveFacts
  <2>2. which[r] = b
    BY <2>1
  <2>3. CASE bots[b] = None
    <3>1. new.status = "running" /\ loaded[r].status = "stopped"
      BY <2>1, <2>2, <2>3 DEF Stores, IInv, StartInv
    <3> QED BY <2>2, <3>1
  <2>4. CASE bots[b] # None
    <3>1. bots'[b].status = Column(bots[b].status, loaded[r].status, new.status)
      BY <2>1, <2>2, <2>4 DEF Stores, SaveBot
    <3> QED BY <2>2, <2>4, <3>1 DEF Column
  <2> QED BY <2>3, <2>4
<1>2. CASE Age
  <2>1. PICK a \in BotIds : bots' = [bots EXCEPT ![a].stale = TRUE]
    BY <1>2 DEF Age
  <2>2. a \in Rows /\ bots[a] \in BotRow /\ bots \in [Rows -> BotRow \union {None}]
    BY DEF BotIds, IInv, TypeInv, TypeOK
  <2>3. bots'[a].status = bots[a].status /\ bots[a] # None
    BY <2>1, <2>2 DEF BotRow, BotIds
  <2> QED BY <2>1, <2>2, <2>3
<1>3. ASSUME NEW r \in Requests, CommitStart(r)
      PROVE  op[r] = "start" /\ stage[r] = "commit" /\ which[r] = b
  <2>1. /\ op[r] \in BotOps /\ HasRow(r) /\ loose' \in BOOLEAN
        /\ op[r] = "start" /\ stage[r] = "commit"
    BY <1>3 DEF CommitStart, Save, HasRow, BotOps, IInv, TypeInv, TypeOK
  <2>2. [loaded[r] EXCEPT !.status = "running"] \in BotRow
    BY <2>1, HandKeeps DEF BotRow
  <2> QED BY <1>1, <1>3, <2>1, <2>2 DEF CommitStart
<1>4. ASSUME NEW r \in Requests, CommitStatus(r) \/ CommitStop(r)
      PROVE  FALSE
  <2>1. op[r] \in BotOps /\ HasRow(r) /\ loose' \in BOOLEAN /\ loaded[r] \in BotRow
    BY <1>4, HandKeeps
       DEF CommitStatus, CommitStop, Save, HasRow, BotOps, IInv, TypeInv, TypeOK
  <2>2. PICK new \in BotRow : /\ Save(r, new)
                              /\ new.status = "running" => loaded[r].status = "running"
    <3>1. \A s \in {"error", "stopped"} : /\ [loaded[r] EXCEPT !.status = s] \in BotRow
                                          /\ [loaded[r] EXCEPT !.status = s].status = s
      BY <2>1 DEF BotRow
    <3> QED BY <1>4, <2>1, <3>1 DEF CommitStatus, CommitStop
  <2> QED BY <1>1, <2>1, <2>2
<1>5. ASSUME NEW r \in Requests, CommitSettings(r)
      PROVE  FALSE
  <2>1. op[r] \in BotOps /\ HasRow(r) /\ loose' \in BOOLEAN /\ loaded[r] \in BotRow
    BY <1>5, HandKeeps DEF CommitSettings, Save, HasRow, BotOps
  <2>2. PICK new \in BotRow : Save(r, new) /\ new.status = loaded[r].status
    <3> HIDE DEF Given
    <3>1. PICK p \in Positions \union {None}, lo \in Amounts \union {None},
               hi \in Amounts \union {None} : Save(r, Given(loaded[r], p, lo, hi))
      BY <1>5 DEF CommitSettings
    <3>2. \A row \in BotRow : /\ Given(row, p, lo, hi) \in BotRow
                              /\ Given(row, p, lo, hi).status = row.status
      BY GivenFacts
    <3> QED BY <2>1, <3>1, <3>2
  <2> QED BY <1>1, <2>1, <2>2
<1>6. bots' # bots
  OBVIOUS
<1> QED BY <1>2, <1>3, <1>4, <1>5, <1>6, BotsChangeBy

-----------------------------------------------------------------------------
(***************************************************************************)
(* Every variable has its type.                                            *)
(***************************************************************************)
THEOREM BotControlTypeCorrect == Spec => []TypeOK
<1>1. IInv => TypeOK
  BY DEF IInv, TypeInv
<1> QED BY <1>1, Invariant, PTL

(***************************************************************************)
(* The limit of keys is passed by at most one less than the requests that  *)
(* can run at once (store_api_key counts first and inserts later).         *)
(***************************************************************************)
THEOREM KeysBoundedCorrect == Spec => []KeysBounded
<1>1. IInv => KeysBounded
  <2> SUFFICES ASSUME IInv PROVE KeysBounded
    OBVIOUS
  <2>1. Stored \in SUBSET Keys /\ Late \in SUBSET Requests
    BY DEF Stored, Late
  <2>2. Cardinality(Stored) \in Nat /\ Cardinality(Late) \in Nat
    BY <2>1, StoredFinite
  <2> QED BY <2>2, StoredFinite, ConstantsOK DEF IInv, CountInv, KeysBounded
<1> QED BY <1>1, Invariant, PTL

(***************************************************************************)
(* Keys of one label come only of requests to store it that overlapped.    *)
(***************************************************************************)
THEOREM LabelsUniqueCorrect == Spec => []LabelsUnique
<1>1. IInv => LabelsUnique
  BY DEF IInv, LabelInv, LabelsUnique
<1> QED BY <1>1, Invariant, PTL

(***************************************************************************)
(* min_trade_usd stays at or below max_trade_usd while requests give both  *)
(* and do not overlap on the row (update_bot_settings).                    *)
(***************************************************************************)
THEOREM RangeOrderedCorrect == Spec => []RangeOrdered
<1>1. IInv => RangeOrdered
  BY DEF IInv, RangeInv, RangeOrdered
<1> QED BY <1>1, Invariant, PTL

(***************************************************************************)
(* While the tier has not gone down, no bot has more positions than it     *)
(* allows, whatever the requests had loaded (update_bot_settings).         *)
(***************************************************************************)
THEOREM PositionsWithinTierCorrect == Spec => []PositionsWithinTier
<1>1. IInv => PositionsWithinTier
  BY DEF IInv, TierInv, PositionsWithinTier
<1> QED BY <1>1, Invariant, PTL

(***************************************************************************)
(* A key that the exchange refused is valid again only by a validation     *)
(* that loaded it invalid (key_validation_worker, validate_api_key).       *)
(***************************************************************************)
THEOREM InvalidStaysCorrect == Spec => InvalidStays
<1> DEFINE A == \A k \in Keys :
                  /\ Exists(k) /\ ~keys[k].is_valid
                  /\ keys'[k] # None /\ keys'[k].is_valid
                  => \E r \in Requests : /\ op[r] = "validate" /\ stage[r] = "commit"
                                         /\ which[r] = k /\ ~loaded[r].is_valid
<1>1. IInv /\ [Next]_vars => [A]_vars
  BY InvalidStep
<1>2. Spec => [][A]_vars
  BY <1>1, Invariant, PTL DEF Spec
<1> QED BY <1>2 DEF InvalidStays

(***************************************************************************)
(* A deleted key is not brought back by a commit that had loaded it        *)
(* (delete_api_key, key_validation_worker).                                *)
(***************************************************************************)
THEOREM DeletedStaysCorrect == Spec => DeletedStays
<1> DEFINE A == \A k \in spent : keys[k] = None => keys'[k] = None
<1>1. IInv /\ [Next]_vars => [A]_vars
  BY DeletedStep
<1>2. Spec => [][A]_vars
  BY <1>1, Invariant, PTL DEF Spec
<1> QED BY <1>2 DEF DeletedStays

(***************************************************************************)
(* Only the commit of a request to start a bot makes it run (start_bot).   *)
(***************************************************************************)
THEOREM OnlyStartRunsCorrect == Spec => OnlyStartRuns
<1> DEFINE A == \A b \in Rows :
                  /\ bots'[b] # None /\ bots'[b].status = "running"
                  /\ bots[b] = None \/ bots[b].status # "running"
                  => \E r \in Requests : op[r] = "start" /\ stage[r] = "commit" /\ which[r] = b
<1>1. IInv /\ [Next]_vars => [A]_vars
  BY StartStep
<1>2. Spec => [][A]_vars
  BY <1>1, Invariant, PTL DEF Spec
<1> QED BY <1>2 DEF OnlyStartRuns
===============================================================================
