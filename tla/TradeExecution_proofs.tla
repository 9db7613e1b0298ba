----------------------- MODULE TradeExecution_proofs -----------------------
(***************************************************************************)
(* Proofs about TradeExecution, for every value of its constants: the type *)
(* invariant, SingleOrder, NoOrphan, NoTradeOnAmbiguousBot, OrdersBounded, *)
(* and that TradeExecution implements TradeContract.                       *)
(***************************************************************************)
EXTENDS TradeExecution, TLAPS, FiniteSetTheorems, SequenceTheorems

-----------------------------------------------------------------------------
(***************************************************************************)
(* The bot rows a handler leaves are bot rows.                             *)
(***************************************************************************)
LEMMA RowsTyped ==
    ASSUME NEW u \in Users, bots \in [Users -> Seq(BotRow)]
    PROVE  /\ GetOrCreate(u) \in Seq(BotRow)
           /\ Len(GetOrCreate(u)) \in 1..Len(GetOrCreate(u))
           /\ Newest(GetOrCreate(u)) \in BotRow
<1>1. {} \in PairLists
  BY DEF PairLists
<1>2. NewBot \in BotRow
  BY <1>1 DEF NewBot, BotRow
<1>3. bots[u] \in Seq(BotRow)
  OBVIOUS
<1>4. GetOrCreate(u) \in Seq(BotRow) /\ Len(GetOrCreate(u)) # 0
  <2>1. CASE bots[u] = <<>>
    BY <1>2, <2>1 DEF GetOrCreate
  <2>2. CASE bots[u] # <<>>
    BY <1>3, <2>2 DEF GetOrCreate
  <2> QED BY <2>1, <2>2
<1> QED BY <1>4 DEF Newest

LEMMA SetNewestTyped ==
    ASSUME NEW u \in Users, bots \in [Users -> Seq(BotRow)], NEW b \in BotRow,
           SetNewest(u, b)
    PROVE  bots' \in [Users -> Seq(BotRow)]
<1> DEFINE rows == GetOrCreate(u)
<1>1. rows \in Seq(BotRow) /\ Len(rows) \in 1..Len(rows)
  BY RowsTyped
<1>2. [rows EXCEPT ![Len(rows)] = b] \in Seq(BotRow)
  BY <1>1
<1> QED BY <1>2 DEF SetNewest

(***************************************************************************)
(* What an account step leaves alone, and that it keeps the account types. *)
(***************************************************************************)
LEMMA AccountTyped ==
    ASSUME TypeOK, AccountStep
    PROVE  TypeOK'
<1> USE ConstantsOK
<1>1. PICK u \in Users : \/ ChangeTier(u) \/ StoreKey(u) \/ DeleteKey(u)
                         \/ InvalidateKey(u) \/ RevalidateKey(u) \/ StartBot(u)
                         \/ StopBot(u) \/ UpdateSettings(u) \/ PollStatus(u) \/ RacingCreate(u)
  BY DEF AccountStep
<1>2. AccountChange
  BY <1>1 DEF ChangeTier, StoreKey, DeleteKey, InvalidateKey, RevalidateKey, StartBot, StopBot,
              UpdateSettings, PollStatus, RacingCreate
<1>3. changes' \in Nat
  BY <1>2 DEF AccountChange, TypeOK
<1>4. tier' \in [Users -> Tiers]
  BY <1>1 DEF TypeOK, ChangeTier, StoreKey, DeleteKey, InvalidateKey, RevalidateKey, StartBot, StopBot,
              UpdateSettings, PollStatus, RacingCreate
<1>5. keys' \in [Users -> Nat] /\ badKeys' \in [Users -> Nat]
  <2>1. keys \in [Users -> Nat] /\ badKeys \in [Users -> Nat]
    BY DEF TypeOK
  <2>2. CASE StoreKey(u)
    BY <2>1, <2>2 DEF StoreKey
  <2>3. CASE DeleteKey(u)
    BY <2>1, <2>3 DEF DeleteKey
  <2>4. CASE InvalidateKey(u) \/ RevalidateKey(u)
    BY <2>1, <2>4 DEF InvalidateKey, RevalidateKey
  <2>5. CASE ChangeTier(u) \/ StartBot(u) \/ StopBot(u) \/ UpdateSettings(u)
          \/ PollStatus(u) \/ RacingCreate(u)
    BY <2>1, <2>5 DEF ChangeTier, StartBot, StopBot, UpdateSettings, PollStatus, RacingCreate
  <2> QED BY <1>1, <2>2, <2>3, <2>4, <2>5
<1>6. bots' \in [Users -> Seq(BotRow)]
  <2>0. bots \in [Users -> Seq(BotRow)]
    BY DEF TypeOK
  <2>1. Newest(GetOrCreate(u)) \in BotRow
    BY <2>0, RowsTyped
  <2>2. CASE StartBot(u)
    <3>1. [Newest(GetOrCreate(u)) EXCEPT !.status = "running"] \in BotRow
      BY <2>1 DEF BotRow
    <3> QED BY <3>1, <2>0, <2>2, SetNewestTyped DEF StartBot
  <2>3. CASE StopBot(u)
    <3>1. [Newest(GetOrCreate(u)) EXCEPT !.status = "stopped"] \in BotRow
      BY <2>1 DEF BotRow
    <3> QED BY <3>1, <2>0, <2>3, SetNewestTyped DEF StopBot
  <2>4. CASE UpdateSettings(u)
    <3>1. PICK a \in PairLists, d \in PairLists :
             SetNewest(u, [Newest(GetOrCreate(u)) EXCEPT
                              !.active   = IF a = {} THEN @ ELSE a,
                              !.disabled = IF d = {} THEN @ ELSE d])
      BY <2>4 DEF UpdateSettings
    <3>2. [Newest(GetOrCreate(u)) EXCEPT
              !.active   = IF a = {} THEN @ ELSE a,
              !.disabled = IF d = {} THEN @ ELSE d] \in BotRow
      BY <2>1 DEF BotRow
    <3> QED BY <3>1, <3>2, <2>0, SetNewestTyped
  <2>5. CASE RacingCreate(u)
    <3>1. FirstRows(u) \subseteq BotRow
      BY DEF FirstRows
    <3>2. PICK b \in FirstRows(u), i \in 1..Len(bots[u]) + 1 :
             bots' = [bots EXCEPT ![u] = InsertAt(bots[u], i, b)]
      BY <2>5 DEF RacingCreate
    <3>3. /\ SubSeq(bots[u], 1, i - 1) \in Seq(BotRow)
          /\ SubSeq(bots[u], i, Len(bots[u])) \in Seq(BotRow)
      BY <2>0
    <3>4. InsertAt(bots[u], i, b) \in Seq(BotRow)
      BY <3>1, <3>2, <3>3 DEF InsertAt
    <3> QED BY <3>2, <3>4, <2>0
  <2>7. CASE PollStatus(u)
    <3>1. PICK st \in {"stopped", "running", "error"} :
             SetNewest(u, [Newest(GetOrCreate(u)) EXCEPT !.status = st])
      BY <2>1, <2>7 DEF PollStatus, BotRow
    <3>2. [Newest(GetOrCreate(u)) EXCEPT !.status = st] \in BotRow
      BY <2>1 DEF BotRow
    <3> QED BY <3>1, <3>2, <2>0, SetNewestTyped
  <2>6. CASE ChangeTier(u) \/ StoreKey(u) \/ DeleteKey(u) \/ InvalidateKey(u)
          \/ RevalidateKey(u)
    BY <2>0, <2>6 DEF ChangeTier, StoreKey, DeleteKey, InvalidateKey, RevalidateKey
  <2> QED BY <1>1, <2>2, <2>3, <2>4, <2>5, <2>6, <2>7
<1> QED BY <1>2, <1>3, <1>4, <1>5, <1>6 DEF AccountChange, TypeOK, fanoutVars, workerVars, TaskOf

-----------------------------------------------------------------------------
(***************************************************************************)
(* A busy worker holds a message of a task.                                *)
(***************************************************************************)
LEMMA BusyHolds ==
    ASSUME TypeOK, NEW w \in Workers, stage[w] # "idle"
    PROVE  /\ job[w] = <<TaskOf(w), AttemptOf(w)>>
           /\ TaskOf(w) \in Tasks /\ AttemptOf(w) \in Attempts
BY DEF TypeOK, TaskOf, AttemptOf

LEMMA FanOutTyped ==
    ASSUME TypeOK, FanOutStep
    PROVE  TypeOK'
<1> USE ConstantsOK DEF TypeOK, accountVars, workerVars, boundVars
<1>1. ASSUME NEW s \in Signals, FanOut(s)
      PROVE  TypeOK'
  BY <1>1 DEF FanOut
<1>2. ASSUME NEW s \in Signals, FanOutFails(s)
      PROVE  TypeOK'
  BY <1>2 DEF FanOutFails
<1>3. ASSUME NEW t \in Tasks, Dispatch(t)
      PROVE  TypeOK'
  <2>1. 0 \in Attempts
    BY DEF Attempts
  <2>2. queue' \in [Tasks -> [Attempts -> Nat]]
    BY <1>3, <2>1 DEF Dispatch
  <2> QED BY <1>3, <2>2 DEF Dispatch
<1> QED BY <1>1, <1>2, <1>3 DEF FanOutStep

(***************************************************************************)
(* A step that only moves a busy worker to another busy stage, "record"    *)
(* neither before nor after.                                               *)
(***************************************************************************)
LEMMA GotoTyped ==
    ASSUME TypeOK, NEW w \in Workers, NEW st \in Stages \ {"idle", "record"},
           stage[w] \notin {"idle", "record"}, Goto(w, st)
    PROVE  /\ stage' \in [Workers -> Stages]
           /\ job' \in [Workers -> (Tasks \X Attempts) \union {<<>>}]
           /\ held' \in [Workers -> Nat]
           /\ \A v \in Workers : /\ stage'[v] = "idle" <=> job'[v] = <<>>
                                 /\ stage'[v] # "record" <=> held'[v] = 0
BY DEF TypeOK, Goto

LEMMA DropTyped ==
    ASSUME TypeOK, NEW w \in Workers, NEW st \in Stages \ {"idle", "record"},
           stage[w] # "idle", Drop(w, st)
    PROVE  /\ stage' \in [Workers -> Stages]
           /\ job' \in [Workers -> (Tasks \X Attempts) \union {<<>>}]
           /\ held' \in [Workers -> Nat]
           /\ \A v \in Workers : /\ stage'[v] = "idle" <=> job'[v] = <<>>
                                 /\ stage'[v] # "record" <=> held'[v] = 0
BY DEF TypeOK, Drop

LEMMA WorkerTyped ==
    ASSUME TypeOK, NEW w \in Workers, WorkerStep(w)
    PROVE  TypeOK'
<1> USE ConstantsOK DEF accountVars, fanoutVars, boundVars
<1>1. CASE Receive(w)
  <2>1. PICK t \in Tasks, r \in Attempts :
           /\ queue[t][r] > 0
           /\ queue' = [queue EXCEPT ![t][r] = @ - 1]
           /\ job' = [job EXCEPT ![w] = <<t, r>>]
           /\ stage' = [stage EXCEPT ![w] = "keys"]
    BY <1>1 DEF Receive
  <2>2. queue' \in [Tasks -> [Attempts -> Nat]]
    BY <2>1 DEF TypeOK
  <2>3. <<t, r>> # <<>> /\ <<t, r>> \in Tasks \X Attempts
    OBVIOUS
  <2>4. stage[w] = "idle" /\ held[w] = 0
    BY <1>1 DEF Receive, TypeOK
  <2> QED BY <1>1, <2>1, <2>2, <2>3, <2>4 DEF Receive, TypeOK, Stages
<1>2. CASE \/ ReadKeys(w) \/ ReadBot(w) \/ ReadFails(w) \/ FetchBalance(w)
           \/ OrderRejected(w) \/ Cleanup(w) \/ Publish(w) \/ GiveUp(w)
  <2>1. PICK st \in Stages \ {"idle", "record"} : Goto(w, st)
    BY <1>2 DEF ReadKeys, ReadBot, ReadFails, FetchBalance, OrderRejected, Cleanup,
                Publish, GiveUp, OneOrNone, Stages
  <2>2. stage[w] \notin {"idle", "record"}
    BY <1>2 DEF ReadKeys, ReadBot, ReadFails, FetchBalance, OrderRejected, Cleanup,
                Publish, GiveUp
  <2>3. UNCHANGED <<accountVars, recorded, placed, fanoutVars, queue, faults, boundVars>>
    BY <1>2 DEF ReadKeys, ReadBot, ReadFails, FetchBalance, OrderRejected, Cleanup,
                Publish, GiveUp
  <2> QED BY <2>1, <2>2, <2>3, GotoTyped DEF TypeOK
<1>3. CASE OrderAccepted(w)
  <2>1. TaskOf(w) \in Tasks
    BY <1>3, BusyHolds DEF OrderAccepted
  <2>2. placed[TaskOf(w)] + 1 \in Nat \ {0}
    BY <2>1 DEF TypeOK
  <2> QED BY <1>3, <2>1, <2>2 DEF OrderAccepted, TypeOK, Stages
<1>4. CASE OrderAnswerLost(w) \/ CleanupFails(w) \/ PublishFails(w)
  <2>1. PICK st \in Stages \ {"idle", "record"} : Goto(w, st)
    BY <1>4 DEF OrderAnswerLost, CleanupFails, PublishFails, Stages
  <2>2. stage[w] \notin {"idle", "record"}
    BY <1>4 DEF OrderAnswerLost, CleanupFails, PublishFails
  <2>3. TaskOf(w) \in Tasks
    BY <2>2, BusyHolds
  <2>4. placed' \in [Tasks -> Nat]
    BY <1>4, <2>3 DEF OrderAnswerLost, CleanupFails, PublishFails, TypeOK
  <2>5. PICK k \in FaultKinds : Blame(w, k)
    BY <1>4 DEF OrderAnswerLost, CleanupFails, PublishFails, FaultKinds
  <2>6. faults' \in [Tasks -> SUBSET FaultKinds]
    BY <2>3, <2>5 DEF Blame, TypeOK
  <2>7. UNCHANGED <<accountVars, recorded, fanoutVars, queue, boundVars>>
    BY <1>4 DEF OrderAnswerLost, CleanupFails, PublishFails
  <2> QED BY <2>1, <2>2, <2>4, <2>6, <2>7, GotoTyped DEF TypeOK
<1>5. CASE RecordTrade(w)
  <2>1. PICK st \in Stages \ {"idle", "record"} : Drop(w, st)
    BY <1>5 DEF RecordTrade, Stages
  <2>2. TaskOf(w) \in Tasks /\ stage[w] # "idle"
    BY <1>5, BusyHolds DEF RecordTrade
  <2>3. recorded' \in [Tasks -> SUBSET Nat]
    BY <1>5, <2>2 DEF RecordTrade, TypeOK
  <2> QED BY <1>5, <2>1, <2>2, <2>3, DropTyped DEF RecordTrade, TypeOK
<1>6. CASE RecordFails(w)
  <2>1. "cleanup" \in Stages \ {"idle", "record"}
    BY DEF Stages
  <2>2. TaskOf(w) \in Tasks /\ stage[w] # "idle"
    BY <1>6, BusyHolds DEF RecordFails
  <2>3. faults' \in [Tasks -> SUBSET FaultKinds]
    BY <1>6, <2>2 DEF RecordFails, Blame, TypeOK, FaultKinds
  <2> QED BY <1>6, <2>1, <2>2, <2>3, DropTyped DEF RecordFails, TypeOK
<1>7. CASE Retry(w)
  <2>1. "ack" \in Stages \ {"idle", "record"}
    BY DEF Stages
  <2>2. TaskOf(w) \in Tasks /\ AttemptOf(w) \in Attempts
    BY <1>7, BusyHolds DEF Retry
  <2>3. AttemptOf(w) + 1 \in Attempts
    BY <1>7, <2>2 DEF Retry, Attempts
  <2>4. queue' \in [Tasks -> [Attempts -> Nat]]
    BY <1>7, <2>2, <2>3 DEF Retry, TypeOK
  <2> QED BY <1>7, <2>1, <2>4, GotoTyped DEF Retry, TypeOK
<1>8. CASE Ack(w)
  BY <1>8 DEF Ack, TypeOK, Stages
<1> QED BY <1>1, <1>2, <1>3, <1>4, <1>5, <1>6, <1>7, <1>8 DEF WorkerStep

LEMMA CrashTyped ==
    ASSUME TypeOK, NEW w \in Workers, Crash(w)
    PROVE  TypeOK'
<1>1. TaskOf(w) \in Tasks /\ AttemptOf(w) \in Attempts
  BY BusyHolds DEF Crash
<1>2. queue' \in [Tasks -> [Attempts -> Nat]]
  BY <1>1 DEF Crash, TypeOK
<1>3. faults' \in [Tasks -> SUBSET FaultKinds]
  <2>1. faults \in [Tasks -> SUBSET FaultKinds]
    BY DEF TypeOK
  <2>2. CASE stage[w] \in PastOrder
    BY <1>1, <2>1, <2>2 DEF Crash, Blame, FaultKinds
  <2>3. CASE stage[w] \notin PastOrder
    BY <2>1, <2>3 DEF Crash
  <2> QED BY <2>2, <2>3
<1>4. /\ stage' \in [Workers -> Stages]
      /\ job' \in [Workers -> (Tasks \X Attempts) \union {<<>>}]
      /\ held' \in [Workers -> Nat]
      /\ \A v \in Workers : /\ stage'[v] = "idle" <=> job'[v] = <<>>
                            /\ stage'[v] # "record" <=> held'[v] = 0
  BY DEF Crash, TypeOK, Stages
<1>5. UNCHANGED <<accountVars, recorded, placed, fanoutVars, changes>> /\ crashes' \in Nat
  BY DEF Crash, TypeOK
<1> QED BY <1>2, <1>3, <1>4, <1>5 DEF TypeOK, accountVars, fanoutVars

(***************************************************************************)
(* Every reachable state is well typed.                                    *)
(***************************************************************************)
THEOREM TypeCorrect == Spec => []TypeOK
<1>1. Init => TypeOK
  <2> SUFFICES ASSUME Init PROVE TypeOK
    OBVIOUS
  <2>1. NewBot \in BotRow /\ [NewBot EXCEPT !.status = "running"] \in BotRow
    BY DEF NewBot, BotRow, PairLists
  <2>2. bots \in [Users -> Seq(BotRow)]
    <3> DEFINE rows == {<<>>, <<NewBot>>, <<[NewBot EXCEPT !.status = "running"]>>}
    <3>1. ASSUME NEW b \in BotRow PROVE <<b>> \in Seq(BotRow)
      BY <3>1
    <3>2. rows \subseteq Seq(BotRow)
      BY <2>1, <3>1
    <3>3. bots \in [Users -> rows]
      BY DEF Init
    <3> HIDE DEF rows
    <3> QED BY <3>2, <3>3
  <2>3. keys \in [Users -> Nat] /\ badKeys \in [Users -> Nat]
    BY ConstantsOK DEF Init
  <2> QED BY <2>2, <2>3 DEF Init, TypeOK, Stages
<1>2. TypeOK /\ [Next]_vars => TypeOK'
  <2> SUFFICES ASSUME TypeOK, [Next]_vars PROVE TypeOK'
    OBVIOUS
  <2>1. CASE AccountStep
    BY <2>1, AccountTyped
  <2>2. CASE FanOutStep
    BY <2>2, FanOutTyped
  <2>3. ASSUME NEW w \in Workers, WorkerStep(w) \/ Crash(w)
        PROVE  TypeOK'
    BY <2>3, WorkerTyped, CrashTyped
  <2>4. CASE UNCHANGED vars
    BY <2>4 DEF vars, TypeOK
  <2> QED BY <2>1, <2>2, <2>3, <2>4 DEF Next
<1> QED BY <1>1, <1>2, PTL DEF Spec

-----------------------------------------------------------------------------
(***************************************************************************)
(* SingleOrder.  An execution that may still place the order of t, or that *)
(* is about to ask for a retry, and a message of t in the queue are the    *)
(* only things an order of t can come from.  While t has no fault behind   *)
(* its order step there is at most one of them, and none once an order     *)
(* exists; a task not yet enqueued has none at all.                        *)
(***************************************************************************)
BeforeOrder == {"keys", "bot", "exchange", "order", "retry"}
Pending(w, t) == stage[w] \in BeforeOrder /\ TaskOf(w) = t
Queued(t)     == \E r \in Attempts : queue[t][r] > 0
Unstarted(t)  == /\ placed[t] = 0
                 /\ ~Queued(t)
                 /\ \A w \in Workers : stage[w] # "idle" => TaskOf(w) # t

OneSource(t) ==
    /\ placed[t] <= 1
    /\ Queued(t) => placed[t] = 0
    /\ \A r \in Attempts : queue[t][r] <= 1
    /\ \A r, q \in Attempts : queue[t][r] > 0 /\ queue[t][q] > 0 => r = q
    /\ \A w \in Workers : Pending(w, t) => placed[t] = 0 /\ ~Queued(t)
    /\ \A v, w \in Workers : Pending(v, t) /\ Pending(w, t) => v = w

Clean(t) == faults[t] \cap RepeatFaults = {}

SourceInv ==
    \A t \in Tasks : /\ SignalOf(t) \notin fanned => t \notin todo
                     /\ SignalOf(t) \notin fanned \/ t \in todo => Unstarted(t)
                     /\ Clean(t) => OneSource(t)

(***************************************************************************)
(* What SourceInv says of t depends on these values only.                  *)
(***************************************************************************)
SameFor(t) ==
    /\ queue'[t] = queue[t] /\ placed'[t] = placed[t] /\ faults'[t] = faults[t]
    /\ \A v \in Workers : /\ Pending(v, t)' <=> Pending(v, t)
                          /\ (stage'[v] # "idle" /\ TaskOf(v)' = t)
                                <=> (stage[v] # "idle" /\ TaskOf(v) = t)

LEMMA SameKeeps ==
    ASSUME NEW t \in Tasks, SameFor(t)
    PROVE  /\ Unstarted(t) => Unstarted(t)'
           /\ (Clean(t) => OneSource(t)) => (Clean(t) => OneSource(t))'
<1>1. Queued(t)' <=> Queued(t)
  BY DEF SameFor, Queued
<1>2. Clean(t)' <=> Clean(t)
  BY DEF SameFor, Clean
<1>3. Unstarted(t) => Unstarted(t)'
  BY <1>1 DEF SameFor, Unstarted
<1>4. OneSource(t) => OneSource(t)'
  BY <1>1 DEF SameFor, OneSource
<1> QED BY <1>2, <1>3, <1>4

(***************************************************************************)
(* A busy worker touches its own task only.                                *)
(***************************************************************************)
LEMMA OtherTasks ==
    ASSUME TypeOK, NEW w \in Workers, stage[w] # "idle", WorkerStep(w) \/ Crash(w),
           NEW t \in Tasks, t # TaskOf(w)
    PROVE  SameFor(t)
<1>1. TaskOf(w) \in Tasks /\ AttemptOf(w) \in Attempts
  BY BusyHolds
<1>2. queue'[t] = queue[t]
  BY <1>1 DEF TypeOK, WorkerStep, Crash, Receive, ReadKeys, ReadBot, ReadFails, FetchBalance,
       OrderAccepted, OrderRejected, OrderAnswerLost, RecordTrade, RecordFails, Cleanup,
       CleanupFails, Publish, PublishFails, Retry, GiveUp, Ack
<1>3. placed'[t] = placed[t]
  BY <1>1 DEF TypeOK, WorkerStep, Crash, Receive, ReadKeys, ReadBot, ReadFails, FetchBalance,
       OrderAccepted, OrderRejected, OrderAnswerLost, RecordTrade, RecordFails, Cleanup,
       CleanupFails, Publish, PublishFails, Retry, GiveUp, Ack
<1>4. faults'[t] = faults[t]
  BY <1>1 DEF TypeOK, WorkerStep, Crash, Receive, ReadKeys, ReadBot, ReadFails, FetchBalance,
       OrderAccepted, OrderRejected, OrderAnswerLost, RecordTrade, RecordFails, Cleanup,
       CleanupFails, Publish, PublishFails, Retry, GiveUp, Ack, Blame
<1>5. ASSUME NEW v \in Workers, v # w
      PROVE  stage'[v] = stage[v] /\ job'[v] = job[v]
  BY <1>5 DEF TypeOK, WorkerStep, Crash, Receive, ReadKeys, ReadBot, ReadFails, FetchBalance,
       OrderAccepted, OrderRejected, OrderAnswerLost, RecordTrade, RecordFails, Cleanup,
       CleanupFails, Publish, PublishFails, Retry, GiveUp, Ack, Goto, Drop
<1>6. stage'[w] = "idle" \/ job'[w] = job[w]
  BY DEF TypeOK, WorkerStep, Crash, Receive, ReadKeys, ReadBot, ReadFails, FetchBalance,
       OrderAccepted, OrderRejected, OrderAnswerLost, RecordTrade, RecordFails, Cleanup,
       CleanupFails, Publish, PublishFails, Retry, GiveUp, Ack, Goto, Drop
<1>7. ASSUME NEW v \in Workers
      PROVE  /\ Pending(v, t)' <=> Pending(v, t)
             /\ (stage'[v] # "idle" /\ TaskOf(v)' = t) <=> (stage[v] # "idle" /\ TaskOf(v) = t)
  <2>1. CASE v # w
    BY <1>5, <2>1 DEF Pending, TaskOf
  <2>2. CASE v = w
    BY <1>6, <2>2 DEF Pending, TaskOf, BeforeOrder
  <2> QED BY <2>1, <2>2
<1> QED BY <1>2, <1>3, <1>4, <1>7 DEF SameFor

(***************************************************************************)
(* The sources of t can only go away: OneSource is kept.                   *)
(***************************************************************************)
LEMMA FewerSources ==
    ASSUME NEW t \in Tasks, OneSource(t),
           queue'[t] = queue[t], placed'[t] = placed[t],
           \A v \in Workers : Pending(v, t)' => Pending(v, t)
    PROVE  OneSource(t)'
<1>1. Queued(t)' <=> Queued(t)
  BY DEF Queued
<1> QED BY <1>1 DEF OneSource

(***************************************************************************)
(* A source becomes an order, or moves between a worker and the queue.     *)
(***************************************************************************)
LEMMA SourceSpent ==
    ASSUME NEW t \in Tasks, OneSource(t), NEW w \in Workers, Pending(w, t),
           queue'[t] = queue[t], placed'[t] = placed[t] + 1, ~Pending(w, t)',
           \A v \in Workers : Pending(v, t)' => Pending(v, t)
    PROVE  OneSource(t)'
<1>1. placed'[t] = 1 /\ ~Queued(t)
  BY DEF OneSource
<1>2. ~Queued(t)'
  BY <1>1 DEF Queued
<1>3. \A v \in Workers : ~Pending(v, t)'
  BY DEF OneSource
<1> QED BY <1>1, <1>2, <1>3 DEF OneSource, Queued

LEMMA SourceRequeued ==
    ASSUME TypeOK, NEW t \in Tasks, OneSource(t), NEW w \in Workers, Pending(w, t),
           NEW r \in Attempts, queue' = [queue EXCEPT ![t][r] = @ + 1],
           placed'[t] = placed[t], ~Pending(w, t)',
           \A v \in Workers : Pending(v, t)' => Pending(v, t)
    PROVE  OneSource(t)'
<1>1. placed[t] = 0 /\ ~Queued(t)
  BY DEF OneSource
<1>2. \A q \in Attempts : queue[t][q] = 0
  BY <1>1 DEF Queued, TypeOK
<1>3. \A q \in Attempts : queue'[t][q] = IF q = r THEN 1 ELSE 0
  BY <1>2 DEF TypeOK
<1>4. \A v \in Workers : ~Pending(v, t)'
  BY DEF OneSource
<1> QED BY <1>1, <1>3, <1>4 DEF OneSource

LEMMA OwnTask ==
    ASSUME TypeOK, NEW w \in Workers, stage[w] # "idle", WorkerStep(w) \/ Crash(w),
           NEW t \in Tasks, t = TaskOf(w),
           Clean(t) => OneSource(t), Clean(t)'
    PROVE  OneSource(t)'
<1>1. AttemptOf(w) \in Attempts /\ job[w] # <<>>
  BY BusyHolds DEF TypeOK
<1>2. ASSUME NEW v \in Workers, v # w
      PROVE  Pending(v, t)' <=> Pending(v, t)
  <2>1. stage'[v] = stage[v] /\ job'[v] = job[v]
    BY <1>2 DEF TypeOK, WorkerStep, Crash, Receive, ReadKeys, ReadBot, ReadFails, FetchBalance,
       OrderAccepted, OrderRejected, OrderAnswerLost, RecordTrade, RecordFails, Cleanup,
       CleanupFails, Publish, PublishFails, Retry, GiveUp, Ack, Goto, Drop
  <2> QED BY <2>1 DEF Pending, TaskOf
<1>3. Pending(w, t) <=> stage[w] \in BeforeOrder
  BY DEF Pending
<1>4. Pending(w, t)' => stage'[w] \in BeforeOrder
  BY DEF Pending
<1>5. CASE /\ \/ ReadKeys(w) \/ ReadBot(w) \/ ReadFails(w) \/ FetchBalance(w)
              \/ OrderRejected(w) \/ Cleanup(w) \/ Publish(w) \/ GiveUp(w)
              \/ RecordTrade(w) \/ RecordFails(w) \/ Ack(w)
  <2>1. queue'[t] = queue[t] /\ placed'[t] = placed[t]
    BY <1>5 DEF ReadKeys, ReadBot, ReadFails, FetchBalance, OrderRejected, Cleanup, Publish,
         GiveUp, RecordTrade, RecordFails, Ack
  <2>2. Clean(t)
    <3>1. CASE RecordFails(w)
      BY <3>1 DEF RecordFails, Blame, TypeOK, Clean
    <3>2. CASE ~RecordFails(w)
      <4>1. faults' = faults
        BY <1>5, <3>2 DEF ReadKeys, ReadBot, ReadFails, FetchBalance, OrderRejected, Cleanup,
             Publish, GiveUp, RecordTrade, Ack
      <4> QED BY <4>1 DEF Clean
    <3> QED BY <3>1, <3>2
  <2>3. stage'[w] \in BeforeOrder => stage[w] \in BeforeOrder
    BY <1>5 DEF ReadKeys, ReadBot, ReadFails, FetchBalance, OrderRejected, Cleanup, Publish,
         GiveUp, RecordTrade, RecordFails, Ack, Goto, Drop, TypeOK, BeforeOrder
  <2>4. \A v \in Workers : Pending(v, t)' => Pending(v, t)
    BY <2>3, <1>2, <1>3, <1>4
  <2> QED BY <2>1, <2>2, <2>4, FewerSources
<1>6. CASE OrderAccepted(w) \/ OrderAnswerLost(w)
  <2>1. queue'[t] = queue[t] /\ placed'[t] = placed[t] + 1
    BY <1>6 DEF OrderAccepted, OrderAnswerLost, TypeOK
  <2>2. Clean(t)
    BY <1>6 DEF OrderAccepted, OrderAnswerLost, Blame, TypeOK, Clean
  <2>3. stage[w] \in BeforeOrder /\ stage'[w] \notin BeforeOrder
    BY <1>6 DEF OrderAccepted, OrderAnswerLost, Goto, TypeOK, BeforeOrder
  <2>4. Pending(w, t) /\ ~Pending(w, t)'
    BY <2>3, <1>3, <1>4
  <2> QED BY <2>1, <2>2, <2>4, <1>2, SourceSpent
<1>7. CASE CleanupFails(w) \/ PublishFails(w)
  <2>1. faults'[t] \cap RepeatFaults # {}
    BY <1>7 DEF CleanupFails, PublishFails, Blame, TypeOK, RepeatFaults
  <2> QED BY <2>1 DEF Clean
<1>8. CASE Retry(w)
  <2>1. AttemptOf(w) + 1 \in Attempts
    BY <1>8, <1>1, ConstantsOK DEF Retry, Attempts
  <2>2. Clean(t)
    BY <1>8 DEF Retry, Clean
  <2>3. stage[w] \in BeforeOrder /\ stage'[w] \notin BeforeOrder
    BY <1>8 DEF Retry, Goto, TypeOK, BeforeOrder
  <2>4. Pending(w, t) /\ ~Pending(w, t)'
    BY <2>3, <1>3, <1>4
  <2>5. queue' = [queue EXCEPT ![t][AttemptOf(w) + 1] = @ + 1] /\ placed'[t] = placed[t]
    BY <1>8 DEF Retry
  <2> QED BY <2>1, <2>2, <2>4, <2>5, <1>2, SourceRequeued
<1>9. CASE Crash(w)
  <2>1. CASE stage[w] \in PastOrder
    <3>0. faults' = [faults EXCEPT ![t] = @ \union {"crash"}]
      BY <1>9, <2>1 DEF Crash, Blame
    <3>1. faults'[t] \cap RepeatFaults # {}
      BY <3>0 DEF TypeOK, RepeatFaults
    <3> QED BY <3>1 DEF Clean
  <2>2. CASE stage[w] \notin PastOrder
    <3>1. Clean(t)
      BY <1>9, <2>2 DEF Crash, Clean
    <3>2. stage[w] \in BeforeOrder /\ stage'[w] \notin BeforeOrder
      BY <1>9, <2>2 DEF Crash, TypeOK, BeforeOrder, PastOrder, Stages
    <3>3. Pending(w, t) /\ ~Pending(w, t)'
      BY <3>2, <1>3, <1>4
    <3>4. queue' = [queue EXCEPT ![t][AttemptOf(w)] = @ + 1] /\ placed'[t] = placed[t]
      BY <1>9 DEF Crash
    <3> QED BY <3>1, <3>3, <3>4, <1>1, <1>2, SourceRequeued
  <2> QED BY <2>1, <2>2
<1>10. ~Receive(w)
  BY DEF Receive
<1> QED BY <1>5, <1>6, <1>7, <1>8, <1>9, <1>10 DEF WorkerStep

(***************************************************************************)
(* A received message is a source that moves from the queue to a worker.   *)
(***************************************************************************)
LEMMA ReceiveKeeps ==
    ASSUME TypeOK, SourceInv, NEW w \in Workers, Receive(w), NEW t \in Tasks
    PROVE  /\ Unstarted(t) => Unstarted(t)'
           /\ Clean(t)' => OneSource(t)'
<1>1. PICK x \in Tasks, r \in Attempts :
         /\ queue[x][r] > 0
         /\ queue' = [queue EXCEPT ![x][r] = @ - 1]
         /\ job' = [job EXCEPT ![w] = <<x, r>>]
         /\ stage' = [stage EXCEPT ![w] = "keys"]
  BY DEF Receive
<1>2. stage[w] = "idle" /\ placed' = placed /\ faults' = faults
  BY DEF Receive
<1>3. \A v \in Workers : v # w => stage'[v] = stage[v] /\ job'[v] = job[v]
  BY <1>1 DEF TypeOK
<1>4. stage'[w] = "keys" /\ TaskOf(w)' = x
  BY <1>1 DEF TypeOK, TaskOf
<1>5. CASE t # x
  <2>1. queue'[t] = queue[t]
    BY <1>1, <1>5 DEF TypeOK
  <2>2. ASSUME NEW v \in Workers
        PROVE  /\ Pending(v, t)' <=> Pending(v, t)
               /\ (stage'[v] # "idle" /\ TaskOf(v)' = t)
                     <=> (stage[v] # "idle" /\ TaskOf(v) = t)
    <3>1. CASE v = w
      BY <3>1, <1>2, <1>4, <1>5 DEF Pending, BeforeOrder
    <3>2. CASE v # w
      BY <3>2, <1>3 DEF Pending, TaskOf
    <3> QED BY <3>1, <3>2
  <2>3. SameFor(t)
    BY <1>2, <2>1, <2>2 DEF SameFor
  <2> QED BY <2>3, SameKeeps DEF SourceInv
<1>6. CASE t = x
  <2>1. ~Unstarted(t)
    BY <1>1, <1>6 DEF Unstarted, Queued
  <2>2. ASSUME Clean(t)'
        PROVE  OneSource(t)'
    <3>1. OneSource(t)
      BY <1>2, <2>2 DEF SourceInv, Clean
    <3>2. Queued(t)
      BY <1>1, <1>6 DEF Queued
    <3>3. placed'[t] = 0 /\ \A v \in Workers : ~Pending(v, t)
      BY <3>1, <3>2, <1>2 DEF OneSource
    <3>4. \A q \in Attempts : queue'[t][q] = 0
      <4> SUFFICES ASSUME NEW q \in Attempts PROVE queue'[t][q] = 0
        OBVIOUS
      <4>1. queue[t][r] = 1 /\ queue[t][q] \in Nat /\ (q # r => queue[t][q] = 0)
        BY <3>1, <1>1, <1>6 DEF OneSource, TypeOK
      <4> QED BY <4>1, <1>1, <1>6 DEF TypeOK
    <3>5. \A v \in Workers : Pending(v, t)' => v = w
      BY <3>3, <1>3 DEF Pending, TaskOf
    <3> QED BY <3>3, <3>4, <3>5 DEF OneSource, Queued
  <2> QED BY <2>1, <2>2
<1> QED BY <1>5, <1>6

LEMMA FanOutKeeps ==
    ASSUME TypeOK, SourceInv, FanOutStep
    PROVE  SourceInv'
<1>1. /\ placed' = placed /\ faults' = faults /\ stage' = stage /\ job' = job
      /\ \A t \in Tasks : queue'[t] = queue[t] \/ Dispatch(t)
  BY DEF FanOutStep, FanOut, FanOutFails, Dispatch, workerVars, TypeOK
<1>2. \A v \in Workers, t \in Tasks : /\ Pending(v, t)' <=> Pending(v, t)
                                      /\ TaskOf(v)' = TaskOf(v)
  BY <1>1 DEF Pending, TaskOf
<1>3. ASSUME NEW t \in Tasks, queue'[t] = queue[t]
      PROVE  /\ Unstarted(t) => Unstarted(t)'
             /\ (Clean(t) => OneSource(t))'
  <2>1. SameFor(t)
    BY <1>1, <1>2, <1>3 DEF SameFor
  <2> QED BY <2>1, SameKeeps DEF SourceInv
<1>4. ASSUME NEW s \in Signals, FanOut(s)
      PROVE  SourceInv'
  <2> SUFFICES ASSUME NEW t \in Tasks
               PROVE  /\ (SignalOf(t) \notin fanned => t \notin todo)'
                      /\ (SignalOf(t) \notin fanned \/ t \in todo => Unstarted(t))'
                      /\ (Clean(t) => OneSource(t))'
    BY DEF SourceInv
  <2>1. queue'[t] = queue[t]
    BY <1>4 DEF FanOut
  <2>2. t \in todo' => t \in todo \/ SignalOf(t) = s
    BY <1>4 DEF FanOut
  <2>3. fanned' = fanned \union {s} /\ s \notin fanned
    BY <1>4 DEF FanOut
  <2>4. SignalOf(t)' = SignalOf(t)
    BY DEF SignalOf
  <2> QED BY <2>1, <2>2, <2>3, <2>4, <1>3 DEF SourceInv
<1>5. ASSUME NEW s \in Signals, FanOutFails(s)
      PROVE  SourceInv'
  <2> SUFFICES ASSUME NEW t \in Tasks
               PROVE  /\ (SignalOf(t) \notin fanned => t \notin todo)'
                      /\ (SignalOf(t) \notin fanned \/ t \in todo => Unstarted(t))'
                      /\ (Clean(t) => OneSource(t))'
    BY DEF SourceInv
  <2>1. queue'[t] = queue[t] /\ fanned' = fanned /\ (t \in todo' => t \in todo)
    BY <1>5 DEF FanOutFails
  <2>2. SignalOf(t)' = SignalOf(t)
    BY DEF SignalOf
  <2> QED BY <2>1, <2>2, <1>3 DEF SourceInv
<1>6. ASSUME NEW d \in Tasks, Dispatch(d)
      PROVE  SourceInv'
  <2> SUFFICES ASSUME NEW t \in Tasks
               PROVE  /\ (SignalOf(t) \notin fanned => t \notin todo)'
                      /\ (SignalOf(t) \notin fanned \/ t \in todo => Unstarted(t))'
                      /\ (Clean(t) => OneSource(t))'
    BY DEF SourceInv
  <2>1. fanned' = fanned /\ todo' = todo \ {d} /\ d \in todo
    BY <1>6 DEF Dispatch
  <2>2. SignalOf(t)' = SignalOf(t)
    BY DEF SignalOf
  <2>3. CASE t # d
    <3>1. queue'[t] = queue[t]
      BY <1>6, <2>3 DEF Dispatch, TypeOK
    <3> QED BY <2>1, <2>2, <3>1, <1>3 DEF SourceInv
  <2>4. CASE t = d
    <3>1. Unstarted(t)
      BY <2>1, <2>4 DEF SourceInv
    <3>2. \A r \in Attempts : queue[t][r] = 0
      BY <3>1 DEF Unstarted, Queued, TypeOK
    <3>3. \A r \in Attempts : queue'[t][r] = IF r = 0 THEN 1 ELSE 0
      BY <1>6, <2>4, <3>2 DEF Dispatch, TypeOK
    <3>4. \A v \in Workers : ~Pending(v, t)'
      BY <3>1, <1>2 DEF Unstarted, Pending, BeforeOrder
    <3>5. placed'[t] = 0
      BY <3>1, <1>1 DEF Unstarted
    <3>6. OneSource(t)'
      BY <3>3, <3>4, <3>5 DEF OneSource
    <3>7. t \notin todo' /\ SignalOf(t) \in fanned
      BY <2>1, <2>4 DEF SourceInv
    <3> QED BY <3>6, <3>7, <2>1, <2>2
  <2> QED BY <2>3, <2>4
<1> QED BY <1>4, <1>5, <1>6 DEF FanOutStep

(***************************************************************************)
(* SourceInv is inductive.                                                 *)
(***************************************************************************)
LEMMA SourceInvCorrect == Spec => []SourceInv
<1>1. Init => SourceInv
  <2> SUFFICES ASSUME Init, NEW t \in Tasks
               PROVE  t \notin todo /\ Unstarted(t) /\ OneSource(t)
    BY DEF SourceInv
  <2>1. \A r \in Attempts : queue[t][r] = 0
    BY DEF Init
  <2>2. \A w \in Workers : stage[w] = "idle" /\ ~Pending(w, t)
    BY DEF Init, Pending, BeforeOrder
  <2> QED BY <2>1, <2>2 DEF Init, Unstarted, OneSource, Queued
<1>2. TypeOK /\ SourceInv /\ [Next]_vars => SourceInv'
  <2> SUFFICES ASSUME TypeOK, SourceInv, [Next]_vars
               PROVE  SourceInv'
    OBVIOUS
  <2>1. CASE AccountStep \/ UNCHANGED vars
    <3>1. UNCHANGED <<recorded, placed, fanoutVars, queue, workerVars, faults>>
      BY <2>1 DEF AccountStep, ChangeTier, StoreKey, DeleteKey, InvalidateKey, RevalidateKey, StartBot, StopBot,
           UpdateSettings, PollStatus, RacingCreate, AccountChange, vars, fanoutVars, workerVars
    <3>2. ASSUME NEW t \in Tasks PROVE SameFor(t) /\ SignalOf(t)' = SignalOf(t)
      BY <3>1 DEF SameFor, Pending, TaskOf, workerVars, SignalOf
    <3> QED BY <3>1, <3>2, SameKeeps DEF SourceInv, fanoutVars
  <2>2. CASE FanOutStep
    BY <2>2, FanOutKeeps
  <2>3. ASSUME NEW w \in Workers, WorkerStep(w) \/ Crash(w)
        PROVE  SourceInv'
    <3>1. fanned' = fanned /\ todo' = todo
      BY <2>3 DEF WorkerStep, Crash, Receive, ReadKeys, ReadBot, ReadFails, FetchBalance,
           OrderAccepted, OrderRejected, OrderAnswerLost, RecordTrade, RecordFails, Cleanup,
           CleanupFails, Publish, PublishFails, Retry, GiveUp, Ack, fanoutVars
    <3>2. ASSUME NEW t \in Tasks
          PROVE  /\ Unstarted(t) => Unstarted(t)'
                 /\ Clean(t)' => OneSource(t)'
      <4>1. CASE stage[w] = "idle"
        <5>1. Receive(w)
          BY <2>3, <4>1 DEF WorkerStep, Crash, ReadKeys, ReadBot, ReadFails, FetchBalance,
               OrderAccepted, OrderRejected, OrderAnswerLost, RecordTrade, RecordFails, Cleanup,
               CleanupFails, Publish, PublishFails, Retry, GiveUp, Ack
        <5> QED BY <5>1, ReceiveKeeps
      <4>2. CASE stage[w] # "idle" /\ t # TaskOf(w)
        BY <2>3, <4>2, OtherTasks, SameKeeps DEF SourceInv
      <4>3. CASE stage[w] # "idle" /\ t = TaskOf(w)
        <5>1. ~Unstarted(t)
          BY <4>3 DEF Unstarted
        <5>2. Clean(t)' => OneSource(t)'
          BY <2>3, <4>3, OwnTask DEF SourceInv
        <5> QED BY <5>1, <5>2
      <4> QED BY <4>1, <4>2, <4>3
    <3>3. \A t \in Tasks : SignalOf(t)' = SignalOf(t)
      BY DEF SignalOf
    <3> QED BY <3>1, <3>2, <3>3 DEF SourceInv
  <2> QED BY <2>1, <2>2, <2>3 DEF Next
<1> QED BY <1>1, <1>2, TypeCorrect, PTL DEF Spec

(***************************************************************************)
(* A task places a second order only after a failed publish, a failed      *)
(* clean-up or a worker lost behind its order step.                        *)
(***************************************************************************)
THEOREM SingleOrderCorrect == Spec => []SingleOrder
<1>1. TypeOK /\ SourceInv => SingleOrder
  <2> SUFFICES ASSUME TypeOK, SourceInv, NEW t \in Tasks, placed[t] > 1
               PROVE  ~Clean(t)
    BY DEF SingleOrder, Clean
  <2>1. placed[t] \in Nat
    BY DEF TypeOK
  <2>2. Clean(t) => placed[t] <= 1
    BY DEF SourceInv, OneSource
  <2> QED BY <2>1, <2>2
<1> QED BY <1>1, TypeCorrect, SourceInvCorrect, PTL

-----------------------------------------------------------------------------
(***************************************************************************)
(* NoOrphan.  It needs that a worker about to record holds an order its    *)
(* task has placed: only then is what it records an accepted order.        *)
(***************************************************************************)
HeldPlaced == \A w \in Workers :
                 stage[w] = "record" => held[w] \in 1..placed[TaskOf(w)]

OrphanInv == HeldPlaced /\ NoOrphan

(***************************************************************************)
(* OrphanInv reads these values only.                                      *)
(***************************************************************************)
LEMMA OrphanFrame ==
    ASSUME OrphanInv, UNCHANGED <<recorded, placed, faults>>,
           \A v \in Workers : /\ (stage'[v] = "record") <=> (stage[v] = "record")
                              /\ stage[v] = "record" => job'[v] = job[v] /\ held'[v] = held[v]
    PROVE  OrphanInv'
<1>0. placed' = placed /\ recorded' = recorded /\ faults' = faults
  OBVIOUS
<1>1. HeldPlaced'
  <2> SUFFICES ASSUME NEW v \in Workers, stage'[v] = "record"
               PROVE  held'[v] \in 1..placed'[TaskOf(v)']
    BY DEF HeldPlaced
  <2>1. stage[v] = "record" /\ held'[v] = held[v] /\ TaskOf(v)' = TaskOf(v)
    BY DEF TaskOf
  <2> QED BY <1>0, <2>1 DEF OrphanInv, HeldPlaced
<1>2. ASSUME NEW t \in Tasks, NEW k \in Nat, InHand(t, k)
      PROVE  InHand(t, k)'
  <2>1. PICK v \in Workers : stage[v] = "record" /\ TaskOf(v) = t /\ held[v] = k
    BY <1>2 DEF InHand
  <2>2. stage'[v] = "record" /\ held'[v] = held[v] /\ TaskOf(v)' = TaskOf(v)
    BY <2>1 DEF TaskOf
  <2> QED BY <2>1, <2>2 DEF InHand
<1>3. NoOrphan'
  BY <1>0, <1>2 DEF OrphanInv, NoOrphan
<1> QED BY <1>1, <1>3 DEF OrphanInv

(***************************************************************************)
(* What a worker at the record stage holds is disturbed by itself only.    *)
(***************************************************************************)
LEMMA RecordersElsewhere ==
    ASSUME TypeOK, NEW w \in Workers, WorkerStep(w) \/ Crash(w),
           NEW v \in Workers, v # w
    PROVE  stage'[v] = stage[v] /\ job'[v] = job[v] /\ held'[v] = held[v]
BY DEF TypeOK, WorkerStep, Crash, Receive, ReadKeys, ReadBot, ReadFails, FetchBalance,
       OrderAccepted, OrderRejected, OrderAnswerLost, RecordTrade, RecordFails, Cleanup,
       CleanupFails, Publish, PublishFails, Retry, GiveUp, Ack, Goto, Drop

LEMMA OrphanWorker ==
    ASSUME TypeOK, OrphanInv, NEW w \in Workers, WorkerStep(w) \/ Crash(w)
    PROVE  OrphanInv'
<1>1. \A v \in Workers : v # w =>
         stage'[v] = stage[v] /\ job'[v] = job[v] /\ held'[v] = held[v]
  BY RecordersElsewhere
<1>2. CASE /\ \/ Receive(w) \/ ReadKeys(w) \/ ReadBot(w) \/ ReadFails(w) \/ FetchBalance(w)
              \/ OrderRejected(w) \/ Cleanup(w) \/ Publish(w) \/ Retry(w) \/ GiveUp(w) \/ Ack(w)
  <2>1. stage[w] # "record" /\ stage'[w] # "record" /\ UNCHANGED <<recorded, placed, faults>>
    BY <1>2 DEF Receive, ReadKeys, ReadBot, ReadFails, FetchBalance, OrderRejected, Cleanup,
         Publish, Retry, GiveUp, Ack, Goto, TypeOK, OneOrNone
  <2> QED BY <1>1, <2>1, OrphanFrame
<1>3. CASE OrderAccepted(w)
  <2> DEFINE x == TaskOf(w)
  <2>1. x \in Tasks /\ placed[x] \in Nat
    BY <1>3, BusyHolds DEF OrderAccepted, TypeOK
  <2>2. /\ placed' = [placed EXCEPT ![x] = @ + 1] /\ recorded' = recorded /\ faults' = faults
        /\ held'[w] = placed[x] + 1 /\ stage'[w] = "record" /\ stage[w] = "order"
        /\ TaskOf(w)' = x
    BY <1>3 DEF OrderAccepted, TypeOK, TaskOf
  <2>3. \A t \in Tasks : placed'[t] = IF t = x THEN placed[x] + 1 ELSE placed[t]
    BY <2>1, <2>2 DEF TypeOK
  <2>4. HeldPlaced'
    <3> SUFFICES ASSUME NEW v \in Workers, stage'[v] = "record"
                 PROVE  held'[v] \in 1..placed'[TaskOf(v)']
      BY DEF HeldPlaced
    <3>1. CASE v = w
      BY <3>1, <2>1, <2>2, <2>3
    <3>2. CASE v # w
      <4>1. stage[v] = "record" /\ held'[v] = held[v] /\ TaskOf(v)' = TaskOf(v)
        BY <3>2, <1>1 DEF TaskOf
      <4>2. TaskOf(v) \in Tasks /\ held[v] \in 1..placed[TaskOf(v)]
        BY <4>1, BusyHolds DEF OrphanInv, HeldPlaced
      <4>3. placed[TaskOf(v)] \in Nat
        BY <4>2 DEF TypeOK
      <4> QED BY <4>1, <4>2, <4>3, <2>1, <2>3
    <3> QED BY <3>1, <3>2
  <2>5. NoOrphan'
    <3> SUFFICES ASSUME NEW t \in Tasks
                 PROVE  /\ recorded'[t] \subseteq 1..placed'[t]
                        /\ \A k \in (1..placed'[t]) \ recorded'[t] :
                              InHand(t, k)' \/ faults'[t] \cap OrphanFaults # {}
      BY DEF NoOrphan
    <3>1. placed[t] \in Nat /\ recorded[t] \subseteq 1..placed[t]
      BY DEF TypeOK, OrphanInv, NoOrphan
    <3>2. recorded'[t] \subseteq 1..placed'[t]
      BY <3>1, <2>2, <2>3
    <3>3. \A k \in Nat : InHand(t, k) => InHand(t, k)'
      BY <2>2, <1>1 DEF InHand, TaskOf
    <3>4. ASSUME NEW k \in (1..placed'[t]) \ recorded'[t]
          PROVE  InHand(t, k)' \/ faults'[t] \cap OrphanFaults # {}
      <4>1. CASE k \in 1..placed[t]
        BY <4>1, <3>3, <3>4, <2>2 DEF OrphanInv, NoOrphan
      <4>2. CASE k \notin 1..placed[t]
        <5>1. t = x /\ k = placed[x] + 1
          BY <4>2, <3>1, <3>4, <2>3
        <5> QED BY <5>1, <2>2 DEF InHand
      <4> QED BY <4>1, <4>2
    <3> QED BY <3>2, <3>4
  <2> QED BY <2>4, <2>5 DEF OrphanInv
<1>4. CASE RecordTrade(w)
  <2> DEFINE x == TaskOf(w)
  <2>1. x \in Tasks /\ held[w] \in 1..placed[x]
    BY <1>4, BusyHolds DEF RecordTrade, OrphanInv, HeldPlaced
  <2>2. /\ recorded' = [recorded EXCEPT ![x] = @ \union {held[w]}]
        /\ placed' = placed /\ faults' = faults /\ stage'[w] # "record"
    BY <1>4 DEF RecordTrade, Drop, TypeOK
  <2>3. HeldPlaced'
    BY <1>1, <2>2 DEF OrphanInv, HeldPlaced, TaskOf
  <2>4. NoOrphan'
    <3> SUFFICES ASSUME NEW t \in Tasks
                 PROVE  /\ recorded'[t] \subseteq 1..placed'[t]
                        /\ \A k \in (1..placed'[t]) \ recorded'[t] :
                              InHand(t, k)' \/ faults'[t] \cap OrphanFaults # {}
      BY DEF NoOrphan
    <3>1. recorded'[t] = IF t = x THEN recorded[t] \union {held[w]} ELSE recorded[t]
      BY <2>1, <2>2 DEF TypeOK
    <3>2. recorded'[t] \subseteq 1..placed'[t]
      BY <3>1, <2>1, <2>2 DEF OrphanInv, NoOrphan
    <3>3. ASSUME NEW k \in (1..placed'[t]) \ recorded'[t]
          PROVE  InHand(t, k)' \/ faults'[t] \cap OrphanFaults # {}
      <4>1. k \in (1..placed[t]) \ recorded[t] /\ (t = x => k # held[w])
        BY <3>1, <3>3, <2>2
      <4>2. InHand(t, k) => InHand(t, k)'
        BY <4>1, <1>1 DEF InHand, TaskOf
      <4> QED BY <4>1, <4>2, <2>2 DEF OrphanInv, NoOrphan
    <3> QED BY <3>2, <3>3
  <2> QED BY <2>3, <2>4 DEF OrphanInv
<1>5. CASE OrderAnswerLost(w) \/ RecordFails(w) \/ (Crash(w) /\ stage[w] \in PastOrder)
  <2> DEFINE x == TaskOf(w)
  <2>1. x \in Tasks /\ placed[x] \in Nat
    BY <1>5, BusyHolds DEF OrderAnswerLost, RecordFails, Crash, TypeOK
  <2>2. recorded' = recorded /\ stage'[w] # "record"
    BY <1>5 DEF OrderAnswerLost, RecordFails, Crash, Goto, Drop, TypeOK
  <2>3. faults'[x] \cap OrphanFaults # {} /\ \A t \in Tasks : t # x => faults'[t] = faults[t]
    <3>1. PICK kind \in OrphanFaults : faults' = [faults EXCEPT ![x] = @ \union {kind}]
      BY <1>5 DEF OrderAnswerLost, RecordFails, Crash, Blame, OrphanFaults
    <3> QED BY <2>1, <3>1 DEF TypeOK
  <2>4. placed'[x] \in {placed[x], placed[x] + 1} /\ \A t \in Tasks : t # x => placed'[t] = placed[t]
    BY <1>5, <2>1 DEF OrderAnswerLost, RecordFails, Crash, TypeOK
  <2>5. HeldPlaced'
    <3> SUFFICES ASSUME NEW v \in Workers, stage'[v] = "record"
                 PROVE  held'[v] \in 1..placed'[TaskOf(v)']
      BY DEF HeldPlaced
    <3>1. stage[v] = "record" /\ held'[v] = held[v] /\ TaskOf(v)' = TaskOf(v)
      BY <1>1, <2>2 DEF TaskOf
    <3>2. TaskOf(v) \in Tasks /\ held[v] \in 1..placed[TaskOf(v)]
      BY <3>1, BusyHolds DEF OrphanInv, HeldPlaced
    <3> QED BY <3>1, <3>2, <2>1, <2>4
  <2>6. NoOrphan'
    <3> SUFFICES ASSUME NEW t \in Tasks
                 PROVE  /\ recorded'[t] \subseteq 1..placed'[t]
                        /\ \A k \in (1..placed'[t]) \ recorded'[t] :
                              InHand(t, k)' \/ faults'[t] \cap OrphanFaults # {}
      BY DEF NoOrphan
    <3>1. recorded[t] \subseteq 1..placed[t] /\ placed[t] \in Nat
      BY DEF OrphanInv, NoOrphan, TypeOK
    <3>2. CASE t = x
      BY <3>1, <3>2, <2>2, <2>3, <2>4
    <3>3. CASE t # x
      <4>1. \A k \in Nat : InHand(t, k) => InHand(t, k)'
        BY <3>3, <1>1 DEF InHand, TaskOf
      <4> QED BY <4>1, <3>1, <3>3, <2>2, <2>3, <2>4 DEF OrphanInv, NoOrphan
    <3> QED BY <3>2, <3>3
  <2> QED BY <2>5, <2>6 DEF OrphanInv
<1>6. CASE CleanupFails(w) \/ PublishFails(w) \/ (Crash(w) /\ stage[w] \notin PastOrder)
  <2>1. stage[w] # "record" /\ stage'[w] # "record" /\ UNCHANGED <<recorded, placed>>
    BY <1>6 DEF CleanupFails, PublishFails, Crash, Goto, TypeOK, PastOrder
  <2>2. \A t \in Tasks : faults[t] \subseteq faults'[t]
    <3>1. CASE Crash(w) /\ stage[w] \notin PastOrder
      BY <3>1 DEF Crash
    <3>2. CASE CleanupFails(w) \/ PublishFails(w)
      <4>1. PICK kind \in FaultKinds : faults' = [faults EXCEPT ![TaskOf(w)] = @ \union {kind}]
        BY <3>2 DEF CleanupFails, PublishFails, Blame, FaultKinds
      <4> QED BY <4>1 DEF TypeOK
    <3> QED BY <1>6, <3>1, <3>2
  <2>3. HeldPlaced'
    BY <1>1, <2>1 DEF OrphanInv, HeldPlaced, TaskOf
  <2>4. \A t \in Tasks, k \in Nat : InHand(t, k) => InHand(t, k)'
    BY <1>1, <2>1 DEF InHand, TaskOf
  <2>5. NoOrphan'
    BY <2>1, <2>2, <2>4 DEF OrphanInv, NoOrphan
  <2> QED BY <2>3, <2>5 DEF OrphanInv
<1> QED BY <1>2, <1>3, <1>4, <1>5, <1>6 DEF WorkerStep

(***************************************************************************)
(* An order the exchange accepted is recorded, about to be recorded, or    *)
(* its task has met a fault that explains the gap.                         *)
(***************************************************************************)
THEOREM NoOrphanCorrect == Spec => []NoOrphan
<1>1. Init => OrphanInv
  BY DEF Init, OrphanInv, HeldPlaced, NoOrphan
<1>2. TypeOK /\ OrphanInv /\ [Next]_vars => OrphanInv'
  <2> SUFFICES ASSUME TypeOK, OrphanInv, [Next]_vars
               PROVE  OrphanInv'
    OBVIOUS
  <2>1. CASE AccountStep \/ FanOutStep \/ UNCHANGED vars
    <3>1. UNCHANGED <<recorded, placed, workerVars, faults>>
      BY <2>1 DEF AccountStep, ChangeTier, StoreKey, DeleteKey, InvalidateKey, RevalidateKey, StartBot, StopBot,
           UpdateSettings, PollStatus, RacingCreate, AccountChange, FanOutStep, FanOut, FanOutFails,
           Dispatch, vars, workerVars
    <3> QED BY <3>1, OrphanFrame DEF workerVars
  <2>2. ASSUME NEW w \in Workers, WorkerStep(w) \/ Crash(w)
        PROVE  OrphanInv'
    BY <2>2, OrphanWorker
  <2> QED BY <2>1, <2>2 DEF Next
<1>3. OrphanInv => NoOrphan
  BY DEF OrphanInv
<1> QED BY <1>1, <1>2, <1>3, TypeCorrect, PTL DEF Spec

-----------------------------------------------------------------------------
(***************************************************************************)
(* NoTradeOnAmbiguousBot.  Bot rows are never removed, an execution goes   *)
(* on to the exchange only from a read that found one row, and orders are  *)
(* placed only by executions that did.                                     *)
(***************************************************************************)
LEMMA RowsKept ==
    ASSUME TypeOK, AccountStep, NEW v \in Users, Len(bots[v]) > 1
    PROVE  Len(bots'[v]) > 1
<1>1. PICK u \in Users : \/ ChangeTier(u) \/ StoreKey(u) \/ DeleteKey(u)
                         \/ InvalidateKey(u) \/ RevalidateKey(u) \/ StartBot(u)
                         \/ StopBot(u) \/ UpdateSettings(u) \/ PollStatus(u) \/ RacingCreate(u)
  BY DEF AccountStep
<1>2. bots \in [Users -> Seq(BotRow)] /\ bots[v] \in Seq(BotRow)
  BY DEF TypeOK
<1>3. ASSUME NEW b, SetNewest(u, b)
      PROVE  Len(bots'[v]) > 1
  <2>1. CASE u = v
    <3>1. GetOrCreate(v) = bots[v]
      BY <1>2 DEF GetOrCreate
    <3>2. Len([bots[v] EXCEPT ![Len(bots[v])] = b]) = Len(bots[v])
      BY <1>2
    <3> QED BY <1>2, <1>3, <2>1, <3>1, <3>2 DEF SetNewest
  <2>2. CASE u # v
    BY <1>2, <1>3, <2>2 DEF SetNewest
  <2> QED BY <2>1, <2>2
<1>4. CASE StartBot(u) \/ StopBot(u) \/ UpdateSettings(u) \/ PollStatus(u)
  <2>1. PICK b : SetNewest(u, b)
    BY <1>4 DEF StartBot, StopBot, UpdateSettings, PollStatus
  <2> QED BY <1>3, <2>1
<1>5. CASE RacingCreate(u)
  <2>1. PICK b \in FirstRows(u), i \in 1..Len(bots[u]) + 1 :
           bots' = [bots EXCEPT ![u] = InsertAt(bots[u], i, b)]
    BY <1>5 DEF RacingCreate
  <2>2. CASE u = v
    <3>1. Len(SubSeq(bots[v], 1, i - 1)) = i - 1
      BY <1>2, <2>1, <2>2
    <3>2. Len(SubSeq(bots[v], i, Len(bots[v]))) = Len(bots[v]) - i + 1
      BY <1>2, <2>1, <2>2
    <3>3. /\ SubSeq(bots[v], 1, i - 1) \in Seq(BotRow)
          /\ SubSeq(bots[v], i, Len(bots[v])) \in Seq(BotRow)
          /\ <<b>> \in Seq(BotRow)
      BY <1>2, <2>1, <2>2 DEF FirstRows
    <3>4. /\ SubSeq(bots[v], 1, i - 1) \o <<b>> \in Seq(BotRow)
          /\ Len(SubSeq(bots[v], 1, i - 1) \o <<b>>) = i
      BY <3>1, <3>3
    <3>5. Len(InsertAt(bots[v], i, b)) = i + (Len(bots[v]) - i + 1)
      <4> DEFINE front == SubSeq(bots[v], 1, i - 1) \o <<b>>
                 back  == SubSeq(bots[v], i, Len(bots[v]))
      <4>1. InsertAt(bots[v], i, b) = front \o back
        BY DEF InsertAt
      <4> HIDE DEF front, back
      <4>2. front \in Seq(BotRow) /\ back \in Seq(BotRow)
        BY <3>3, <3>4 DEF front, back
      <4>3. Len(front \o back) = Len(front) + Len(back)
        BY <4>2
      <4> QED BY <3>2, <3>4, <4>1, <4>3 DEF front, back
    <3> QED BY <1>2, <2>1, <2>2, <3>5
  <2>3. CASE u # v
    BY <1>2, <2>1, <2>3
  <2> QED BY <2>2, <2>3
<1>6. CASE ChangeTier(u) \/ StoreKey(u) \/ DeleteKey(u) \/ InvalidateKey(u)
          \/ RevalidateKey(u)
  BY <1>6 DEF ChangeTier, StoreKey, DeleteKey, InvalidateKey, RevalidateKey
<1> QED BY <1>1, <1>4, <1>5, <1>6

(***************************************************************************)
(* A worker's step for a task with two bot rows and no execution ahead.    *)
(***************************************************************************)
LEMMA AmbiguousWorker ==
    ASSUME TypeOK, NEW w \in Workers, WorkerStep(w) \/ Crash(w)
    PROVE  StaysAmbiguous
<1> SUFFICES ASSUME NEW t \in Tasks, Ambiguous(t)
             PROVE  Ambiguous(t)' /\ placed'[t] = placed[t]
  BY DEF StaysAmbiguous
<1> DEFINE far == {"exchange", "order"}
<1>1. bots' = bots /\ UserOf(t)' = UserOf(t)
  BY DEF WorkerStep, Crash, Receive, ReadKeys, ReadBot, ReadFails, FetchBalance,
         OrderAccepted, OrderRejected, OrderAnswerLost, RecordTrade, RecordFails, Cleanup,
         CleanupFails, Publish, PublishFails, Retry, GiveUp, Ack, accountVars, UserOf
<1>2. ASSUME NEW v \in Workers \ {w}
      PROVE  stage'[v] = stage[v] /\ TaskOf(v)' = TaskOf(v)
  BY DEF TypeOK, WorkerStep, Crash, Receive, ReadKeys, ReadBot, ReadFails, FetchBalance,
         OrderAccepted, OrderRejected, OrderAnswerLost, RecordTrade, RecordFails, Cleanup,
         CleanupFails, Publish, PublishFails, Retry, GiveUp, Ack, Goto, Drop, TaskOf
<1>3. ~(stage[w] \in far /\ TaskOf(w) = t)
  BY DEF Ambiguous, Ahead
<1>4. placed'[t] = placed[t] /\ ~(stage'[w] \in far /\ TaskOf(w)' = t)
  <2>1. CASE ReadBot(w)
    <3>1. \A found : OneOrNone(Len(bots[UserOf(t)]), found) = "retry"
      <4>1. bots[UserOf(t)] \in Seq(BotRow)
        BY DEF TypeOK, Tasks, UserOf
      <4>2. Len(bots[UserOf(t)]) \in Nat /\ Len(bots[UserOf(t)]) > 1
        BY <4>1 DEF Ambiguous
      <4>3. \A n \in Nat : n > 1 => n # 0 /\ n # 1
        OBVIOUS
      <4> QED BY <4>2, <4>3, Zenon DEF OneOrNone
    <3>2. TaskOf(w) = t => Goto(w, "retry")
      BY <2>1, <3>1 DEF ReadBot
    <3> QED BY <2>1, <3>2 DEF ReadBot, Goto, TaskOf, TypeOK
  <2>2. CASE FetchBalance(w) \/ OrderAccepted(w) \/ OrderRejected(w) \/ OrderAnswerLost(w)
    <3>1. stage[w] \in far
      BY <2>2 DEF FetchBalance, OrderAccepted, OrderRejected, OrderAnswerLost
    <3>2. TaskOf(w) # t
      BY <1>3, <3>1
    <3>3. TaskOf(w)' = TaskOf(w)
      BY <2>2 DEF FetchBalance, OrderAccepted, OrderRejected, OrderAnswerLost, Goto, TaskOf
    <3>4. placed' = placed \/ placed' = [placed EXCEPT ![TaskOf(w)] = @ + 1]
      BY <2>2 DEF FetchBalance, OrderAccepted, OrderRejected, OrderAnswerLost
    <3> QED BY <3>2, <3>3, <3>4 DEF TypeOK
  <2>3. CASE ReadKeys(w)
    BY <2>3 DEF ReadKeys, OneOrNone, Goto, TypeOK
  <2>4. CASE \/ ReadFails(w) \/ Cleanup(w) \/ CleanupFails(w) \/ Publish(w) \/ PublishFails(w)
             \/ Retry(w) \/ GiveUp(w)
    BY <2>4 DEF ReadFails, Cleanup, CleanupFails, Publish, PublishFails, Retry, GiveUp, Goto,
                TypeOK
  <2>5. CASE RecordTrade(w) \/ RecordFails(w)
    BY <2>5 DEF RecordTrade, RecordFails, Drop, TypeOK
  <2>6. CASE Receive(w) \/ Ack(w) \/ Crash(w)
    BY <2>6 DEF Receive, Ack, Crash, TypeOK
  <2> QED BY <2>1, <2>2, <2>3, <2>4, <2>5, <2>6 DEF WorkerStep
<1> QED BY <1>1, <1>2, <1>3, <1>4 DEF Ambiguous, Ahead

(***************************************************************************)
(* No step of the system trades for a user with two bot rows.              *)
(***************************************************************************)
THEOREM AmbiguousCorrect == Spec => NoTradeOnAmbiguousBot
<1>1. ASSUME TypeOK, [Next]_vars
      PROVE  [StaysAmbiguous]_vars
  <2>1. CASE UNCHANGED vars
    BY <2>1
  <2>2. CASE AccountStep
    <3>1. UNCHANGED <<placed, workerVars>>
      BY <2>2 DEF AccountStep, ChangeTier, StoreKey, DeleteKey, InvalidateKey, RevalidateKey,
           StartBot, StopBot, UpdateSettings, PollStatus, RacingCreate, AccountChange
    <3>2. ASSUME NEW t \in Tasks, Ambiguous(t)
          PROVE  Ambiguous(t)' /\ placed'[t] = placed[t]
      <4>1. UserOf(t) \in Users /\ UserOf(t)' = UserOf(t)
        BY DEF Tasks, UserOf
      <4>2. Len(bots[UserOf(t)]) > 1 /\ ~Ahead(t)
        BY <3>2 DEF Ambiguous
      <4>3. Len(bots'[UserOf(t)]) > 1
        BY <1>1, <2>2, <4>1, <4>2, RowsKept
      <4> QED BY <3>1, <4>1, <4>2, <4>3 DEF Ambiguous, Ahead, TaskOf, workerVars
    <3> QED BY <3>2 DEF StaysAmbiguous
  <2>3. CASE FanOutStep
    <3>1. UNCHANGED <<bots, placed, workerVars>>
      BY <2>3 DEF FanOutStep, FanOut, FanOutFails, Dispatch, accountVars
    <3> QED BY <3>1 DEF StaysAmbiguous, Ambiguous, Ahead, TaskOf, UserOf, workerVars
  <2>4. ASSUME NEW w \in Workers, WorkerStep(w) \/ Crash(w)
        PROVE  StaysAmbiguous
    BY <1>1, <2>4, AmbiguousWorker
  <2> QED BY <1>1, <2>1, <2>2, <2>3, <2>4 DEF Next
<1> QED BY <1>1, TypeCorrect, PTL DEF Spec, NoTradeOnAmbiguousBot

-----------------------------------------------------------------------------
(***************************************************************************)
(* OrdersBounded.  A copy of t whose header is r can still cost one order  *)
(* for each header from r on; in a worker past its order step, for each    *)
(* header after its own.  Each of these is a token.  An order uses up a    *)
(* token, a retry moves tokens to the queue, and only a crash and the      *)
(* dispatch of the task make new ones, at most MaxRetries + 1 of them.     *)
(***************************************************************************)
Waiting(t) == {x \in Attempts \X Nat \X Attempts :
                  x[2] \in 1..queue[t][x[1]] /\ x[1] <= x[3]}
MayOrder(w) == stage[w] \in {"keys", "bot", "exchange", "order"}
MayRetry(w) == stage[w] \in {"record", "publish", "cleanup", "retry"}
Working(t) == {y \in Workers \X Attempts :
                  /\ \/ MayOrder(y[1]) /\ AttemptOf(y[1]) <= y[2]
                     \/ MayRetry(y[1]) /\ AttemptOf(y[1]) < y[2]
                  /\ TaskOf(y[1]) = t}

Budget == (MaxRetries + 1) * (crashes + 1)
Tokens(t) == /\ IsFiniteSet(Waiting(t)) /\ IsFiniteSet(Working(t))
             /\ placed[t] + Cardinality(Waiting(t)) + Cardinality(Working(t)) <= Budget
TokenInv  == \A t \in Tasks : Tokens(t)

\* The tokens of one message, and of one worker.
OfMessage(r, n, lo) == {x \in Attempts \X Nat \X Attempts : x[1] = r /\ x[2] = n /\ lo <= x[3]}
OfWorker(w, lo)     == {y \in Workers \X Attempts : y[1] = w /\ lo <= y[2]}

(***************************************************************************)
(* There is one for each header from lo on.                                *)
(***************************************************************************)
LEMMA HeadersFrom ==
    ASSUME NEW lo \in Nat, lo <= MaxRetries + 1
    PROVE  IsFiniteSet(lo..MaxRetries) /\ Cardinality(lo..MaxRetries) = MaxRetries + 1 - lo
<1>1. lo \in Int /\ MaxRetries \in Int
  BY ConstantsOK
<1>2. /\ IsFiniteSet(lo..MaxRetries)
      /\ Cardinality(lo..MaxRetries) = IF lo > MaxRetries THEN 0 ELSE MaxRetries - lo + 1
  BY <1>1, FS_Interval
<1> QED BY <1>1, <1>2

LEMMA WorkerTokens ==
    ASSUME NEW w \in Workers, NEW lo \in Nat, lo <= MaxRetries + 1
    PROVE  /\ IsFiniteSet(OfWorker(w, lo))
           /\ Cardinality(OfWorker(w, lo)) = MaxRetries + 1 - lo
<1> DEFINE S == lo..MaxRetries
           f == [k \in S |-> <<w, k>>]
<1>1. f \in Injection(S, OfWorker(w, lo)) /\ f \in Surjection(S, OfWorker(w, lo))
  <2>1. \A k \in S : k \in Attempts /\ lo <= k
    BY ConstantsOK DEF Attempts
  <2>2. f \in [S -> OfWorker(w, lo)]
    BY <2>1 DEF OfWorker
  <2>3. \A j, k \in S : f[j] = f[k] => j = k
    OBVIOUS
  <2>4. ASSUME NEW y \in OfWorker(w, lo) PROVE \E k \in S : f[k] = y
    <3>1. y[2] \in S /\ y = <<w, y[2]>>
      BY ConstantsOK DEF OfWorker, Attempts
    <3> QED BY <3>1
  <2> HIDE DEF f, S
  <2> QED BY <2>2, <2>3, <2>4 DEF Injection, IsInjective, Surjection
<1>2. ExistsBijection(S, OfWorker(w, lo))
  <2> HIDE DEF f, S
  <2> QED BY <1>1 DEF ExistsBijection, Bijection
<1> HIDE DEF f
<1> QED BY <1>2, HeadersFrom, FS_Bijection

LEMMA MessageTokens ==
    ASSUME NEW r \in Attempts, NEW n \in Nat, NEW lo \in Nat, lo <= MaxRetries + 1
    PROVE  /\ IsFiniteSet(OfMessage(r, n, lo))
           /\ Cardinality(OfMessage(r, n, lo)) = MaxRetries + 1 - lo
<1> DEFINE S == lo..MaxRetries
           f == [k \in S |-> <<r, n, k>>]
<1>1. f \in Injection(S, OfMessage(r, n, lo)) /\ f \in Surjection(S, OfMessage(r, n, lo))
  <2>1. \A k \in S : k \in Attempts /\ lo <= k
    BY ConstantsOK DEF Attempts
  <2>2. f \in [S -> OfMessage(r, n, lo)]
    BY <2>1 DEF OfMessage
  <2>3. \A j, k \in S : f[j] = f[k] => j = k
    OBVIOUS
  <2>4. ASSUME NEW x \in OfMessage(r, n, lo) PROVE \E k \in S : f[k] = x
    <3>1. x[3] \in S /\ x = <<r, n, x[3]>>
      BY ConstantsOK DEF OfMessage, Attempts
    <3> QED BY <3>1
  <2> HIDE DEF f, S
  <2> QED BY <2>2, <2>3, <2>4 DEF Injection, IsInjective, Surjection
<1>2. ExistsBijection(S, OfMessage(r, n, lo))
  <2> HIDE DEF f, S
  <2> QED BY <1>1 DEF ExistsBijection, Bijection
<1> HIDE DEF f
<1> QED BY <1>2, HeadersFrom, FS_Bijection

(***************************************************************************)
(* Adding and taking away.                                                 *)
(***************************************************************************)
LEMMA Gains ==
    ASSUME NEW S, IsFiniteSet(S), NEW B, IsFiniteSet(B), NEW T, T \subseteq S \union B
    PROVE  /\ IsFiniteSet(T)
           /\ Cardinality(T) \in Nat /\ Cardinality(S) \in Nat /\ Cardinality(B) \in Nat
           /\ Cardinality(T) <= Cardinality(S) + Cardinality(B)
<1>1. /\ IsFiniteSet(S \union B)
      /\ Cardinality(S \union B) = Cardinality(S) + Cardinality(B) - Cardinality(S \intersect B)
  BY FS_Union
<1>2. IsFiniteSet(T) /\ Cardinality(T) <= Cardinality(S \union B)
  BY <1>1, FS_Subset
<1>3. IsFiniteSet(S \intersect B)
  BY FS_Intersection
<1>4. /\ Cardinality(T) \in Nat /\ Cardinality(S) \in Nat /\ Cardinality(B) \in Nat
      /\ Cardinality(S \intersect B) \in Nat
  BY <1>2, <1>3, FS_CardinalityType
<1> QED BY <1>1, <1>2, <1>4

LEMMA Loses ==
    ASSUME NEW S, IsFiniteSet(S), NEW B, B \subseteq S, NEW T, T \subseteq S \ B
    PROVE  /\ IsFiniteSet(T) /\ IsFiniteSet(B)
           /\ Cardinality(T) \in Nat /\ Cardinality(S) \in Nat /\ Cardinality(B) \in Nat
           /\ Cardinality(T) + Cardinality(B) <= Cardinality(S)
<1>1. /\ IsFiniteSet(S \ B)
      /\ Cardinality(S \ B) = Cardinality(S) - Cardinality(S \intersect B)
  BY FS_Difference
<1>2. S \intersect B = B /\ IsFiniteSet(B)
  BY FS_Subset
<1>3. IsFiniteSet(T) /\ Cardinality(T) <= Cardinality(S \ B)
  BY <1>1, FS_Subset
<1>4. Cardinality(T) \in Nat /\ Cardinality(S) \in Nat /\ Cardinality(B) \in Nat
  BY <1>2, <1>3, FS_CardinalityType
<1>5. Cardinality(S \ B) = Cardinality(S) - Cardinality(B)
  BY <1>1, <1>2
<1>6. Cardinality(T) + Cardinality(B) <= Cardinality(S)
  BY <1>3, <1>4, <1>5
<1> QED BY <1>2, <1>3, <1>4, <1>6

(***************************************************************************)
(* What a step may do to the tokens of a task.                             *)
(***************************************************************************)
SameMessages(t) == /\ placed'[t] = placed[t] /\ queue'[t] = queue[t]
                   /\ crashes' = crashes \/ crashes' = crashes + 1
WorkersLeft(t)  == Working(t)' \subseteq Working(t)

LEMMA BudgetFacts ==
    ASSUME TypeOK
    PROVE  /\ MaxRetries + 1 \in Nat /\ Budget \in Nat /\ MaxRetries + 1 <= Budget
           /\ crashes' = crashes => Budget' = Budget
           /\ crashes' = crashes + 1 => Budget' = Budget + (MaxRetries + 1)
<1> DEFINE m == MaxRetries + 1
<1>1. m \in Nat /\ crashes \in Nat
  BY ConstantsOK DEF TypeOK
<1>2. Budget = m * crashes + m /\ m * crashes \in Nat
  BY <1>1 DEF Budget
<1>3. crashes' = crashes => Budget' = Budget
  BY DEF Budget
<1>4. ASSUME crashes' = crashes + 1 PROVE Budget' = Budget + m
  BY <1>1, <1>4 DEF Budget
<1> QED BY <1>1, <1>2, <1>3, <1>4

LEMMA TokensStay ==
    ASSUME TypeOK, NEW t \in Tasks, Tokens(t), SameMessages(t), WorkersLeft(t)
    PROVE  Tokens(t)'
<1>1. Waiting(t)' = Waiting(t)
  BY DEF SameMessages, Waiting
<1>2. IsFiniteSet(Working(t)') /\ Cardinality(Working(t)') <= Cardinality(Working(t))
  BY FS_Subset DEF Tokens, WorkersLeft
<1>3. /\ placed[t] \in Nat /\ Cardinality(Waiting(t)) \in Nat
      /\ Cardinality(Working(t)) \in Nat /\ Cardinality(Working(t)') \in Nat
  BY <1>2, FS_CardinalityType DEF Tokens, TypeOK
<1>4. Budget' \in Nat /\ Budget \in Nat /\ Budget <= Budget' /\ placed'[t] = placed[t]
  BY BudgetFacts DEF SameMessages
<1> HIDE DEF SameMessages, WorkersLeft
<1> QED BY <1>1, <1>2, <1>3, <1>4 DEF Tokens

LEMMA TokenSpent ==
    ASSUME TypeOK, NEW t \in Tasks, Tokens(t), NEW y \in Working(t),
           Working(t)' \subseteq Working(t) \ {y},
           placed'[t] = placed[t] + 1, crashes' = crashes, queue'[t] = queue[t]
    PROVE  Tokens(t)'
<1>1. Waiting(t)' = Waiting(t)
  BY DEF Waiting
<1>2. /\ IsFiniteSet(Working(t)')
      /\ Cardinality(Working(t)') \in Nat /\ Cardinality(Working(t)) \in Nat
      /\ Cardinality(Working(t)') + Cardinality({y}) <= Cardinality(Working(t))
  <2>1. {y} \subseteq Working(t) /\ IsFiniteSet(Working(t))
    BY DEF Tokens
  <2> QED BY <2>1, Loses
<1>3. Cardinality({y}) = 1
  BY FS_Singleton
<1>4. placed[t] \in Nat /\ Cardinality(Waiting(t)) \in Nat
  BY FS_CardinalityType DEF Tokens, TypeOK
<1>5. Budget' = Budget /\ Budget \in Nat
  BY BudgetFacts
<1> QED BY <1>1, <1>2, <1>3, <1>4, <1>5 DEF Tokens

\* A message is taken: its tokens go to the worker.
LEMMA TokensTaken ==
    ASSUME TypeOK, NEW t \in Tasks, Tokens(t), NEW w \in Workers, NEW r \in Attempts,
           queue[t][r] > 0,
           Waiting(t)' \subseteq Waiting(t) \ OfMessage(r, queue[t][r], r),
           Working(t)' \subseteq Working(t) \union OfWorker(w, r),
           placed'[t] = placed[t], crashes' = crashes
    PROVE  Tokens(t)'
<1>1. queue[t][r] \in Nat /\ r \in Nat /\ r <= MaxRetries + 1
  BY ConstantsOK DEF TypeOK, Attempts
<1> DEFINE A == OfMessage(r, queue[t][r], r)
           B == OfWorker(w, r)
<1>2. IsFiniteSet(A) /\ IsFiniteSet(B) /\ Cardinality(A) = Cardinality(B)
  BY <1>1, MessageTokens, WorkerTokens
<1>3. A \subseteq Waiting(t)
  <2> SUFFICES ASSUME NEW x \in A PROVE x \in Waiting(t)
    OBVIOUS
  <2>1. queue[t][r] \in 1..queue[t][r]
    BY <1>1
  <2> QED BY <2>1 DEF OfMessage, Waiting
<1>4. Waiting(t)' \subseteq Waiting(t) \ A /\ Working(t)' \subseteq Working(t) \union B
  OBVIOUS
<1> HIDE DEF A, B
<1>5. /\ IsFiniteSet(Waiting(t)')
      /\ Cardinality(Waiting(t)') \in Nat /\ Cardinality(Waiting(t)) \in Nat
      /\ Cardinality(A) \in Nat
      /\ Cardinality(Waiting(t)') + Cardinality(A) <= Cardinality(Waiting(t))
  BY <1>3, <1>4, Loses DEF Tokens
<1>6. /\ IsFiniteSet(Working(t)')
      /\ Cardinality(Working(t)') \in Nat /\ Cardinality(Working(t)) \in Nat
      /\ Cardinality(Working(t)') <= Cardinality(Working(t)) + Cardinality(B)
  BY <1>2, <1>4, Gains DEF Tokens
<1>7. Budget' = Budget /\ Budget \in Nat /\ placed[t] \in Nat
  BY BudgetFacts DEF TypeOK
<1> QED BY <1>2, <1>5, <1>6, <1>7 DEF Tokens

\* A worker that asks for a retry gives its tokens to the new message.
LEMMA TokensPassed ==
    ASSUME TypeOK, NEW t \in Tasks, Tokens(t), NEW w \in Workers, NEW r \in Attempts,
           NEW n \in Nat, OfWorker(w, r) \subseteq Working(t),
           Working(t)' \subseteq Working(t) \ OfWorker(w, r),
           Waiting(t)' \subseteq Waiting(t) \union OfMessage(r, n, r),
           placed'[t] = placed[t], crashes' = crashes
    PROVE  Tokens(t)'
<1>1. r \in Nat /\ r <= MaxRetries + 1
  BY ConstantsOK DEF Attempts
<1> DEFINE A == OfMessage(r, n, r)
           B == OfWorker(w, r)
<1>2. IsFiniteSet(A) /\ IsFiniteSet(B) /\ Cardinality(A) = Cardinality(B)
  BY <1>1, MessageTokens, WorkerTokens
<1>4. /\ Working(t)' \subseteq Working(t) \ B /\ Waiting(t)' \subseteq Waiting(t) \union A
      /\ B \subseteq Working(t)
  OBVIOUS
<1> HIDE DEF A, B
<1>5. /\ IsFiniteSet(Working(t)')
      /\ Cardinality(Working(t)') \in Nat /\ Cardinality(Working(t)) \in Nat
      /\ Cardinality(B) \in Nat
      /\ Cardinality(Working(t)') + Cardinality(B) <= Cardinality(Working(t))
  BY <1>4, Loses DEF Tokens
<1>6. /\ IsFiniteSet(Waiting(t)')
      /\ Cardinality(Waiting(t)') \in Nat /\ Cardinality(Waiting(t)) \in Nat
      /\ Cardinality(Waiting(t)') <= Cardinality(Waiting(t)) + Cardinality(A)
  BY <1>2, <1>4, Gains DEF Tokens
<1>7. Budget' = Budget /\ Budget \in Nat /\ placed[t] \in Nat
  BY BudgetFacts DEF TypeOK
<1> QED BY <1>2, <1>5, <1>6, <1>7 DEF Tokens

\* A crash pays for the message it puts back.
LEMMA TokensRenewed ==
    ASSUME TypeOK, NEW t \in Tasks, Tokens(t), NEW r \in Attempts, NEW n \in Nat,
           WorkersLeft(t),
           Waiting(t)' \subseteq Waiting(t) \union OfMessage(r, n, r),
           placed'[t] = placed[t], crashes' = crashes + 1
    PROVE  Tokens(t)'
<1>1. r \in Nat /\ r <= MaxRetries + 1 /\ MaxRetries \in Nat
  BY ConstantsOK DEF Attempts
<1> DEFINE A == OfMessage(r, n, r)
<1>2. IsFiniteSet(A) /\ Cardinality(A) = MaxRetries + 1 - r
  BY <1>1, MessageTokens
<1>3. Waiting(t)' \subseteq Waiting(t) \union A
  OBVIOUS
<1> HIDE DEF A
<1>4. IsFiniteSet(Working(t)') /\ Cardinality(Working(t)') <= Cardinality(Working(t))
  BY FS_Subset DEF Tokens, WorkersLeft
<1>5. Cardinality(Working(t)) \in Nat /\ Cardinality(Working(t)') \in Nat
  BY <1>4, FS_CardinalityType DEF Tokens
<1>6. /\ IsFiniteSet(Waiting(t)')
      /\ Cardinality(Waiting(t)') \in Nat /\ Cardinality(Waiting(t)) \in Nat
      /\ Cardinality(Waiting(t)') <= Cardinality(Waiting(t)) + Cardinality(A)
  BY <1>2, <1>3, Gains DEF Tokens
<1>7. Budget' = Budget + (MaxRetries + 1) /\ Budget \in Nat /\ placed[t] \in Nat
  BY BudgetFacts DEF TypeOK
<1> QED BY <1>1, <1>2, <1>4, <1>5, <1>6, <1>7 DEF Tokens

\* The first message of a task.
LEMMA TokensIssued ==
    ASSUME TypeOK, NEW t \in Tasks, Unstarted(t),
           queue' = [queue EXCEPT ![t][0] = @ + 1],
           placed' = placed, stage' = stage, job' = job, crashes' = crashes
    PROVE  Tokens(t)'
<1>1. 0 \in Attempts /\ 0 \in Nat /\ 1 \in Nat /\ MaxRetries \in Nat
  BY ConstantsOK DEF Attempts
<1>2. \A r \in Attempts : queue'[t][r] = IF r = 0 THEN 1 ELSE 0
  <2>1. \A r \in Attempts : queue[t][r] = 0
    BY DEF Unstarted, Queued, TypeOK
  <2> QED BY <1>1, <2>1 DEF TypeOK
<1>3. Waiting(t)' \subseteq OfMessage(0, 1, 0)
  BY <1>1, <1>2 DEF Waiting, OfMessage, Attempts
<1>4. Working(t)' = {}
  <2>1. \A w \in Workers : stage'[w] = "idle" \/ TaskOf(w)' # t
    BY DEF Unstarted, TaskOf
  <2> QED BY <2>1 DEF Working, MayOrder, MayRetry
<1>5. /\ IsFiniteSet(OfMessage(0, 1, 0))
      /\ Cardinality(OfMessage(0, 1, 0)) = MaxRetries + 1
  <2>1. 0 <= MaxRetries + 1 /\ MaxRetries + 1 - 0 = MaxRetries + 1
    BY <1>1
  <2> QED BY <1>1, <2>1, MessageTokens
<1>6. IsFiniteSet(Waiting(t)') /\ Cardinality(Waiting(t)') <= MaxRetries + 1
  BY <1>3, <1>5, FS_Subset
<1>7. Cardinality(Waiting(t)') \in Nat
  BY <1>6, FS_CardinalityType
<1>8. IsFiniteSet(Working(t)') /\ Cardinality(Working(t)') = 0
  BY <1>4, FS_EmptySet
<1>9. Budget' = Budget /\ Budget \in Nat /\ MaxRetries + 1 <= Budget /\ placed'[t] = 0
  BY BudgetFacts DEF Unstarted
<1> QED BY <1>1, <1>6, <1>7, <1>8, <1>9 DEF Tokens

(***************************************************************************)
(* The steps of a worker.  The other workers keep their tokens.            *)
(***************************************************************************)
LEMMA OthersKeep ==
    ASSUME TypeOK, NEW w \in Workers, WorkerStep(w) \/ Crash(w), NEW t \in Tasks,
           NEW y \in Working(t)', y[1] # w
    PROVE  y \in Working(t)
<1>1. y[1] \in Workers
  BY DEF Working
<1>2. stage'[y[1]] = stage[y[1]] /\ job'[y[1]] = job[y[1]]
  BY <1>1 DEF TypeOK, WorkerStep, Crash, Receive, ReadKeys, ReadBot, ReadFails, FetchBalance,
       OrderAccepted, OrderRejected, OrderAnswerLost, RecordTrade, RecordFails, Cleanup,
       CleanupFails, Publish, PublishFails, Retry, GiveUp, Ack, Goto, Drop
<1> QED BY <1>2 DEF Working, MayOrder, MayRetry, AttemptOf, TaskOf

LEMMA ReceiveTokens ==
    ASSUME TypeOK, NEW w \in Workers, Receive(w), NEW t \in Tasks, Tokens(t)
    PROVE  Tokens(t)'
<1>1. PICK x \in Tasks, r \in Attempts :
         /\ queue[x][r] > 0
         /\ queue' = [queue EXCEPT ![x][r] = @ - 1]
         /\ job' = [job EXCEPT ![w] = <<x, r>>]
  BY DEF Receive
<1>2. /\ placed' = placed /\ crashes' = crashes /\ stage'[w] = "keys"
      /\ TaskOf(w)' = x /\ AttemptOf(w)' = r
  BY <1>1 DEF Receive, TypeOK, TaskOf, AttemptOf, boundVars
<1>3. WorkerStep(w)
  BY DEF WorkerStep
<1>4. CASE t # x
  <2>1. SameMessages(t)
    BY <1>1, <1>2, <1>4 DEF SameMessages, TypeOK
  <2>2. WorkersLeft(t)
    <3> SUFFICES ASSUME NEW y \in Working(t)' PROVE y \in Working(t)
      BY DEF WorkersLeft
    <3>1. y[1] # w
      BY <1>2, <1>4 DEF Working
    <3> QED BY <1>3, <3>1, OthersKeep
  <2> QED BY <2>1, <2>2, TokensStay
<1>5. CASE t = x
  <2>1. /\ queue[t][r] \in Nat /\ queue'[t][r] = queue[t][r] - 1
        /\ \A q \in Attempts : q # r => queue'[t][q] = queue[t][q]
    BY <1>1, <1>5 DEF TypeOK
  <2>2. Waiting(t)' \subseteq Waiting(t) \ OfMessage(r, queue[t][r], r)
    <3> SUFFICES ASSUME NEW z \in Waiting(t)'
                 PROVE  z \in Waiting(t) /\ z \notin OfMessage(r, queue[t][r], r)
      OBVIOUS
    <3>1. /\ z \in Attempts \X Nat \X Attempts /\ z[1] \in Attempts
          /\ z[2] \in 1..queue'[t][z[1]] /\ z[1] <= z[3]
      BY DEF Waiting
    <3>2. CASE z[1] = r
      BY <2>1, <3>1, <3>2 DEF Waiting, OfMessage
    <3>3. CASE z[1] # r
      BY <2>1, <3>1, <3>3 DEF Waiting, OfMessage
    <3> QED BY <3>2, <3>3
  <2>3. Working(t)' \subseteq Working(t) \union OfWorker(w, r)
    <3> SUFFICES ASSUME NEW y \in Working(t)', y[1] = w PROVE y \in OfWorker(w, r)
      BY <1>3, OthersKeep
    <3> QED BY <1>2 DEF Working, OfWorker, MayOrder, MayRetry
  <2> QED BY <1>1, <1>2, <1>5, <2>2, <2>3, TokensTaken
<1> QED BY <1>4, <1>5

\* Steps that make no order and no message.
LEMMA QuietTokens ==
    ASSUME TypeOK, NEW w \in Workers, NEW t \in Tasks, Tokens(t),
           \/ ReadKeys(w) \/ ReadBot(w) \/ ReadFails(w) \/ FetchBalance(w)
           \/ OrderRejected(w) \/ RecordTrade(w) \/ RecordFails(w) \/ Cleanup(w)
           \/ CleanupFails(w) \/ Publish(w) \/ PublishFails(w) \/ GiveUp(w) \/ Ack(w)
    PROVE  Tokens(t)'
<1>1. WorkerStep(w)
  BY DEF WorkerStep
<1>2. queue' = queue /\ placed' = placed /\ crashes' = crashes
  BY DEF ReadKeys, ReadBot, ReadFails, FetchBalance, OrderRejected, RecordTrade, RecordFails,
         Cleanup, CleanupFails, Publish, PublishFails, GiveUp, Ack, boundVars
<1>3. /\ MayOrder(w)' => (MayOrder(w) /\ job'[w] = job[w])
      /\ MayRetry(w)' => ((MayRetry(w) \/ MayOrder(w)) /\ job'[w] = job[w])
  BY DEF TypeOK, MayOrder, MayRetry, ReadKeys, ReadBot, ReadFails, FetchBalance, OrderRejected,
         RecordTrade, RecordFails, Cleanup, CleanupFails, Publish, PublishFails, GiveUp, Ack,
         Goto, Drop, OneOrNone
<1>4. WorkersLeft(t)
  <2> SUFFICES ASSUME NEW y \in Working(t)', y[1] = w PROVE y \in Working(t)
    BY <1>1, OthersKeep DEF WorkersLeft
  <2>1. /\ y \in Workers \X Attempts /\ TaskOf(w)' = t
        /\ \/ MayOrder(w)' /\ AttemptOf(w)' <= y[2]
           \/ MayRetry(w)' /\ AttemptOf(w)' < y[2]
    BY DEF Working, MayOrder, MayRetry, TaskOf, AttemptOf
  <2>2. job'[w] = job[w] /\ TaskOf(w) = t /\ AttemptOf(w)' = AttemptOf(w)
    BY <1>3, <2>1 DEF TaskOf, AttemptOf
  <2>3. stage[w] # "idle"
    BY <1>3, <2>1 DEF MayOrder, MayRetry
  <2>4. AttemptOf(w) \in Nat /\ y[2] \in Nat
    BY <2>1, <2>3, BusyHolds DEF Attempts
  <2>5. \/ MayOrder(w) /\ AttemptOf(w) <= y[2]
        \/ MayRetry(w) /\ AttemptOf(w) < y[2]
    <3>1. CASE MayOrder(w)' /\ AttemptOf(w)' <= y[2]
      BY <1>3, <2>2, <3>1
    <3>2. CASE MayRetry(w)' /\ AttemptOf(w)' < y[2]
      <4>1. AttemptOf(w) < y[2] /\ AttemptOf(w) <= y[2]
        BY <2>2, <2>4, <3>2
      <4> QED BY <1>3, <3>2, <4>1
    <3> QED BY <2>1, <3>1, <3>2
  <2> QED BY <2>1, <2>2, <2>5 DEF Working
<1>5. SameMessages(t)
  BY <1>2 DEF SameMessages
<1> QED BY <1>4, <1>5, TokensStay

LEMMA OrderTokens ==
    ASSUME TypeOK, NEW w \in Workers, NEW t \in Tasks, Tokens(t), t = TaskOf(w),
           OrderAccepted(w) \/ OrderAnswerLost(w)
    PROVE  Tokens(t)'
<1> DEFINE y == <<w, AttemptOf(w)>>
<1>1. WorkerStep(w)
  BY DEF WorkerStep
<1>2. /\ stage[w] = "order" /\ queue' = queue /\ crashes' = crashes /\ job' = job
      /\ placed' = [placed EXCEPT ![t] = @ + 1]
      /\ stage' = [stage EXCEPT ![w] = "record"] \/ stage' = [stage EXCEPT ![w] = "cleanup"]
  BY DEF OrderAccepted, OrderAnswerLost, boundVars, Goto
<1>3. AttemptOf(w) \in Attempts /\ AttemptOf(w) \in Nat
  BY <1>2, BusyHolds DEF Attempts
<1>4. y \in Working(t)
  BY <1>2, <1>3 DEF Working, MayOrder
<1>5. ASSUME NEW z \in Working(t)' PROVE z \in Working(t) /\ z # y
  <2>1. CASE z[1] # w
    BY <1>1, <2>1, OthersKeep
  <2>2. CASE z[1] = w
    <3>1. /\ z \in Workers \X Attempts /\ stage'[w] \in {"record", "cleanup"}
          /\ AttemptOf(w)' = AttemptOf(w)
      BY <1>2 DEF Working, TypeOK, AttemptOf
    <3>2. AttemptOf(w)' < z[2] /\ z[2] \in Nat
      BY <2>2, <3>1 DEF Working, MayOrder, MayRetry, Attempts, AttemptOf
    <3>3. AttemptOf(w) < z[2] /\ AttemptOf(w) <= z[2]
      BY <1>3, <3>1, <3>2
    <3>4. z \in Working(t)
      BY <1>2, <2>2, <3>1, <3>3 DEF Working, MayOrder
    <3>5. z[2] # AttemptOf(w)
      BY <1>3, <3>2, <3>3
    <3> QED BY <3>4, <3>5
  <2> QED BY <2>1, <2>2
<1>6. placed'[t] = placed[t] + 1 /\ queue'[t] = queue[t] /\ Working(t)' \subseteq Working(t) \ {y}
  BY <1>2, <1>5 DEF TypeOK
<1> HIDE DEF y
<1> QED BY <1>2, <1>4, <1>6, TokenSpent

LEMMA RetryTokens ==
    ASSUME TypeOK, NEW w \in Workers, NEW t \in Tasks, Tokens(t), t = TaskOf(w), Retry(w)
    PROVE  Tokens(t)'
<1> DEFINE r == AttemptOf(w) + 1
           n == queue[t][r] + 1
<1>1. WorkerStep(w)
  BY DEF WorkerStep
<1>2. /\ stage[w] = "retry" /\ placed' = placed /\ crashes' = crashes /\ stage'[w] = "ack"
      /\ AttemptOf(w) < MaxRetries /\ queue' = [queue EXCEPT ![t][r] = @ + 1]
  BY DEF Retry, Goto, boundVars, TypeOK
<1>3. r \in Attempts /\ AttemptOf(w) \in Nat
  BY <1>2, BusyHolds, ConstantsOK DEF Attempts
<1>4. n \in Nat /\ queue'[t][r] = n /\ \A q \in Attempts : q # r => queue'[t][q] = queue[t][q]
  BY <1>2, <1>3 DEF TypeOK
<1>5. OfWorker(w, r) \subseteq Working(t)
  <2> SUFFICES ASSUME NEW y \in OfWorker(w, r) PROVE y \in Working(t)
    OBVIOUS
  <2>1. y \in Workers \X Attempts /\ y[1] = w /\ AttemptOf(w) < y[2]
    BY <1>3 DEF OfWorker, Attempts
  <2> QED BY <1>2, <2>1 DEF Working, MayRetry
<1>6. ASSUME NEW y \in Working(t)' PROVE y \in Working(t) /\ y \notin OfWorker(w, r)
  <2>1. y[1] # w
    BY <1>2 DEF Working, MayOrder, MayRetry
  <2> QED BY <1>1, <2>1, OthersKeep DEF OfWorker
<1>7. ASSUME NEW x \in Waiting(t)', x \notin Waiting(t) PROVE x \in OfMessage(r, n, r)
  <2>1. /\ x \in Attempts \X Nat \X Attempts /\ x[1] \in Attempts
        /\ x[2] \in 1..queue'[t][x[1]] /\ x[1] <= x[3]
    BY <1>7 DEF Waiting
  <2>2. x[2] \notin 1..queue[t][x[1]]
    BY <1>7, <2>1 DEF Waiting
  <2>3. x[1] = r
    BY <1>4, <2>1, <2>2
  <2>4. x[2] = n
    <3>1. queue[t][r] \in Nat
      BY <1>3 DEF TypeOK
    <3> QED BY <1>4, <2>1, <2>2, <2>3, <3>1
  <2> QED BY <2>1, <2>3, <2>4 DEF OfMessage
<1>8. /\ Working(t)' \subseteq Working(t) \ OfWorker(w, r)
      /\ Waiting(t)' \subseteq Waiting(t) \union OfMessage(r, n, r)
      /\ placed'[t] = placed[t]
  BY <1>2, <1>6, <1>7
<1> HIDE DEF r, n
<1> QED BY <1>2, <1>3, <1>4, <1>5, <1>8, TokensPassed

LEMMA CrashTokens ==
    ASSUME TypeOK, NEW w \in Workers, NEW t \in Tasks, Tokens(t), t = TaskOf(w), Crash(w)
    PROVE  Tokens(t)'
<1> DEFINE r == AttemptOf(w)
           n == queue[t][r] + 1
<1>2. /\ placed' = placed /\ crashes' = crashes + 1 /\ stage'[w] = "idle"
      /\ queue' = [queue EXCEPT ![t][r] = @ + 1]
  BY DEF Crash, TypeOK
<1>3. r \in Attempts
  BY BusyHolds DEF Crash
<1>4. n \in Nat /\ queue'[t][r] = n /\ \A q \in Attempts : q # r => queue'[t][q] = queue[t][q]
  BY <1>2, <1>3 DEF TypeOK
<1>5. WorkersLeft(t)
  <2> SUFFICES ASSUME NEW y \in Working(t)' PROVE y \in Working(t)
    BY DEF WorkersLeft
  <2>1. y[1] # w
    BY <1>2 DEF Working, MayOrder, MayRetry
  <2> QED BY <2>1, OthersKeep
<1>7. ASSUME NEW x \in Waiting(t)', x \notin Waiting(t) PROVE x \in OfMessage(r, n, r)
  <2>1. /\ x \in Attempts \X Nat \X Attempts /\ x[1] \in Attempts
        /\ x[2] \in 1..queue'[t][x[1]] /\ x[1] <= x[3]
    BY <1>7 DEF Waiting
  <2>2. x[2] \notin 1..queue[t][x[1]]
    BY <1>7, <2>1 DEF Waiting
  <2>3. x[1] = r
    BY <1>4, <2>1, <2>2
  <2>4. x[2] = n
    <3>1. queue[t][r] \in Nat
      BY <1>3 DEF TypeOK
    <3> QED BY <1>4, <2>1, <2>2, <2>3, <3>1
  <2> QED BY <2>1, <2>3, <2>4 DEF OfMessage
<1>8. placed'[t] = placed[t] /\ Waiting(t)' \subseteq Waiting(t) \union OfMessage(r, n, r)
  BY <1>2, <1>7
<1> HIDE DEF r, n
<1> QED BY <1>2, <1>3, <1>4, <1>5, <1>8, TokensRenewed

LEMMA WorkerTokensKept ==
    ASSUME TypeOK, NEW w \in Workers, WorkerStep(w) \/ Crash(w), NEW t \in Tasks, Tokens(t)
    PROVE  Tokens(t)'
<1>1. CASE Receive(w)
  BY <1>1, ReceiveTokens
<1>2. CASE ~Receive(w) /\ t = TaskOf(w)
  BY <1>2, QuietTokens, OrderTokens, RetryTokens, CrashTokens DEF WorkerStep
<1>3. CASE ~Receive(w) /\ t # TaskOf(w)
  <2>1. stage[w] # "idle"
    BY <1>3 DEF WorkerStep, Crash, ReadKeys, ReadBot, ReadFails, FetchBalance,
         OrderAccepted, OrderRejected, OrderAnswerLost, RecordTrade, RecordFails, Cleanup,
         CleanupFails, Publish, PublishFails, Retry, GiveUp, Ack
  <2>2. SameFor(t)
    BY <1>3, <2>1, OtherTasks
  <2>3. crashes' = crashes \/ crashes' = crashes + 1
    BY DEF WorkerStep, Crash, Receive, ReadKeys, ReadBot, ReadFails, FetchBalance,
         OrderAccepted, OrderRejected, OrderAnswerLost, RecordTrade, RecordFails, Cleanup,
         CleanupFails, Publish, PublishFails, Retry, GiveUp, Ack, boundVars
  <2>4. WorkersLeft(t)
    <3> SUFFICES ASSUME NEW y \in Working(t)' PROVE y \in Working(t)
      BY DEF WorkersLeft
    <3>1. stage'[y[1]] # "idle" /\ TaskOf(y[1])' = t /\ y[1] \in Workers
      BY DEF Working, MayOrder, MayRetry
    <3>2. y[1] # w
      BY <1>3, <2>2, <3>1 DEF SameFor
    <3> QED BY <3>2, OthersKeep
  <2> QED BY <2>2, <2>3, <2>4, TokensStay DEF SameFor, SameMessages
<1> QED BY <1>1, <1>2, <1>3

(***************************************************************************)
(* Whatever fails, a task costs at most one order for each header, and as  *)
(* many again for each crash.                                              *)
(***************************************************************************)
THEOREM OrdersBoundedCorrect == Spec => []OrdersBounded
<1>1. Init => TokenInv
  <2> SUFFICES ASSUME Init, NEW t \in Tasks PROVE Tokens(t)
    BY DEF TokenInv
  <2>1. Waiting(t) = {} /\ Working(t) = {} /\ placed[t] = 0 /\ crashes = 0
    BY DEF Init, Waiting, Working, MayOrder, MayRetry
  <2>2. Budget \in Nat
    BY <2>1, ConstantsOK DEF Budget
  <2> QED BY <2>1, <2>2, FS_EmptySet DEF Tokens
<1>2. TypeOK /\ SourceInv /\ TokenInv /\ [Next]_vars => TokenInv'
  <2> SUFFICES ASSUME TypeOK, SourceInv, TokenInv, [Next]_vars, NEW t \in Tasks
               PROVE  Tokens(t)'
    BY DEF TokenInv
  <2>1. Tokens(t)
    BY DEF TokenInv
  <2>2. ASSUME placed' = placed, crashes' = crashes, stage' = stage, job' = job,
               queue'[t] = queue[t]
        PROVE  Tokens(t)'
    <3>1. SameMessages(t) /\ WorkersLeft(t)
      BY <2>2 DEF SameMessages, WorkersLeft, Working, MayOrder, MayRetry, TaskOf, AttemptOf
    <3> QED BY <2>1, <3>1, TokensStay
  <2>3. CASE AccountStep \/ UNCHANGED vars
    <3>1. UNCHANGED <<placed, queue, stage, job, crashes>>
      BY <2>3 DEF AccountStep, ChangeTier, StoreKey, DeleteKey, InvalidateKey, RevalidateKey,
           StartBot, StopBot, UpdateSettings, PollStatus, RacingCreate, AccountChange, vars,
           workerVars
    <3> QED BY <2>2, <3>1
  <2>4. ASSUME NEW s \in Signals, FanOut(s) \/ FanOutFails(s) PROVE Tokens(t)'
    BY <2>2, <2>4 DEF FanOut, FanOutFails, workerVars, boundVars
  <2>5. ASSUME NEW d \in Tasks, Dispatch(d) PROVE Tokens(t)'
    <3>1. /\ placed' = placed /\ crashes' = crashes /\ stage' = stage /\ job' = job
          /\ d \in todo /\ queue' = [queue EXCEPT ![d][0] = @ + 1]
      BY <2>5 DEF Dispatch, workerVars, boundVars
    <3>2. CASE t = d
      <4>1. Unstarted(t)
        BY <3>1, <3>2 DEF SourceInv
      <4> QED BY <3>1, <3>2, <4>1, TokensIssued
    <3>3. CASE t # d
      <4>1. queue'[t] = queue[t]
        BY <3>1, <3>3 DEF TypeOK
      <4> QED BY <2>2, <3>1, <4>1
    <3> QED BY <3>2, <3>3
  <2>6. ASSUME NEW w \in Workers, WorkerStep(w) \/ Crash(w) PROVE Tokens(t)'
    BY <2>1, <2>6, WorkerTokensKept
  <2> QED BY <2>3, <2>4, <2>5, <2>6 DEF Next, FanOutStep
<1>3. TypeOK /\ TokenInv => OrdersBounded
  <2> SUFFICES ASSUME TypeOK, TokenInv, NEW t \in Tasks
               PROVE  placed[t] <= (MaxRetries + 1) * (crashes + 1)
    BY DEF OrdersBounded
  <2>1. Tokens(t) /\ Budget \in Nat /\ placed[t] \in Nat
    BY BudgetFacts DEF TokenInv, TypeOK
  <2>2. Cardinality(Waiting(t)) \in Nat /\ Cardinality(Working(t)) \in Nat
    BY <2>1, FS_CardinalityType DEF Tokens
  <2>3. placed[t] <= Budget
    BY <2>1, <2>2 DEF Tokens
  <2> QED BY <2>3 DEF Budget
<1> QED BY <1>1, <1>2, <1>3, TypeCorrect, SourceInvCorrect, PTL DEF Spec

-----------------------------------------------------------------------------
(***************************************************************************)
(* The contract.  TradeExecution implements TradeContract, for every value *)
(* of its constants.                                                       *)
(***************************************************************************)

(***************************************************************************)
(* Two workers never hold the same order of a task, and what a worker      *)
(* holds is placed and not recorded yet: when it lets go of the order,     *)
(* that order alone changes its state.                                     *)
(***************************************************************************)
Holds(w) == stage[w] = "record"

HandInv ==
    /\ \A w \in Workers :
          Holds(w) => held[w] \in (1..placed[TaskOf(w)]) \ recorded[TaskOf(w)]
    /\ \A v, w \in Workers :
          Holds(v) /\ Holds(w) /\ TaskOf(v) = TaskOf(w) /\ held[v] = held[w] => v = w

(***************************************************************************)
(* The step of one worker leaves the others as they are.                   *)
(***************************************************************************)
Alone(w) == \A v \in Workers \ {w} :
               stage'[v] = stage[v] /\ job'[v] = job[v] /\ held'[v] = held[v]

LEMMA WorkerAlone ==
    ASSUME TypeOK, NEW w \in Workers, WorkerStep(w) \/ Crash(w)
    PROVE  Alone(w)
<1>1. ASSUME NEW st, Goto(w, st) \/ Drop(w, st) PROVE Alone(w)
  BY <1>1 DEF Goto, Drop, Alone, TypeOK
<1>2. CASE Receive(w) \/ OrderAccepted(w) \/ Ack(w) \/ Crash(w)
  BY <1>2 DEF Receive, OrderAccepted, Ack, Crash, Alone, TypeOK
<1>3. CASE \/ ReadKeys(w) \/ ReadBot(w) \/ ReadFails(w) \/ FetchBalance(w)
           \/ OrderRejected(w) \/ OrderAnswerLost(w)
  BY <1>1, <1>3 DEF ReadKeys, ReadBot, ReadFails, FetchBalance, OrderRejected,
                    OrderAnswerLost, OneOrNone
<1>4. CASE \/ RecordTrade(w) \/ RecordFails(w) \/ Cleanup(w) \/ CleanupFails(w)
           \/ Publish(w) \/ PublishFails(w) \/ Retry(w) \/ GiveUp(w)
  BY <1>1, <1>4 DEF RecordTrade, RecordFails, Cleanup, CleanupFails, Publish,
                    PublishFails, Retry, GiveUp
<1> QED BY <1>2, <1>3, <1>4 DEF WorkerStep

(***************************************************************************)
(* What else a step of a worker can do: nothing to orders and hands, place *)
(* an order (with or without getting hold of it), or let go of one.        *)
(***************************************************************************)
Idles(w)   == ~Holds(w) /\ ~Holds(w)' /\ UNCHANGED <<placed, recorded>>
Places(w)  == /\ stage[w] = "order"
              /\ placed' = [placed EXCEPT ![TaskOf(w)] = @ + 1]
              /\ UNCHANGED recorded
              /\ Holds(w)' => TaskOf(w)' = TaskOf(w) /\ held'[w] = placed[TaskOf(w)] + 1
LetsGo(w)  == /\ Holds(w) /\ ~Holds(w)' /\ UNCHANGED placed
              /\ recorded' \in {recorded, [recorded EXCEPT ![TaskOf(w)] = @ \union {held[w]}]}

LEMMA WorkerKinds ==
    ASSUME TypeOK, NEW w \in Workers, WorkerStep(w) \/ Crash(w)
    PROVE  Idles(w) \/ Places(w) \/ LetsGo(w)
<1> USE DEF Holds, Idles, Places, LetsGo
<1>1. ASSUME NEW st, Goto(w, st) \/ Drop(w, st) PROVE stage'[w] = st
  BY <1>1 DEF Goto, Drop, TypeOK
<1>2. CASE Receive(w) \/ Ack(w) \/ Crash(w)
  BY <1>2 DEF Receive, Ack, Crash, TypeOK
<1>3. CASE OrderAccepted(w)
  BY <1>3 DEF OrderAccepted, TypeOK, TaskOf
<1>4. CASE OrderAnswerLost(w)
  BY <1>1, <1>4 DEF OrderAnswerLost
<1>5. CASE RecordTrade(w) \/ RecordFails(w)
  BY <1>1, <1>5 DEF RecordTrade, RecordFails
<1>6. CASE ReadKeys(w) \/ ReadBot(w) \/ ReadFails(w)
  BY <1>1, <1>6 DEF ReadKeys, ReadBot, ReadFails, OneOrNone
<1>7. CASE FetchBalance(w) \/ OrderRejected(w) \/ Cleanup(w) \/ CleanupFails(w)
  BY <1>1, <1>7 DEF FetchBalance, OrderRejected, Cleanup, CleanupFails
<1>8. CASE Publish(w) \/ PublishFails(w) \/ Retry(w) \/ GiveUp(w)
  BY <1>1, <1>8 DEF Publish, PublishFails, Retry, GiveUp
<1> QED BY <1>2, <1>3, <1>4, <1>5, <1>6, <1>7, <1>8 DEF WorkerStep

LEMMA OtherSteps ==
    ASSUME AccountStep \/ FanOutStep \/ UNCHANGED vars
    PROVE  UNCHANGED <<placed, recorded, stage, job, held, faults>>
BY DEF AccountStep, ChangeTier, StoreKey, DeleteKey, InvalidateKey, RevalidateKey,
       StartBot, StopBot, UpdateSettings, PollStatus, RacingCreate, AccountChange,
       FanOutStep, FanOut, FanOutFails, Dispatch, workerVars, vars

LEMMA HandStep ==
    ASSUME TypeOK, NoOrphan, HandInv, NEW w \in Workers,
           Alone(w), Idles(w) \/ Places(w) \/ LetsGo(w)
    PROVE  HandInv'
<1>1. ASSUME NEW v \in Workers \ {w}
      PROVE  /\ Holds(v)' <=> Holds(v)
             /\ TaskOf(v)' = TaskOf(v) /\ held'[v] = held[v]
             /\ Holds(v) => /\ TaskOf(v) \in Tasks /\ placed[TaskOf(v)] \in Nat
                            /\ held[v] \in (1..placed[TaskOf(v)]) \ recorded[TaskOf(v)]
  BY <1>1, BusyHolds DEF Alone, Holds, TaskOf, HandInv, TypeOK
<1>2. \A u, v \in Workers \ {w} :
         Holds(u)' /\ Holds(v)' /\ TaskOf(u)' = TaskOf(v)' /\ held'[u] = held'[v] => u = v
  BY <1>1 DEF HandInv
<1>3. CASE Idles(w)
  BY <1>1, <1>2, <1>3 DEF HandInv, Idles
<1>4. CASE LetsGo(w)
  <2>1. TaskOf(w) \in Tasks
    BY <1>4, BusyHolds DEF LetsGo, Holds
  <2>2. ASSUME NEW v \in Workers \ {w}, Holds(v)
        PROVE  held[v] \notin recorded'[TaskOf(v)]
    <3>1. CASE TaskOf(v) # TaskOf(w)
      BY <1>1, <1>4, <2>1, <2>2, <3>1 DEF LetsGo, TypeOK
    <3>2. CASE TaskOf(v) = TaskOf(w)
      <4>1. held[v] # held[w]
        BY <1>4, <2>2, <3>2 DEF HandInv, LetsGo
      <4> QED BY <1>1, <1>4, <2>1, <2>2, <3>2, <4>1 DEF LetsGo, TypeOK
    <3> QED BY <3>1, <3>2
  <2> QED BY <1>1, <1>2, <1>4, <2>2 DEF HandInv, LetsGo
<1>5. CASE Places(w)
  <2> DEFINE x == TaskOf(w)
  <2>1. x \in Tasks /\ placed[x] \in Nat /\ recorded[x] \subseteq 1..placed[x]
    BY <1>5, BusyHolds DEF Places, TypeOK, NoOrphan
  <2>2. \A t \in Tasks : placed'[t] = IF t = x THEN placed[x] + 1 ELSE placed[t]
    BY <1>5, <2>1 DEF Places, TypeOK
  <2>3. recorded' = recorded
    BY <1>5 DEF Places
  <2>4. ASSUME NEW v \in Workers \ {w}, Holds(v)
        PROVE  held'[v] \in (1..placed'[TaskOf(v)']) \ recorded'[TaskOf(v)']
    BY <1>1, <2>1, <2>2, <2>3, <2>4
  <2>5. Holds(w)' => /\ TaskOf(w)' = x /\ held'[w] = placed[x] + 1
                     /\ held'[w] \in (1..placed'[x]) \ recorded'[x]
    BY <1>5, <2>1, <2>2, <2>3 DEF Places
  <2>6. \A v \in Workers \ {w} : Holds(v)' /\ Holds(w)' /\ TaskOf(v)' = x => held'[v] # held'[w]
    BY <1>1, <2>1, <2>5
  <2> HIDE DEF x
  <2>7. ASSUME NEW v \in Workers, Holds(v)'
        PROVE  held'[v] \in (1..placed'[TaskOf(v)']) \ recorded'[TaskOf(v)']
    BY <1>1, <2>4, <2>5, <2>7
  <2>8. ASSUME NEW u \in Workers, NEW v \in Workers, Holds(u)', Holds(v)',
               TaskOf(u)' = TaskOf(v)', held'[u] = held'[v]
        PROVE  u = v
    BY <1>2, <2>5, <2>6, <2>8
  <2> QED BY <2>7, <2>8 DEF HandInv
<1> QED BY <1>3, <1>4, <1>5

LEMMA HandInvCorrect == Spec => []HandInv
<1>1. Init => HandInv
  BY DEF Init, HandInv, Holds
<1>2. TypeOK /\ NoOrphan /\ HandInv /\ [Next]_vars => HandInv'
  <2> SUFFICES ASSUME TypeOK, NoOrphan, HandInv, [Next]_vars PROVE HandInv'
    OBVIOUS
  <2>1. CASE AccountStep \/ FanOutStep \/ UNCHANGED vars
    BY <2>1, OtherSteps DEF HandInv, Holds, TaskOf
  <2>2. ASSUME NEW w \in Workers, WorkerStep(w) \/ Crash(w) PROVE HandInv'
    BY <2>2, WorkerAlone, WorkerKinds, HandStep
  <2> QED BY <2>1, <2>2 DEF Next
<1> QED BY <1>1, <1>2, TypeCorrect, NoOrphanCorrect, PTL DEF Spec

-----------------------------------------------------------------------------
(***************************************************************************)
(* The refinement mapping: the sequence of the states of a task's orders.  *)
(***************************************************************************)
LEMMA MappingTyped ==
    ASSUME TypeOK, NEW t \in Tasks
    PROVE  /\ placed[t] \in Nat
           /\ OrderStates[t] \in Seq(Contract!OrderState)
           /\ Len(OrderStates[t]) = placed[t]
           /\ DOMAIN OrderStates[t] = 1..placed[t]
           /\ placed[t] = 0 => OrderStates[t] = <<>>
<1>1. placed[t] \in Nat
  BY DEF TypeOK
<1>2. OrderStates[t] \in [1..placed[t] -> Contract!OrderState]
  BY DEF OrderStates, Contract!OrderState
<1> QED BY <1>1, <1>2

LEMMA AppendIs ==
    ASSUME NEW S, NEW n \in Nat, NEW f \in [1..n -> S], NEW s \in S,
           NEW g \in [1..(n + 1) -> S],
           \A k \in 1..n : g[k] = f[k], g[n + 1] = s
    PROVE  g = Append(f, s)
<1>1. f \in Seq(S) /\ Len(f) = n
  OBVIOUS
<1>2. Append(f, s) \in [1..(n + 1) -> S]
  <2>1. Append(f, s) \in Seq(S) /\ Len(Append(f, s)) = n + 1
    BY <1>1
  <2> QED BY <2>1, LenProperties
<1>3. \A k \in 1..(n + 1) : Append(f, s)[k] = g[k]
  BY <1>1
<1> QED BY <1>2, <1>3

(***************************************************************************)
(* What OrderStates says of the order k of t.                              *)
(***************************************************************************)
LEMMA StateIs ==
    ASSUME TypeOK, HandInv, NoOrphan, NEW t \in Tasks
    PROVE  \A k \in 1..placed[t] :
              /\ k \in recorded[t] => OrderStates[t][k] = "recorded"
              /\ k \notin recorded[t] /\ InHand(t, k) => OrderStates[t][k] = "inflight"
              /\ k \notin recorded[t] /\ ~InHand(t, k) => OrderStates[t][k] = "lost"
BY DEF OrderStates

(***************************************************************************)
(* A task no step is about keeps its orders.                               *)
(***************************************************************************)
LEMMA SameStates ==
    ASSUME TypeOK, TypeOK', NEW t \in Tasks,
           placed'[t] = placed[t], recorded'[t] = recorded[t],
           \A k \in 1..placed[t] : InHand(t, k)' <=> InHand(t, k)
    PROVE  OrderStates'[t] = OrderStates[t]
BY DEF OrderStates

LEMMA OthersHands ==
    ASSUME TypeOK, NEW w \in Workers, Alone(w), NEW t \in Tasks, NEW k \in Nat,
           Holds(w) => ~(TaskOf(w) = t /\ held[w] = k),
           Holds(w)' => ~(TaskOf(w)' = t /\ held'[w] = k)
    PROVE  InHand(t, k)' <=> InHand(t, k)
BY DEF InHand, Holds, Alone, TaskOf

(***************************************************************************)
(* Which task a step of a worker may mark as handed out again.             *)
(***************************************************************************)
LEMMA RepeatedStep ==
    ASSUME TypeOK, NEW w \in Workers, WorkerStep(w) \/ Crash(w)
    PROVE  /\ Repeated' \in {Repeated, Repeated \union {TaskOf(w)}}
           /\ Repeated' # Repeated => stage[w] # "idle"
           /\ Places(w) => Repeated' = Repeated
<1>1. ASSUME NEW k \in FaultKinds, Blame(w, k), stage[w] # "idle"
      PROVE  /\ Repeated' \in {Repeated, Repeated \union {TaskOf(w)}}
             /\ k \notin RepeatFaults => Repeated' = Repeated
  <2>1. TaskOf(w) \in Tasks
    BY <1>1, BusyHolds
  <2>2. \A t \in Tasks : faults'[t] = IF t = TaskOf(w) THEN faults[t] \union {k} ELSE faults[t]
    BY <1>1, <2>1 DEF Blame, TypeOK
  <2>3. CASE k \in RepeatFaults
    BY <2>1, <2>2, <2>3 DEF Repeated
  <2>4. CASE k \notin RepeatFaults
    BY <2>2, <2>4 DEF Repeated
  <2> QED BY <2>3, <2>4
<1>2. CASE UNCHANGED faults
  BY <1>2 DEF Repeated
<1>3. CASE OrderAnswerLost(w) \/ RecordFails(w)
  <2>1. \E k \in {"answer", "commit"} : Blame(w, k) /\ stage[w] # "idle"
    BY <1>3 DEF OrderAnswerLost, RecordFails
  <2> QED BY <1>1, <2>1 DEF FaultKinds, RepeatFaults
<1>4. CASE CleanupFails(w) \/ PublishFails(w)
  <2>1. \E k \in FaultKinds : Blame(w, k) /\ stage[w] # "idle" /\ stage[w] # "order"
    BY <1>4 DEF CleanupFails, PublishFails, FaultKinds
  <2> QED BY <1>1, <2>1 DEF Places
<1>5. CASE Crash(w)
  <2>1. CASE stage[w] \in PastOrder
    BY <1>1, <1>5, <2>1 DEF Crash, FaultKinds, Places, PastOrder
  <2>2. CASE stage[w] \notin PastOrder
    BY <1>2, <1>5, <2>2 DEF Crash
  <2> QED BY <2>1, <2>2
<1>6. CASE \/ Receive(w) \/ ReadKeys(w) \/ ReadBot(w) \/ ReadFails(w) \/ FetchBalance(w)
           \/ OrderAccepted(w) \/ OrderRejected(w) \/ RecordTrade(w) \/ Cleanup(w)
           \/ Publish(w) \/ Retry(w) \/ GiveUp(w) \/ Ack(w)
  BY <1>2, <1>6 DEF Receive, ReadKeys, ReadBot, ReadFails, FetchBalance, OrderAccepted,
                    OrderRejected, RecordTrade, Cleanup, Publish, Retry, GiveUp, Ack
<1> QED BY <1>3, <1>4, <1>5, <1>6 DEF WorkerStep

-----------------------------------------------------------------------------
(***************************************************************************)
(* The three kinds of steps of a worker are steps of the contract.         *)
(***************************************************************************)
LEMMA IdleSimulated ==
    ASSUME TypeOK, TypeOK', NEW w \in Workers, WorkerStep(w) \/ Crash(w), Idles(w)
    PROVE  [Contract!CNext]_(Contract!cvars)
<1>1. OrderStates' = OrderStates
  <2>1. ASSUME NEW t \in Tasks
        PROVE  OrderStates'[t] = OrderStates[t]
    <3>1. \A k \in 1..placed[t] : InHand(t, k)' <=> InHand(t, k)
      BY WorkerAlone, OthersHands DEF Idles
    <3> QED BY <3>1, SameStates DEF Idles
  <2> QED BY <2>1 DEF OrderStates
<1>2. CASE Repeated' = Repeated
  BY <1>1, <1>2 DEF Contract!cvars
<1>3. CASE Repeated' # Repeated
  <2>1. TaskOf(w) \in Tasks
    BY <1>3, RepeatedStep, BusyHolds
  <2>2. Contract!Repeat(TaskOf(w))
    BY <1>1, <1>3, RepeatedStep DEF Contract!Repeat, Contract!MayRepeat
  <2> QED BY <2>1, <2>2 DEF Contract!CNext
<1> QED BY <1>2, <1>3

LEMMA PlaceSimulated ==
    ASSUME TypeOK, TypeOK', NoOrphan, HandInv, SourceInv, NEW w \in Workers,
           WorkerStep(w) \/ Crash(w), Places(w)
    PROVE  [Contract!CNext]_(Contract!cvars)
<1>0. PICK x, n : x = TaskOf(w) /\ n = placed[x]
  OBVIOUS
<1> DEFINE s == IF Holds(w)' THEN "inflight" ELSE "lost"
<1>1. /\ x \in Tasks /\ n \in Nat /\ recorded[x] \subseteq 1..n
      /\ recorded' = recorded /\ stage[w] = "order"
      /\ \A t \in Tasks : placed'[t] = IF t = x THEN n + 1 ELSE placed[t]
  <2>1. x \in Tasks /\ n \in Nat /\ recorded[x] \subseteq 1..n
    BY <1>0, BusyHolds DEF Places, TypeOK, NoOrphan
  <2> QED BY <1>0, <2>1 DEF Places, TypeOK
<1>2. Alone(w) /\ ~Holds(w)
  BY WorkerAlone, <1>1 DEF Holds
<1>3. Holds(w)' => TaskOf(w)' = x /\ held'[w] = n + 1
  BY <1>0 DEF Places
<1>4. \A t \in Tasks, k \in Nat : t # x \/ k # n + 1 => (InHand(t, k)' <=> InHand(t, k))
  BY <1>2, <1>3, OthersHands
<1>5. InHand(x, n + 1)' <=> Holds(w)'
  <2>1. Holds(w)' => InHand(x, n + 1)'
    BY <1>3 DEF InHand, Holds
  <2>2. ASSUME NEW v \in Workers \ {w}
        PROVE  ~(Holds(v)' /\ TaskOf(v)' = x /\ held'[v] = n + 1)
    <3>1. (Holds(v)' <=> Holds(v)) /\ TaskOf(v)' = TaskOf(v) /\ held'[v] = held[v]
      BY <1>2 DEF Alone, Holds, TaskOf
    <3>2. Holds(v) /\ TaskOf(v) = x => held[v] \in 1..n
      BY <1>0 DEF HandInv
    <3> QED BY <3>1, <3>2, <1>1
  <2> QED BY <2>1, <2>2 DEF InHand, Holds
<1>6. \A t \in Tasks \ {x} : OrderStates'[t] = OrderStates[t]
  BY <1>1, <1>4, SameStates, MappingTyped
<1>7. OrderStates'[x] = Append(OrderStates[x], s)
  <2>1. /\ OrderStates'[x] = [k \in 1..(n + 1) |->
                IF k \in recorded[x] THEN "recorded"
                ELSE IF InHand(x, k)' THEN "inflight" ELSE "lost"]
        /\ OrderStates[x] = [k \in 1..n |->
                IF k \in recorded[x] THEN "recorded"
                ELSE IF InHand(x, k) THEN "inflight" ELSE "lost"]
    BY <1>0, <1>1 DEF OrderStates
  <2>2. \A k \in 1..n : OrderStates'[x][k] = OrderStates[x][k]
    BY <2>1, <1>1, <1>4
  <2>3. OrderStates'[x][n + 1] = s
    BY <2>1, <1>1, <1>5
  <2>4. /\ OrderStates[x] \in [1..n -> Contract!OrderState]
        /\ OrderStates'[x] \in [1..(n + 1) -> Contract!OrderState]
        /\ s \in Contract!OrderState
    BY <2>1 DEF Contract!OrderState
  <2> HIDE DEF s
  <2> QED BY <1>1, <2>2, <2>3, <2>4, AppendIs
<1>8. OrderStates' = [OrderStates EXCEPT ![x] = Append(@, s)]
  <2>1. OrderStates' = [t \in Tasks |-> OrderStates'[t]] /\ OrderStates = [t \in Tasks |-> OrderStates[t]]
    BY DEF OrderStates
  <2> HIDE DEF s
  <2> QED BY <2>1, <1>6, <1>7
<1>9. OrderStates[x] = <<>> \/ x \in Repeated
  <2>1. CASE Clean(x)
    <3>1. Pending(w, x)
      BY <1>0, <1>1 DEF Pending, BeforeOrder
    <3>2. n = 0
      BY <1>0, <1>1, <2>1, <3>1 DEF SourceInv, OneSource
    <3> QED BY <1>0, <1>1, <3>2, MappingTyped
  <2>2. CASE ~Clean(x)
    BY <1>1, <2>2 DEF Clean, Repeated
  <2> QED BY <2>1, <2>2
<1>10. Contract!Place(x)
  BY <1>8, <1>9, RepeatedStep DEF Contract!Place
<1> QED BY <1>1, <1>10 DEF Contract!CNext

LEMMA LetGoSimulated ==
    ASSUME TypeOK, TypeOK', NoOrphan, HandInv, NEW w \in Workers,
           WorkerStep(w) \/ Crash(w), LetsGo(w)
    PROVE  [Contract!CNext]_(Contract!cvars)
<1>0. PICK x, h : x = TaskOf(w) /\ h = held[w]
  OBVIOUS
<1> DEFINE s == IF h \in recorded'[x] THEN "recorded" ELSE "lost"
<1>1. x \in Tasks /\ h \in (1..placed[x]) \ recorded[x] /\ Holds(w) /\ ~Holds(w)'
  BY <1>0, BusyHolds DEF LetsGo, Holds, HandInv
<1>2. /\ placed' = placed /\ placed[x] \in Nat
      /\ \A t \in Tasks \ {x} : recorded'[t] = recorded[t]
      /\ \A k \in Nat \ {h} : k \in recorded'[x] <=> k \in recorded[x]
  BY <1>0, <1>1 DEF LetsGo, TypeOK
<1>3. Alone(w)
  BY WorkerAlone
<1>4. \A t \in Tasks, k \in Nat : t # x \/ k # h => (InHand(t, k)' <=> InHand(t, k))
  BY <1>0, <1>1, <1>3, OthersHands
<1>5. InHand(x, h) /\ ~InHand(x, h)'
  <2>1. InHand(x, h)
    BY <1>0, <1>1 DEF InHand, Holds
  <2>2. ASSUME NEW v \in Workers
        PROVE  ~(Holds(v)' /\ TaskOf(v)' = x /\ held'[v] = h)
    <3>1. CASE v = w
      BY <1>1, <3>1
    <3>2. CASE v # w
      <4>1. (Holds(v)' <=> Holds(v)) /\ TaskOf(v)' = TaskOf(v) /\ held'[v] = held[v]
        BY <1>3, <3>2 DEF Alone, Holds, TaskOf
      <4> QED BY <1>0, <1>1, <3>2, <4>1 DEF HandInv
    <3> QED BY <3>1, <3>2
  <2> QED BY <2>1, <2>2 DEF InHand, Holds
<1>6. \A t \in Tasks \ {x} : OrderStates'[t] = OrderStates[t]
  BY <1>2, <1>4, SameStates, MappingTyped
<1>7. /\ OrderStates[x][h] = "inflight"
      /\ OrderStates'[x] = [OrderStates[x] EXCEPT ![h] = s]
  <2>1. /\ OrderStates'[x] = [k \in 1..placed[x] |->
                IF k \in recorded'[x] THEN "recorded"
                ELSE IF InHand(x, k)' THEN "inflight" ELSE "lost"]
        /\ OrderStates[x] = [k \in 1..placed[x] |->
                IF k \in recorded[x] THEN "recorded"
                ELSE IF InHand(x, k) THEN "inflight" ELSE "lost"]
    BY <1>1, <1>2 DEF OrderStates
  <2>2. OrderStates[x][h] = "inflight"
    BY <2>1, <1>1, <1>5
  <2>3. OrderStates'[x][h] = s
    BY <2>1, <1>1, <1>5
  <2>4. \A k \in (1..placed[x]) \ {h} : OrderStates'[x][k] = OrderStates[x][k]
    BY <2>1, <1>1, <1>2, <1>4
  <2>5. /\ DOMAIN OrderStates'[x] = 1..placed[x] /\ DOMAIN OrderStates[x] = 1..placed[x]
        /\ OrderStates'[x] = [k \in 1..placed[x] |-> OrderStates'[x][k]]
        /\ OrderStates[x] = [k \in 1..placed[x] |-> OrderStates[x][k]]
    BY <2>1
  <2> HIDE DEF s
  <2> QED BY <2>2, <2>3, <2>4, <2>5
<1>8. OrderStates' = [OrderStates EXCEPT ![x][h] = s]
  <2>1. OrderStates' = [t \in Tasks |-> OrderStates'[t]] /\ OrderStates = [t \in Tasks |-> OrderStates[t]]
    BY DEF OrderStates
  <2> HIDE DEF s
  <2> QED BY <2>1, <1>6, <1>7
<1>9. h \in DOMAIN OrderStates[x] /\ s \in {"recorded", "lost"}
  BY <1>1, MappingTyped
<1>10. Contract!MayRepeat(x)
  BY <1>0, RepeatedStep DEF Contract!MayRepeat
<1>11. Contract!Settle(x)
  <2> HIDE DEF s
  <2> QED BY <1>7, <1>8, <1>9, <1>10 DEF Contract!Settle
<1> QED BY <1>1, <1>11 DEF Contract!CNext

-----------------------------------------------------------------------------
(***************************************************************************)
(* The orders of every task follow the contract, for every number of       *)
(* users, signals, workers, retries and crashes: a task places a second    *)
(* order only after it was handed out again behind an order step, and an   *)
(* order once recorded or lost stays so (execute_for_user, the retry of    *)
(* execute_signal_for_user, task_acks_late).                               *)
(***************************************************************************)
THEOREM ContractImplemented == Spec => ImplementsContract
<1>1. Init => Contract!CInit
  <2> SUFFICES ASSUME Init PROVE Contract!CInit
    OBVIOUS
  <2>1. OrderStates = [t \in Tasks |-> <<>>]
    BY DEF Init, OrderStates
  <2>2. Repeated = {}
    BY DEF Init, Repeated
  <2> QED BY <2>1, <2>2 DEF Contract!CInit
<1>2. /\ TypeOK /\ TypeOK' /\ NoOrphan /\ HandInv /\ SourceInv
      /\ [Next]_vars
      => [Contract!CNext]_(Contract!cvars)
  <2> SUFFICES ASSUME TypeOK, TypeOK', NoOrphan, HandInv, SourceInv, [Next]_vars
               PROVE  [Contract!CNext]_(Contract!cvars)
    OBVIOUS
  <2>1. CASE AccountStep \/ FanOutStep \/ UNCHANGED vars
    BY <2>1, OtherSteps DEF OrderStates, Repeated, InHand, TaskOf, Contract!cvars
  <2>2. ASSUME NEW w \in Workers, WorkerStep(w) \/ Crash(w)
        PROVE  [Contract!CNext]_(Contract!cvars)
    BY <2>2, WorkerKinds, IdleSimulated, PlaceSimulated, LetGoSimulated
  <2> QED BY <2>1, <2>2 DEF Next
<1> QED
  BY <1>1, <1>2, TypeCorrect, NoOrphanCorrect, HandInvCorrect, SourceInvCorrect, PTL
     DEF Spec, ImplementsContract, Contract!CSpec
=============================================================================
