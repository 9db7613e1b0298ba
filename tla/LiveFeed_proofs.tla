--------------------------- MODULE LiveFeed_proofs ---------------------------
(***************************************************************************)
(* Proofs about LiveFeed, for any number of users, sockets, senders and    *)
(* failures of Redis: the type invariant and the four safety properties.   *)
(* All of them follow from what PhaseInv says of one socket, and from what *)
(* TableInv says of the table.                                             *)
(***************************************************************************)
EXTENDS LiveFeed, TLAPS

-----------------------------------------------------------------------------
(***************************************************************************)
(* Of one socket.  Its client is unused until it is opened; its subscriber *)
(* is made when it is accepted; nobody cancels it before the finally block *)
(* and nobody leaves the block before it has ended.                        *)
(***************************************************************************)
Early(s)    == endpoint[s] \in {"new", "lookup", "accept"}
Ending(s)   == endpoint[s] \in {"await", "leave", "done"}
Working(s)  == subscriber[s] \in {"created", "subscribe", "listen", "send"}

SocketOK(s) ==
    /\ endpoint[s] = "new" <=> client[s] = "unused"
    /\ Early(s) => subscriber[s] = "none"
    /\ cancelled[s] => Ending(s)
    /\ endpoint[s] \in {"leave", "done"} => subscriber[s] \in {"none", "ended"}
    /\ raised[s] => subscriber[s] = "ended" /\ faults > 0
    /\ Serving(s) /\ client[s] = "open" /\ faults = 0 => Working(s)

PhaseInv == /\ \A s \in Sockets : SocketOK(s)
            /\ redis = "down" => faults > 0

(***************************************************************************)
(* Of a socket and the table.                                              *)
(***************************************************************************)
EntryOK(s) ==
    /\ Early(s) => ~Listed(s)
    /\ Serving(s) /\ client[s] = "open" => Listed(s)
    /\ endpoint[s] = "done" /\ Listed(s) => raised[s]

TableInv == \A s \in Sockets : EntryOK(s)

IInv == TypeOK /\ PhaseInv /\ TableInv

-----------------------------------------------------------------------------
LEMMA InitHolds == ASSUME Init PROVE IInv
<1>1. TypeOK
  BY ConstantsOK DEF Init, TypeOK, EndpointSteps, SubscriberSteps
<1>2. PhaseInv
  BY DEF Init, PhaseInv, SocketOK, Early, Ending, Working, Serving
<1>3. TableInv
  BY ConstantsOK DEF Init, TableInv, EntryOK, Early, Serving, Listed
<1> QED BY <1>1, <1>2, <1>3 DEF IInv

(***************************************************************************)
(* A socket whose variables do not change keeps what is said of it, as     *)
(* long as a failure of Redis is not forgotten.                            *)
(***************************************************************************)
SameSocket(g) ==
    /\ client'[g] = client[g] /\ endpoint'[g] = endpoint[g]
    /\ subscriber'[g] = subscriber[g] /\ cancelled'[g] = cancelled[g]
    /\ raised'[g] = raised[g]

LEMMA SameSocketOK ==
    ASSUME TypeOK, NEW g \in Sockets, SocketOK(g), SameSocket(g),
           faults' = faults
    PROVE  SocketOK(g)'
BY DEF SocketOK, SameSocket, Early, Ending, Working, Serving

LEMMA SameEntryOK ==
    ASSUME NEW g \in Sockets, EntryOK(g), SameSocket(g), Listed(g)' <=> Listed(g)
    PROVE  EntryOK(g)'
BY DEF EntryOK, SameSocket, Early, Serving

(***************************************************************************)
(* The types, one group of actions at a time.                              *)
(***************************************************************************)
LEMMA EndpointTyped ==
    ASSUME IInv, NEW s \in Sockets, EndpointStep(s)
    PROVE  TypeOK'
<1> USE DEF IInv, TypeOK, EndpointSteps, senderVars
<1>0. client[s] # "unused" \/ endpoint[s] = "new"
  BY DEF PhaseInv, SocketOK
<1>1. CASE Refuse(s) \/ AcceptFails(s) \/ JoinRaises(s)
  BY <1>1 DEF Refuse, AcceptFails, JoinRaises, Return, Goto
<1>2. CASE Authorise(s) \/ Send(s) \/ SendFails(s) \/ NoticeHangUp(s) \/ JoinSubscriber(s)
  BY <1>2 DEF Authorise, Send, SendFails, NoticeHangUp, JoinSubscriber, Goto
<1>3. CASE Connect(s)
  <2>1. UserOf[s] \in Users
    BY ConstantsOK
  <2> QED BY <1>3, <2>1 DEF Connect, Add, SubscriberSteps
<1>4. CASE CancelSubscriber(s)
  BY <1>4 DEF CancelSubscriber
<1>5. CASE Disconnect(s)
  <2>1. UserOf[s] \in Users
    BY ConstantsOK
  <2> QED BY <1>5, <2>1 DEF Disconnect, Remove
<1> QED BY <1>1, <1>2, <1>3, <1>4, <1>5 DEF EndpointStep

LEMMA SubscriberTyped ==
    ASSUME IInv, NEW s \in Sockets, SubscriberStep(s)
    PROVE  TypeOK'
<1> USE DEF IInv, TypeOK, SubscriberSteps, Move, senderVars
<1>1. CASE Begin(s) \/ Subscribe(s) \/ Listen(s) \/ ListenFails(s)
  BY <1>1 DEF Begin, Subscribe, Listen, ListenFails
<1>2. CASE Forward(s) \/ ForwardFails(s) \/ Interrupt(s) \/ InterruptCleanup(s)
  BY <1>2 DEF Forward, ForwardFails, Interrupt, InterruptCleanup
<1>3. CASE Unsubscribe(s) \/ CloseRedis(s)
  BY <1>3 DEF Unsubscribe, CloseRedis
<1> QED BY <1>1, <1>2, <1>3 DEF SubscriberStep

LEMMA ClientTyped ==
    ASSUME IInv, NEW s \in Sockets, ClientStep(s)
    PROVE  TypeOK'
<1> USE DEF IInv, TypeOK, EndpointSteps, senderVars
<1>1. CASE Open(s)
  BY <1>1 DEF Open, PhaseInv, SocketOK
<1>2. CASE HangUp(s)
  BY <1>2 DEF HangUp
<1>3. CASE ReceiveMessage(s) \/ ReceiveFails(s)
  BY <1>3 DEF ReceiveMessage, ReceiveFails, Goto
<1> QED BY <1>1, <1>2, <1>3 DEF ClientStep

LEMMA SenderTyped ==
    ASSUME IInv, NEW c \in Senders, SenderStep(c)
    PROVE  TypeOK'
<1> USE DEF IInv, TypeOK, socketVars
<1>1. ASSUME NEW t \in Users \union {"all"}, StartSend(c, t)
      PROVE  TypeOK'
  <2>1. UNION {connections[u] : u \in IF t = "all" THEN Users ELSE {t}} \subseteq Sockets
    OBVIOUS
  <2> QED BY <1>1, <2>1 DEF StartSend
<1>2. CASE SendOne(c)
  BY <1>2 DEF SendOne
<1>3. CASE EndSend(c)
  BY <1>3 DEF EndSend, Remove
<1> QED BY <1>1, <1>2, <1>3 DEF SenderStep

RedisStep == (\E u \in Users : Publish(u)) \/ RedisFails \/ RedisRecovers

LEMMA RedisTyped ==
    ASSUME IInv, RedisStep
    PROVE  TypeOK'
<1> USE DEF IInv, TypeOK, socketVars, senderVars
<1>1. ASSUME NEW u \in Users, Publish(u)
      PROVE  TypeOK'
  <2>1. pending' \in [Sockets -> BOOLEAN]
    BY <1>1, Zenon DEF Publish, Subscribed
  <2> QED BY <1>1, <2>1 DEF Publish
<1>2. CASE RedisFails
  BY <1>2 DEF RedisFails
<1>3. CASE RedisRecovers
  BY <1>3 DEF RedisRecovers
<1> QED BY <1>1, <1>2, <1>3 DEF RedisStep

-----------------------------------------------------------------------------
(***************************************************************************)
(* The phases.  An action is about one socket; what it does to that one is *)
(* shown action by action, the others are unchanged.                       *)
(***************************************************************************)
LEMMA PhaseOf ==
    ASSUME IInv, NEW s \in Sockets, SocketOK(s)',
           \A g \in Sockets \ {s} : SameSocket(g), UNCHANGED <<faults, redis>>
    PROVE  PhaseInv'
<1>1. ASSUME NEW g \in Sockets
      PROVE  SocketOK(g)'
  <2>1. CASE g = s
    BY <2>1
  <2>2. CASE g # s
    BY <2>2, SameSocketOK DEF IInv, PhaseInv
  <2> QED BY <2>1, <2>2
<1> QED BY <1>1 DEF IInv, PhaseInv

LEMMA EndpointPhase ==
    ASSUME IInv, NEW s \in Sockets, EndpointStep(s)
    PROVE  PhaseInv'
<1> USE DEF IInv, PhaseInv, SocketOK, TypeOK, Early, Ending, Working, Serving, SameSocket
<1>1. CASE Refuse(s) \/ AcceptFails(s) \/ JoinRaises(s)
  BY <1>1, PhaseOf DEF Refuse, AcceptFails, JoinRaises, Return, Goto
<1>2. CASE Authorise(s) \/ JoinSubscriber(s)
  BY <1>2, PhaseOf DEF Authorise, JoinSubscriber, Goto
<1>3. CASE Send(s) \/ SendFails(s) \/ NoticeHangUp(s)
  BY <1>3, PhaseOf DEF Send, SendFails, NoticeHangUp, Goto
<1>4. CASE Connect(s)
  BY <1>4, PhaseOf DEF Connect
<1>5. CASE CancelSubscriber(s)
  BY <1>5, PhaseOf DEF CancelSubscriber
<1>6. CASE Disconnect(s)
  BY <1>6, PhaseOf DEF Disconnect
<1> QED BY <1>1, <1>2, <1>3, <1>4, <1>5, <1>6 DEF EndpointStep

LEMMA SubscriberPhase ==
    ASSUME IInv, NEW s \in Sockets, SubscriberStep(s)
    PROVE  PhaseInv'
<1> USE DEF IInv, PhaseInv, SocketOK, TypeOK, Early, Ending, Working, Serving, SameSocket, Move
<1>1. CASE Begin(s) \/ Subscribe(s)
  BY <1>1, PhaseOf DEF Begin, Subscribe
<1>2. CASE Listen(s) \/ ListenFails(s)
  BY <1>2, PhaseOf DEF Listen, ListenFails
<1>3. CASE Forward(s) \/ ForwardFails(s)
  BY <1>3, PhaseOf DEF Forward, ForwardFails
<1>4. CASE Interrupt(s)
  BY <1>4, PhaseOf DEF Interrupt
<1>5. CASE InterruptCleanup(s)
  BY <1>5, PhaseOf DEF InterruptCleanup
<1>6. CASE Unsubscribe(s)
  BY <1>6, PhaseOf DEF Unsubscribe
<1>7. CASE CloseRedis(s)
  BY <1>7, PhaseOf DEF CloseRedis
<1> QED BY <1>1, <1>2, <1>3, <1>4, <1>5, <1>6, <1>7 DEF SubscriberStep

LEMMA ClientPhase ==
    ASSUME IInv, NEW s \in Sockets, ClientStep(s)
    PROVE  PhaseInv'
<1> USE DEF IInv, PhaseInv, SocketOK, TypeOK, Early, Ending, Working, Serving, SameSocket
<1>1. CASE Open(s)
  BY <1>1, PhaseOf DEF Open
<1>2. CASE HangUp(s)
  BY <1>2, PhaseOf DEF HangUp
<1>3. CASE ReceiveMessage(s) \/ ReceiveFails(s)
  BY <1>3, PhaseOf DEF ReceiveMessage, ReceiveFails, Goto
<1> QED BY <1>1, <1>2, <1>3 DEF ClientStep

LEMMA OthersPhase ==
    ASSUME IInv, RedisStep \/ (\E c \in Senders : SenderStep(c))
    PROVE  PhaseInv'
<1>1. /\ UNCHANGED <<client, endpoint, subscriber, cancelled, raised>>
      /\ faults' = faults \/ faults' = faults + 1
      /\ redis' = "down" => redis = "down" \/ faults' = faults + 1
  BY DEF RedisStep, Publish, RedisFails, RedisRecovers, SenderStep, StartSend, SendOne, EndSend,
         socketVars
<1>2. faults \in Nat
  BY DEF IInv, TypeOK
<1> QED BY <1>1, <1>2 DEF IInv, PhaseInv, SocketOK, Early, Ending, Working, Serving

-----------------------------------------------------------------------------
(***************************************************************************)
(* The table.                                                              *)
(***************************************************************************)
LEMMA TableOf ==
    ASSUME IInv, NEW s \in Sockets, EntryOK(s)',
           \A g \in Sockets \ {s} : SameSocket(g) /\ (Listed(g)' <=> Listed(g))
    PROVE  TableInv'
<1>1. ASSUME NEW g \in Sockets \ {s}
      PROVE  EntryOK(g)'
  BY <1>1, SameEntryOK DEF IInv, TableInv
<1> QED BY <1>1 DEF TableInv

LEMMA EndpointTable ==
    ASSUME IInv, NEW s \in Sockets, EndpointStep(s)
    PROVE  TableInv'
<1> USE DEF IInv, TableInv, EntryOK, TypeOK, Early, Serving, SameSocket
<1>0. \A g \in Sockets : UserOf[g] \in Users
  BY ConstantsOK
<1>1. CASE UNCHANGED connections
  <2>1. \A g \in Sockets : Listed(g)' <=> Listed(g)
    BY <1>1 DEF Listed
  <2>2. CASE Refuse(s) \/ AcceptFails(s)
    BY <2>1, <2>2, TableOf DEF Refuse, AcceptFails, Return, Goto
  <2>3. CASE JoinRaises(s)
    BY <2>1, <2>3, TableOf DEF JoinRaises, Return, Goto
  <2>4. CASE Authorise(s) \/ JoinSubscriber(s)
    BY <2>1, <2>4, TableOf DEF Authorise, JoinSubscriber, Goto
  <2>5. CASE Send(s) \/ SendFails(s) \/ NoticeHangUp(s)
    BY <2>1, <2>5, TableOf DEF Send, SendFails, NoticeHangUp, Goto
  <2>6. CASE CancelSubscriber(s)
    BY <2>1, <2>6, TableOf DEF CancelSubscriber
  <2>7. CASE Connect(s)
    <3>1. Listed(s)'
      BY <1>0, <2>7 DEF Connect, Add, Listed
    <3> QED BY <2>1, <2>7, <3>1, TableOf DEF Connect
  <2>8. CASE Disconnect(s)
    <3>1. ~Listed(s)'
      BY <1>0, <2>8 DEF Disconnect, Remove, Listed
    <3> QED BY <2>1, <2>8, <3>1, TableOf DEF Disconnect
  <2> QED BY <2>2, <2>3, <2>4, <2>5, <2>6, <2>7, <2>8 DEF EndpointStep
<1>2. CASE Connect(s)
  <2>1. Listed(s)'
    BY <1>0, <1>2 DEF Connect, Add, Listed
  <2>2. \A g \in Sockets \ {s} : Listed(g)' <=> Listed(g)
    BY <1>0, <1>2 DEF Connect, Add, Listed
  <2> QED BY <1>2, <2>1, <2>2, TableOf DEF Connect
<1>3. CASE Disconnect(s)
  <2>1. ~Listed(s)'
    BY <1>0, <1>3 DEF Disconnect, Remove, Listed
  <2>2. \A g \in Sockets \ {s} : Listed(g)' <=> Listed(g)
    BY <1>0, <1>3 DEF Disconnect, Remove, Listed
  <2> QED BY <1>3, <2>1, <2>2, TableOf DEF Disconnect
<1>4. UNCHANGED connections \/ Connect(s) \/ Disconnect(s)
  BY DEF EndpointStep, Refuse, AcceptFails, JoinRaises, Return, Goto, Authorise, JoinSubscriber,
         Send, SendFails, NoticeHangUp, CancelSubscriber
<1> QED BY <1>1, <1>2, <1>3, <1>4

LEMMA SubscriberTable ==
    ASSUME IInv, NEW s \in Sockets, SubscriberStep(s)
    PROVE  TableInv'
<1>1. /\ UNCHANGED <<client, endpoint, connections>>
      /\ \A g \in Sockets \ {s} : raised'[g] = raised[g]
      /\ raised'[s] = raised[s] \/ subscriber[s] = "unsubscribe"
  BY DEF SubscriberStep, Begin, Subscribe, Listen, ListenFails, Forward, ForwardFails, Interrupt,
         InterruptCleanup, Unsubscribe, CloseRedis, Move, IInv, TypeOK
<1>2. subscriber[s] = "unsubscribe" => endpoint[s] # "done"
  BY DEF IInv, PhaseInv, SocketOK
<1> QED BY <1>1, <1>2 DEF IInv, TableInv, EntryOK, Early, Serving, Listed

LEMMA ClientTable ==
    ASSUME IInv, NEW s \in Sockets, ClientStep(s)
    PROVE  TableInv'
<1> USE DEF IInv, TableInv, EntryOK, TypeOK, Early, Serving, SameSocket, Listed
<1>1. CASE Open(s)
  BY <1>1 DEF Open
<1>2. CASE HangUp(s)
  BY <1>2 DEF HangUp
<1>3. CASE ReceiveMessage(s) \/ ReceiveFails(s)
  BY <1>3 DEF ReceiveMessage, ReceiveFails, Goto
<1> QED BY <1>1, <1>2, <1>3 DEF ClientStep

(***************************************************************************)
(* A sender takes out of the table only sockets a send failed on, and      *)
(* those are gone: here the type invariant is what matters.                *)
(***************************************************************************)
LEMMA SenderTable ==
    ASSUME IInv, NEW c \in Senders, SenderStep(c)
    PROVE  TableInv'
<1>1. UNCHANGED <<client, endpoint, raised>>
  BY DEF SenderStep, StartSend, SendOne, EndSend, socketVars
<1>2. ASSUME NEW g \in Sockets
      PROVE  /\ Listed(g)' => Listed(g)
             /\ Listed(g) /\ ~Listed(g)' => client[g] = "gone"
  <2>1. UserOf[g] \in Users
    BY ConstantsOK
  <2>2. CASE EndSend(c) /\ broken[c] # {}
    BY <2>1, <2>2 DEF EndSend, Remove, Listed, IInv, TypeOK
  <2>3. CASE UNCHANGED connections
    BY <2>3 DEF Listed
  <2> QED BY <2>2, <2>3 DEF SenderStep, StartSend, SendOne, EndSend
<1> QED BY <1>1, <1>2 DEF IInv, TableInv, EntryOK, Early, Serving

LEMMA RedisTable ==
    ASSUME IInv, RedisStep
    PROVE  TableInv'
BY DEF RedisStep, Publish, RedisFails, RedisRecovers, socketVars, IInv, TableInv, EntryOK, Early,
       Serving, Listed

-----------------------------------------------------------------------------
LEMMA StepHolds ==
    ASSUME IInv, [Next]_vars
    PROVE  IInv'
<1>1. ASSUME NEW s \in Sockets, EndpointStep(s)
      PROVE  IInv'
  BY <1>1, EndpointTyped, EndpointPhase, EndpointTable DEF IInv
<1>2. ASSUME NEW s \in Sockets, SubscriberStep(s)
      PROVE  IInv'
  BY <1>2, SubscriberTyped, SubscriberPhase, SubscriberTable DEF IInv
<1>3. ASSUME NEW s \in Sockets, ClientStep(s)
      PROVE  IInv'
  BY <1>3, ClientTyped, ClientPhase, ClientTable DEF IInv
<1>4. ASSUME NEW c \in Senders, SenderStep(c)
      PROVE  IInv'
  BY <1>4, SenderTyped, OthersPhase, SenderTable DEF IInv
<1>5. CASE RedisStep
  BY <1>5, RedisTyped, OthersPhase, RedisTable DEF IInv
<1>6. CASE UNCHANGED vars
  BY <1>6 DEF vars, IInv, TypeOK, PhaseInv, TableInv, SocketOK, EntryOK, Early, Ending, Working,
              Serving, Listed
<1> QED BY <1>1, <1>2, <1>3, <1>4, <1>5, <1>6 DEF Next, RedisStep

LEMMA Invariant == Spec => []IInv
BY InitHolds, StepHolds, PTL DEF Spec

(***************************************************************************)
(* Every reachable state is well typed, and a sender gives up only sockets *)
(* whose far end is gone.                                                  *)
(***************************************************************************)
THEOREM LiveFeedTypeCorrect == Spec => []TypeOK
<1>1. IInv => TypeOK
  BY DEF IInv
<1> QED BY <1>1, Invariant, PTL

(***************************************************************************)
(* A socket that is served and open is in the table (ws.py:40-82).         *)
(***************************************************************************)
THEOREM LiveSocketsListedCorrect == Spec => []LiveSocketsListed
<1>1. IInv => LiveSocketsListed
  BY DEF IInv, TableInv, EntryOK, LiveSocketsListed
<1> QED BY <1>1, Invariant, PTL

(***************************************************************************)
(* A socket that is over stays in the table only after a failure of Redis  *)
(* that its subscriber met in its clean-up (ws.py:197-201, 328-334).       *)
(***************************************************************************)
THEOREM StaleOnlyAfterRedisCorrect == Spec => []StaleOnlyAfterRedis
<1>1. IInv => StaleOnlyAfterRedis
  BY DEF IInv, TableInv, EntryOK, PhaseInv, SocketOK, StaleOnlyAfterRedis
<1> QED BY <1>1, Invariant, PTL

(***************************************************************************)
(* No subscriber outlives its endpoint (ws.py:328-334).                    *)
(***************************************************************************)
THEOREM SubscriberEndsFirstCorrect == Spec => []SubscriberEndsFirst
<1>1. IInv => SubscriberEndsFirst
  BY DEF IInv, PhaseInv, SocketOK, SubscriberEndsFirst
<1> QED BY <1>1, Invariant, PTL

(***************************************************************************)
(* Until Redis fails, an open socket that is served has its subscriber at  *)
(* work (ws.py:157-196).                                                   *)
(***************************************************************************)
THEOREM FeedRunsCorrect == Spec => []FeedRuns
<1>1. IInv => FeedRuns
  BY DEF IInv, PhaseInv, SocketOK, Working, FeedRuns
<1> QED BY <1>1, Invariant, PTL
=============================================================================
