------------------------------- MODULE LiveFeed -------------------------------
(***************************************************************************)
(* The live feed of api/routes/ws.py in one server process: the endpoint   *)
(* of each WebSocket, the Redis subscriber task it starts, the table of    *)
(* connections, and the two senders that go through the table.             *)
(*                                                                         *)
(* Everything runs on one event loop: what a coroutine does between two    *)
(* awaits is one step.  The lock of the table is held across no await, so  *)
(* each of its blocks is a part of such a step.                            *)
(***************************************************************************)
EXTENDS Naturals, FiniteSets

CONSTANTS
    Users,
    Sockets,      \* WebSocket connections, in the order they are asked for
    UserOf,       \* the user of the token each was opened with
    Senders,      \* callers of send_to_user and broadcast
    MaxSends,     \* bound: calls of send_to_user and broadcast
    MaxFaults     \* bound: failures of Redis

ASSUME ConstantsOK ==
    /\ UserOf \in [Sockets -> Users]
    /\ {"idle", "all"} \intersect Users = {}
    /\ MaxSends \in Nat /\ MaxFaults \in Nat

EndpointSteps == {"new", "lookup", "accept", "send", "receive", "cancel", "await",
                  "leave", "done"}
SubscriberSteps == {"none", "created", "subscribe", "listen", "send", "unsubscribe", "close",
                    "ended"}

VARIABLES
    client,      \* the far end of each socket: unused, open or gone
    endpoint,    \* where dashboard_websocket is, for each socket
    subscriber,  \* where _redis_subscriber is
    cancelled,   \* a cancellation that has not reached the subscriber yet
    raised,      \* the subscriber ended with an exception other than that
    pending,     \* Redis holds a message for the subscriber
    connections, \* the table: the sockets of each user (none: no entry)
    redis,       \* whether Redis answers
    \* send_to_user and broadcast
    target,      \* for each sender: idle, a user, or everybody
    todo,        \* sockets of its copy it has not sent to yet
    broken,      \* sockets a send failed on
    \* bounds
    sends, faults

socketVars == <<client, endpoint, subscriber, cancelled, raised, pending>>
senderVars == <<target, todo, broken, sends>>
vars == <<client, endpoint, subscriber, cancelled, raised, pending, connections, redis,
          target, todo, broken, sends, faults>>

Init ==
    /\ client = [s \in Sockets |-> "unused"]
    /\ endpoint = [s \in Sockets |-> "new"]
    /\ subscriber = [s \in Sockets |-> "none"]
    /\ cancelled = [s \in Sockets |-> FALSE]
    /\ raised = [s \in Sockets |-> FALSE]
    /\ pending = [s \in Sockets |-> FALSE]
    /\ connections = [u \in Users |-> {}]
    /\ redis = "up"
    /\ target = [c \in Senders |-> "idle"]
    /\ todo = [c \in Senders |-> {}]
    /\ broken = [c \in Senders |-> {}]
    /\ sends = 0 /\ faults = 0

-----------------------------------------------------------------------------
(***************************************************************************)
(* The table.                                                              *)
(***************************************************************************)
Listed(s) == s \in connections[UserOf[s]]

Add(u, s) == connections' = [connections EXCEPT ![u] = @ \union {s}]

\* Variant for a mutation check: the entry goes with the first socket.
RemoveEntry(u, gone) == connections' = [connections EXCEPT ![u] = {}]

Remove(u, gone) == connections' = [connections EXCEPT ![u] = @ \ gone]

-----------------------------------------------------------------------------
(***************************************************************************)
(* The far end (external).                                                 *)
(***************************************************************************)
Open(s) ==
    /\ endpoint[s] = "new"
    /\ client' = [client EXCEPT ![s] = "open"]
    /\ endpoint' = [endpoint EXCEPT ![s] = "lookup"]
    /\ UNCHANGED <<subscriber, cancelled, raised, pending, connections, redis, senderVars, faults>>

HangUp(s) ==
    /\ client[s] = "open"
    /\ client' = [client EXCEPT ![s] = "gone"]
    /\ UNCHANGED <<endpoint, subscriber, cancelled, raised, pending, connections, redis,
                   senderVars, faults>>

-----------------------------------------------------------------------------
(***************************************************************************)
(* dashboard_websocket.                                                    *)
(***************************************************************************)
Goto(s, step) ==
    /\ endpoint' = [endpoint EXCEPT ![s] = step]
    /\ UNCHANGED <<subscriber, cancelled, raised, pending, connections, redis, senderVars, faults>>

\* The endpoint returns: the server closes the socket.
Return(s) == /\ Goto(s, "done")
             /\ client' = [client EXCEPT ![s] = "gone"]

\* No valid access token, no such user, or a tier without the dashboard.
Refuse(s) == /\ endpoint[s] = "lookup"
             /\ Return(s)

\* Variant for a mutation check: the socket is listed before it is accepted.
AuthoriseListed(s) ==
    /\ endpoint[s] = "lookup"
    /\ endpoint' = [endpoint EXCEPT ![s] = "accept"]
    /\ Add(UserOf[s], s)
    /\ UNCHANGED <<client, subscriber, cancelled, raised, pending, redis, senderVars, faults>>

Authorise(s) == /\ endpoint[s] = "lookup"
                /\ Goto(s, "accept")
                /\ UNCHANGED client

\* manager.connect raises while the socket is accepted.
AcceptFails(s) == /\ endpoint[s] = "accept" /\ client[s] = "gone"
                  /\ Return(s)

\* The rest of manager.connect and create_task follow without an await.
Connect(s) ==
    /\ endpoint[s] = "accept" /\ client[s] = "open"
    /\ Add(UserOf[s], s)
    /\ endpoint' = [endpoint EXCEPT ![s] = "send"]
    /\ subscriber' = [subscriber EXCEPT ![s] = "created"]
    /\ UNCHANGED <<client, cancelled, raised, pending, redis, senderVars, faults>>

\* The confirmation, or the answer to a message.  It may be sent into the void.
Send(s) == /\ endpoint[s] = "send"
           /\ Goto(s, "receive")
           /\ UNCHANGED client

SendFails(s) == /\ endpoint[s] = "send" /\ client[s] = "gone"
                /\ Goto(s, "cancel")
                /\ UNCHANGED client

ReceiveMessage(s) == /\ endpoint[s] = "receive" /\ client[s] = "open"
                     /\ Goto(s, "send")
                     /\ UNCHANGED client

\* A message that is no JSON object raises.
ReceiveFails(s) == /\ endpoint[s] = "receive" /\ client[s] = "open"
                   /\ Goto(s, "cancel")
                   /\ UNCHANGED client

\* Seen by the receive, or by the ping when a minute has passed.
NoticeHangUp(s) == /\ endpoint[s] = "receive" /\ client[s] = "gone"
                   /\ Goto(s, "cancel")
                   /\ UNCHANGED client

\* Variant for a mutation check: the task is awaited and not cancelled.
CancelNothing(s) == /\ endpoint[s] = "cancel"
                    /\ Goto(s, "await")
                    /\ UNCHANGED client

\* The finally block.  Cancelling a task that has ended does nothing.
CancelSubscriber(s) ==
    /\ endpoint[s] = "cancel"
    /\ endpoint' = [endpoint EXCEPT ![s] = "await"]
    /\ cancelled' = [cancelled EXCEPT ![s] = subscriber[s] # "ended"]
    /\ UNCHANGED <<client, subscriber, raised, pending, connections, redis, senderVars, faults>>

\* Variant for a mutation check: the task is cancelled and not awaited.
LeaveAtOnce(s) == /\ endpoint[s] = "await"
                  /\ Goto(s, "leave")
                  /\ UNCHANGED client

JoinSubscriber(s) == /\ endpoint[s] = "await"
                     /\ subscriber[s] = "ended" /\ ~raised[s]
                     /\ Goto(s, "leave")
                     /\ UNCHANGED client

\* Only CancelledError is caught: the exception of the task ends the endpoint here.
JoinRaises(s) == /\ endpoint[s] = "await"
                 /\ subscriber[s] = "ended" /\ raised[s]
                 /\ Return(s)

Disconnect(s) ==
    /\ endpoint[s] = "leave"
    /\ Remove(UserOf[s], {s})
    /\ endpoint' = [endpoint EXCEPT ![s] = "done"]
    /\ client' = [client EXCEPT ![s] = "gone"]
    /\ UNCHANGED <<subscriber, cancelled, raised, pending, redis, senderVars, faults>>

-----------------------------------------------------------------------------
(***************************************************************************)
(* _redis_subscriber.  An exception in its body is logged and leads to the *)
(* finally block; one in the finally block ends the task with it.          *)
(***************************************************************************)
Move(s, step) ==
    /\ subscriber' = [subscriber EXCEPT ![s] = step]
    /\ UNCHANGED <<client, endpoint, connections, redis, senderVars, faults>>

Begin(s) == /\ subscriber[s] = "created" /\ ~cancelled[s]
            /\ Move(s, "subscribe")
            /\ UNCHANGED <<cancelled, raised, pending>>

Subscribe(s) == /\ subscriber[s] = "subscribe" /\ ~cancelled[s]
                /\ Move(s, IF redis = "up" THEN "listen" ELSE "unsubscribe")
                /\ UNCHANGED <<cancelled, raised, pending>>

Listen(s) == /\ subscriber[s] = "listen" /\ ~cancelled[s] /\ pending[s]
             /\ Move(s, "send")
             /\ pending' = [pending EXCEPT ![s] = FALSE]
             /\ UNCHANGED <<cancelled, raised>>

ListenFails(s) == /\ subscriber[s] = "listen" /\ ~cancelled[s] /\ redis = "down"
                  /\ Move(s, "unsubscribe")
                  /\ UNCHANGED <<cancelled, raised, pending>>

\* Variant for a mutation check: a message that cannot be parsed ends the loop, too.
ForwardBreaks(s) == /\ subscriber[s] = "send" /\ ~cancelled[s]
                    /\ Move(s, "unsubscribe")
                    /\ UNCHANGED <<cancelled, raised, pending>>

Forward(s) == /\ subscriber[s] = "send" /\ ~cancelled[s]
              /\ Move(s, "listen")
              /\ UNCHANGED <<cancelled, raised, pending>>

ForwardFails(s) == /\ subscriber[s] = "send" /\ ~cancelled[s] /\ client[s] = "gone"
                   /\ Move(s, "unsubscribe")
                   /\ UNCHANGED <<cancelled, raised, pending>>

\* CancelledError is raised where the task waits.  In the body it is swallowed.
Interrupt(s) ==
    /\ cancelled[s] /\ subscriber[s] \in {"created", "subscribe", "listen", "send"}
    /\ Move(s, IF subscriber[s] = "created" THEN "ended" ELSE "unsubscribe")
    /\ cancelled' = [cancelled EXCEPT ![s] = FALSE]
    /\ UNCHANGED <<raised, pending>>

\* In the finally block it ends the task, with what is left of the block undone.
InterruptCleanup(s) ==
    /\ cancelled[s] /\ subscriber[s] \in {"unsubscribe", "close"}
    /\ Move(s, "ended")
    /\ cancelled' = [cancelled EXCEPT ![s] = FALSE]
    /\ pending' = [pending EXCEPT ![s] = FALSE]
    /\ UNCHANGED raised

\* Without Redis unsubscribe raises.
Unsubscribe(s) ==
    /\ subscriber[s] = "unsubscribe" /\ ~cancelled[s]
    /\ Move(s, IF redis = "up" THEN "close" ELSE "ended")
    /\ raised' = [raised EXCEPT ![s] = redis = "down"]
    /\ pending' = [pending EXCEPT ![s] = FALSE]
    /\ UNCHANGED cancelled

CloseRedis(s) == /\ subscriber[s] = "close" /\ ~cancelled[s]
                 /\ Move(s, "ended")
                 /\ UNCHANGED <<cancelled, raised, pending>>

-----------------------------------------------------------------------------
(***************************************************************************)
(* Redis (external): messages reach the subscribers that listen; a failure *)
(* drops what it held for them.                                            *)
(***************************************************************************)
Subscribed(s) == subscriber[s] \in {"listen", "send"}

Publish(u) ==
    /\ redis = "up"
    /\ \E s \in Sockets : UserOf[s] = u /\ Subscribed(s)
    /\ pending' = [s \in Sockets |-> pending[s] \/ (UserOf[s] = u /\ Subscribed(s))]
    /\ UNCHANGED <<client, endpoint, subscriber, cancelled, raised, connections, redis, senderVars,
                   faults>>

RedisFails ==
    /\ redis = "up" /\ faults < MaxFaults
    /\ redis' = "down"
    /\ faults' = faults + 1
    /\ pending' = [s \in Sockets |-> FALSE]
    /\ UNCHANGED <<client, endpoint, subscriber, cancelled, raised, connections, senderVars>>

RedisRecovers ==
    /\ redis = "down"
    /\ redis' = "up"
    /\ UNCHANGED <<socketVars, connections, senderVars, faults>>

-----------------------------------------------------------------------------
(***************************************************************************)
(* send_to_user and broadcast: a copy of the table is taken, the sends are *)
(* awaited one by one, and send_to_user then removes what it failed on.    *)
(***************************************************************************)
StartSend(c, t) ==
    /\ target[c] = "idle" /\ sends < MaxSends
    /\ sends' = sends + 1
    /\ target' = [target EXCEPT ![c] = t]
    /\ todo' = [todo EXCEPT ![c] = UNION {connections[u] : u \in IF t = "all" THEN Users ELSE {t}}]
    /\ UNCHANGED <<socketVars, connections, redis, broken, faults>>

\* Variant for a mutation check: a send that takes too long counts as failed.
SendOneSlow(c) ==
    /\ target[c] # "idle"
    /\ \E s \in todo[c] :
          /\ todo' = [todo EXCEPT ![c] = @ \ {s}]
          /\ UNCHANGED broken \/ broken' = [broken EXCEPT ![c] = @ \union {s}]
    /\ UNCHANGED <<socketVars, connections, redis, target, sends, faults>>

SendOne(c) ==
    /\ target[c] # "idle"
    /\ \E s \in todo[c] :
          /\ todo' = [todo EXCEPT ![c] = @ \ {s}]
          /\ \/ UNCHANGED broken
             \/ /\ client[s] = "gone" /\ target[c] # "all"
                /\ broken' = [broken EXCEPT ![c] = @ \union {s}]
    /\ UNCHANGED <<socketVars, connections, redis, target, sends, faults>>

EndSend(c) ==
    /\ target[c] # "idle" /\ todo[c] = {}
    /\ IF broken[c] # {} THEN Remove(target[c], broken[c]) ELSE UNCHANGED connections
    /\ target' = [target EXCEPT ![c] = "idle"]
    /\ broken' = [broken EXCEPT ![c] = {}]
    /\ UNCHANGED <<socketVars, redis, todo, sends, faults>>

-----------------------------------------------------------------------------
EndpointStep(s) ==
    \/ Refuse(s) \/ Authorise(s) \/ AcceptFails(s) \/ Connect(s) \/ Send(s)
    \/ SendFails(s) \/ NoticeHangUp(s) \/ CancelSubscriber(s) \/ JoinSubscriber(s) \/ JoinRaises(s)
    \/ Disconnect(s)

SubscriberStep(s) ==
    \/ Begin(s) \/ Subscribe(s) \/ Listen(s) \/ ListenFails(s) \/ Forward(s)
    \/ ForwardFails(s) \/ Interrupt(s) \/ InterruptCleanup(s) \/ Unsubscribe(s) \/ CloseRedis(s)

ClientStep(s) == Open(s) \/ HangUp(s) \/ ReceiveMessage(s) \/ ReceiveFails(s)

SenderStep(c) == \/ \E t \in Users \union {"all"} : StartSend(c, t)
                 \/ SendOne(c) \/ EndSend(c)

Next == \/ \E s \in Sockets : EndpointStep(s) \/ SubscriberStep(s) \/ ClientStep(s)
        \/ \E u \in Users : Publish(u)
        \/ \E c \in Senders : SenderStep(c)
        \/ RedisFails \/ RedisRecovers

Spec == Init /\ [][Next]_vars

(***************************************************************************)
(* The event loop runs every coroutine that can go on.  Clients, Redis and *)
(* the callers of the table do what they like.                             *)
(***************************************************************************)
FairSpec == /\ Spec
            /\ \A s \in Sockets : WF_vars(EndpointStep(s)) /\ WF_vars(SubscriberStep(s))

-----------------------------------------------------------------------------
Serving(s) == endpoint[s] \in {"send", "receive"}

TypeOK ==
    /\ client \in [Sockets -> {"unused", "open", "gone"}]
    /\ endpoint \in [Sockets -> EndpointSteps]
    /\ subscriber \in [Sockets -> SubscriberSteps]
    /\ cancelled \in [Sockets -> BOOLEAN] /\ raised \in [Sockets -> BOOLEAN]
    /\ pending \in [Sockets -> BOOLEAN]
    /\ connections \in [Users -> SUBSET Sockets]
    /\ \A u \in Users, s \in Sockets : s \in connections[u] => UserOf[s] = u
    /\ redis \in {"up", "down"}
    /\ target \in [Senders -> Users \union {"idle", "all"}]
    /\ todo \in [Senders -> SUBSET Sockets] /\ broken \in [Senders -> SUBSET Sockets]
    /\ \A c \in Senders, s \in Sockets : s \in broken[c] => client[s] = "gone"
    /\ sends \in Nat /\ faults \in Nat

(***************************************************************************)
(* A socket that is being served and still open is in the table, whatever  *)
(* other sockets of its user come and go and whatever send_to_user has     *)
(* removed meanwhile (ws.py:40-82).                                        *)
(***************************************************************************)
LiveSocketsListed ==
    \A s \in Sockets : Serving(s) /\ client[s] = "open" => Listed(s)

(***************************************************************************)
(* A socket that is over stays in the table only if the clean-up of its    *)
(* subscriber raised, which takes a failure of Redis (ws.py:197-201,       *)
(* 328-334).                                                               *)
(***************************************************************************)
StaleOnlyAfterRedis ==
    \A s \in Sockets : endpoint[s] = "done" /\ Listed(s) => raised[s] /\ faults > 0

(***************************************************************************)
(* No subscriber outlives its endpoint: the table entry is given up only   *)
(* when nothing can be sent to the socket any more (ws.py:328-334).        *)
(***************************************************************************)
SubscriberEndsFirst ==
    \A s \in Sockets : endpoint[s] \in {"leave", "done"} => subscriber[s] \in {"none", "ended"}

(***************************************************************************)
(* As long as Redis has not failed, an open socket that is being served    *)
(* has its subscriber at work: only then is its feed not silent            *)
(* (ws.py:157-196).                                                        *)
(***************************************************************************)
FeedRuns ==
    \A s \in Sockets :
        Serving(s) /\ client[s] = "open" /\ faults = 0
            => subscriber[s] \in {"created", "subscribe", "listen", "send"}

(***************************************************************************)
(* A socket whose far end is gone comes to its end, and so does its        *)
(* subscriber, wherever the cancellation meets it and whether Redis        *)
(* answers or not (ws.py:324-334).                                         *)
(***************************************************************************)
ClosedSocketsEnd ==
    \A s \in Sockets :
        client[s] = "gone" ~> endpoint[s] = "done" /\ subscriber[s] \in {"none", "ended"}

===============================================================================
