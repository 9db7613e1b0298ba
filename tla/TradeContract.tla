--------------------------- MODULE TradeContract ---------------------------
(***************************************************************************)
(* What the rest of the platform may rely on about the orders the trade    *)
(* workers place for one dispatched task, whatever the queue, the workers  *)
(* and the database do in between:                                         *)
(*   - a task places its first order freely, and a further one only after  *)
(*     it has been handed out again behind an order it may have placed;    *)
(*   - an order is "inflight" until the execution that placed it ends, and *)
(*     ends either "recorded" (a row of the trades table) or "lost" (the   *)
(*     exchange has it, the platform does not); both are final.            *)
(* TradeExecution is shown to implement this module.                       *)
(***************************************************************************)
EXTENDS Naturals, Sequences

CONSTANT Tasks      \* the dispatched units of work

VARIABLES
    orders,         \* orders[t]: the state of each order of t, oldest first
    repeated        \* the tasks handed out again after their order step

cvars == <<orders, repeated>>

OrderState == {"inflight", "recorded", "lost"}

ContractTypeOK == /\ orders \in [Tasks -> Seq(OrderState)]
                  /\ repeated \subseteq Tasks

CInit == /\ orders = [t \in Tasks |-> <<>>]
         /\ repeated = {}

(***************************************************************************)
(* A step that ends or repeats an execution of t may put t back to work.   *)
(***************************************************************************)
MayRepeat(t) == repeated' \in {repeated, repeated \union {t}}

Place(t) == /\ orders[t] = <<>> \/ t \in repeated
            /\ \E s \in {"inflight", "lost"} :
                  orders' = [orders EXCEPT ![t] = Append(@, s)]
            /\ UNCHANGED repeated

Settle(t) == /\ \E k \in DOMAIN orders[t], s \in {"recorded", "lost"} :
                   /\ orders[t][k] = "inflight"
                   /\ orders' = [orders EXCEPT ![t][k] = s]
             /\ MayRepeat(t)

Repeat(t) == /\ MayRepeat(t)
             /\ UNCHANGED orders

CNext == \E t \in Tasks : Place(t) \/ Settle(t) \/ Repeat(t)

CSpec == CInit /\ [][CNext]_cvars
=============================================================================
