------------------------- MODULE MCTradeExecution -------------------------
(***************************************************************************)
(* TradeExecution on small instances: the values of its constants.         *)
(***************************************************************************)
EXTENDS TradeExecution, TLC

CONSTANTS u1, u2, s1, s2, p1, p2, w1, w2

OnePair  == [s \in Signals |-> p1]
TwoPairs == [s \in Signals |-> IF s = s1 THEN p1 ELSE p2]

ProOnly  == {"pro"}
FreeAndPro == {"free", "pro"}

(***************************************************************************)
(* Crashes and account changes, but not both in one behaviour.  The steps  *)
(* that Fairness is about do neither.                                      *)
(***************************************************************************)
OneKindNext == Next /\ (changes' = 0 \/ crashes' = 0)
OneKindSpec == Init /\ [][OneKindNext]_vars /\ Fairness
=============================================================================
