----------------------------- MODULE MCBilling -----------------------------
(***************************************************************************)
(* Billing on small instances.                                             *)
(***************************************************************************)
EXTENDS Billing, TLC

CONSTANTS w1, w2, m1, m2, m3, h1, h2, pPro, pElite, pNew, mail1, ph1, ph2

OneOwner  == [m \in Members |-> w1]
TwoOwners == [m \in Members |-> IF m = m3 THEN w2 ELSE w1]

\* pNew is on sale and not in the configuration.
ProAndNew == (pPro :> "pro")
ProElite  == (pPro :> "pro" @@ pElite :> "elite")

\* Two accounts have used the same address.
Mails        == [w \in Whops |-> {mail1}]
Placeholders == [w \in Whops |-> IF w = w1 THEN ph1 ELSE ph2]

(***************************************************************************)
(* A start in the middle: one user row with three active subscriptions, as *)
(* three went_valid events of pPro without an address leave it.  Two more  *)
(* events are left of a bound of three.                                    *)
(***************************************************************************)
ThreeActive ==
    /\ users = [e \in Emails |-> IF e = ph1 THEN ApplyTierLimits(NewUser(w1), "pro") ELSE None]
    /\ subs = [m \in Members |-> [user |-> ph1, tier |-> "pro", status |-> "active"]]
    /\ standing = [m \in Members |-> pPro]
    /\ displaced = {} /\ queue = <<>> /\ sent = 1
    /\ step = [h \in Handlers |-> "idle"]
    /\ ev = [h \in Handlers |-> None]
    /\ who = [h \in Handlers |-> None]
    /\ loaded = [h \in Handlers |-> None]
    /\ mine = [h \in Handlers |-> None]
    /\ seen = [h \in Handlers |-> NoRows]
    /\ subLoaded = [h \in Handlers |-> None]
    /\ subMine = [h \in Handlers |-> None]
    /\ locks = [h \in Handlers |-> {}]
    /\ faults = 0

(***************************************************************************)
(* Both starts.  From Init two memberships take part, and the third only   *)
(* where it has its row already; the steps that Fairness is about leave    *)
(* standing as it is.                                                      *)
(***************************************************************************)
AnswersNext == Next /\ (subs[m3] = None => standing'[m3] = None)
AnswersSpec == (Init \/ ThreeActive) /\ [][AnswersNext]_vars /\ Fairness

MemberSymmetry == Permutations(Members)
=============================================================================
