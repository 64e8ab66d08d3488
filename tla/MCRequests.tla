----------------------------- MODULE MCRequests -----------------------------
(* What is repeated, retried and overlaps: idempotent registrations (one   *)
(* key, two authors, a request without a key), the operations on one       *)
(* purchase order, and the runs that compare the clocks' rosters, with two *)
(* people whose names share two words and of whom one is linked.  The      *)
(* parts share no state: a behaviour runs one of Parts, the others stay as *)
(* they start.                                                             *)
EXTENDS IdempotentRequests, PurchaseOrders, Roster, TLC

CONSTANTS Parts, k1, r1, r2, r3, r4

VARIABLE part

MCKeyOf == (r1 :> k1) @@ (r2 :> k1) @@ (r3 :> k1) @@ (r4 :> NoKey)
MCAuthorOf == (r1 :> "ana") @@ (r2 :> "ana") @@ (r3 :> "luis") @@ (r4 :> "luis")

MCWords == [n1 |-> {"ANA", "RUIZ", "LARA"}, n2 |-> {"EVA", "RUIZ", "LARA"},
            u1 |-> {"ANA", "RUIZ", "LARA"}, u2 |-> {"EVA", "RUIZ", "LARA"}]
MCNumber == [n1 |-> 1, n2 |-> 2, u1 |-> 1, u2 |-> 2]
MCFirst == [n1 |-> "u1", n2 |-> "none"]

vars == <<part, requestVars, orderVars, rosterVars>>

Init ==
  /\ part \in Parts
  /\ RequestsInit /\ OrdersInit /\ RosterInit
  /\ part # "keys" => pool = 0

Keys == part = "keys" /\ UNCHANGED <<part, orderVars, rosterVars>>
Orders == part = "orders" /\ UNCHANGED <<part, requestVars, rosterVars>>
People == part = "roster" /\ UNCHANGED <<part, requestVars, orderVars>>

Next ==
  \/ (Keys /\ RequestsNext)
  \/ (Orders /\ OrdersNext)
  \/ (People /\ RosterNext)

\* RequestsFairness, OrdersFairness and RosterFairness, for the part that runs.
Fairness ==
  /\ \A r \in Request : WF_vars(Keys /\ Step(r))
  /\ \A r \in OrderRequest : WF_vars(Orders /\ Continue(r))
  /\ WF_vars(People /\ RosterTick)
  /\ WF_vars(People /\ RosterStep)

SafetySpec == Init /\ [][Next]_vars
Spec == SafetySpec /\ Fairness
=============================================================================
