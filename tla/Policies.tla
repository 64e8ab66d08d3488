------------------------------ MODULE Policies ------------------------------
(***************************************************************************)
(* Administration of the dynamic policies (policy.service.ts) and the      *)
(* cache the engine decides on (core/policies). Rows are read again after  *)
(* every write; rows of equal priority come back in any order. Deleting a  *)
(* role (permission.service.ts) takes its rows of policy_roles with it and *)
(* does not reload this cache.                                             *)
(***************************************************************************)
EXTENDS AccessRules

CONSTANTS
    PolicyId,      \* ids of rows; the seeded ones are 1 .. Len(SEEDED)
    CustomRoles,   \* roles that can be deleted
    Priorities,    \* priorities a client may send
    Totals,        \* totals of the orders that are decided on
    MaxEdits       \* bound on the number of administrative requests

(* ADMIN is a system role, which deleteRole refuses; the priority of a     *)
(* policy is a whole number from zero on.                                  *)
ASSUME PoliciesAssumption ==
    /\ IsFiniteSet(PolicyId) /\ 1..3 \subseteq PolicyId
    /\ "ADMIN" \notin CustomRoles
    /\ Priorities \subseteq Nat
    /\ MaxEdits \in Nat

VARIABLES
    policy,   \* the table: a row, or NoPolicy
    rules,    \* the cache of the engine
    edits,
    touched   \* history: ids a request or a cascade has changed since the seed

policyVars == <<policy, rules, edits, touched>>

NoPolicy == [active |-> FALSE, action |-> "none"]

(* The seeded rules of purchase_orders.approve.                            *)
SEEDED == SubSeq(DEFAULT_POLICIES(3), 1, 3)
Base == DOMAIN SEEDED
Present == {p \in PolicyId : policy[p] # NoPolicy}

(* findMany ordered by priority: every order the ties allow.               *)
CacheOf(rows) ==
    LET present == {p \in PolicyId : rows[p] # NoPolicy}
        n == Cardinality(present)
    IN  {[i \in 1..n |-> rows[order[i]]] : order \in
            {f \in [1..n -> present] :
                /\ present = {f[i] : i \in 1..n}
                /\ \A i, j \in 1..n : i < j => rows[f[i]].priority <= rows[f[j]].priority}}

LoadPoliciesFromDb == rules' \in CacheOf(policy')

Conditions == {{}, {IsUser("createdById")},
               {[field |-> "total", operator |-> "lte", value |-> Num(3)]}}

PolicyCreateInput ==
    {Policy(a, e, p, TRUE, r, c) :
        a \in {"purchase_orders.approve"}, e \in {"ALLOW", "DENY"}, p \in Priorities,
        r \in {{}} \cup {{x} : x \in CustomRoles}, c \in Conditions}

PoliciesInit ==
    /\ policy = [p \in PolicyId |-> IF p \in Base THEN SEEDED[p] ELSE NoPolicy]
    /\ rules \in CacheOf(policy)
    /\ edits = 0
    /\ touched = {}

Edit(p) == edits < MaxEdits /\ edits' = edits + 1 /\ touched' = touched \cup {p}

CreatePolicy(p, dto) ==
    /\ policy[p] = NoPolicy
    /\ ParseConditions(dto.conditions, dto.action)
    /\ policy' = [policy EXCEPT ![p] = dto]
    /\ LoadPoliciesFromDb
    /\ Edit(p)

(* Absent fields keep their value; conditions are parsed against the       *)
(* effective action, and only when the body brings them.                   *)
UpdatePolicy(p, field, value) ==
    /\ policy[p] # NoPolicy
    /\ field = "conditions" => ParseConditions(value, policy[p].action)
    /\ policy' = [policy EXCEPT ![p][field] = value]
    /\ LoadPoliciesFromDb
    /\ Edit(p)

(* A seeded policy has a key and is refused.                               *)
RemovePolicy(p) ==
    /\ policy[p] # NoPolicy
    /\ p \notin Base
    /\ policy' = [policy EXCEPT ![p] = NoPolicy]
    /\ LoadPoliciesFromDb
    /\ Edit(p)

CascadeDeleteRole(role) ==
    LET named == {p \in Present : role \in policy[p].roles}
    IN  /\ edits < MaxEdits /\ edits' = edits + 1
        /\ named # {}
        /\ policy' = [p \in PolicyId |->
                        IF p \in named THEN [policy[p] EXCEPT !.roles = @ \ {role}] ELSE policy[p]]
        /\ touched' = touched \cup named
        /\ UNCHANGED rules

ReloadPolicies ==
    /\ policy' = policy
    /\ LoadPoliciesFromDb
    /\ UNCHANGED <<edits, touched>>

PoliciesNext ==
    \/ \E p \in PolicyId, dto \in PolicyCreateInput : CreatePolicy(p, dto)
    \/ \E p \in Present :
         \/ \E c \in Conditions : UpdatePolicy(p, "conditions", c)
         \/ \E b \in BOOLEAN : UpdatePolicy(p, "active", b)
         \/ \E n \in Priorities : UpdatePolicy(p, "priority", n)
         \/ \E r \in {{}} \cup {{x} : x \in CustomRoles} : UpdatePolicy(p, "roles", r)
         \/ \E e \in {"ALLOW", "DENY"} : UpdatePolicy(p, "effect", e)
         \/ RemovePolicy(p)
    \/ \E r \in CustomRoles : CascadeDeleteRole(r)
    \/ ReloadPolicies

PoliciesSpec == PoliciesInit /\ [][PoliciesNext]_policyVars

(***************************************************************************)
(* Properties                                                              *)
(***************************************************************************)
Buyer(role) == [id |-> "eva", role |-> role, roles |-> {}]

(* Segregation of duties (seed.ts): as long as the two seeded rules are as *)
(* seeded and every other ALLOW that is in force comes after them, nobody  *)
(* but ADMIN approves an order of their own, whatever the other policies   *)
(* say, in whatever order equal priorities come back, and also while the   *)
(* cache still names a role that was deleted.                              *)
DutiesStaySegregated ==
    (/\ touched \cap Base = {}
     /\ \A p \in Present \ Base : policy[p].effect = "ALLOW" => policy[p].priority > SEEDED[2].priority)
    => \A role \in CustomRoles \cup {"BUYER"}, total \in Totals :
         ~EvaluateRules(rules, "purchase_orders.approve", Buyer(role),
                        [total |-> Num(total), createdById |-> Text("eva")])
=============================================================================
