---------------------------- MODULE AccessRules ----------------------------
(***************************************************************************)
(* The pure half of the authorisation core (src/src/core/permissions and   *)
(* src/src/core/policies): how the scope of a permission is resolved, which *)
(* records a scope reaches, and how the dynamic policies decide.           *)
(*                                                                         *)
(* A user is [id, role, roles, departmentId, exceptions]; an exception is  *)
(* [permission, scope, current]: "current" stands for the comparison of    *)
(* expiresAt with the clock.                                               *)
(***************************************************************************)
EXTENDS Naturals, FiniteSets, Sequences, TLC

Nobody == "null"

SCOPES == {"NONE", "OWN", "AREA", "ALL"}

SCOPE_RANK == [NONE |-> 0, OWN |-> 1, AREA |-> 2, ALL |-> 3]

MaxScope(a, b) == IF SCOPE_RANK[b] > SCOPE_RANK[a] THEN b ELSE a

RolesOf(user) == {user.role} \cup user.roles

(* The widest scope the matrix gives to any of the roles. A cell that is   *)
(* not in the matrix is NONE; roles add up and never subtract.             *)
RolesScopeOf(roles, permission, matrix) ==
    LET given == {matrix[r][permission] : r \in roles \cap DOMAIN matrix} \cup {"NONE"}
    IN  CHOOSE s \in given : \A other \in given : MaxScope(s, other) = s

CurrentException(user, permission) ==
    {e \in user.exceptions : e.permission = permission /\ e.current}

(* An exception in force, then the roles; a permission outside the active  *)
(* catalogue gives nothing through the roles.                              *)
ScopeOf(user, permission, activeKeys, matrix) ==
    LET exceptions == CurrentException(user, permission)
    IN  IF exceptions # {} THEN (CHOOSE e \in exceptions : TRUE).scope
        ELSE IF permission \in activeKeys THEN RolesScopeOf(RolesOf(user), permission, matrix)
        ELSE "NONE"

PermissionsOf(user, activeKeys, matrix) ==
    {p \in activeKeys : ScopeOf(user, p, activeKeys, matrix) # "NONE"}

(* The route guards: the key must be active AND resolve to some scope.     *)
RequiresPermission(user, permission, activeKeys, matrix) ==
    permission \in activeKeys /\ ScopeOf(user, permission, activeKeys, matrix) # "NONE"

RequiresAnyPermission(user, permissions, activeKeys, matrix) ==
    \E p \in permissions : RequiresPermission(user, p, activeKeys, matrix)

(***************************************************************************)
(* Records a scope reaches: once as a predicate on one record, once as the *)
(* OR list of the query that lists them.                                   *)
(***************************************************************************)
IsOwn(user, resource) ==
    \/ resource.createdById = user.id
    \/ resource.assignedToId = user.id
    \/ user.id \in resource.assignments

WithinScope(user, scope, resource) ==
    \/ scope = "ALL"
    \/ scope \in {"OWN", "AREA"} /\ IsOwn(user, resource)
    \/ /\ scope = "AREA"
       /\ user.departmentId # Nobody
       /\ resource.departmentId = user.departmentId

TicketsInScopeWhere(user, scope) ==
    CASE scope = "ALL"  -> {"any"}
      [] scope = "NONE" -> {}
      [] OTHER -> {"createdById", "assignedToId", "assignments"}
                    \cup (IF scope = "AREA" /\ user.departmentId # Nobody
                          THEN {"departmentId"} ELSE {})

Satisfies(user, ticket, clause) ==
    CASE clause = "any"          -> TRUE
      [] clause = "assignments"  -> user.id \in ticket.assignments
      [] clause = "departmentId" -> ticket.departmentId = user.departmentId
      [] OTHER -> ticket[clause] = user.id

VisibleTickets(user, permission, activeKeys, matrix, tickets) ==
    LET where == TicketsInScopeWhere(user, ScopeOf(user, permission, activeKeys, matrix))
    IN  {t \in tickets : \E clause \in where : Satisfies(user, t, clause)}

CanViewTicket(user, activeKeys, matrix, ticket) ==
    WithinScope(user, ScopeOf(user, "tickets.view", activeKeys, matrix), ticket)

(***************************************************************************)
(* Policies. A value is a number (or the text that spells it), a text, a   *)
(* comma-separated list, null or undefined: the two coercions of the       *)
(* engine tell exactly these apart.                                        *)
(***************************************************************************)
Num(n)    == [kind |-> "num",  v |-> n]
Text(s)   == [kind |-> "text", v |-> s]
List(ss)  == [kind |-> "list", v |-> ss]
NullV     == [kind |-> "null"]
Undefined == [kind |-> "undefined"]

IsEmptyV(v) == v.kind \in {"null", "undefined"}

OPERATORS_WITHOUT_VALUE == {"is_empty", "is_not_empty"}

POLICY_OPERATORS ==
    {"eq", "neq", "gt", "gte", "lt", "lte", "in", "not_in"} \cup OPERATORS_WITHOUT_VALUE

(* The right operand: a literal, or a field of the user (@user.id ...).    *)
ResolveRight(value, user) ==
    IF value.kind # "ref" THEN value
    ELSE IF user[value.v] = Nobody THEN NullV ELSE Text(user[value.v])

SameString(a, b) ==
    \/ IsEmptyV(a) /\ IsEmptyV(b)
    \/ ~IsEmptyV(a) /\ a.kind = b.kind /\ a.v = b.v

(* Number(null) is 0; undefined and any other text are NaN, and every      *)
(* comparison with NaN is false.                                           *)
IsNumber(v) == v.kind \in {"num", "null"}
AsNumber(v) == IF v.kind = "null" THEN 0 ELSE v.v

Comparable(left, right) == IsNumber(left) /\ IsNumber(right)

Listed(left, right) ==
    IF right.kind = "list" THEN \E item \in right.v : SameString(left, item)
    ELSE SameString(left, right)

ConditionMatches(condition, user, resource) ==
    LET left  == IF condition.field \in DOMAIN resource
                 THEN resource[condition.field] ELSE Undefined
        right == ResolveRight(condition.value, user)
    IN  CASE condition.operator = "eq"     -> SameString(left, right)
          [] condition.operator = "neq"    -> ~SameString(left, right)
          [] condition.operator = "gt"     -> Comparable(left, right) /\ AsNumber(left) > AsNumber(right)
          [] condition.operator = "gte"    -> Comparable(left, right) /\ AsNumber(left) >= AsNumber(right)
          [] condition.operator = "lt"     -> Comparable(left, right) /\ AsNumber(left) < AsNumber(right)
          [] condition.operator = "lte"    -> Comparable(left, right) /\ AsNumber(left) <= AsNumber(right)
          [] condition.operator = "in"     -> Listed(left, right)
          [] condition.operator = "not_in" -> ~Listed(left, right)
          [] condition.operator = "is_empty"     -> IsEmptyV(left)
          [] condition.operator = "is_not_empty" -> ~IsEmptyV(left)
          [] OTHER -> FALSE

AppliesToUser(rule, user) == rule.roles = {} \/ rule.roles \cap RolesOf(user) # {}

RuleMatches(rule, user, resource) ==
    /\ rule.active
    /\ AppliesToUser(rule, user)
    /\ \A c \in rule.conditions : ConditionMatches(c, user, resource)

(* The rules of an action, by their position in the cache.                 *)
RulesForAction(rules, action) == {i \in DOMAIN rules : rules[i].action = action}

Matching(rules, action, user, resource) ==
    {i \in RulesForAction(rules, action) : RuleMatches(rules[i], user, resource)}

(* Rules keep the order of the cache among equal priorities (the sort is   *)
(* stable), so the first match is the least (priority, position).          *)
Before(rules, i, j) ==
    rules[i].priority < rules[j].priority \/ (rules[i].priority = rules[j].priority /\ i <= j)

FirstMatch(rules, action, user, resource) ==
    LET matching == Matching(rules, action, user, resource)
    IN  {i \in matching : \A j \in matching : Before(rules, i, j)}

(* Mutant: a later ALLOW overrides the DENY that decided.                  *)
EvaluateRulesAnyAllow(rules, action, user, resource) ==
    LET matching == Matching(rules, action, user, resource)
    IN  matching # {} => \E i \in matching : rules[i].effect = "ALLOW"

EvaluateRules(rules, action, user, resource) ==
    \A i \in FirstMatch(rules, action, user, resource) : rules[i].effect # "DENY"

(* The trace of the console: every rule in evaluation order, with the      *)
(* first one that matches named as the one that decided.                   *)
ExplainRules(rules, action, user, resource) ==
    [allowed   |-> EvaluateRules(rules, action, user, resource),
     decidedBy |-> FirstMatch(rules, action, user, resource),
     rules     |-> Matching(rules, action, user, resource)]

(***************************************************************************)
(* The actions that accept policies, the fields a condition may name, and  *)
(* the validation of the conditions a client sends.                        *)
(***************************************************************************)
PURCHASE_ORDER_STATUS ==
    {"DRAFT", "APPROVED", "SENT", "PARTIALLY_RECEIVED", "RECEIVED", "CANCELLED"}

POLICY_ACTIONS ==
    ("purchase_orders.approve" :> {"total", "status", "createdById", "approvedById"}) @@
    ("purchase_orders.receive" :> {"status", "createdById", "approvedById"}) @@
    ("invoices.register"       :> {"status", "createdById", "approvedById"})

ValidCondition(condition, action) ==
    /\ condition.field \in POLICY_ACTIONS[action]
    /\ condition.operator \in POLICY_OPERATORS
    /\ condition.operator \notin OPERATORS_WITHOUT_VALUE => ~IsEmptyV(condition.value)
    /\ condition.field = "status" /\ condition.operator \in {"eq", "neq", "in", "not_in"} =>
         LET items == IF condition.value.kind = "list" THEN condition.value.v ELSE {condition.value}
         IN  \A item \in items : item.kind = "text" /\ item.v \in PURCHASE_ORDER_STATUS

ParseConditions(conditions, action) ==
    action \in DOMAIN POLICY_ACTIONS /\ \A c \in conditions : ValidCondition(c, action)

Policy(action, effect, priority, active, roles, conditions) ==
    [action |-> action, effect |-> effect, priority |-> priority, active |-> active,
     roles |-> roles, conditions |-> conditions]

IsUser(field) == [field |-> field, operator |-> "eq", value |-> [kind |-> "ref", v |-> "id"]]

(* The policies the seed inserts when their key is missing: ADMIN first,   *)
(* then the segregation of duties, then an inactive example of a limit.    *)
DEFAULT_POLICIES(limit) ==
    << Policy("purchase_orders.approve", "ALLOW", 10, TRUE,  {"ADMIN"}, {}),
       Policy("purchase_orders.approve", "DENY",  20, TRUE,  {}, {IsUser("createdById")}),
       Policy("purchase_orders.approve", "DENY",  30, FALSE, {},
              {[field |-> "total", operator |-> "gt", value |-> Num(limit)]}),
       Policy("purchase_orders.receive", "ALLOW", 10, TRUE,  {"ADMIN"}, {}),
       Policy("purchase_orders.receive", "DENY",  20, TRUE,  {}, {IsUser("approvedById")}),
       Policy("invoices.register",       "ALLOW", 10, TRUE,  {"ADMIN"}, {}),
       Policy("invoices.register",       "DENY",  20, TRUE,  {}, {IsUser("approvedById")}) >>
=============================================================================
