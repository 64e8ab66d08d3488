------------------------------ MODULE Tickets ------------------------------
(***************************************************************************)
(* Tickets with their tasks, categories, comments and notifications        *)
(* (ticket.service.ts, ticket-category.service.ts and the ticket part of   *)
(* notification.service.ts). Every write of an existing ticket is decided  *)
(* on a row that was read before its transaction: a request is "reading"   *)
(* first and "writing" later, with the row it saw.                         *)
(***************************************************************************)
EXTENDS AccessRules

CONSTANTS
    Ticket, Person, Department, Category,
    RoleOf, DepartmentOf, \* the people who call, as the database has them
    Deactivated,          \* people whose account is not active
    Matrix,               \* role -> permission -> scope
    TicketRequests,       \* requests that may be in flight together
    MaxTicketWrites,      \* bound on the writes of existing tickets
    MaxCrossedWrites      \* the same bound once two of them were in flight

ASSUME TicketsAssumption ==
    /\ RoleOf \in [Person -> DOMAIN Matrix]
    /\ \A r, other \in DOMAIN Matrix : Matrix[r] \in [DOMAIN Matrix[other] -> SCOPES]
    /\ Nobody \notin Person
    /\ DepartmentOf \in [Person -> Department \cup {Nobody}]
    /\ Deactivated \subseteq Person
    /\ {MaxTicketWrites, MaxCrossedWrites} \subseteq Nat

VARIABLES
    ticket, category, call, writes,
    told,      \* the notifications the last step wrote: <<user, type, ticket>>
    byHand,    \* history: the ticket's assignee was chosen, not mirrored
    crossed    \* history: two writes of tickets have been in flight together

ticketVars == <<ticket, category, call, writes, told, byHand, crossed>>

TaskStatus == {"PENDING", "IN_PROGRESS", "IN_REVIEW", "COMPLETED"}
NoTask == "none"
NoTicket == [status |-> "none"]
NoCall == [pc |-> "idle"]

(* TicketController.actor: the roles and the department of the caller;     *)
(* permission exceptions are not handed on.                                *)
Actor(u) == [id |-> u, role |-> RoleOf[u], roles |-> {}, departmentId |-> DepartmentOf[u],
             exceptions |-> {}]

Keys == UNION {DOMAIN Matrix[r] : r \in DOMAIN Matrix}
Scope(u, permission) == ScopeOf(Actor(u), permission, Keys, Matrix)

Assignees(row) == {u \in Person : row.tasks[u] # NoTask}

(* The record the scope functions read. deleteTicket reads no assignments. *)
Reachable(row) ==
    [createdById |-> row.createdById, assignedToId |-> row.assignedToId,
     departmentId |-> row.departmentId, assignments |-> Assignees(row)]

CanView(u, row) == CanViewTicket(Actor(u), Keys, Matrix, Reachable(row))
May(u, permission, row) == WithinScope(Actor(u), Scope(u, permission), Reachable(row))

Exists(t) == ticket[t] # NoTicket

(***************************************************************************)
(* Lists                                                                   *)
(***************************************************************************)
ListTickets(u) ==
    LET where == TicketsInScopeWhere(Actor(u), Scope(u, "tickets.view"))
    IN  {t \in Ticket : /\ Exists(t) /\ ~ticket[t].deleted
                        /\ \E c \in where : Satisfies(Actor(u), Reachable(ticket[t]), c)}

TicketFilterOptions(u) ==
    [creators   |-> {ticket[t].createdById : t \in ListTickets(u)},
     assignees  |-> {ticket[t].assignedToId : t \in ListTickets(u)} \ {Nobody},
     categories |-> {ticket[t].category : t \in ListTickets(u)} \ {Nobody}]

(* The board: an EMPLOYEE sees their own tasks, others those of the        *)
(* tickets that tasks.view reaches. Trashed tickets are not left out.      *)
ListKanbanAssignments(u) ==
    LET scope == Scope(u, "tasks.view")
        where == TicketsInScopeWhere(Actor(u), scope)
        Shown(t, v) ==
           /\ scope # "NONE" /\ Exists(t) /\ ticket[t].tasks[v] # NoTask
           /\ \/ scope = "ALL"
              \/ RoleOf[u] = "EMPLOYEE" /\ v = u
              \/ /\ RoleOf[u] # "EMPLOYEE"
                 /\ \E c \in where : Satisfies(Actor(u), Reachable(ticket[t]), c)
    IN  {cell \in Ticket \X Person : Shown(cell[1], cell[2])}

(***************************************************************************)
(* Creation, comments and the category catalogue                           *)
(***************************************************************************)
OwnerDepartment(actor, owner, chosen) ==
    IF RoleOf[actor] = "ADMIN" /\ chosen # Nobody THEN chosen ELSE DepartmentOf[owner]

(* Only ADMIN creates on behalf of someone else; the ticket is then theirs.*)
CreateTicket(actor, t, owner, assignee, chosen, c) ==
    /\ ~Exists(t)
    /\ owner # actor => RoleOf[actor] = "ADMIN" /\ owner \notin Deactivated
    /\ assignee \notin Deactivated
    /\ c # Nobody => category[c] # "absent"
    /\ ticket' = [ticket EXCEPT ![t] =
         [status |-> "OPEN", createdById |-> owner, assignedToId |-> assignee,
          departmentId |-> OwnerDepartment(actor, owner, chosen), category |-> c,
          closedAt |-> FALSE, deleted |-> FALSE, tasks |-> [u \in Person |-> NoTask]]]
    /\ byHand' = IF assignee = Nobody THEN byHand \ {t} ELSE byHand \cup {t}
    /\ told' = (IF assignee # Nobody THEN {<<assignee, "ASSIGNED", t>>} ELSE {})
         \cup (IF owner # actor THEN {<<owner, "TICKET_CREATED", t>>} ELSE {})
    /\ UNCHANGED <<category, call, writes, crossed>>

Others(row, author) == {row.createdById, row.assignedToId} \ {author, Nobody}

AddComment(actor, t) ==
    /\ Exists(t) /\ CanView(actor, ticket[t])
    /\ told' = {<<u, "COMMENT", t>> : u \in Others(ticket[t], actor)}
    /\ UNCHANGED <<ticket, category, call, writes, byHand, crossed>>

(* Commenting a task: OWN and NONE reach only the caller's own task.       *)
AddAssignmentComment(actor, t, u) ==
    /\ Exists(t) /\ ticket[t].tasks[u] # NoTask
    /\ CanView(actor, ticket[t])
    /\ Scope(actor, "tasks.view") \in {"OWN", "NONE"} => actor = u
    /\ told' = {}
    /\ UNCHANGED <<ticket, category, call, writes, byHand, crossed>>

SetCategory(c, status) ==
    /\ category' = [category EXCEPT ![c] = status]
    /\ told' = {}
    /\ UNCHANGED <<ticket, call, writes, byHand, crossed>>

CreateCategory(c) == category[c] = "absent" /\ SetCategory(c, "active")

UpdateCategory(c, active) ==
    category[c] # "absent" /\ SetCategory(c, IF active THEN "active" ELSE "inactive")

(* First the flag, then the row, and the row only when no ticket names it. *)
RemoveCategory(c) ==
    \/ category[c] = "active" /\ SetCategory(c, "inactive")
    \/ /\ category[c] = "inactive"
       /\ \A t \in Ticket : Exists(t) => ticket[t].category # c
       /\ SetCategory(c, "absent")

(***************************************************************************)
(* Writes of an existing ticket                                            *)
(***************************************************************************)
UpdateOps ==
    [kind : {"update"}, actor : Person, ticket : Ticket, field : {"status"},
     value : {"OPEN", "IN_PROGRESS", "CLOSED"}]
      \cup [kind : {"update"}, actor : Person, ticket : Ticket, field : {"assignedToId"}, value : Person]
      \cup [kind : {"update"}, actor : Person, ticket : Ticket, field : {"departmentId"}, value : Department]
      \cup [kind : {"update"}, actor : Person, ticket : Ticket, field : {"category"},
            value : Category \cup {Nobody}]

TaskOps ==
    [kind : {"addTask", "removeTask"}, actor : Person, ticket : Ticket, user : Person]
      \cup [kind : {"moveTask"}, actor : Person, ticket : Ticket, user : Person, status : TaskStatus]

TicketOps == UpdateOps \cup TaskOps \cup [kind : {"delete"}, actor : Person, ticket : Ticket]

MayUpdate(op, row) ==
    /\ CanView(op.actor, row)
    /\ Scope(op.actor, "tickets.edit") # "NONE"
    /\ May(op.actor, "tickets.edit", row)
    /\ op.field = "assignedToId" => op.value \notin Deactivated \/ op.value = row.assignedToId
    /\ op.field = "departmentId" => Scope(op.actor, "tickets.edit") = "ALL"
    /\ op.field = "status" /\ op.value = "CLOSED" => May(op.actor, "tickets.close", row)

MayAddTask(op, row) ==
    /\ CanView(op.actor, row)
    /\ Scope(op.actor, "tasks.assign") # "NONE"
    /\ May(op.actor, "tasks.assign", row)
    /\ RoleOf[op.actor] = "AREA_HEAD" /\ DepartmentOf[op.actor] # Nobody =>
         DepartmentOf[op.user] = DepartmentOf[op.actor]
    /\ op.user \notin Deactivated
    /\ row.tasks[op.user] = NoTask

MayRemoveTask(op, row) ==
    /\ Scope(op.actor, "tasks.assign") # "NONE"
    /\ CanView(op.actor, row)
    /\ May(op.actor, "tasks.assign", row)
    /\ row.tasks[op.user] # NoTask

(* What the holder of a task may do without tasks.complete.                *)
AllowedTransitions ==
    [PENDING |-> {"IN_PROGRESS", "IN_REVIEW"}, IN_PROGRESS |-> {"IN_REVIEW"},
     IN_REVIEW |-> {}, COMPLETED |-> {}]

MayMoveTask(op, row) ==
    LET manages == May(op.actor, "tasks.assign", row)
        completes == May(op.actor, "tasks.complete", row)
        isOwner == op.actor = op.user
    IN  /\ row.tasks[op.user] # NoTask
        /\ CanView(op.actor, row)
        /\ manages \/ isOwner
        /\ op.status = "COMPLETED" => completes
        /\ ~completes /\ isOwner => op.status \in AllowedTransitions[row.tasks[op.user]]

MayDelete(op, row) ==
    WithinScope(Actor(op.actor), Scope(op.actor, "tickets.delete"),
                [Reachable(row) EXCEPT !.assignments = {}])

Passes(op, row) ==
    CASE op.kind = "update"     -> MayUpdate(op, row)
      [] op.kind = "addTask"    -> MayAddTask(op, row)
      [] op.kind = "removeTask" -> MayRemoveTask(op, row)
      [] op.kind = "moveTask"   -> MayMoveTask(op, row)
      [] op.kind = "delete"     -> MayDelete(op, row)

InFlight == {r \in TicketRequests : call[r] # NoCall}

ReadTicket(r) ==
    /\ call[r] = NoCall
    /\ crossed' = (crossed \/ InFlight # {})
    /\ writes < (IF crossed' THEN MaxCrossedWrites ELSE MaxTicketWrites)
    /\ \E op \in TicketOps :
         /\ op.actor \notin Deactivated
         /\ Exists(op.ticket)
         /\ Passes(op, ticket[op.ticket])
         /\ call' = [call EXCEPT ![r] = [pc |-> "writing", op |-> op, seen |-> ticket[op.ticket]]]
    /\ writes' = writes + 1
    /\ told' = {}
    /\ UNCHANGED <<ticket, category, byHand>>

Finish(r) == call' = [call EXCEPT ![r] = NoCall]

(* Only what differs from the row that was read is written. Closing stamps *)
(* the ticket and completes every task; reopening leaves the stamp.        *)
UpdateTicket(r) ==
    LET op == call[r].op  t == op.ticket  seen == call[r].seen
        changes == seen[op.field] # op.value
        row == [ticket[t] EXCEPT ![op.field] = op.value]
    IN  /\ op.kind = "update" /\ Exists(t)
        /\ op.field = "category" /\ op.value # Nobody => category[op.value] # "absent"
        /\ ticket' = [ticket EXCEPT ![t] =
             IF ~changes THEN @ ELSE IF op.value # "CLOSED" THEN row
             ELSE [row EXCEPT !.closedAt = TRUE,
                              !.tasks = [u \in Person |-> IF @[u] = NoTask THEN NoTask ELSE "COMPLETED"]]]
        /\ byHand' = IF op.field = "assignedToId" /\ changes THEN byHand \cup {t} ELSE byHand
        /\ told' =
             IF changes /\ op.field = "status"
             THEN {<<u, "TICKET_UPDATED", t>> : u \in Others(ticket[t], op.actor)}
             ELSE IF changes /\ op.field = "assignedToId" THEN {<<op.value, "ASSIGNED", t>>} ELSE {}

(* The first task is mirrored in assignedToId, if the row that was read    *)
(* had none.                                                               *)
AddTicketAssignment(r) ==
    LET op == call[r].op  t == op.ticket
    IN  /\ op.kind = "addTask" /\ Exists(t)
        /\ ticket[t].tasks[op.user] = NoTask
        /\ ticket' = [ticket EXCEPT
             ![t].tasks[op.user] = "PENDING",
             ![t].assignedToId = IF call[r].seen.assignedToId = Nobody THEN op.user ELSE @]
        /\ told' = {<<op.user, "ASSIGNED", t>>}
        /\ UNCHANGED byHand

UpdateTicketAssignment(r) ==
    LET op == call[r].op  t == op.ticket
    IN  /\ op.kind = "moveTask" /\ Exists(t)
        /\ ticket[t].tasks[op.user] # NoTask
        /\ ticket' = [ticket EXCEPT ![t].tasks[op.user] = op.status]
        /\ told' = {}
        /\ UNCHANGED byHand

(* Mutant: the mirror is not moved when its task goes.                     *)
RemoveTicketAssignmentOnly(r) ==
    LET op == call[r].op  t == op.ticket
    IN  /\ op.kind = "removeTask" /\ Exists(t)
        /\ ticket[t].tasks[op.user] # NoTask
        /\ ticket' = [ticket EXCEPT ![t].tasks[op.user] = NoTask]
        /\ told' = {}
        /\ UNCHANGED byHand

(* If the mirror named the holder, it goes to any other task or to nobody. *)
RemoveTicketAssignment(r) ==
    LET op == call[r].op  t == op.ticket
        rest == IF Exists(t) THEN Assignees(ticket[t]) \ {op.user} ELSE {}
    IN  /\ op.kind = "removeTask" /\ Exists(t)
        /\ ticket[t].tasks[op.user] # NoTask
        /\ \E next \in (IF rest = {} THEN {Nobody} ELSE rest) :
             ticket' = [ticket EXCEPT
               ![t].tasks[op.user] = NoTask,
               ![t].assignedToId = IF call[r].seen.assignedToId = op.user THEN next ELSE @]
        /\ told' = {}
        /\ UNCHANGED byHand

(* First the trash, then the row with everything under it.                 *)
DeleteTicket(r) ==
    LET op == call[r].op  t == op.ticket
    IN  /\ op.kind = "delete" /\ Exists(t)
        /\ ticket' = [ticket EXCEPT ![t] =
             IF call[r].seen.deleted THEN NoTicket ELSE [ticket[t] EXCEPT !.deleted = TRUE]]
        /\ told' = {}
        /\ UNCHANGED byHand

Writable(r) ==
    LET op == call[r].op
    IN  /\ Exists(op.ticket)
        /\ op.kind \in {"moveTask", "removeTask"} => ticket[op.ticket].tasks[op.user] # NoTask
        /\ op.kind = "addTask" => ticket[op.ticket].tasks[op.user] = NoTask
        /\ op.kind = "update" => (op.field = "category" /\ op.value # Nobody => category[op.value] # "absent")

WriteTicket(r) ==
    /\ call[r] # NoCall
    /\ \/ UpdateTicket(r) \/ AddTicketAssignment(r) \/ UpdateTicketAssignment(r)
       \/ RemoveTicketAssignment(r) \/ DeleteTicket(r)
    /\ Finish(r)
    /\ UNCHANGED <<category, writes, crossed>>

(* The row is gone, or the unique key (ticket, user) is taken: 4xx or 500. *)
WriteFails(r) ==
    /\ call[r] # NoCall
    /\ ~Writable(r)
    /\ Finish(r)
    /\ told' = {}
    /\ UNCHANGED <<ticket, category, writes, byHand, crossed>>

TicketsInit ==
    /\ ticket = [t \in Ticket |-> NoTicket]
    /\ category = [c \in Category |-> "active"]
    /\ told = {}
    /\ call = [r \in TicketRequests |-> NoCall]
    /\ writes = 0
    /\ byHand = {}
    /\ crossed = FALSE

TicketsNext ==
    \/ \E u \in Person \ Deactivated, owner \in Person, t \in Ticket, assignee \in Person \cup {Nobody},
          d \in Department \cup {Nobody}, c \in Category \cup {Nobody} :
            CreateTicket(u, t, owner, assignee, d, c)
    \/ \E u \in Person \ Deactivated, t \in Ticket : AddComment(u, t)
    \/ \E u \in Person \ Deactivated, v \in Person, t \in Ticket : AddAssignmentComment(u, t, v)
    \/ \E c \in Category : CreateCategory(c) \/ RemoveCategory(c)
    \/ \E c \in Category, active \in BOOLEAN : UpdateCategory(c, active)
    \/ \E r \in TicketRequests : ReadTicket(r) \/ WriteTicket(r) \/ WriteFails(r)

TicketsSpec == TicketsInit /\ [][TicketsNext]_ticketVars

(***************************************************************************)
(* Properties                                                              *)
(***************************************************************************)
(* The mirror (addTicketAssignment, removeTicketAssignment): unless        *)
(* somebody chose the assignee, or two writes crossed, assignedToId names  *)
(* a holder of a task, and nobody only when there is no task.              *)
MirrorNamesATask ==
    ~crossed => \A t \in Ticket : Exists(t) /\ t \notin byHand =>
      IF ticket[t].assignedToId = Nobody THEN Assignees(ticket[t]) = {}
      ELSE ticket[t].assignedToId \in Assignees(ticket[t])

(* Who only holds a task never takes it back nor completes it: a step back *)
(* or a completion is somebody's with tasks.assign or tasks.complete over  *)
(* the ticket, or the closing of the ticket, unless two writes crossed.    *)
Rank == [PENDING |-> 0, IN_PROGRESS |-> 1, IN_REVIEW |-> 2, COMPLETED |-> 3]
HoldersOnlyAdvance ==
    [][\A r \in TicketRequests :
         (call[r] # NoCall /\ call'[r] = NoCall /\ call[r].op.kind = "moveTask" /\ ~crossed /\ ticket' # ticket)
         => LET op == call[r].op  row == ticket[op.ticket]
            IN  \/ May(op.actor, "tasks.assign", row) \/ May(op.actor, "tasks.complete", row)
                \/ /\ op.actor = op.user /\ op.status # "COMPLETED"
                   /\ Rank[op.status] > Rank[row.tasks[op.user]]]_ticketVars

(* The list and the page agree (visibleTickets, canViewTicket): a ticket   *)
(* outside the trash is listed for exactly those who may open it, the      *)
(* board shows a task only to who may open its ticket, and whoever a step  *)
(* notifies may open the ticket the notice links to.                       *)
ListedIsOpenable ==
    /\ \A u \in Person :
         /\ ListTickets(u) = {t \in Ticket : Exists(t) /\ ~ticket[t].deleted /\ CanView(u, ticket[t])}
         /\ \A cell \in ListKanbanAssignments(u) : CanView(u, ticket[cell[1]])
    /\ \A n \in told : Exists(n[3]) /\ CanView(n[1], ticket[n[3]])

(* What the tickets say of their tasks and what people see and do of them: *)
(* the mirror is true, lists, pages and notices agree, and whoever only    *)
(* holds a task moves it forward only.                                     *)
TicketsAreConsistent == [](MirrorNamesATask /\ ListedIsOpenable) /\ HoldersOnlyAdvance
=============================================================================
