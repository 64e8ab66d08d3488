------------------------------ MODULE Accounts ------------------------------
(***************************************************************************)
(* Accounts, departments and subareas (user.service.ts,                    *)
(* user-import.service.ts, department.service.ts, subarea.service.ts,      *)
(* auth.service.ts). What other modules write about a person is one row    *)
(* per column that refers to User. Removals read, count and delete in      *)
(* separate statements; `call` holds what a request has read.              *)
(***************************************************************************)
EXTENDS Naturals, FiniteSets

CONSTANTS
    User, Admin,      \* the people; Admin is the one who removes
    Column,           \* columns that refer to User in this instance
    Departments,
    SubareasOf,       \* department -> its subareas
    Removals,         \* removals that may be in flight together
    MaxRows,          \* bound on the rows other modules write
    MaxAccountOps     \* bound on the operations of the console

VARIABLES
    account, owner, department, subarea, removal, rows, accountOps,
    overtaken   \* history: a row or an account changed while a removal was in flight

accountVars == <<account, owner, department, subarea, removal, rows, accountOps, overtaken>>

(***************************************************************************)
(* The columns that refer to User and what a deletion does to their rows.  *)
(* A column that is in neither set is optional and is set to null.         *)
(***************************************************************************)
Restricting ==
    {"EmployeeDocument.uploadedBy", "Movement.createdBy", "Ticket.createdBy", "TicketAssignment.user",
     "TicketAssignmentComment.author", "TicketAttachment.uploadedBy", "TicketComment.author",
     "DisciplinaryReport.createdBy", "AccessEvent.employee", "ScheduleAssignment.user",
     "KitchenMovement.createdBy", "PurchaseOrder.createdBy", "SupplierInvoice.createdBy",
     "HotelMovement.createdBy", "HotelStocktake.createdBy", "HotelInspection.inspector"}
Cascading ==
    {"EmployeeDiscount.user", "EmployeeDocument.user", "Notification.user", "DisciplinaryReport.user",
     "TimeClockEmployee.user", "OvertimeApproval.user", "UserRole.user", "UserPermission.user",
     "HotelZoneSupervisor.user"}

Counted ==
    {"Ticket.createdBy", "Ticket.assignedTo", "TicketComment.author", "TicketHistory.author",
     "Movement.createdBy", "Loan.custodian", "MaterialOutput.registeredBy"}
Reassigned ==
    {"Ticket.createdBy", "TicketComment.author", "Movement.createdBy", "Movement.custodian", "Loan.custodian"}
Cleared == {"Ticket.assignedTo", "TicketHistory.author", "MaterialOutput.registeredBy"}

None  == "none"

ASSUME AccountsAssumption ==
    /\ Admin \in User /\ None \notin User
    /\ Reassigned \cap Cleared = {}
    /\ SubareasOf \in [Departments -> SUBSET UNION {SubareasOf[d] : d \in Departments}]
    /\ \A d, e \in Departments : d # e => SubareasOf[d] \cap SubareasOf[e] = {}
    /\ {MaxRows, MaxAccountOps} \subseteq Nat

NoAccount == [active |-> FALSE, row |-> FALSE]
NoRemoval == [pc |-> "idle"]
Subareas == UNION {SubareasOf[d] : d \in Departments}

Is(u) == account[u].row
ActiveIn(u) == Is(u) /\ account[u].active

NewAccount(d, s) ==
    [row |-> TRUE, active |-> TRUE, department |-> d, subarea |-> s, stamped |-> FALSE, reason |-> None,
     mustChangePassword |-> FALSE]

Set(u, row) == account' = [account EXCEPT ![u] = row]

(* Whoever asks is authenticated, and authenticate reads the account.      *)
Operates ==
    /\ \E u \in User : ActiveIn(u)
    /\ accountOps < MaxAccountOps
    /\ accountOps' = accountOps + 1
    /\ overtaken' = (overtaken \/ \E r \in Removals : removal[r] # NoRemoval)

(***************************************************************************)
(* Accounts                                                                *)
(***************************************************************************)
(* The reference must exist; whether it is in use is not asked.            *)
Referable(d, s) == (d # None => department[d] # "absent") /\ (s # None => subarea[s] # "absent")

CreateUser(u, d, s) ==
    /\ ~Is(u) /\ Referable(d, s)
    /\ Set(u, NewAccount(d, s))
    /\ Operates /\ UNCHANGED <<owner, department, subarea, removal, rows>>

(* Rows whose username exists are skipped, not refused.                    *)
Import(us) ==
    /\ account' = [u \in User |-> IF u \in us /\ ~Is(u) THEN NewAccount(None, None) ELSE account[u]]
    /\ Operates /\ UNCHANGED <<owner, department, subarea, removal, rows>>

(* `active` is a field like any other: neither stamp nor reason follow it. *)
Update(u, active, d, s) ==
    /\ Is(u) /\ Referable(d, s)
    /\ Set(u, [account[u] EXCEPT !.active = active, !.department = d, !.subarea = s])
    /\ Operates /\ UNCHANGED <<owner, department, subarea, removal, rows>>

Deactivate(actor, u, reason) ==
    /\ actor # u /\ ActiveIn(actor) /\ ActiveIn(u)
    /\ Set(u, [account[u] EXCEPT !.active = FALSE, !.stamped = TRUE, !.reason = reason])
    /\ Operates /\ UNCHANGED <<owner, department, subarea, removal, rows>>

(* The category stays; everything else about the deactivation is cleared.  *)
Reactivate(actor, u) ==
    /\ actor # u /\ ActiveIn(actor) /\ Is(u) /\ ~account[u].active
    /\ Set(u, [account[u] EXCEPT !.active = TRUE, !.stamped = FALSE])
    /\ Operates /\ UNCHANGED <<owner, department, subarea, removal, rows>>

ResetPassword(u) ==
    /\ Is(u)
    /\ Set(u, [account[u] EXCEPT !.mustChangePassword = TRUE])
    /\ Operates /\ UNCHANGED <<owner, department, subarea, removal, rows>>

ChangePassword(u) ==
    /\ ActiveIn(u)
    /\ Set(u, [account[u] EXCEPT !.mustChangePassword = FALSE])
    /\ Operates /\ UNCHANGED <<owner, department, subarea, removal, rows>>

(* Another module writes a row that names u: an entry, a ticket, a task.   *)
Refer(u, column) ==
    /\ rows < MaxRows /\ ActiveIn(u) /\ owner[column] = None
    /\ owner' = [owner EXCEPT ![column] = u]
    /\ rows' = rows + 1
    /\ overtaken' = (overtaken \/ \E r \in Removals : removal[r] # NoRemoval)
    /\ UNCHANGED <<account, department, subarea, removal, accountOps>>

(***************************************************************************)
(* Removal of an account                                                   *)
(***************************************************************************)
Names(u, columns) == \E c \in columns \cap Column : owner[c] = u

RemovalGoto(r, step) == removal' = [removal EXCEPT ![r] = step]

(* remove: reads the account and picks its way.                            *)
RemoveUser(r, u, force) ==
    /\ removal[r] = NoRemoval
    /\ Is(u)
    /\ force => u # Admin /\ ActiveIn(Admin)
    /\ RemovalGoto(r, [pc |-> IF force THEN "reassign" ELSE IF account[u].active THEN "deactivate" ELSE "count",
                user |-> u, forced |-> force])
    /\ Operates /\ UNCHANGED <<account, owner, department, subarea, rows>>

RemoveSoft(r) ==
    /\ removal[r].pc = "deactivate"
    /\ IF Is(removal[r].user) THEN Set(removal[r].user, [account[removal[r].user] EXCEPT !.active = FALSE])
       ELSE UNCHANGED account
    /\ RemovalGoto(r, NoRemoval)
    /\ UNCHANGED <<owner, department, subarea, rows, accountOps, overtaken>>

(* Mutant: the movements of a person are not counted as history.           *)
BlockersFewer(u) == Names(u, Counted \ {"TicketHistory.author", "Loan.custodian"})

Blockers(u) == Names(u, Counted)

(* With history the removal is refused, otherwise it goes on to delete.    *)
CountHistory(r) ==
    /\ removal[r].pc = "count"
    /\ RemovalGoto(r, IF Blockers(removal[r].user) THEN NoRemoval ELSE [removal[r] EXCEPT !.pc = "delete"])
    /\ UNCHANGED <<account, owner, department, subarea, rows, accountOps, overtaken>>

TakenOver(u) ==
    [c \in Column |-> IF owner[c] # u THEN owner[c]
                      ELSE IF c \in Reassigned THEN Admin
                      ELSE IF c \in Cleared THEN None ELSE u]

(* One transaction; the deletion is the next statement.                    *)
ReassignHistory(r) ==
    /\ removal[r].pc = "reassign"
    /\ owner' = TakenOver(removal[r].user)
    /\ RemovalGoto(r, [removal[r] EXCEPT !.pc = "delete"])
    /\ UNCHANGED <<account, department, subarea, rows, accountOps, overtaken>>

Deleted(u) ==
    [c \in Column |-> IF owner[c] = u THEN None ELSE owner[c]]

(* The delete of both ways. A row that restricts it refuses it.            *)
DeleteUser(r) ==
    LET u == removal[r].user
    IN  /\ removal[r].pc = "delete"
        /\ RemovalGoto(r, NoRemoval)
        /\ \/ /\ Is(u) /\ ~Names(u, Restricting)
              /\ Set(u, NoAccount)
              /\ owner' = Deleted(u)
           \/ /\ ~Is(u) \/ Names(u, Restricting)
              /\ UNCHANGED <<account, owner>>
        /\ UNCHANGED <<department, subarea, rows, accountOps, overtaken>>

(***************************************************************************)
(* Departments and subareas: out of use first, then deleted; neither while *)
(* it has active people. The count and the write are two statements.       *)
(***************************************************************************)
CreateDepartment(d) ==
    /\ department[d] = "absent"
    /\ department' = [department EXCEPT ![d] = "active"]
    /\ Operates /\ UNCHANGED <<account, owner, subarea, removal, rows>>

CreateSubarea(d, s) ==
    /\ department[d] = "active" /\ subarea[s] = "absent"
    /\ subarea' = [subarea EXCEPT ![s] = "active"]
    /\ Operates /\ UNCHANGED <<account, owner, department, removal, rows>>

UpdateArea(d, s, status) ==
    /\ \/ /\ s = None /\ department[d] # "absent"
          /\ department' = [department EXCEPT ![d] = status] /\ UNCHANGED subarea
       \/ /\ s # None /\ subarea[s] # "absent"
          /\ subarea' = [subarea EXCEPT ![s] = status] /\ UNCHANGED department
    /\ Operates /\ UNCHANGED <<account, owner, removal, rows>>

PeopleOf(d, s) ==
    {u \in User : ActiveIn(u) /\ IF s = None THEN account[u].department = d ELSE account[u].subarea = s}

RemoveArea(r, d, s) ==
    LET status == IF s = None THEN department[d] ELSE subarea[s]
    IN  /\ removal[r] = NoRemoval
        /\ status # "absent" /\ PeopleOf(d, s) = {}
        /\ RemovalGoto(r, [pc |-> IF status = "active" THEN "close" ELSE "drop", department |-> d, subarea |-> s])
        /\ Operates /\ UNCHANGED <<account, owner, department, subarea, rows>>

CloseArea(r) ==
    LET a == removal[r]
    IN  /\ a.pc = "close"
        /\ RemovalGoto(r, NoRemoval)
        /\ department' = [department EXCEPT ![a.department] =
             IF a.subarea = None /\ @ # "absent" THEN "inactive" ELSE @]
        /\ subarea' = [s \in Subareas |->
             IF s = a.subarea /\ subarea[s] # "absent" THEN "inactive" ELSE subarea[s]]
        /\ UNCHANGED <<account, owner, rows, accountOps, overtaken>>

(* The subareas of a department go with it; people lose the reference.     *)
DropArea(r) ==
    LET a == removal[r]
        subareas == IF a.subarea = None THEN SubareasOf[a.department] ELSE {a.subarea}
    IN  /\ a.pc = "drop"
        /\ RemovalGoto(r, NoRemoval)
        /\ department' = [department EXCEPT ![a.department] = IF a.subarea = None THEN "absent" ELSE @]
        /\ subarea' = [s \in Subareas |-> IF s \in subareas THEN "absent" ELSE subarea[s]]
        /\ account' = [u \in User |-> IF ~Is(u) THEN account[u]
             ELSE [account[u] EXCEPT !.department = IF a.subarea = None /\ @ = a.department THEN None ELSE @,
                                     !.subarea = IF @ \in subareas THEN None ELSE @]]
        /\ UNCHANGED <<owner, rows, accountOps, overtaken>>

(***************************************************************************)
(* The specification                                                       *)
(***************************************************************************)
AccountsInit ==
    /\ account = [u \in User |-> NewAccount(None, None)]
    /\ owner = [c \in Column |-> None]
    /\ department = [d \in Departments |-> "active"]
    /\ subarea = [s \in Subareas |-> "active"]
    /\ removal = [r \in Removals |-> NoRemoval]
    /\ rows = 0 /\ accountOps = 0 /\ overtaken = FALSE

AccountsNext ==
    \/ \E u \in User, d \in Departments \cup {None}, s \in Subareas \cup {None} :
         CreateUser(u, d, s) \/ \E active \in BOOLEAN : Update(u, active, d, s)
    \/ \E us \in SUBSET User : us # {} /\ Import(us)
    \/ \E u, actor \in User : Deactivate(actor, u, "resigned") \/ Reactivate(actor, u)
    \/ \E u \in User : ResetPassword(u) \/ ChangePassword(u) \/ \E c \in Column : Refer(u, c)
    \/ \E r \in Removals, u \in User, force \in BOOLEAN : RemoveUser(r, u, force)
    \/ \E r \in Removals : RemoveSoft(r) \/ CountHistory(r) \/ ReassignHistory(r) \/ DeleteUser(r)
    \/ \E d \in Departments : CreateDepartment(d) \/ \E s \in SubareasOf[d] : CreateSubarea(d, s)
    \/ \E d \in Departments : \E s \in SubareasOf[d] \cup {None} :
         \/ \E status \in {"active", "inactive"} : UpdateArea(d, s, status)
         \/ \E r \in Removals : RemoveArea(r, d, s)
    \/ \E r \in Removals : CloseArea(r) \/ DropArea(r)

AccountsSpec == AccountsInit /\ [][AccountsNext]_accountVars

(***************************************************************************)
(* Properties                                                              *)
(***************************************************************************)
(* remove of accounts, departments and subareas: unless something changed  *)
(* while a removal was in flight, deleting an account takes nobody's name  *)
(* off the tables that count as history, and no active person loses the    *)
(* department, nor a subarea of it. Where the database itself restricts,   *)
(* nothing that happens in between can take the name off either.           *)
DeletionsLoseNothing ==
    [][/\ \A u \in User : Is(u) /\ ~account'[u].row =>
            ~Names(u, IF overtaken THEN Counted \cap Restricting ELSE Counted)
       /\ ~overtaken => \A u \in User, d \in Departments :
            ActiveIn(u) /\ account'[u].active /\ accountOps' = accountOps /\ account[u].department = d =>
              /\ account'[u].department = d
              /\ account[u].subarea \in SubareasOf[d] => account'[u].subarea = account[u].subarea
      ]_accountVars

(* A removal that got past its count, or that handed the history over, and *)
(* was not overtaken deletes the account, unless the person is named by a  *)
(* required column that remove() neither counts nor reassigns.             *)
RemovalsComplete ==
    [][\A r \in Removals : removal[r].pc = "delete" /\ removal'[r] = NoRemoval /\ ~overtaken =>
         \/ ~account'[removal[r].user].row
         \/ Names(removal[r].user, Restricting \ (IF removal[r].forced THEN Reassigned ELSE Counted))
      ]_accountVars

(* Removals end as they were decided: nothing of others is lost, and the   *)
(* account goes.                                                           *)
RemovalsAreClean == DeletionsLoseNothing /\ RemovalsComplete
=============================================================================
