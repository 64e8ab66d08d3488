---------------------------- MODULE Housekeeping ----------------------------
(***************************************************************************)
(* Rooms and the housekeeping tasks that clean them.  finish(), inspect()  *)
(* and createManual() are SERIALIZABLE transactions, one step each.        *)
(* changeStatus(), assign(), start(), addExtra() and cancel() read the row *)
(* in one statement and write it by id in a later one, so other requests   *)
(* run in between.                                                         *)
(*                                                                         *)
(* The stock of the cart is HotelStock's: here a finished task records what *)
(* it took.  The catalog of transitions is the one the migrations install. *)
(***************************************************************************)
EXTENDS Naturals, FiniteSets

CONSTANTS
  Room, Task, Request,
  NoRoom,       \* a task that does not exist yet
  MaxExtra      \* bound on the extras of a task

ASSUME RoomsAssumption ==
  /\ IsFiniteSet(Request)
  /\ NoRoom \notin Room
  /\ MaxExtra \in Nat

VARIABLES
  room,       \* hotel_rooms.status
  kit,        \* whether the type of a room has an active kit
  task,       \* hotel_housekeeping_tasks with its lines and its inspection
  request,    \* requests between their read and their write
  used,       \* history: rooms a guest used since they were last cleaned
  lapsed     \* history: rooms of which a request wrote what had changed
              \* since it read it

roomVars == <<room, kit, task, request, used, lapsed>>

RoomStatus ==
  {"CLEANING", "INSPECTION", "AVAILABLE", "OCCUPIED", "MAINTENANCE", "OUT_OF_SERVICE"}

CleaningType == {"CHECKOUT", "STAY", "TURNDOWN"}

Closed == {"MAINTENANCE", "OUT_OF_SERVICE"}

\* What hotel_rooms.status or housekeeping.inspect lets a person ask for.  The
\* systemOnly transitions of the catalog, out of CLEANING, are StatusAfterFinish.
ManualTransition ==
  {<<"AVAILABLE", "OCCUPIED">>, <<"AVAILABLE", "CLEANING">>, <<"OCCUPIED", "CLEANING">>,
   <<"INSPECTION", "AVAILABLE">>, <<"INSPECTION", "CLEANING">>}
    \cup ((RoomStatus \ Closed) \X Closed)
    \cup (Closed \X {"CLEANING"})

\* A row of hotel_housekeeping_tasks, the quantity of its KIT and EXTRA lines,
\* what its movements took from the cart, whether it was inspected, and a
\* history flag: a guest entered the room after the task was opened.
TaskRow ==
  [room : Room \cup {NoRoom}, type : CleaningType, assigned : BOOLEAN,
   status : {"PENDING", "IN_PROGRESS", "FINISHED", "CANCELLED"},
   rework : BOOLEAN, requiresInspection : BOOLEAN, kitAlert : BOOLEAN,
   kitLines : 0..1, extra : 0..MaxExtra, taken : Nat,
   inspected : BOOLEAN, stale : BOOLEAN]

NewTask(r, type) ==
  [room |-> r, type |-> type, assigned |-> FALSE, status |-> "PENDING",
   rework |-> FALSE, requiresInspection |-> FALSE, kitAlert |-> FALSE,
   kitLines |-> 0, extra |-> 0, taken |-> 0,
   inspected |-> FALSE, stale |-> FALSE]

Idle == [op |-> "none"]

\* What a request holds between its read and its write.
RoomRequest ==
  {Idle}
    \cup [op : {"changeStatus"}, room : Room, from : RoomStatus, to : RoomStatus]
    \cup [op : {"assign", "start", "cancel"}, task : Task]
    \cup [op : {"addExtra"}, task : Task, extra : 0..MaxExtra]

\* createRoom(): CLEANING unless the caller says AVAILABLE.
RoomsInit ==
  /\ room \in [Room -> {"CLEANING", "AVAILABLE"}]
  /\ kit \in [Room -> BOOLEAN]
  /\ task = [t \in Task |-> NewTask(NoRoom, "CHECKOUT")]
  /\ request = [q \in Request |-> Idle]
  /\ used = {}
  /\ lapsed = {}

-----------------------------------------------------------------------------

Exists(t) == task[t].room # NoRoom

IsOpen(t) == Exists(t) /\ task[t].status \in {"PENDING", "IN_PROGRESS"}

OpenTasks(r) == {t \in Task : IsOpen(t) /\ task[t].room = r}

\* The unique index hotel_housekeeping_tasks_open_per_room, on writing t open.
IndexHolds(t) == OpenTasks(task[t].room) \subseteq {t}

Ask(q, what) ==
  /\ request[q] = Idle
  /\ request' = [request EXCEPT ![q] = what]
  /\ UNCHANGED <<room, kit, task, used, lapsed>>

Waits(q, op) == request[q].op = op

Done(q) == request' = [request EXCEPT ![q] = Idle]

\* What the request checked when it read is still so.
AsRead(q) ==
  CASE request[q].op = "changeStatus" -> room[request[q].room] = request[q].from
    [] request[q].op \in {"assign", "start"} -> task[request[q].task].status = "PENDING"
    [] request[q].op = "addExtra" ->
         IsOpen(request[q].task) /\ task[request[q].task].extra = request[q].extra
    [] OTHER -> IsOpen(request[q].task)

\* The request writes room r, or a task of it, and ends.
Writes(q, r) ==
  /\ Done(q)
  /\ lapsed' = IF AsRead(q) THEN lapsed ELSE lapsed \cup {r}

\* A later step of the request failed, or its process died.
Abandon(q) ==
  /\ request[q] # Idle
  /\ Done(q)
  /\ UNCHANGED <<room, kit, task, used, lapsed>>

-----------------------------------------------------------------------------

\* The row openForRoom() creates.  Which lines of the kit apply at a stay
\* depends on dates; at a checkout all of them do, at a turndown none.
OpenedRow(r, type, requiresInspection, due) ==
  [NewTask(r, type) EXCEPT
     !.requiresInspection = requiresInspection,
     !.kitAlert = type # "TURNDOWN" /\ ~kit[r],
     !.kitLines = IF kit[r] /\ type # "TURNDOWN" /\ (type = "STAY" => due) THEN 1 ELSE 0]

\* openForRoom() refuses a room that has an open task; the index does as well.
MayOpen(t, r) == ~Exists(t) /\ OpenTasks(r) = {}

CreateManual(t, r, type, requiresInspection, due) ==
  /\ MayOpen(t, r)
  /\ type = "STAY" => kit[r]
  /\ task' = [task EXCEPT ![t] = OpenedRow(r, type, requiresInspection, due)]
  /\ UNCHANGED <<room, kit, request, used, lapsed>>

\* The task a change of status opens, by the status that was read.
Opens(r, from, to) ==
  IF to = "CLEANING"
  THEN {type \in {"CHECKOUT"} : from = "OCCUPIED"} \cup {type \in {"TURNDOWN"} : from \in Closed}
  ELSE {}

\* A guest finds the room as the tasks open so far leave it.
Outdated(r) ==
  [t \in Task |-> IF t \in OpenTasks(r) THEN [task[t] EXCEPT !.stale = TRUE] ELSE task[t]]

ChangeStatusRead(q, r, to) ==
  /\ <<room[r], to>> \in ManualTransition
  /\ Ask(q, [op |-> "changeStatus", room |-> r, from |-> room[r], to |-> to])

\* The transaction of changeStatus() writes the room whatever its status is now.
ChangeStatusWrite(q, t, requiresInspection) ==
  /\ Waits(q, "changeStatus")
  /\ LET r == request[q].room
         to == request[q].to
         opened == Opens(r, request[q].from, to)
     IN  /\ room' = [room EXCEPT ![r] = to]
         /\ used' = IF to = "OCCUPIED" THEN used \cup {r} ELSE used
         /\ IF opened = {}
            THEN task' = IF to = "OCCUPIED" THEN Outdated(r) ELSE task
            ELSE /\ MayOpen(t, r)
                 /\ \E type \in opened :
                      task' = [task EXCEPT ![t] = OpenedRow(r, type, requiresInspection, TRUE)]
  /\ Writes(q, request[q].room)
  /\ UNCHANGED kit

\* The catalog gives the type of a room an active kit or takes it away.
KitChanges(r) ==
  /\ kit' = [kit EXCEPT ![r] = ~@]
  /\ UNCHANGED <<room, task, request, used, lapsed>>

-----------------------------------------------------------------------------

\* assign(), start(), addExtra() and cancel() read the task and check it...
AssignRead(q, t) ==
  /\ Exists(t) /\ task[t].status = "PENDING"
  /\ Ask(q, [op |-> "assign", task |-> t])

StartRead(q, t) ==
  /\ Exists(t) /\ task[t].status = "PENDING"
  /\ task[t].assigned
  /\ Ask(q, [op |-> "start", task |-> t])

Operable(t) == IsOpen(t)

AddExtraRead(q, t) ==
  /\ Operable(t)
  /\ task[t].extra < MaxExtra
  /\ Ask(q, [op |-> "addExtra", task |-> t, extra |-> task[t].extra])

Cancellable(t) == IsOpen(t)

CancelRead(q, t) ==
  /\ Cancellable(t)
  /\ Ask(q, [op |-> "cancel", task |-> t])

\* ... and write it by its id alone.
AssignWrite(q) ==
  /\ Waits(q, "assign")
  /\ task' = [task EXCEPT ![request[q].task].assigned = TRUE]
  /\ Writes(q, task[request[q].task].room)
  /\ UNCHANGED <<room, kit, used>>

StartWrite(q) ==
  /\ Waits(q, "start")
  /\ IndexHolds(request[q].task)
  /\ task' = [task EXCEPT ![request[q].task].status = "IN_PROGRESS"]
  /\ Writes(q, task[request[q].task].room)
  /\ UNCHANGED <<room, kit, used>>

\* The EXTRA line is created, which the index refuses if another request has
\* created it, or lapsed with what was read plus one.
AddExtraWrite(q) ==
  /\ Waits(q, "addExtra")
  /\ LET t == request[q].task
     IN  /\ request[q].extra = 0 => task[t].extra = 0
         /\ task' = [task EXCEPT ![t].extra = request[q].extra + 1]
  /\ Writes(q, task[request[q].task].room)
  /\ UNCHANGED <<room, kit, used>>

CancelWrite(q) ==
  /\ Waits(q, "cancel")
  /\ task' = [task EXCEPT ![request[q].task].status = "CANCELLED"]
  /\ Writes(q, task[request[q].task].room)
  /\ UNCHANGED <<room, kit, used>>

-----------------------------------------------------------------------------

\* roomStatusAfterFinish(): only a room in CLEANING moves.
StatusAfterFinish(t) ==
  LET r == task[t].room
  IN  CASE room[r] # "CLEANING" -> room[r]
        [] room[r] = "CLEANING" /\ task[t].rework -> "INSPECTION"
        [] room[r] = "CLEANING" /\ ~task[t].rework /\ task[t].type = "STAY" -> room[r]
        [] OTHER -> IF task[t].requiresInspection THEN "INSPECTION" ELSE "AVAILABLE"

Blocked(t) == task[t].kitAlert /\ task[t].type = "CHECKOUT"

\* Mutant: what the task has become is not looked at, so that a repeated finish
\* charges the cart again.
FinishableAgain(t) ==
  /\ Exists(t) /\ task[t].status # "CANCELLED"
  /\ task[t].assigned
  /\ ~Blocked(t)

\* A task that is FINISHED already is returned as it is.
Finishable(t) ==
  /\ Exists(t) /\ task[t].status = "IN_PROGRESS"
  /\ task[t].assigned
  /\ ~Blocked(t)

\* The cart is charged, the room moves and the task closes in one transaction.
Finish(t) ==
  /\ Finishable(t)
  /\ LET r == task[t].room
     IN  /\ room' = [room EXCEPT ![r] = StatusAfterFinish(t)]
         /\ used' = IF room'[r] # room[r] /\ ~task[t].stale THEN used \ {r} ELSE used
  /\ task' = [task EXCEPT ![t].status = "FINISHED",
                          ![t].taken = @ + task[t].kitLines + task[t].extra]
  /\ UNCHANGED <<kit, request, lapsed>>

Inspectable(t) ==
  /\ Exists(t) /\ task[t].status = "FINISHED"
  /\ room[task[t].room] = "INSPECTION"
  /\ ~task[t].inspected

ApproveInspection(t) ==
  /\ Inspectable(t)
  /\ room' = [room EXCEPT ![task[t].room] = "AVAILABLE"]
  /\ task' = [task EXCEPT ![t].inspected = TRUE]
  /\ UNCHANGED <<kit, request, used, lapsed>>

\* A rejection opens a rework task, which the index refuses while another task
\* of the room is open.
RejectInspection(t, again) ==
  /\ Inspectable(t)
  /\ MayOpen(again, task[t].room)
  /\ room' = [room EXCEPT ![task[t].room] = "CLEANING"]
  /\ task' = [task EXCEPT
                ![t].inspected = TRUE,
                ![again] = [NewTask(task[t].room, "CHECKOUT") EXCEPT
                              !.rework = TRUE,
                              !.requiresInspection = task[t].requiresInspection]]
  /\ UNCHANGED <<kit, request, used, lapsed>>

RoomsNext ==
  \/ \E t \in Task, r \in Room, type \in CleaningType, requiresInspection, due \in BOOLEAN :
       CreateManual(t, r, type, requiresInspection, due)
  \/ \E q \in Request, r \in Room, to \in RoomStatus : ChangeStatusRead(q, r, to)
  \/ \E q \in Request, t \in Task, requiresInspection \in BOOLEAN :
       ChangeStatusWrite(q, t, requiresInspection)
  \/ \E r \in Room : KitChanges(r)
  \/ \E q \in Request, t \in Task :
       AssignRead(q, t) \/ StartRead(q, t) \/ AddExtraRead(q, t) \/ CancelRead(q, t)
  \/ \E q \in Request :
       AssignWrite(q) \/ StartWrite(q) \/ AddExtraWrite(q) \/ CancelWrite(q) \/ Abandon(q)
  \/ \E t \in Task : Finish(t) \/ ApproveInspection(t)
  \/ \E t, again \in Task : RejectInspection(t, again)

RoomsSpec == RoomsInit /\ [][RoomsNext]_roomVars

-----------------------------------------------------------------------------

\* Rows have the shape of the schema.
RoomsTypeOK ==
  /\ room \in [Room -> RoomStatus]
  /\ kit \in [Room -> BOOLEAN]
  /\ task \in [Task -> TaskRow]
  /\ request \in [Request -> RoomRequest]
  /\ used \subseteq Room
  /\ lapsed \subseteq Room

\* A room is offered, or waits for its inspection, only after a task that was
\* opened since its last guest was finished: no sequence of check-outs, repairs,
\* cancelled tasks, manual tasks and reworks gets around the cleaning.
OfferedRoomsAreClean == \A r \in used \ lapsed : room[r] \notin {"AVAILABLE", "INSPECTION"}

\* "Solo salen a LIMPIEZA (unica salida)": what is closed for repairs comes back
\* through a cleaning, whoever changes its status.
ClosedLeavesThroughCleaning ==
  [][\A r \in Room \ lapsed' : room[r] \in Closed => room'[r] \in {room[r], "CLEANING"}]_roomVars

\* "A repeated finish returns the finished task without consuming again": what
\* the cart gave for a task is what its lines say, once, and nothing unless the
\* task was finished.
CartGaveTheLines ==
  \A t \in Task : Exists(t) /\ task[t].room \notin lapsed =>
    task[t].taken = IF task[t].status = "FINISHED" THEN task[t].kitLines + task[t].extra ELSE 0

\* changeStatus() and the operations of a task, overlapping as they may: unless
\* one wrote over what another had changed since it read, a room goes back to
\* the guests, or out of repairs, through a cleaning only, and its cart was
\* charged what was used.
RoomsAreServed ==
  [](OfferedRoomsAreClean /\ CartGaveTheLines) /\ ClosedLeavesThroughCleaning
=============================================================================
