---------------------------- MODULE StoreProofs -----------------------------
(***************************************************************************)
(* Proofs about what the stores dispose of and serve: the units of the     *)
(* material outputs, the rooms and tasks of housekeeping, and the books of *)
(* the hotel store and of the kitchen, for every number of rows.           *)
(***************************************************************************)
EXTENDS MaterialOutputs, Housekeeping, HotelStock, KitchenStock, Sums, TLAPS

-----------------------------------------------------------------------------
(* Material outputs.  DisposedUnitsAreRetired is not inductive: an update() *)
(* writes the unit it was asked for on the strength of what it read.       *)

\* What a request between its read and its transaction holds: a unit it saw
\* on the output was disposed of by then, and is the one it will write.
OutputRequestsAreFounded ==
  \A r \in OutputRequest : outputRequest[r] # OutputIdle =>
    /\ outputRequest[r].output \in Output
    /\ NotLocked(outputRequest[r].seen, outputRequest[r].unit)
    /\ outputRequest[r].seen \in Unit => status[outputRequest[r].seen] = "RETIRED"

\* The inductive invariant of the material outputs.
OutputsInv ==
  /\ OutputsTypeOK
  /\ RetiredByOneMovement
  /\ DisposedUnitsAreRetired
  /\ OutputRequestsAreFounded

\* What is retired stays retired while others change.
StaysRetired == \A u \in Unit : status[u] = "RETIRED" => status'[u] = "RETIRED"

\* No output exists at first.
LEMMA OutputsInvInit == OutputsInit => OutputsInv
BY OutputsAssumption
   DEF OutputsInit, OutputsInv, OutputsTypeOK, Gone, UnitStatus, OutputRequestState, OutputIdle, RetiredByOneMovement, Absent,
       DisposedUnitsAreRetired, OutputRequestsAreFounded

\* Retiring disposable units retires them by one movement each, and no other.
LEMMA RetireUnitsEffect ==
  ASSUME OutputsInv, NEW units \in SUBSET Unit, RetireUnits(units)
  PROVE  /\ status' \in [Unit -> UnitStatus] /\ retirements' \in [Unit -> Nat]
         /\ RetiredByOneMovement'
         /\ StaysRetired
         /\ \A u \in units : status'[u] = "RETIRED"
<1>1. status' \in [Unit -> UnitStatus] /\ retirements' \in [Unit -> Nat]
  BY DEF RetireUnits, OutputsInv, OutputsTypeOK, UnitStatus, RetirementCount
<1>2. RetiredByOneMovement'
  BY DEF RetireUnits, OutputsInv, OutputsTypeOK, RetirementCount, RetiredByOneMovement
<1> QED
  BY <1>1, <1>2 DEF RetireUnits, StaysRetired

\* A step keeps what requests hold, when it leaves them alone and retired units
\* retired.
LEMMA FoundedStays ==
  ASSUME OutputsInv, StaysRetired, UNCHANGED outputRequest
  PROVE  /\ outputRequest' \in [OutputRequest -> OutputRequestState]
         /\ OutputRequestsAreFounded'
BY DEF OutputsInv, OutputsTypeOK, StaysRetired, OutputRequestsAreFounded, NotLocked, OutputIdle

\* So does the end of a request.
LEMMA FoundedEnds ==
  ASSUME OutputsInv, StaysRetired, NEW r \in OutputRequest,
         outputRequest' = [outputRequest EXCEPT ![r] = OutputIdle]
  PROVE  /\ outputRequest' \in [OutputRequest -> OutputRequestState]
         /\ OutputRequestsAreFounded'
<1>1. \A s \in OutputRequest : outputRequest'[s] \in {outputRequest[s], OutputIdle}
  BY DEF OutputsInv, OutputsTypeOK
<1>2. outputRequest' \in [OutputRequest -> OutputRequestState]
  BY DEF OutputsInv, OutputsTypeOK, OutputIdle, OutputRequestState
<1>3. OutputRequestsAreFounded'
  BY <1>1 DEF OutputsInv, StaysRetired, OutputRequestsAreFounded, NotLocked
<1> QED
  BY <1>2, <1>3

\* Every step of the outputs and of the inventory keeps the invariant.
LEMMA OutputsInvNext == OutputsInv /\ [OutputsNext]_outputVars => OutputsInv'
<1> SUFFICES ASSUME OutputsInv, [OutputsNext]_outputVars PROVE OutputsInv'
  OBVIOUS
<1>a. Absent \notin Unit /\ Removed \notin Unit /\ NoUnit \notin Unit
  BY OutputsAssumption DEF Absent, Removed
<1>1. ASSUME NEW batch \in Batches, Create(batch) PROVE OutputsInv'
  <2>1. PICK os \in SUBSET Output : batch \in [os -> Unit \cup {NoUnit}]
    BY DEF Batches
  <2> DEFINE units == {batch[o] : o \in DOMAIN batch} \ {NoUnit}
  <2>2. units \in SUBSET Unit
    BY <2>1
  <2>3. /\ status' \in [Unit -> UnitStatus] /\ retirements' \in [Unit -> Nat]
        /\ RetiredByOneMovement' /\ StaysRetired /\ \A u \in units : status'[u] = "RETIRED"
    BY <1>1, <2>2, RetireUnitsEffect DEF Create
  <2>4. output' \in [Output -> Unit \cup {NoUnit, Absent, Removed}]
    BY <1>1, <2>1 DEF Create, OutputsInv, OutputsTypeOK
  <2>5. DisposedUnitsAreRetired'
    <3> SUFFICES ASSUME NEW o \in Output, output'[o] \in Unit
                 PROVE  status'[output'[o]] = "RETIRED"
      BY DEF DisposedUnitsAreRetired
    <3>1. CASE o \in DOMAIN batch
      <4>1. output'[o] = batch[o]
        BY <1>1, <3>1 DEF Create
      <4> QED
        BY <1>a, <2>3, <3>1, <4>1
    <3>2. CASE o \notin DOMAIN batch
      <4>1. output'[o] = output[o]
        BY <1>1, <3>2 DEF Create
      <4> QED
        BY <2>3, <4>1 DEF OutputsInv, OutputsTypeOK, DisposedUnitsAreRetired, StaysRetired
    <3> QED
      BY <3>1, <3>2
  <2> QED
    BY <1>1, <2>3, <2>4, <2>5, FoundedStays DEF Create, OutputsInv, OutputsTypeOK
<1>2. ASSUME NEW r \in OutputRequest, NEW o \in Output,
             NEW unit \in Unit \cup {NoUnit, Untouched}, UpdateRead(r, o, unit)
      PROVE  OutputsInv'
  <2> DEFINE asked == [output |-> o, seen |-> output[o], unit |-> unit]
  <2>1. output[o] \in Unit \cup {NoUnit}
    BY <1>2 DEF UpdateRead, OutputExists, OutputsInv, OutputsTypeOK
  <2>2. asked.seen \in Unit => status[asked.seen] = "RETIRED"
    BY DEF OutputsInv, OutputsTypeOK, DisposedUnitsAreRetired
  <2>3. outputRequest' = [outputRequest EXCEPT ![r] = asked]
    BY <1>2 DEF UpdateRead
  <2>4. \A s \in OutputRequest : outputRequest'[s] = IF s = r THEN asked ELSE outputRequest[s]
    BY <2>3 DEF OutputsInv, OutputsTypeOK
  <2>5. NotLocked(asked.seen, asked.unit) /\ status' = status
    BY <1>2 DEF UpdateRead
  <2>6. OutputRequestsAreFounded'
    BY <2>1, <2>2, <2>4, <2>5 DEF OutputRequestsAreFounded, OutputsInv, OutputsTypeOK, NotLocked
  <2>7. outputRequest' \in [OutputRequest -> OutputRequestState]
    BY <2>1, <2>3 DEF OutputsInv, OutputsTypeOK, OutputRequestState
  <2> QED
    BY <1>2, <2>6, <2>7
       DEF UpdateRead, OutputsInv, OutputsTypeOK, RetiredByOneMovement, DisposedUnitsAreRetired
<1>3. ASSUME NEW r \in OutputRequest, UpdateWrite(r) PROVE OutputsInv'
  <2> DEFINE o == outputRequest[r].output
  <2>t. outputRequest[r] \in OutputRequestState
    BY DEF OutputsInv, OutputsTypeOK
  <2>1. /\ o \in Output /\ outputRequest[r].seen \in Unit \cup {NoUnit}
        /\ outputRequest[r].unit \in Unit \cup {NoUnit, Untouched}
        /\ NotLocked(outputRequest[r].seen, outputRequest[r].unit)
        /\ outputRequest[r].seen \in Unit => status[outputRequest[r].seen] = "RETIRED"
    BY <1>3, <2>t DEF UpdateWrite, OutputsInv, OutputRequestsAreFounded, OutputRequestState
  <2>2. output[o] \in Unit \cup {NoUnit}
    BY <1>3, <2>1 DEF UpdateWrite, OutputExists, OutputsInv, OutputsTypeOK
  <2>3. Linked(r) \in Unit \cup {NoUnit}
    BY <2>1, <2>2 DEF Linked
  <2>4. /\ status' \in [Unit -> UnitStatus] /\ retirements' \in [Unit -> Nat]
        /\ RetiredByOneMovement' /\ StaysRetired
    <3>1. CASE Retires(r)
      <4>1. {Linked(r)} \in SUBSET Unit
        BY <2>3, <3>1 DEF Retires
      <4> QED
        BY <1>3, <3>1, <4>1, RetireUnitsEffect DEF UpdateWrite
    <3>2. CASE ~Retires(r)
      BY <1>3, <3>2 DEF UpdateWrite, OutputsInv, OutputsTypeOK, RetiredByOneMovement, StaysRetired
    <3> QED
      BY <3>1, <3>2
  <2>5. Linked(r) \in Unit => status'[Linked(r)] = "RETIRED"
    <3>1. CASE Retires(r)
      <4>1. {Linked(r)} \in SUBSET Unit
        BY <2>3, <3>1 DEF Retires
      <4> QED
        BY <1>3, <3>1, <4>1, RetireUnitsEffect DEF UpdateWrite
    <3>2. CASE ~Retires(r)
      <4> SUFFICES ASSUME Linked(r) \in Unit PROVE status[Linked(r)] = "RETIRED"
        BY <1>3, <3>2 DEF UpdateWrite
      <4>1. outputRequest[r].seen \in Unit
        BY <1>a, <2>1, <3>2 DEF Retires
      <4>2. Linked(r) \in {output[o], outputRequest[r].seen}
        BY <1>a, <2>1, <4>1 DEF Linked, NotLocked
      <4> QED
        BY <2>1, <4>1, <4>2 DEF OutputsInv, OutputsTypeOK, DisposedUnitsAreRetired
    <3> QED
      BY <3>1, <3>2
  <2>6. output' = [output EXCEPT ![o] = Linked(r)]
    BY <1>3 DEF UpdateWrite
  <2>7. output' \in [Output -> Unit \cup {NoUnit, Absent, Removed}]
    BY <2>3, <2>6 DEF OutputsInv, OutputsTypeOK
  <2>8. DisposedUnitsAreRetired'
    BY <2>1, <2>4, <2>5, <2>6 DEF OutputsInv, OutputsTypeOK, DisposedUnitsAreRetired, StaysRetired
  <2>9. /\ outputRequest' \in [OutputRequest -> OutputRequestState]
        /\ OutputRequestsAreFounded'
    BY <1>3, <2>4, FoundedEnds DEF UpdateWrite
  <2> QED
    BY <2>4, <2>7, <2>8, <2>9 DEF OutputsInv, OutputsTypeOK
<1>4. ASSUME NEW r \in OutputRequest, UpdateFails(r) PROVE OutputsInv'
  <2>1. StaysRetired
    BY <1>4 DEF UpdateFails, StaysRetired
  <2> QED
    BY <1>4, <2>1, FoundedEnds
       DEF UpdateFails, OutputsInv, OutputsTypeOK, RetiredByOneMovement, DisposedUnitsAreRetired
<1>5. ASSUME NEW o \in Output, Remove(o) PROVE OutputsInv'
  <2>1. StaysRetired
    BY <1>5 DEF Remove, StaysRetired
  <2>2. output' \in [Output -> Unit \cup {NoUnit, Absent, Removed}] /\ DisposedUnitsAreRetired'
    BY <1>a, <1>5 DEF Remove, OutputsInv, OutputsTypeOK, DisposedUnitsAreRetired
  <2> QED
    BY <1>5, <2>1, <2>2, FoundedStays DEF Remove, OutputsInv, OutputsTypeOK, RetiredByOneMovement
<1>6. ASSUME NEW u \in Unit, NEW to \in UnitStatus, InventoryMoves(u, to) PROVE OutputsInv'
  <2>1. status[u] # "RETIRED" /\ to # "RETIRED"
    BY <1>6 DEF InventoryMoves
  <2>2. StaysRetired
    BY <1>6, <2>1 DEF InventoryMoves, OutputsInv, OutputsTypeOK, StaysRetired
  <2>3. status' \in [Unit -> UnitStatus] /\ RetiredByOneMovement'
    BY <1>6, <2>1 DEF InventoryMoves, OutputsInv, OutputsTypeOK, RetiredByOneMovement
  <2> QED
    BY <1>6, <2>2, <2>3, FoundedStays
       DEF InventoryMoves, OutputsInv, OutputsTypeOK, DisposedUnitsAreRetired, StaysRetired
<1>7. ASSUME NEW u \in Unit, InventoryRetires(u) PROVE OutputsInv'
  <2>1. StaysRetired /\ status' \in [Unit -> UnitStatus] /\ retirements' \in [Unit -> Nat]
    BY <1>7 DEF InventoryRetires, OutputsInv, OutputsTypeOK, StaysRetired, UnitStatus
  <2>2. RetiredByOneMovement'
    BY <1>7 DEF InventoryRetires, OutputsInv, OutputsTypeOK, RetiredByOneMovement
  <2> QED
    BY <1>7, <2>1, <2>2, FoundedStays
       DEF InventoryRetires, OutputsInv, OutputsTypeOK, DisposedUnitsAreRetired, StaysRetired
<1>8. CASE UNCHANGED outputVars
  BY <1>8 DEF outputVars, OutputsInv, OutputsTypeOK, RetiredByOneMovement, DisposedUnitsAreRetired,
     OutputRequestsAreFounded, NotLocked
<1> QED
  BY <1>1, <1>2, <1>3, <1>4, <1>5, <1>6, <1>7, <1>8 DEF OutputsNext

\* create(), update(), remove(): a unit an output names was disposed of, by one
\* movement, and stays with that output, however the requests interleave.
THEOREM OutputsDispose == OutputsSpec => OutputsDisposeOnce
<1> DEFINE Locked == \A o \in Output :
             /\ output[o] \in Unit
             /\ \A r \in OutputRequest :
                  outputRequest[r].output = o => outputRequest[r].seen = output[o]
             => output'[o] \in {output[o], Removed}
<1>1. OutputsInv => RetiredByOneMovement /\ DisposedUnitsAreRetired
  BY DEF OutputsInv
<1>2. OutputsInv /\ [OutputsNext]_outputVars => [Locked]_outputVars
  <2> SUFFICES ASSUME OutputsInv, OutputsNext, NEW o \in Output, output[o] \in Unit,
                      \A r \in OutputRequest :
                        outputRequest[r].output = o => outputRequest[r].seen = output[o]
               PROVE  output'[o] \in {output[o], Removed}
    BY DEF outputVars
  <2>a. Absent \notin Unit /\ NoUnit \notin Unit
    BY OutputsAssumption DEF Absent
  <2>1. ASSUME NEW batch \in Batches, Create(batch) PROVE output'[o] = output[o]
    BY <2>1, <2>a DEF Create
  <2>2. ASSUME NEW r \in OutputRequest, UpdateWrite(r) PROVE output'[o] = output[o]
    <3>1. CASE outputRequest[r].output = o
      <4>1. NotLocked(output[o], outputRequest[r].unit)
        BY <2>2, <3>1 DEF UpdateWrite, OutputsInv, OutputsTypeOK, OutputRequestsAreFounded
      <4>2. Linked(r) = output[o]
        BY <2>a, <3>1, <4>1 DEF NotLocked, Linked
      <4> QED
        BY <2>2, <3>1, <4>2 DEF UpdateWrite, OutputsInv, OutputsTypeOK
    <3>2. CASE outputRequest[r].output # o
      BY <2>2, <3>2 DEF UpdateWrite, OutputsInv, OutputsTypeOK
    <3> QED
      BY <3>1, <3>2
  <2>3. ASSUME NEW p \in Output, Remove(p) PROVE output'[o] \in {output[o], Removed}
    BY <2>3 DEF Remove, OutputsInv, OutputsTypeOK
  <2> QED
    BY <2>1, <2>2, <2>3
       DEF OutputsNext, UpdateRead, UpdateFails, InventoryMoves, InventoryRetires
<1> QED
  BY <1>1, <1>2, OutputsInvInit, OutputsInvNext, PTL
     DEF OutputsSpec, OutputsDisposeOnce, UnitIsLocked

-----------------------------------------------------------------------------
(* Housekeeping, whatever overlaps.  Two facts make RoomsAreServed         *)
(* inductive: what the check of a request leaves true however the rows     *)
(* change until it writes, and the task that is open while a used room is  *)
(* cleaned was opened after its guest had come, unless a request wrote     *)
(* over what had changed in that room.                                     *)

\* What a request has checked and nothing takes away: the transition it asks for
\* is in the catalog, its task exists and has room for the extra.
RequestsAreLegal ==
  \A q \in Request :
    /\ Waits(q, "changeStatus") => <<request[q].from, request[q].to>> \in ManualTransition
    /\ request[q].op \in {"assign", "start", "addExtra", "cancel"} => Exists(request[q].task)
    /\ Waits(q, "addExtra") => request[q].extra < MaxExtra

\* The open task of a used room that is being cleaned was opened after its
\* last guest had come.
CleaningFollowsTheGuest ==
  \A t \in Task :
    IsOpen(t) /\ task[t].room \in used \ lapsed /\ room[task[t].room] = "CLEANING" =>
      ~task[t].stale

\* The inductive invariant of housekeeping.
RoomsInv ==
  /\ RoomsTypeOK
  /\ OfferedRoomsAreClean
  /\ CartGaveTheLines
  /\ CleaningFollowsTheGuest
  /\ RequestsAreLegal

\* The cart gave what a row says.
Charged(row) ==
  row.room # NoRoom =>
    row.taken = IF row.status = "FINISHED" THEN row.kitLines + row.extra ELSE 0

\* No task changes its room.
RoomsStay == \A s \in Task : Exists(s) => task'[s].room = task[s].room

\* What a pending request names exists.
LEMMA RequestFields ==
  ASSUME RoomsTypeOK, NEW q \in Request
  PROVE  /\ Waits(q, "changeStatus") =>
              request[q].room \in Room /\ request[q].from \in RoomStatus
                /\ request[q].to \in RoomStatus
         /\ request[q].op \in {"assign", "start", "addExtra", "cancel"} => request[q].task \in Task
         /\ Waits(q, "addExtra") => request[q].extra \in 0 .. MaxExtra
<1>1. request[q] \in RoomRequest
  BY DEF RoomsTypeOK
<1> QED
  BY <1>1 DEF RoomRequest, Idle, Waits

\* At first there are no tasks and nobody has used a room.
LEMMA RoomsInvInit == RoomsInit => RoomsInv
<1> SUFFICES ASSUME RoomsInit PROVE RoomsInv
  OBVIOUS
<1>1. NewTask(NoRoom, "CHECKOUT") \in TaskRow
  BY RoomsAssumption DEF NewTask, TaskRow, CleaningType
<1>2. RoomsTypeOK
  BY <1>1 DEF RoomsInit, RoomsTypeOK, RoomStatus, RoomRequest
<1>3. \A t \in Task : ~Exists(t)
  BY DEF RoomsInit, Exists, NewTask
<1>4. CartGaveTheLines /\ CleaningFollowsTheGuest
  BY <1>3 DEF CartGaveTheLines, CleaningFollowsTheGuest, IsOpen
<1>5. RequestsAreLegal /\ OfferedRoomsAreClean
  BY DEF RoomsInit, RequestsAreLegal, OfferedRoomsAreClean, Idle, Waits
<1> QED
  BY <1>2, <1>4, <1>5 DEF RoomsInv

\* What was checked stays true while tasks stay in their rooms.
LEMMA LegalStay ==
  ASSUME RoomsInv, RoomsStay, request' \in [Request -> RoomRequest],
         \A p \in Request : request'[p] \in {request[p], Idle}
  PROVE  RequestsAreLegal'
<1>1. ASSUME NEW p \in Request
      PROVE  /\ request'[p].op = "changeStatus" =>
                  <<request'[p].from, request'[p].to>> \in ManualTransition
             /\ request'[p].op \in {"assign", "start", "addExtra", "cancel"} =>
                  task'[request'[p].task].room # NoRoom
             /\ request'[p].op = "addExtra" => request'[p].extra < MaxExtra
  <2>1. CASE request'[p] = Idle
    BY <2>1 DEF Idle
  <2>2. CASE request'[p] = request[p]
    <3>1. request[p].op \in {"assign", "start", "addExtra", "cancel"} =>
            /\ request[p].task \in Task /\ task[request[p].task].room # NoRoom
            /\ task'[request[p].task].room = task[request[p].task].room
      BY RequestFields DEF RoomsInv, RequestsAreLegal, RoomsStay, Exists
    <3>2. /\ request[p].op = "changeStatus" =>
               <<request[p].from, request[p].to>> \in ManualTransition
          /\ request[p].op = "addExtra" => request[p].extra < MaxExtra
      BY DEF RoomsInv, RequestsAreLegal, Waits
    <3> QED
      BY <2>2, <3>1, <3>2
  <2> QED
    BY <2>1, <2>2
<1> QED
  BY <1>1 DEF RequestsAreLegal, Waits, Exists

\* A request ends, and the others stay.
LEMMA DoneEffect ==
  ASSUME RoomsInv, RoomsStay, NEW q \in Request, Done(q)
  PROVE  request' \in [Request -> RoomRequest] /\ RequestsAreLegal'
<1>1. /\ request' \in [Request -> RoomRequest]
      /\ \A p \in Request : request'[p] \in {request[p], Idle}
  BY DEF RoomsInv, RoomsTypeOK, Done, RoomRequest
<1> QED
  BY <1>1, LegalStay

\* A transaction of its own leaves the requests as they are.
LEMMA UndisturbedEffect ==
  ASSUME RoomsInv, RoomsStay, UNCHANGED request
  PROVE  request' \in [Request -> RoomRequest] /\ RequestsAreLegal'
<1>1. request' \in [Request -> RoomRequest]
  BY DEF RoomsInv, RoomsTypeOK
<1> QED
  BY <1>1, LegalStay

\* What a request writes without its reading being so, lapses.
LEMMA WritesEffect ==
  ASSUME RoomsInv, RoomsStay, NEW q \in Request, NEW r \in Room, Writes(q, r)
  PROVE  /\ request' \in [Request -> RoomRequest] /\ RequestsAreLegal'
         /\ lapsed \subseteq lapsed' /\ lapsed' \subseteq Room
         /\ r \in lapsed' \/ AsRead(q)
BY DoneEffect DEF Writes, RoomsInv, RoomsTypeOK

\* A request that reads changes nothing else.
LEMMA AskEffect ==
  ASSUME RoomsInv, NEW q \in Request, NEW what \in RoomRequest, Ask(q, what)
  PROVE  /\ request'[q] = what
         /\ RequestsAreLegal' => RoomsInv'
         /\ \A p \in Request \ {q} : request'[p] = request[p]
<1>1. request'[q] = what /\ \A p \in Request \ {q} : request'[p] = request[p]
  BY DEF Ask, RoomsInv, RoomsTypeOK
<1>2. RoomsTypeOK'
  BY DEF Ask, RoomsInv, RoomsTypeOK
<1>3. OfferedRoomsAreClean' /\ CartGaveTheLines' /\ CleaningFollowsTheGuest'
  BY DEF Ask, RoomsInv, OfferedRoomsAreClean, CartGaveTheLines, CleaningFollowsTheGuest,
     IsOpen, Exists
<1> QED
  BY <1>1, <1>2, <1>3 DEF RoomsInv

\* A task is written: the cart gave what its new row says.
LEMMA RowEffect ==
  ASSUME RoomsInv, NEW t \in Task, NEW row \in TaskRow, lapsed \subseteq lapsed',
         row.room \in lapsed' \/ Charged(row), task' = [task EXCEPT ![t] = row]
  PROVE  task' \in [Task -> TaskRow] /\ CartGaveTheLines'
<1>1. task' \in [Task -> TaskRow]
  BY DEF RoomsInv, RoomsTypeOK
<1>2. ASSUME NEW s \in Task, Exists(s)', task'[s].room \notin lapsed'
      PROVE  task'[s].taken = IF task'[s].status = "FINISHED"
                              THEN task'[s].kitLines + task'[s].extra ELSE 0
  <2>1. CASE s = t
    <3>1. task'[s] = row
      BY <2>1 DEF RoomsInv, RoomsTypeOK
    <3> QED
      BY <1>2, <3>1 DEF Charged, Exists
  <2>2. CASE s # t
    <3>1. task'[s] = task[s]
      BY <2>2 DEF RoomsInv, RoomsTypeOK
    <3> QED
      BY <1>2, <3>1 DEF RoomsInv, CartGaveTheLines, Exists
  <2> QED
    BY <2>1, <2>2
<1> QED
  BY <1>1, <1>2 DEF CartGaveTheLines

\* A new row is of a task that starts open, takes nothing and knows no guest.
LEMMA OpenedRowFields ==
  ASSUME RoomsTypeOK, NEW r \in Room, NEW type \in CleaningType,
         NEW requiresInspection \in BOOLEAN, NEW due \in BOOLEAN
  PROVE  LET row == OpenedRow(r, type, requiresInspection, due)
         IN  row \in TaskRow /\ Charged(row) /\ row.room = r /\ ~row.stale
<1> DEFINE alert == type # "TURNDOWN" /\ ~kit[r]
           lines == IF kit[r] /\ type # "TURNDOWN" /\ (type = "STAY" => due) THEN 1 ELSE 0
<1>1. alert \in BOOLEAN /\ lines \in 0 .. 1
  BY DEF RoomsTypeOK
<1> HIDE DEF alert, lines
<1>2. PICK new : new = NewTask(r, type)
  OBVIOUS
<1>3. /\ new \in TaskRow /\ new.room = r /\ new.status = "PENDING" /\ new.taken = 0
      /\ ~new.stale
  BY <1>2, RoomsAssumption DEF NewTask, TaskRow
<1>4. PICK inspected : inspected = [new EXCEPT !.requiresInspection = requiresInspection]
  OBVIOUS
<1>5. /\ inspected \in TaskRow /\ inspected.room = r /\ inspected.status = "PENDING"
      /\ inspected.taken = 0 /\ ~inspected.stale
  BY <1>3, <1>4 DEF TaskRow
<1>6. PICK alerted : alerted = [inspected EXCEPT !.kitAlert = alert]
  OBVIOUS
<1>7. /\ alerted \in TaskRow /\ alerted.room = r /\ alerted.status = "PENDING"
      /\ alerted.taken = 0 /\ ~alerted.stale
  BY <1>1, <1>5, <1>6 DEF TaskRow
<1>8. PICK row : row = [alerted EXCEPT !.kitLines = lines]
  OBVIOUS
<1>9. /\ row \in TaskRow /\ row.room = r /\ row.status = "PENDING"
      /\ row.taken = 0 /\ ~row.stale
  BY <1>1, <1>7, <1>8 DEF TaskRow
<1>10. OpenedRow(r, type, requiresInspection, due) = row
  BY Zenon, <1>2, <1>4, <1>6, <1>8 DEF OpenedRow, alert, lines
<1> QED
  BY <1>9, <1>10 DEF Charged

\* A request writes a field of a task that its cleaning does not depend on.
LEMMA TaskWrite ==
  ASSUME RoomsInv, NEW q \in Request, NEW t \in Task, Exists(t), Writes(q, task[t].room),
         NEW row \in TaskRow, task' = [task EXCEPT ![t] = row],
         row.room = task[t].room, row.stale = task[t].stale,
         task[t].room \in lapsed' \/ (IsOpen(t) /\ Charged(row)),
         UNCHANGED <<room, kit, used>>
  PROVE  RoomsInv'
<1>1. RoomsStay /\ task[t].room \in Room
  BY DEF RoomsStay, RoomsInv, RoomsTypeOK, TaskRow, Exists
<1>2. /\ request' \in [Request -> RoomRequest] /\ RequestsAreLegal'
      /\ lapsed \subseteq lapsed' /\ lapsed' \subseteq Room
  BY <1>1, WritesEffect
<1>4. task' \in [Task -> TaskRow] /\ CartGaveTheLines'
  BY <1>2, RowEffect
<1>3. CleaningFollowsTheGuest'
  <2> SUFFICES ASSUME NEW s \in Task, IsOpen(s)', task'[s].room \in used \ lapsed',
                      room[task'[s].room] = "CLEANING"
               PROVE  ~task'[s].stale
    BY DEF CleaningFollowsTheGuest
  <2>1. CASE s = t
    <3>1. task'[s] = row
      BY <2>1 DEF RoomsInv, RoomsTypeOK
    <3> QED
      BY <1>2, <2>1, <3>1 DEF RoomsInv, CleaningFollowsTheGuest
  <2>2. CASE s # t
    <3>1. task'[s] = task[s]
      BY <2>2 DEF RoomsInv, RoomsTypeOK
    <3> QED
      BY <1>2, <3>1 DEF RoomsInv, CleaningFollowsTheGuest, IsOpen, Exists
  <2> QED
    BY <2>1, <2>2
<1> QED
  BY <1>2, <1>3, <1>4 DEF RoomsInv, RoomsTypeOK, OfferedRoomsAreClean

\* What the row of an open task says.
LEMMA OpenRow ==
  ASSUME RoomsInv, NEW t \in Task, IsOpen(t)
  PROVE  /\ task[t] \in TaskRow /\ task[t].room # NoRoom
         /\ task[t].status # "FINISHED"
         /\ task[t].room \in lapsed \/ task[t].taken = 0
BY DEF RoomsInv, RoomsTypeOK, CartGaveTheLines, IsOpen, Exists

\* assign(), start(), addExtra() and cancel() write the task they read.
LEMMA RequestWrites ==
  ASSUME RoomsInv, NEW q \in Request,
         AssignWrite(q) \/ StartWrite(q) \/ AddExtraWrite(q) \/ CancelWrite(q)
  PROVE  RoomsInv'
<1> DEFINE t == request[q].task
<1>1. /\ Writes(q, task[t].room) /\ UNCHANGED <<room, kit, used>>
      /\ request[q].op \in {"assign", "start", "addExtra", "cancel"}
  BY DEF AssignWrite, StartWrite, AddExtraWrite, CancelWrite, Waits
<1>2. t \in Task /\ Exists(t)
  BY <1>1, RequestFields DEF RoomsInv, RequestsAreLegal
<1>3. task[t] \in TaskRow /\ task[t].room # NoRoom
  BY <1>2 DEF RoomsInv, RoomsTypeOK, Exists
<1>8. \/ task[t].room \in lapsed'
      \/ IsOpen(t) /\ task[t].status # "FINISHED" /\ task[t].taken = 0
  <2>1. task[t].room \in lapsed' \/ AsRead(q)
    BY <1>1 DEF Writes, RoomsInv, RoomsTypeOK
  <2>2. AsRead(q) => IsOpen(t)
    BY <1>1, <1>2 DEF AsRead, IsOpen
  <2>3. lapsed \subseteq lapsed'
    BY <1>1 DEF Writes, RoomsInv, RoomsTypeOK
  <2> QED
    BY <1>2, <2>1, <2>2, <2>3, OpenRow
<1> SUFFICES \E row \in TaskRow :
               /\ task' = [task EXCEPT ![t] = row]
               /\ row.room = task[t].room /\ row.stale = task[t].stale
               /\ task[t].status # "FINISHED" /\ task[t].taken = 0 => Charged(row)
  <2>1. PICK row \in TaskRow :
               /\ task' = [task EXCEPT ![t] = row]
               /\ row.room = task[t].room /\ row.stale = task[t].stale
               /\ task[t].status # "FINISHED" /\ task[t].taken = 0 => Charged(row)
    OBVIOUS
  <2>2. task[t].room \in lapsed' \/ (IsOpen(t) /\ Charged(row))
    BY <1>8, <2>1
  <2> HIDE DEF t
  <2> QED
    BY <1>1, <1>2, <2>1, <2>2, TaskWrite
<1> HIDE DEF t
<1>4. CASE AssignWrite(q)
  <2>1. PICK row : row = [task[t] EXCEPT !.assigned = TRUE]
    OBVIOUS
  <2>2. row \in TaskRow /\ row.room = task[t].room /\ row.stale = task[t].stale
        /\ (task[t].status # "FINISHED" /\ task[t].taken = 0 => Charged(row))
    BY <1>3, <2>1 DEF TaskRow, Charged
  <2>3. task' = [task EXCEPT ![t] = row]
    BY Zenon, <1>2, <1>4, <2>1 DEF AssignWrite, RoomsInv, RoomsTypeOK, t
  <2> QED
    BY <2>2, <2>3
<1>5. CASE StartWrite(q)
  <2>1. PICK row : row = [task[t] EXCEPT !.status = "IN_PROGRESS"]
    OBVIOUS
  <2>2. row \in TaskRow /\ row.room = task[t].room /\ row.stale = task[t].stale
        /\ (task[t].status # "FINISHED" /\ task[t].taken = 0 => Charged(row))
    BY <1>3, <2>1 DEF TaskRow, Charged
  <2>3. task' = [task EXCEPT ![t] = row]
    BY Zenon, <1>2, <1>5, <2>1 DEF StartWrite, RoomsInv, RoomsTypeOK, t
  <2> QED
    BY <2>2, <2>3
<1>6. CASE AddExtraWrite(q)
  <2>1. PICK row : row = [task[t] EXCEPT !.extra = request[q].extra + 1]
    OBVIOUS
  <2>2. request[q].extra + 1 \in 0 .. MaxExtra
    <3>1. Waits(q, "addExtra")
      BY <1>6 DEF AddExtraWrite
    <3>2. request[q].extra \in 0 .. MaxExtra /\ request[q].extra < MaxExtra
      BY <3>1, RequestFields DEF RoomsInv, RequestsAreLegal
    <3> QED
      BY <3>2, RoomsAssumption
  <2>3. row \in TaskRow /\ row.room = task[t].room /\ row.stale = task[t].stale
        /\ (task[t].status # "FINISHED" /\ task[t].taken = 0 => Charged(row))
    BY <1>3, <2>1, <2>2 DEF TaskRow, Charged
  <2>4. task' = [task EXCEPT ![t] = row]
    BY Zenon, <1>2, <1>6, <2>1 DEF AddExtraWrite, RoomsInv, RoomsTypeOK, t
  <2> QED
    BY <2>3, <2>4
<1>7. CASE CancelWrite(q)
  <2>1. PICK row : row = [task[t] EXCEPT !.status = "CANCELLED"]
    OBVIOUS
  <2>2. row \in TaskRow /\ row.room = task[t].room /\ row.stale = task[t].stale
        /\ (task[t].status # "FINISHED" /\ task[t].taken = 0 => Charged(row))
    BY <1>3, <2>1 DEF TaskRow, Charged
  <2>3. task' = [task EXCEPT ![t] = row]
    BY Zenon, <1>2, <1>7, <2>1 DEF CancelWrite, RoomsInv, RoomsTypeOK, t
  <2> QED
    BY <2>2, <2>3
<1> QED
  BY <1>4, <1>5, <1>6, <1>7

\* A task that is opened is the only one that changes, and it knows no guest.
LEMMA OpenEffect ==
  ASSUME RoomsInv, NEW t \in Task, ~Exists(t), NEW row \in TaskRow, Charged(row), ~row.stale,
         task' = [task EXCEPT ![t] = row], lapsed \subseteq lapsed'
  PROVE  /\ task' \in [Task -> TaskRow] /\ CartGaveTheLines' /\ RoomsStay
         /\ \A s \in Task : task'[s].stale => s # t /\ task'[s] = task[s]
BY RowEffect DEF RoomsInv, RoomsTypeOK, RoomsStay

\* A guest finds the rows as they were, but out of date.
LEMMA OutdatedEffect ==
  ASSUME RoomsInv, NEW r \in Room, task' = Outdated(r), lapsed \subseteq lapsed'
  PROVE  /\ task' \in [Task -> TaskRow] /\ CartGaveTheLines' /\ RoomsStay
         /\ \A s \in Task : /\ task'[s].room = task[s].room /\ task'[s].status = task[s].status
                            /\ task[s].room # r => task'[s] = task[s]
<1>1. ASSUME NEW s \in Task
      PROVE  /\ task'[s] \in TaskRow /\ task'[s].room = task[s].room
             /\ task'[s].status = task[s].status /\ task'[s].taken = task[s].taken
             /\ task'[s].kitLines = task[s].kitLines /\ task'[s].extra = task[s].extra
             /\ task[s].room # r => task'[s] = task[s]
  <2>1. task[s] \in TaskRow
    BY DEF RoomsInv, RoomsTypeOK
  <2>2. PICK row : row = [task[s] EXCEPT !.stale = TRUE]
    OBVIOUS
  <2>3. /\ row \in TaskRow /\ row.room = task[s].room
        /\ row.status = task[s].status /\ row.taken = task[s].taken
        /\ row.kitLines = task[s].kitLines /\ row.extra = task[s].extra
    BY <2>1, <2>2 DEF TaskRow
  <2>4. task'[s] = IF s \in OpenTasks(r) THEN row ELSE task[s]
    BY Zenon, <2>2 DEF Outdated
  <2>5. s \in OpenTasks(r) => task[s].room = r
    BY DEF OpenTasks
  <2> QED
    BY <2>1, <2>3, <2>4, <2>5
<1>2. task' \in [Task -> TaskRow]
  BY <1>1 DEF Outdated
<1>3. CartGaveTheLines'
  BY <1>1 DEF CartGaveTheLines, Exists, RoomsInv
<1> QED
  BY <1>1, <1>2, <1>3 DEF RoomsStay

\* changeStatus() lets nobody around the cleaning.
LEMMA ChangeStatusWriteKeeps ==
  ASSUME RoomsInv, NEW q \in Request, NEW t \in Task,
         NEW requiresInspection \in BOOLEAN, ChangeStatusWrite(q, t, requiresInspection)
  PROVE  RoomsInv'
<1> DEFINE r == request[q].room
           to == request[q].to
           opened == Opens(r, request[q].from, to)
<1>1. /\ r \in Room /\ to \in RoomStatus
      /\ <<request[q].from, to>> \in ManualTransition
  BY RequestFields DEF ChangeStatusWrite, RoomsInv, RequestsAreLegal
<1>2. /\ lapsed \subseteq lapsed' /\ lapsed' \subseteq Room
      /\ r \notin lapsed' => request[q].from = room[r]
  BY <1>1 DEF ChangeStatusWrite, Writes, AsRead, Waits, RoomsInv, RoomsTypeOK
<1>3. /\ room' = [room EXCEPT ![r] = to] /\ kit' = kit
      /\ used' = IF to = "OCCUPIED" THEN used \cup {r} ELSE used
  BY DEF ChangeStatusWrite
<1>4. room' \in [Room -> RoomStatus] /\ used' \subseteq Room
  BY <1>1, <1>3 DEF RoomsInv, RoomsTypeOK
<1>6. OfferedRoomsAreClean'
  BY <1>1, <1>2, <1>3
     DEF ManualTransition, Closed, RoomsInv, RoomsTypeOK, OfferedRoomsAreClean
<1>7. /\ task' \in [Task -> TaskRow] /\ CartGaveTheLines' /\ RoomsStay
      /\ \A s \in Task : IsOpen(s)' /\ task'[s].stale =>
           \/ to = "OCCUPIED" /\ task'[s].room = r
           \/ task'[s] = task[s] /\ (opened # {} => task[s].room # r)
  <2>1. CASE opened = {} /\ to = "OCCUPIED"
    <3>1. task' = Outdated(r)
      BY <2>1 DEF ChangeStatusWrite
    <3> QED
      BY <1>1, <1>2, <2>1, <3>1, OutdatedEffect
  <2>2. CASE opened = {} /\ to # "OCCUPIED"
    <3>1. task' = task
      BY <2>2 DEF ChangeStatusWrite
    <3> QED
      BY <1>2, <2>2, <3>1 DEF RoomsInv, RoomsTypeOK, CartGaveTheLines, Exists, RoomsStay
  <2>3. CASE opened # {}
    <3>1. MayOpen(t, r)
      BY <2>3 DEF ChangeStatusWrite
    <3>2. PICK type \in opened : task' = [task EXCEPT ![t] = OpenedRow(r, type, requiresInspection, TRUE)]
      BY <2>3 DEF ChangeStatusWrite
    <3>3. type \in CleaningType
      BY <3>2 DEF Opens, CleaningType
    <3>4. PICK row : row = OpenedRow(r, type, requiresInspection, TRUE)
      OBVIOUS
    <3>5. row \in TaskRow /\ Charged(row) /\ row.room = r /\ ~row.stale
      BY <1>1, <3>3, <3>4, OpenedRowFields DEF RoomsInv
    <3>6. /\ task' \in [Task -> TaskRow] /\ CartGaveTheLines' /\ RoomsStay
          /\ \A s \in Task : task'[s].stale => s # t /\ task'[s] = task[s]
      BY <1>2, <3>1, <3>2, <3>4, <3>5, OpenEffect DEF MayOpen
    <3>7. ASSUME NEW s \in Task, IsOpen(s)', task'[s] = task[s] PROVE task[s].room # r
      BY <3>1, <3>7 DEF MayOpen, OpenTasks, IsOpen, Exists
    <3> QED
      BY <3>6, <3>7
  <2> QED
    BY <2>1, <2>2, <2>3
<1>8. CleaningFollowsTheGuest'
  <2> SUFFICES ASSUME NEW s \in Task, IsOpen(s)', task'[s].room \in used' \ lapsed', task'[s].stale,
                      room'[task'[s].room] = "CLEANING"
               PROVE  FALSE
    BY DEF CleaningFollowsTheGuest
  <2>1. ~(to = "OCCUPIED" /\ task'[s].room = r)
    BY <1>1, <1>3 DEF RoomsInv, RoomsTypeOK
  <2>2. task'[s] = task[s] /\ (opened # {} => task[s].room # r)
    BY <1>7, <2>1
  <2>3. IsOpen(s)
    BY <2>2 DEF IsOpen, Exists
  <2>4. CASE task[s].room = r
    <3>1. to = "CLEANING"
      BY <1>1, <1>3, <2>2, <2>4 DEF RoomsInv, RoomsTypeOK
    <3>2. room[r] \notin {"OCCUPIED"} \cup Closed
      BY <1>1, <1>2, <2>2, <2>4, <3>1 DEF Opens
    <3>3. room[r] \in {"AVAILABLE", "INSPECTION"}
      BY <1>1, <1>2, <2>2, <2>4, <3>1, <3>2 DEF ManualTransition, Closed, RoomStatus
    <3> QED
      BY <1>2, <1>3, <2>2, <2>4, <3>1, <3>3 DEF RoomsInv, OfferedRoomsAreClean
  <2>5. CASE task[s].room # r
    BY <1>2, <1>3, <2>2, <2>3, <2>5 DEF RoomsInv, RoomsTypeOK, CleaningFollowsTheGuest
  <2> QED
    BY <2>4, <2>5
<1>9. request' \in [Request -> RoomRequest] /\ RequestsAreLegal'
  BY <1>1, <1>7, WritesEffect DEF ChangeStatusWrite
<1> QED
  BY <1>2, <1>3, <1>4, <1>6, <1>7, <1>8, <1>9 DEF RoomsInv, RoomsTypeOK

\* finish() charges the cart and moves a room that was cleaned.
LEMMA FinishKeeps ==
  ASSUME RoomsInv, NEW t \in Task, Finish(t)
  PROVE  RoomsInv'
<1> DEFINE r == task[t].room
<1>1. IsOpen(t) /\ UNCHANGED <<kit, request, lapsed>>
  BY DEF Finish, Finishable, IsOpen
<1>2. /\ task[t] \in TaskRow /\ r # NoRoom /\ task[t].status # "FINISHED"
      /\ r \in lapsed \/ task[t].taken = 0
  BY <1>1, OpenRow
<1>3. r \in Room
  BY <1>2 DEF TaskRow
<1>5. PICK finished : finished = [task[t] EXCEPT !.status = "FINISHED"]
  OBVIOUS
<1>6. /\ finished \in TaskRow /\ finished.status = "FINISHED" /\ finished.room = r
      /\ finished.taken = task[t].taken
      /\ finished.kitLines = task[t].kitLines /\ finished.extra = task[t].extra
  BY <1>2, <1>5 DEF TaskRow
<1>7. PICK row : row = [finished EXCEPT !.taken = finished.taken + finished.kitLines + finished.extra]
  OBVIOUS
<1>8. row \in TaskRow /\ row.status = "FINISHED" /\ row.room = r /\ (r \in lapsed \/ Charged(row))
  BY <1>2, <1>6, <1>7, RoomsAssumption DEF TaskRow, Charged
<1>9. task' = [task EXCEPT ![t] = row]
  <2>1. PICK f : f = [task EXCEPT ![t] = finished]
    OBVIOUS
  <2>2. f[t] = finished
    BY <2>1 DEF RoomsInv, RoomsTypeOK
  <2>3. task' = [task EXCEPT ![t].status = "FINISHED",
                             ![t].taken = @ + task[t].kitLines + task[t].extra]
    BY DEF Finish
  <2>4. task' = [f EXCEPT ![t] = row]
    BY ZenonT(30), <1>5, <1>6, <1>7, <2>1, <2>2, <2>3 DEF RoomsInv, RoomsTypeOK
  <2> QED
    BY Zenon, <2>1, <2>4 DEF RoomsInv, RoomsTypeOK
<1>10. task' \in [Task -> TaskRow] /\ CartGaveTheLines'
  BY <1>1, <1>8, <1>9, RowEffect
<1>16. request' \in [Request -> RoomRequest] /\ RequestsAreLegal'
  <2>1. RoomsStay
    BY <1>8, <1>9 DEF RoomsStay, RoomsInv, RoomsTypeOK
  <2> QED
    BY <1>1, <2>1, UndisturbedEffect
<1>11. /\ room' = [room EXCEPT ![r] = StatusAfterFinish(t)]
       /\ used' = IF room'[r] # room[r] /\ ~task[t].stale THEN used \ {r} ELSE used
  BY DEF Finish
<1>12. /\ StatusAfterFinish(t) \in {room[r], "INSPECTION", "AVAILABLE"}
       /\ StatusAfterFinish(t) # room[r] => room[r] = "CLEANING"
  BY DEF StatusAfterFinish
<1>13. room' \in [Room -> RoomStatus] /\ used' \subseteq used
  BY <1>3, <1>11, <1>12 DEF RoomsInv, RoomsTypeOK, RoomStatus
<1>14. OfferedRoomsAreClean'
  <2> SUFFICES ASSUME NEW x \in used' \ lapsed PROVE room'[x] \notin {"AVAILABLE", "INSPECTION"}
    BY <1>1 DEF OfferedRoomsAreClean
  <2>1. x \in used /\ x \in Room
    BY <1>13 DEF RoomsInv, RoomsTypeOK
  <2>2. CASE x = r /\ room'[r] # room[r]
    BY <1>1, <1>3, <1>11, <1>12, <2>1, <2>2
       DEF RoomsInv, RoomsTypeOK, CleaningFollowsTheGuest
  <2>3. CASE ~(x = r /\ room'[r] # room[r])
    BY <1>11, <2>1, <2>3 DEF RoomsInv, RoomsTypeOK, OfferedRoomsAreClean
  <2> QED
    BY <2>2, <2>3
<1>15. CleaningFollowsTheGuest'
  <2> SUFFICES ASSUME NEW s \in Task, IsOpen(s)', task'[s].room \in used' \ lapsed,
                      room'[task'[s].room] = "CLEANING"
               PROVE  ~task'[s].stale
    BY <1>1 DEF CleaningFollowsTheGuest
  <2>1. task'[s] = task[s]
    BY <1>8, <1>9 DEF IsOpen, RoomsInv, RoomsTypeOK
  <2>2. IsOpen(s) /\ task[s].room \in used \ lapsed /\ task[s].room \in Room
    BY <1>13, <2>1 DEF IsOpen, Exists, RoomsInv, RoomsTypeOK
  <2>3. room[task[s].room] = "CLEANING"
    BY <1>11, <1>12, <2>1, <2>2 DEF RoomsInv, RoomsTypeOK
  <2> QED
    BY <2>1, <2>2, <2>3 DEF RoomsInv, CleaningFollowsTheGuest
<1> QED
  BY <1>1, <1>10, <1>13, <1>14, <1>15, <1>16 DEF RoomsInv, RoomsTypeOK

\* createManual() opens a task that knows no guest.
LEMMA CreateManualKeeps ==
  ASSUME RoomsInv, NEW t \in Task, NEW r \in Room, NEW type \in CleaningType,
         NEW requiresInspection \in BOOLEAN, NEW due \in BOOLEAN,
         CreateManual(t, r, type, requiresInspection, due)
  PROVE  RoomsInv'
<1>1. ~Exists(t) /\ UNCHANGED <<room, kit, request, used, lapsed>>
  BY DEF CreateManual, MayOpen
<1>2. PICK row : row = OpenedRow(r, type, requiresInspection, due)
  OBVIOUS
<1>3. row \in TaskRow /\ Charged(row) /\ ~row.stale
  BY <1>2, OpenedRowFields DEF RoomsInv
<1>4. task' = [task EXCEPT ![t] = row]
  BY <1>2 DEF CreateManual
<1>5. /\ task' \in [Task -> TaskRow] /\ CartGaveTheLines' /\ RoomsStay
      /\ \A s \in Task : task'[s].stale => s # t /\ task'[s] = task[s]
  BY <1>1, <1>3, <1>4, OpenEffect
<1>6. request' \in [Request -> RoomRequest] /\ RequestsAreLegal'
  BY <1>1, <1>5, UndisturbedEffect
<1>7. CleaningFollowsTheGuest'
  BY <1>1, <1>5 DEF RoomsInv, CleaningFollowsTheGuest, IsOpen, Exists
<1> QED
  BY <1>1, <1>5, <1>6, <1>7 DEF RoomsInv, RoomsTypeOK, OfferedRoomsAreClean

\* What the inspection of a task writes to its row.
LEMMA InspectedRow ==
  ASSUME RoomsInv, NEW t \in Task, Exists(t), NEW row, row = [task[t] EXCEPT !.inspected = TRUE]
  PROVE  /\ row \in TaskRow /\ row.status = task[t].status /\ row.room = task[t].room
         /\ row.room \in lapsed \/ Charged(row)
<1>1. task[t] \in TaskRow
  BY DEF RoomsInv, RoomsTypeOK
<1>2. /\ row \in TaskRow /\ row.status = task[t].status /\ row.room = task[t].room
      /\ row.taken = task[t].taken /\ row.kitLines = task[t].kitLines /\ row.extra = task[t].extra
  BY <1>1 DEF TaskRow
<1> QED
  BY <1>2 DEF Charged, RoomsInv, CartGaveTheLines, Exists

\* inspect() gives the room back only after its cleaning.
LEMMA ApproveInspectionKeeps ==
  ASSUME RoomsInv, NEW t \in Task, ApproveInspection(t)
  PROVE  RoomsInv'
<1>1. /\ UNCHANGED <<kit, request, used, lapsed>> /\ Exists(t) /\ task[t].status = "FINISHED"
      /\ room[task[t].room] = "INSPECTION" /\ room' = [room EXCEPT ![task[t].room] = "AVAILABLE"]
  BY DEF ApproveInspection, Inspectable
<1>2. PICK row : row = [task[t] EXCEPT !.inspected = TRUE]
  OBVIOUS
<1>3. /\ row \in TaskRow /\ row.status = "FINISHED" /\ row.room = task[t].room
      /\ row.room \in lapsed \/ Charged(row)
  BY <1>1, <1>2, InspectedRow
<1>4. task' = [task EXCEPT ![t] = row]
  BY Zenon, <1>2 DEF ApproveInspection, RoomsInv, RoomsTypeOK
<1>5. task' \in [Task -> TaskRow] /\ CartGaveTheLines'
  BY <1>1, <1>3, <1>4, RowEffect
<1>6. request' \in [Request -> RoomRequest] /\ RequestsAreLegal'
  <2>1. RoomsStay
    BY <1>3, <1>4 DEF RoomsStay, RoomsInv, RoomsTypeOK
  <2> QED
    BY <1>1, <2>1, UndisturbedEffect
<1>7. task[t].room \in Room
  BY <1>1 DEF RoomsInv, RoomsTypeOK, TaskRow, Exists
<1>8. OfferedRoomsAreClean' /\ room' \in [Room -> RoomStatus]
  BY <1>1, <1>7 DEF RoomsInv, RoomsTypeOK, OfferedRoomsAreClean, RoomStatus
<1>9. CleaningFollowsTheGuest'
  <2> SUFFICES ASSUME NEW s \in Task, IsOpen(s)', task'[s].room \in used \ lapsed,
                      room'[task'[s].room] = "CLEANING"
               PROVE  ~task'[s].stale
    BY <1>1 DEF CleaningFollowsTheGuest
  <2>1. task'[s] = task[s]
    BY <1>3, <1>4 DEF IsOpen, RoomsInv, RoomsTypeOK
  <2>2. room[task[s].room] = "CLEANING"
    BY <1>1, <1>7, <2>1 DEF RoomsInv, RoomsTypeOK
  <2> QED
    BY <2>1, <2>2 DEF RoomsInv, CleaningFollowsTheGuest, IsOpen, Exists
<1> QED
  BY <1>1, <1>5, <1>6, <1>8, <1>9 DEF RoomsInv, RoomsTypeOK

\* And a rejection opens the rework of a room no guest has used.
LEMMA RejectInspectionKeeps ==
  ASSUME RoomsInv, NEW t \in Task, NEW again \in Task,
         RejectInspection(t, again)
  PROVE  RoomsInv'
<1> DEFINE r == task[t].room
<1>1. /\ UNCHANGED <<kit, request, used, lapsed>> /\ Exists(t) /\ task[t].status = "FINISHED"
      /\ room[r] = "INSPECTION" /\ room' = [room EXCEPT ![r] = "CLEANING"]
      /\ again # t /\ ~Exists(again)
  BY DEF RejectInspection, Inspectable, MayOpen
<1>2. task[t] \in TaskRow /\ r \in Room
  BY <1>1 DEF RoomsInv, RoomsTypeOK, TaskRow, Exists
<1>3. PICK row : row = [task[t] EXCEPT !.inspected = TRUE]
  OBVIOUS
<1>4. /\ row \in TaskRow /\ row.status = "FINISHED" /\ row.room = r
      /\ row.room \in lapsed \/ Charged(row)
  BY <1>1, <1>3, InspectedRow
<1>5. PICK rework : rework = [NewTask(r, "CHECKOUT") EXCEPT
                                !.rework = TRUE,
                                !.requiresInspection = task[t].requiresInspection]
  OBVIOUS
<1>6. rework \in TaskRow /\ Charged(rework)
  <2>1. PICK new : new = NewTask(r, "CHECKOUT")
    OBVIOUS
  <2>2. new \in TaskRow /\ new.taken = 0 /\ new.status = "PENDING"
    BY <1>2, <2>1, RoomsAssumption DEF NewTask, TaskRow, CleaningType
  <2>3. PICK dirty : dirty = [new EXCEPT !.rework = TRUE]
    OBVIOUS
  <2>4. dirty \in TaskRow /\ dirty.taken = 0 /\ dirty.status = "PENDING"
    BY <2>2, <2>3 DEF TaskRow
  <2>5. PICK last : last = [dirty EXCEPT !.requiresInspection = task[t].requiresInspection]
    OBVIOUS
  <2>6. last \in TaskRow /\ last.taken = 0 /\ last.status = "PENDING"
    BY <1>2, <2>4, <2>5 DEF TaskRow
  <2>7. rework = last
    BY Zenon, <1>5, <2>1, <2>3, <2>5
  <2> QED
    BY <2>6, <2>7 DEF Charged
<1>7. task' = [task EXCEPT ![t] = row, ![again] = rework]
  BY Zenon, <1>3, <1>5 DEF RejectInspection, RoomsInv, RoomsTypeOK
<1>8. /\ task' \in [Task -> TaskRow]
      /\ \A s \in Task : task'[s] = IF s = again THEN rework ELSE IF s = t THEN row ELSE task[s]
  BY <1>1, <1>4, <1>6, <1>7 DEF RoomsInv, RoomsTypeOK
<1>9. CartGaveTheLines'
  BY <1>1, <1>4, <1>6, <1>8 DEF RoomsInv, CartGaveTheLines, Charged, Exists
<1>10. request' \in [Request -> RoomRequest] /\ RequestsAreLegal'
  <2>1. RoomsStay
    BY <1>1, <1>4, <1>8 DEF RoomsStay
  <2> QED
    BY <1>1, <2>1, UndisturbedEffect
<1>11. OfferedRoomsAreClean' /\ room' \in [Room -> RoomStatus]
  BY <1>1, <1>2 DEF RoomsInv, RoomsTypeOK, OfferedRoomsAreClean, RoomStatus
<1>12. CleaningFollowsTheGuest'
  <2> SUFFICES ASSUME NEW s \in Task, IsOpen(s)', task'[s].room \in used \ lapsed,
                      room'[task'[s].room] = "CLEANING"
               PROVE  ~task'[s].stale
    BY <1>1 DEF CleaningFollowsTheGuest
  <2>1. r \in lapsed \/ r \notin used
    BY <1>1, <1>2 DEF RoomsInv, OfferedRoomsAreClean
  <2>2. rework.room = r
    BY <1>5 DEF NewTask
  <2>3. s # again /\ s # t
    BY <1>4, <1>8, <2>1, <2>2 DEF IsOpen
  <2>4. task'[s] = task[s]
    BY <1>8, <2>3
  <2>5. room[task[s].room] = "CLEANING"
    BY <1>1, <1>2, <2>1, <2>4 DEF RoomsInv, RoomsTypeOK
  <2> QED
    BY <2>4, <2>5 DEF RoomsInv, CleaningFollowsTheGuest, IsOpen, Exists
<1> QED
  BY <1>1, <1>8, <1>9, <1>10, <1>11, <1>12 DEF RoomsInv, RoomsTypeOK

\* A request reads what it goes by.
LEMMA ReadsKeep ==
  ASSUME RoomsInv, NEW q \in Request,
         \/ \E r \in Room, to \in RoomStatus : ChangeStatusRead(q, r, to)
         \/ \E t \in Task : AssignRead(q, t) \/ StartRead(q, t) \/ AddExtraRead(q, t)
                              \/ CancelRead(q, t)
  PROVE  RoomsInv'
<1>1. PICK what \in RoomRequest :
        /\ Ask(q, what)
        /\ what.op = "changeStatus" => <<what.from, what.to>> \in ManualTransition
        /\ what.op \in {"assign", "start", "addExtra", "cancel"} =>
             what.task \in Task /\ Exists(what.task)
        /\ what.op = "addExtra" => what.extra < MaxExtra
  <2>1. ASSUME NEW r \in Room, NEW to \in RoomStatus, ChangeStatusRead(q, r, to)
        PROVE  \E what \in RoomRequest :
                 /\ Ask(q, what) /\ what.op = "changeStatus"
                 /\ <<what.from, what.to>> \in ManualTransition
    <3>1. [op |-> "changeStatus", room |-> r, from |-> room[r], to |-> to] \in RoomRequest
      BY DEF RoomsInv, RoomsTypeOK, RoomRequest
    <3> QED
      BY <2>1, <3>1 DEF ChangeStatusRead
  <2>2. ASSUME NEW t \in Task, AssignRead(q, t) \/ StartRead(q, t) \/ CancelRead(q, t)
        PROVE  \E what \in RoomRequest :
                 /\ Ask(q, what) /\ what.op \in {"assign", "start", "cancel"}
                 /\ what.task = t /\ Exists(t)
    <3>1. PICK op \in {"assign", "start", "cancel"} : Ask(q, [op |-> op, task |-> t]) /\ Exists(t)
      BY <2>2 DEF AssignRead, StartRead, CancelRead, Cancellable, IsOpen
    <3>2. [op |-> op, task |-> t] \in RoomRequest
      BY DEF RoomRequest
    <3> QED
      BY <3>1, <3>2
  <2>3. ASSUME NEW t \in Task, AddExtraRead(q, t)
        PROVE  \E what \in RoomRequest :
                 /\ Ask(q, what) /\ what.op = "addExtra" /\ what.task = t /\ Exists(t)
                 /\ what.extra < MaxExtra
    <3>1. task[t].extra \in 0 .. MaxExtra
      BY DEF RoomsInv, RoomsTypeOK, TaskRow
    <3>2. [op |-> "addExtra", task |-> t, extra |-> task[t].extra] \in RoomRequest
      BY <3>1 DEF RoomRequest
    <3> QED
      BY <2>3, <3>2 DEF AddExtraRead, Operable, IsOpen
  <2> QED
    BY <2>1, <2>2, <2>3
<1>2. /\ request'[q] = what /\ (RequestsAreLegal' => RoomsInv')
      /\ \A p \in Request \ {q} : request'[p] = request[p]
  BY <1>1, AskEffect
<1>3. task' = task
  BY <1>1 DEF Ask
<1> QED
  BY <1>1, <1>2, <1>3 DEF RoomsInv, RequestsAreLegal, Waits, Exists

\* Every step keeps the invariant.
LEMMA RoomsInvNext ==
  ASSUME RoomsInv, [RoomsNext]_roomVars
  PROVE  RoomsInv'
<1>1. ASSUME NEW r \in Room, KitChanges(r) PROVE RoomsInv'
  <2>1. request' \in [Request -> RoomRequest] /\ RequestsAreLegal'
    BY <1>1, UndisturbedEffect DEF KitChanges, RoomsStay
  <2>2. kit' \in [Room -> BOOLEAN]
    BY Zenon, <1>1 DEF KitChanges, RoomsInv, RoomsTypeOK
  <2> QED
    BY <1>1, <2>1, <2>2
       DEF KitChanges, RoomsInv, RoomsTypeOK, OfferedRoomsAreClean, CartGaveTheLines,
           CleaningFollowsTheGuest, IsOpen, Exists
<1>2. ASSUME NEW q \in Request, Abandon(q) PROVE RoomsInv'
  <2>1. request' \in [Request -> RoomRequest] /\ RequestsAreLegal'
    BY <1>2, DoneEffect DEF Abandon, RoomsStay
  <2> QED
    BY <1>2, <2>1
       DEF Abandon, RoomsInv, RoomsTypeOK, OfferedRoomsAreClean, CartGaveTheLines,
           CleaningFollowsTheGuest, IsOpen, Exists
<1>3. CASE UNCHANGED roomVars
  BY <1>3
     DEF roomVars, RoomsInv, RoomsTypeOK, OfferedRoomsAreClean, CartGaveTheLines,
         CleaningFollowsTheGuest, RequestsAreLegal, Waits, IsOpen, Exists
<1> QED
  BY <1>1, <1>2, <1>3, CreateManualKeeps, ReadsKeep, ChangeStatusWriteKeeps, RequestWrites,
     FinishKeeps, ApproveInspectionKeeps, RejectInspectionKeeps DEF RoomsNext

\* What is closed for repairs leaves through a cleaning.
LEMMA ClosedStep ==
  ASSUME RoomsInv, [RoomsNext]_roomVars, NEW r \in Room \ lapsed', room[r] \in Closed
  PROVE  room'[r] \in {room[r], "CLEANING"}
<1>1. ASSUME NEW q \in Request, NEW t \in Task, NEW requiresInspection \in BOOLEAN,
             ChangeStatusWrite(q, t, requiresInspection)
      PROVE  room'[r] \in {room[r], "CLEANING"}
  <2>1. /\ Waits(q, "changeStatus")
        /\ room' = [room EXCEPT ![request[q].room] = request[q].to]
    BY <1>1 DEF ChangeStatusWrite
  <2>2. request[q].room = r => <<room[r], request[q].to>> \in ManualTransition
    BY <1>1, <2>1 DEF RoomsInv, RequestsAreLegal, ChangeStatusWrite, Writes, AsRead, Waits
  <2> QED
    BY <2>1, <2>2 DEF RoomsInv, RoomsTypeOK, ManualTransition, Closed
<1>2. ASSUME NEW t \in Task, Finish(t) PROVE room'[r] = room[r]
  <2>1. room' = [room EXCEPT ![task[t].room] = StatusAfterFinish(t)]
    BY <1>2 DEF Finish
  <2>2. task[t].room = r => StatusAfterFinish(t) = room[r]
    BY DEF StatusAfterFinish, Closed
  <2> QED
    BY <2>1, <2>2 DEF RoomsInv, RoomsTypeOK
<1>3. ASSUME NEW t \in Task, Inspectable(t) PROVE task[t].room # r
  BY <1>3 DEF Inspectable, Closed
<1>4. ASSUME NEW t \in Task, ApproveInspection(t) PROVE room'[r] = room[r]
  BY <1>3, <1>4 DEF ApproveInspection, RoomsInv, RoomsTypeOK
<1>5. ASSUME NEW t \in Task, NEW again \in Task, RejectInspection(t, again)
      PROVE  room'[r] = room[r]
  BY <1>3, <1>5 DEF RejectInspection, RoomsInv, RoomsTypeOK
<1>6. ASSUME UNCHANGED room PROVE room'[r] = room[r]
  BY <1>6
<1> QED
  BY <1>1, <1>2, <1>4, <1>5, <1>6
     DEF RoomsNext, roomVars, CreateManual, ChangeStatusRead, AssignRead, StartRead,
         AddExtraRead, CancelRead, Ask, KitChanges, AssignWrite, StartWrite, AddExtraWrite,
         CancelWrite, Abandon

\* A room goes back to the guests, or out of repairs, through a cleaning only, and
\* its cart was charged what was used, however the requests overlap, unless one of
\* them wrote over what another had changed since it read.
THEOREM RoomsServed == RoomsSpec => RoomsAreServed
<1> DEFINE ThroughCleaning ==
      \A r \in Room \ lapsed' : room[r] \in Closed => room'[r] \in {room[r], "CLEANING"}
<1>1. RoomsInv => OfferedRoomsAreClean /\ CartGaveTheLines
  BY DEF RoomsInv
<1>2. RoomsInv /\ [RoomsNext]_roomVars => [ThroughCleaning]_roomVars
  BY ClosedStep
<1>3. RoomsInv /\ [RoomsNext]_roomVars => RoomsInv'
  BY RoomsInvNext
<1> QED
  BY <1>1, <1>2, <1>3, RoomsInvInit, PTL
     DEF RoomsSpec, RoomsAreServed, ClosedLeavesThroughCleaning

-----------------------------------------------------------------------------
(* The hotel store.  That the stock is the sum of the active movements is  *)
(* not inductive: reject() writes by id alone, so what it read has to be   *)
(* open still unless an approval came between (ReadingsAreOpen); and what  *)
(* a count corrects is right because its photo stays the sum of the        *)
(* movements it found active (PhotoHolds).                                 *)

\* The rows of the movements.
MovementRows == [HotelMovement -> HotelMovementRow]

\* The ledger of a position: what its active movements add up to.
LedgerOf(rows, p) ==
  SumFunctionOnSet([m \in HotelMovement |-> rows[m].in[p] - rows[m].out[p]],
                   {m \in HotelMovement : rows[m].status = "ACTIVE"})

\* What one row adds to it.
WeightOf(row, p) == IF row.status = "ACTIVE" THEN row.in[p] - row.out[p] ELSE 0

(* Rows that are not active weigh nothing.                                 *)
LEMMA LedgerIsTheWeights ==
  ASSUME NEW rows \in MovementRows, NEW p \in Position
  PROVE  /\ LedgerOf(rows, p) = SumFunctionOnSet([m \in HotelMovement |-> WeightOf(rows[m], p)], HotelMovement)
         /\ LedgerOf(rows, p) \in Int
<1> DEFINE net == [m \in HotelMovement |-> rows[m].in[p] - rows[m].out[p]]
           weight == [m \in HotelMovement |-> WeightOf(rows[m], p)]
           standing == {m \in HotelMovement : rows[m].status = "ACTIVE"}
<1>1. IsFiniteSet(HotelMovement) /\ IsFiniteSet(standing) BY HotelAssumption, FS_Subset
<1>2. \A m \in HotelMovement : rows[m].in[p] \in Nat /\ rows[m].out[p] \in Nat
  BY DEF MovementRows, HotelMovementRow
<1>3. \A m \in HotelMovement : net[m] \in Int /\ weight[m] \in Int BY <1>2 DEF WeightOf
<1>4. \A m \in standing : net[m] = weight[m] BY DEF WeightOf
<1>5. \A m \in HotelMovement \ standing : weight[m] = 0 BY DEF WeightOf
<1> HIDE DEF net, weight
<1>6. SumFunctionOnSet(net, standing) = SumFunctionOnSet(weight, standing) BY <1>1, <1>4, SumOfEquals
<1>7. SumFunctionOnSet(weight, HotelMovement) = SumFunctionOnSet(weight, standing)
  <2>1. standing \in SUBSET HotelMovement OBVIOUS
  <2> HIDE DEF standing
  <2> QED BY <1>1, <1>3, <1>5, <2>1, SumOfSupport
<1>8. SumFunctionOnSet(net, standing) \in Int BY <1>1, <1>3, SumIsNumber
<1> QED BY <1>6, <1>7, <1>8 DEF LedgerOf, net, weight

(* One row changes the ledger by the difference of its weights.            *)
LEMMA LedgerOfOneChange ==
  ASSUME NEW rows \in MovementRows, NEW m \in HotelMovement, NEW new \in HotelMovementRow, NEW p \in Position
  PROVE  /\ [rows EXCEPT ![m] = new] \in MovementRows
         /\ LedgerOf([rows EXCEPT ![m] = new], p) = LedgerOf(rows, p) + WeightOf(new, p) - WeightOf(rows[m], p)
<1> DEFINE next == [rows EXCEPT ![m] = new]
           before == [x \in HotelMovement |-> WeightOf(rows[x], p)]
           after == [x \in HotelMovement |-> WeightOf(next[x], p)]
<1>1. next \in MovementRows BY DEF MovementRows
<1>2. \A row \in HotelMovementRow : WeightOf(row, p) \in Int
  BY DEF HotelMovementRow, WeightOf
<1>3. \A x \in HotelMovement : before[x] \in Int /\ after[x] \in Int
  BY <1>1, <1>2 DEF MovementRows
<1>4. \A x \in HotelMovement \ {m} : before[x] = after[x] BY DEF MovementRows
<1>5. before[m] = WeightOf(rows[m], p) /\ after[m] = WeightOf(new, p) BY DEF MovementRows
<1>6. LedgerOf(rows, p) = SumFunctionOnSet(before, HotelMovement) BY LedgerIsTheWeights
<1>7. LedgerOf(next, p) = SumFunctionOnSet(after, HotelMovement)
  <2> HIDE DEF next
  <2> QED BY <1>1, LedgerIsTheWeights
<1>8. IsFiniteSet(HotelMovement) BY HotelAssumption
<1> HIDE DEF before, after, next
<1>9. SumFunctionOnSet(after, HotelMovement) = SumFunctionOnSet(before, HotelMovement) + after[m] - before[m]
  BY <1>3, <1>4, <1>8, SumChanged
<1> QED BY <1>1, <1>5, <1>6, <1>7, <1>9 DEF next

\* What the movements that a photo found active add up to.
PhotoOf(rows, photo, p) ==
  SumFunctionOnSet([m \in HotelMovement |-> rows[m].in[p] - rows[m].out[p]],
                   {m \in HotelMovement : photo[m] = "ACTIVE"})

\* What somebody read to reject or to cancel is still open, unless an approval
\* came between.
ReadingsAreOpen ==
  /\ \A m \in HotelMovement \cap reading :
       m \in overtaken \/ hotelMovement[m].status \in {"PENDING_APPROVAL", "CANCELLED"}
  /\ \A c \in Count \cap reading : c \in overtaken \/ CountCancellable(c) \/ count[c].status = "CANCELLED"

\* A count under way has the stock of its photo: what the movements it found
\* active add up to, none of which has changed its lines.
PhotoHolds(c) ==
  count[c].status \in {"COUNTING", "PENDING_APPROVAL"} =>
    /\ count[c].lines \subseteq PositionsOf(count[c].warehouse)
    /\ \A m \in HotelMovement :
         count[c].photo[m] = "ACTIVE" => hotelMovement[m].status \in {"ACTIVE", "CANCELLED"}
    /\ NoApprovalLost =>
         \A p \in PositionsOf(count[c].warehouse) :
           count[c].system[p] = PhotoOf(hotelMovement, count[c].photo, p)

\* The inductive invariant of the hotel store.
HotelInv ==
  /\ HotelAddsUp
  /\ ReadingsAreOpen
  /\ \A c \in Count : PhotoHolds(c)

(* Nothing is stored at first.                                             *)
LEMMA HotelInvInit == HotelInit => HotelInv
<1> SUFFICES ASSUME HotelInit PROVE HotelInv OBVIOUS
<1>1. None \in [Position -> Nat] BY DEF None
<1>2. FreeMovement \in HotelMovementRow BY <1>1 DEF FreeMovement, HotelMovementRow, MovementStatus
<1>3. FreeCount \in CountRow BY <1>1 DEF FreeCount, CountRow, MovementStatus
<1>4. HotelTypeOK BY <1>1, <1>2, <1>3 DEF HotelInit, HotelTypeOK
<1>5. StockIsTheLedger
  <2>1. Active = {} BY DEF HotelInit, Active, FreeMovement
  <2> QED BY <2>1, SumOfNone DEF StockIsTheLedger, HotelInit, None
<1>6. CancelledCountAdjustsNothing
  BY HotelAssumption DEF CancelledCountAdjustsNothing, HotelInit, FreeMovement
<1>7. ReadingsAreOpen /\ \A c \in Count : PhotoHolds(c)
  BY DEF ReadingsAreOpen, PhotoHolds, HotelInit, FreeCount
<1> QED BY <1>4, <1>5, <1>6, <1>7 DEF HotelInv, HotelAddsUp

(* Types of what the operations compute.                                   *)
LEMMA HotelTypes ==
  ASSUME HotelTypeOK
  PROVE  /\ None \in [Position -> Nat]
         /\ \A p, q : q \in Nat => At(p, q) \in [Position -> Nat]
         /\ \A out, in \in [Position -> Nat] : Sufficient(out) =>
              /\ Moved(out, in) \in [Position -> Nat]
              /\ \A p \in Position : Moved(out, in)[p] = stock[p] - out[p] + in[p]
         /\ hotelMovement \in MovementRows
         /\ \A m \in HotelMovement : hotelMovement[m] \in HotelMovementRow
         /\ \A c \in Count : count[c] \in CountRow
<1>1. \A p, q : q \in Nat => At(p, q) \in [Position -> Nat] BY DEF At
<1>2. ASSUME NEW out \in [Position -> Nat], NEW in \in [Position -> Nat], Sufficient(out)
      PROVE  /\ Moved(out, in) \in [Position -> Nat]
             /\ \A p \in Position : Moved(out, in)[p] = stock[p] - out[p] + in[p]
  <2>1. stock \in [Position -> Nat] BY DEF HotelTypeOK
  <2>2. \A p \in Position : stock[p] - out[p] + in[p] \in Nat BY <1>2, <2>1 DEF Sufficient
  <2> QED BY <2>2 DEF Moved
<1> QED BY <1>1, <1>2 DEF HotelTypeOK, MovementRows, None

Settled(m) == hotelMovement[m].status \in {"ACTIVE", "CANCELLED"}

(* A count keeps its photo as long as the movements in it keep their lines.*)
LEMMA PhotoStays ==
  ASSUME HotelInv, HotelTypeOK', overtaken \subseteq overtaken', NEW c \in Count,
         \A m \in HotelMovement : Settled(m) =>
           /\ hotelMovement'[m].status \in {"ACTIVE", "CANCELLED"}
           /\ hotelMovement'[m].in = hotelMovement[m].in /\ hotelMovement'[m].out = hotelMovement[m].out,
         count'[c].status \in {"COUNTING", "PENDING_APPROVAL"} =>
           /\ count[c].status \in {"COUNTING", "PENDING_APPROVAL"}
           /\ count'[c].photo = count[c].photo /\ count'[c].system = count[c].system
           /\ count'[c].warehouse = count[c].warehouse
           /\ count'[c].lines \subseteq PositionsOf(count[c].warehouse)
  PROVE  PhotoHolds(c)'
<1> SUFFICES ASSUME count'[c].status \in {"COUNTING", "PENDING_APPROVAL"}
             PROVE  /\ count'[c].lines \subseteq PositionsOf(count[c].warehouse)
                    /\ \A m \in HotelMovement :
                         count[c].photo[m] = "ACTIVE" => hotelMovement'[m].status \in {"ACTIVE", "CANCELLED"}
                    /\ NoApprovalLost' =>
                         \A p \in PositionsOf(count[c].warehouse) :
                           count[c].system[p] = PhotoOf(hotelMovement', count[c].photo, p)
  BY DEF PhotoHolds, PositionsOf
<1>1. PhotoHolds(c) BY DEF HotelInv
<1>2. \A m \in HotelMovement : count[c].photo[m] = "ACTIVE" => Settled(m)
  BY <1>1 DEF PhotoHolds, Settled
<1>3. NoApprovalLost' => NoApprovalLost BY DEF NoApprovalLost
<1>4. ASSUME NEW p \in PositionsOf(count[c].warehouse)
      PROVE  PhotoOf(hotelMovement', count[c].photo, p) = PhotoOf(hotelMovement, count[c].photo, p)
  <2> DEFINE found == {m \in HotelMovement : count[c].photo[m] = "ACTIVE"}
             before == [m \in HotelMovement |-> hotelMovement[m].in[p] - hotelMovement[m].out[p]]
             after == [m \in HotelMovement |-> hotelMovement'[m].in[p] - hotelMovement'[m].out[p]]
  <2>1. IsFiniteSet(found) BY HotelAssumption, FS_Subset
  <2>2. \A m \in found : after[m] = before[m] BY <1>2
  <2> HIDE DEF found, before, after
  <2>3. SumFunctionOnSet(after, found) = SumFunctionOnSet(before, found) BY <2>1, <2>2, SumOfEquals
  <2> QED BY <2>3 DEF PhotoOf, found, before, after
<1> QED BY <1>1, <1>2, <1>3, <1>4 DEF PhotoHolds

(* The ledger follows the stock.                                           *)
LEMMA LedgerIsStock ==
  ASSUME HotelTypeOK
  PROVE  StockIsTheLedger <=> (NoApprovalLost => \A p \in Position : stock[p] = LedgerOf(hotelMovement, p))
BY DEF StockIsTheLedger, LedgerOf, Signed, Active

(* One row of the movements is written, and the stock moves as the row     *)
(* says.                                                                   *)
LEMMA MovementWrite ==
  ASSUME HotelInv, HotelTypeOK', ReadingsAreOpen', overtaken \subseteq overtaken', UNCHANGED count,
         NEW m \in HotelMovement, NEW new \in HotelMovementRow,
         hotelMovement' = [hotelMovement EXCEPT ![m] = new],
         Settled(m) => /\ new.status \in {"ACTIVE", "CANCELLED"}
                       /\ new.in = hotelMovement[m].in /\ new.out = hotelMovement[m].out,
         new.count \in {hotelMovement[m].count, "NONE"},
         NoApprovalLost' => \A p \in Position :
           stock'[p] = stock[p] + WeightOf(new, p) - WeightOf(hotelMovement[m], p)
  PROVE  HotelInv'
<1>1. HotelTypeOK /\ StockIsTheLedger BY DEF HotelInv, HotelAddsUp
<1>2. hotelMovement \in MovementRows BY <1>1, HotelTypes
<1>3. NoApprovalLost' => NoApprovalLost BY DEF NoApprovalLost
<1>4. StockIsTheLedger'
  <2>1. SUFFICES ASSUME NoApprovalLost', NEW p \in Position
                 PROVE  stock'[p] = LedgerOf(hotelMovement', p)
    BY DEF StockIsTheLedger, LedgerOf, Signed, Active
  <2>2. stock[p] = LedgerOf(hotelMovement, p) BY <1>1, <1>3, <2>1, LedgerIsStock
  <2>3. LedgerOf(hotelMovement', p) = LedgerOf(hotelMovement, p) + WeightOf(new, p) - WeightOf(hotelMovement[m], p)
    BY <1>2, LedgerOfOneChange
  <2> QED BY <2>1, <2>2, <2>3
<1>5. CancelledCountAdjustsNothing'
  BY <1>2, HotelAssumption DEF HotelInv, HotelAddsUp, CancelledCountAdjustsNothing, MovementRows
<1>6. ASSUME NEW c \in Count PROVE PhotoHolds(c)'
  <2>1. \A x \in HotelMovement : Settled(x) =>
          /\ hotelMovement'[x].status \in {"ACTIVE", "CANCELLED"}
          /\ hotelMovement'[x].in = hotelMovement[x].in /\ hotelMovement'[x].out = hotelMovement[x].out
    BY <1>2 DEF MovementRows, Settled
  <2>2. PhotoHolds(c) BY DEF HotelInv
  <2> QED BY <2>1, <2>2, PhotoStays DEF PhotoHolds
<1> QED BY <1>4, <1>5, <1>6 DEF HotelInv, HotelAddsUp

(* A step that writes no movement keeps what is said of them.              *)
LEMMA OnlyCounts ==
  ASSUME HotelInv, HotelTypeOK', ReadingsAreOpen', UNCHANGED <<stock, hotelMovement, overtaken>>,
         CancelledCountAdjustsNothing', \A c \in Count : PhotoHolds(c)'
  PROVE  HotelInv'
BY DEF HotelInv, HotelAddsUp, StockIsTheLedger, NoApprovalLost, Signed, Active

(* Only the status of a row changes.                                       *)
LEMMA StatusWritten ==
  ASSUME HotelTypeOK, NEW m \in HotelMovement, NEW s \in MovementStatus,
         hotelMovement' = [hotelMovement EXCEPT ![m].status = s]
  PROVE  \E new \in HotelMovementRow :
           /\ hotelMovement' = [hotelMovement EXCEPT ![m] = new]
           /\ new.status = s /\ new.in = hotelMovement[m].in /\ new.out = hotelMovement[m].out
           /\ new.count = hotelMovement[m].count
<1>1. PICK new : new = [hotelMovement[m] EXCEPT !.status = s] OBVIOUS
<1>2. hotelMovement[m] \in HotelMovementRow BY HotelTypes
<1>3. new \in HotelMovementRow BY <1>1, <1>2 DEF HotelMovementRow
<1>4. /\ new.status = s /\ new.in = hotelMovement[m].in /\ new.out = hotelMovement[m].out
      /\ new.count = hotelMovement[m].count
  BY <1>1, <1>2 DEF HotelMovementRow
<1>5. hotelMovement' = [hotelMovement EXCEPT ![m] = new]
  BY <1>1 DEF HotelTypeOK
<1> QED BY <1>3, <1>4, <1>5

(* The stock stays a table of naturals, and so do the rows.                *)
LEMMA TypesAfterARow ==
  ASSUME HotelTypeOK, NEW m \in HotelMovement, NEW new \in HotelMovementRow,
         hotelMovement' = [hotelMovement EXCEPT ![m] = new], stock' \in [Position -> Nat],
         UNCHANGED count, reading' \subseteq HotelMovement \cup Count, overtaken' \subseteq HotelMovement \cup Count
  PROVE  HotelTypeOK'
BY DEF HotelTypeOK

(* The transaction of a movement begins.                                   *)
LEMMA BeginCallKeeps ==
  ASSUME HotelInv, NEW m \in HotelMovement, BeginCall(m)
  PROVE  HotelInv'
<1>1. HotelTypeOK BY DEF HotelInv, HotelAddsUp
<1>2. PICK new \in HotelMovementRow :
        /\ hotelMovement' = [hotelMovement EXCEPT ![m] = new]
        /\ new.status = "OPEN" /\ new.in = hotelMovement[m].in /\ new.out = hotelMovement[m].out
        /\ new.count = hotelMovement[m].count
  BY <1>1, StatusWritten DEF BeginCall, MovementStatus
<1>3. hotelMovement[m].status = "FREE" /\ UNCHANGED <<stock, count, reading, overtaken>> BY DEF BeginCall
<1>4. HotelTypeOK' BY <1>1, <1>2, <1>3, TypesAfterARow DEF HotelTypeOK
<1>5. ReadingsAreOpen'
  BY <1>1, <1>2, <1>3 DEF HotelInv, ReadingsAreOpen, HotelTypeOK, CountCancellable
<1>6. \A p \in Position : stock'[p] = stock[p] + WeightOf(new, p) - WeightOf(hotelMovement[m], p)
  BY <1>1, <1>2, <1>3 DEF WeightOf, HotelTypeOK
<1> QED BY <1>2, <1>3, <1>4, <1>5, <1>6, MovementWrite DEF Settled

(* A movement that is posted moves its stock, unless it waits for approval.*)
LEMMA PostKeeps ==
  ASSUME HotelInv, NEW m \in HotelMovement, NEW type \in PostType, NEW from \in Ends, NEW to \in Ends,
         NEW quantity \in 1 .. MaxPieces, Post(m, type, from, to, quantity)
  PROVE  HotelInv'
<1>1. HotelTypeOK BY DEF HotelInv, HotelAddsUp
<1>2. quantity \in Nat BY HotelAssumption
<1>3. PICK new : new = [type |-> type, status |-> StatusOf(type, quantity), out |-> At(from, quantity),
                        in |-> At(to, quantity), count |-> "NONE"]
  OBVIOUS
<1>4. new.in \in [Position -> Nat] /\ new.out \in [Position -> Nat] BY <1>1, <1>2, <1>3, HotelTypes
<1>5. new \in HotelMovementRow /\ new.status \in {"ACTIVE", "PENDING_APPROVAL"}
  BY <1>3, <1>4, HotelAssumption DEF HotelMovementRow, StatusOf, MovementStatus
<1>6. /\ hotelMovement[m].status = "OPEN" /\ hotelMovement' = [hotelMovement EXCEPT ![m] = new]
      /\ UNCHANGED <<count, reading, overtaken>>
      /\ IF new.status = "ACTIVE" THEN Sufficient(new.out) /\ stock' = Moved(new.out, new.in)
         ELSE UNCHANGED stock
  BY <1>3 DEF Post
<1>7. /\ stock' \in [Position -> Nat]
      /\ \A p \in Position : stock'[p] = stock[p] + WeightOf(new, p) - WeightOf(hotelMovement[m], p)
  <2>1. CASE new.status = "ACTIVE"
    <3>1. \A p \in Position : stock'[p] = stock[p] - new.out[p] + new.in[p]
      BY <1>1, <1>4, <1>6, <2>1, HotelTypes
    <3>2. stock' \in [Position -> Nat] BY <1>1, <1>4, <1>6, <2>1, HotelTypes
    <3>3. \A p \in Position : stock[p] \in Nat /\ new.out[p] \in Nat /\ new.in[p] \in Nat
      BY <1>1, <1>4 DEF HotelTypeOK
    <3>4. \A p \in Position : WeightOf(new, p) = new.in[p] - new.out[p] /\ WeightOf(hotelMovement[m], p) = 0
      BY <1>6, <2>1 DEF WeightOf
    <3> QED BY <3>1, <3>2, <3>3, <3>4
  <2>2. CASE new.status # "ACTIVE"
    BY <1>1, <1>6, <2>2 DEF HotelTypeOK, WeightOf
  <2> QED BY <2>1, <2>2
<1>8. HotelTypeOK' BY <1>1, <1>5, <1>6, <1>7, TypesAfterARow DEF HotelTypeOK
<1>9. ReadingsAreOpen'
  BY <1>1, <1>5, <1>6 DEF HotelInv, ReadingsAreOpen, HotelTypeOK, CountCancellable
<1>10. new.count = "NONE" BY <1>3
<1> QED BY <1>5, <1>6, <1>7, <1>8, <1>9, <1>10, MovementWrite DEF Settled

(* Cancelling takes back what the movement moved.                          *)
LEMMA CancelMovementKeeps ==
  ASSUME HotelInv, NEW m \in HotelMovement, CancelMovement(m)
  PROVE  HotelInv'
<1>1. HotelTypeOK BY DEF HotelInv, HotelAddsUp
<1>2. PICK new \in HotelMovementRow :
        /\ hotelMovement' = [hotelMovement EXCEPT ![m] = new]
        /\ new.status = "CANCELLED" /\ new.in = hotelMovement[m].in /\ new.out = hotelMovement[m].out
        /\ new.count = hotelMovement[m].count
  BY <1>1, StatusWritten DEF CancelMovement, MovementStatus
<1>3. /\ hotelMovement[m].status = "ACTIVE" /\ UNCHANGED <<count, reading, overtaken>>
      /\ Sufficient(new.in) /\ stock' = Moved(new.in, new.out)
  BY <1>2 DEF CancelMovement, Undo
<1>4. new.in \in [Position -> Nat] /\ new.out \in [Position -> Nat] BY DEF HotelMovementRow
<1>5. /\ stock' \in [Position -> Nat]
      /\ \A p \in Position : stock'[p] = stock[p] - new.in[p] + new.out[p]
  BY <1>1, <1>3, <1>4, HotelTypes
<1>6. \A p \in Position : stock'[p] = stock[p] + WeightOf(new, p) - WeightOf(hotelMovement[m], p)
  <2>1. \A p \in Position : stock[p] \in Nat /\ new.out[p] \in Nat /\ new.in[p] \in Nat
    BY <1>1, <1>4 DEF HotelTypeOK
  <2>2. \A p \in Position : WeightOf(new, p) = 0 /\ WeightOf(hotelMovement[m], p) = new.in[p] - new.out[p]
    BY <1>2, <1>3 DEF WeightOf
  <2> QED BY <1>5, <2>1, <2>2
<1>7. HotelTypeOK' BY <1>1, <1>2, <1>3, <1>5, TypesAfterARow DEF HotelTypeOK
<1>8. ReadingsAreOpen'
  BY <1>1, <1>2, <1>3 DEF HotelInv, ReadingsAreOpen, HotelTypeOK, CountCancellable
<1> QED BY <1>2, <1>3, <1>6, <1>7, <1>8, MovementWrite DEF Settled

(* An adjustment that is approved moves its stock.                         *)
LEMMA ApproveKeeps ==
  ASSUME HotelInv, NEW m \in HotelMovement, Approve(m)
  PROVE  HotelInv'
<1>1. HotelTypeOK BY DEF HotelInv, HotelAddsUp
<1>2. PICK new \in HotelMovementRow :
        /\ hotelMovement' = [hotelMovement EXCEPT ![m] = new]
        /\ new.status = "ACTIVE" /\ new.in = hotelMovement[m].in /\ new.out = hotelMovement[m].out
        /\ new.count = hotelMovement[m].count
  BY <1>1, StatusWritten DEF Approve, MovementStatus
<1>3. /\ hotelMovement[m].status = "PENDING_APPROVAL" /\ UNCHANGED <<count, reading>>
      /\ overtaken' = overtaken \cup ({m} \cap reading)
      /\ Sufficient(new.out) /\ stock' = Moved(new.out, new.in)
  BY <1>2 DEF Approve
<1>4. new.in \in [Position -> Nat] /\ new.out \in [Position -> Nat] BY DEF HotelMovementRow
<1>5. /\ stock' \in [Position -> Nat]
      /\ \A p \in Position : stock'[p] = stock[p] - new.out[p] + new.in[p]
  BY <1>1, <1>3, <1>4, HotelTypes
<1>6. \A p \in Position : stock'[p] = stock[p] + WeightOf(new, p) - WeightOf(hotelMovement[m], p)
  <2>1. \A p \in Position : stock[p] \in Nat /\ new.out[p] \in Nat /\ new.in[p] \in Nat
    BY <1>1, <1>4 DEF HotelTypeOK
  <2>2. \A p \in Position : WeightOf(hotelMovement[m], p) = 0 /\ WeightOf(new, p) = new.in[p] - new.out[p]
    BY <1>2, <1>3 DEF WeightOf
  <2> QED BY <1>5, <2>1, <2>2
<1>7. HotelTypeOK' BY <1>1, <1>2, <1>3, <1>5, TypesAfterARow DEF HotelTypeOK
<1>8. ReadingsAreOpen'
  BY <1>1, <1>2, <1>3 DEF HotelInv, ReadingsAreOpen, HotelTypeOK, CountCancellable
<1> QED BY <1>2, <1>3, <1>6, <1>7, <1>8, MovementWrite DEF Settled

(* Reading to reject changes no table.                                     *)
LEMMA RejectReadKeeps ==
  ASSUME HotelInv, NEW m \in HotelMovement, RejectRead(m)
  PROVE  HotelInv'
<1>1. HotelTypeOK' BY DEF HotelInv, HotelAddsUp, HotelTypeOK, RejectRead
<1>2. ReadingsAreOpen'
  BY HotelAssumption DEF HotelInv, ReadingsAreOpen, RejectRead, CountCancellable
<1>3. CancelledCountAdjustsNothing'
  BY DEF HotelInv, HotelAddsUp, CancelledCountAdjustsNothing, RejectRead
<1>4. ASSUME NEW c \in Count PROVE PhotoHolds(c)'
  BY DEF HotelInv, PhotoHolds, RejectRead, PositionsOf, NoApprovalLost
<1>5. UNCHANGED <<stock, hotelMovement, overtaken>> BY DEF RejectRead
<1> QED BY <1>1, <1>2, <1>3, <1>4, <1>5, OnlyCounts

(* Rejecting overwrites an approval, or cancels what moved nothing.        *)
LEMMA RejectWriteKeeps ==
  ASSUME HotelInv, NEW m \in HotelMovement, RejectWrite(m)
  PROVE  HotelInv'
<1>1. HotelTypeOK BY DEF HotelInv, HotelAddsUp
<1>2. PICK new \in HotelMovementRow :
        /\ hotelMovement' = [hotelMovement EXCEPT ![m] = new]
        /\ new.status = "CANCELLED" /\ new.in = hotelMovement[m].in /\ new.out = hotelMovement[m].out
        /\ new.count = hotelMovement[m].count
  BY <1>1, StatusWritten DEF RejectWrite, MovementStatus
<1>3. m \in reading /\ reading' = reading \ {m} /\ UNCHANGED <<stock, count, overtaken>> BY DEF RejectWrite
<1>4. NoApprovalLost' => hotelMovement[m].status \in {"PENDING_APPROVAL", "CANCELLED"}
  BY <1>3 DEF HotelInv, ReadingsAreOpen, NoApprovalLost
<1>5. NoApprovalLost' => \A p \in Position : stock'[p] = stock[p] + WeightOf(new, p) - WeightOf(hotelMovement[m], p)
  BY <1>1, <1>2, <1>3, <1>4 DEF WeightOf, HotelTypeOK
<1>6. HotelTypeOK' BY <1>1, <1>2, <1>3, TypesAfterARow DEF HotelTypeOK
<1>7. ReadingsAreOpen'
  BY <1>1, <1>2, <1>3 DEF HotelInv, ReadingsAreOpen, HotelTypeOK, CountCancellable
<1> QED BY <1>2, <1>3, <1>5, <1>6, <1>7, MovementWrite DEF Settled

(* A step that writes the row of one count and nothing else but readings.  *)
LEMMA CountWrite ==
  ASSUME HotelInv, NEW c \in Count, NEW new \in CountRow,
         UNCHANGED <<stock, hotelMovement, overtaken>>, count' = [count EXCEPT ![c] = new],
         reading' \subseteq reading, c \in overtaken \/ count[c].status # "APPLIED",
         c \in reading' =>
           c \in overtaken \/ new.status \in {"DRAFT", "COUNTING", "PENDING_APPROVAL", "CANCELLED"},
         PhotoHolds(c)'
  PROVE  HotelInv'
<1>1. HotelTypeOK BY DEF HotelInv, HotelAddsUp
<1>2. HotelTypeOK' BY <1>1 DEF HotelTypeOK
<1>3. /\ \A d \in Count \ {c} : count'[d] = count[d]
      /\ count'[c] = new
  BY <1>1 DEF HotelTypeOK
<1>4. ReadingsAreOpen'
  BY <1>1, <1>3, HotelAssumption DEF HotelInv, ReadingsAreOpen, CountCancellable, HotelTypeOK
<1>5. CancelledCountAdjustsNothing'
  <2>1. \A m \in HotelMovement : c \notin overtaken => hotelMovement[m].count # c
    BY DEF HotelInv, HotelAddsUp, CancelledCountAdjustsNothing
  <2> QED BY <1>3, <2>1 DEF HotelInv, HotelAddsUp, CancelledCountAdjustsNothing
<1>6. ASSUME NEW d \in Count \ {c} PROVE PhotoHolds(d)'
  <2>1. PhotoHolds(d) /\ count'[d] = count[d] BY <1>3 DEF HotelInv
  <2> QED BY <2>1 DEF PhotoHolds, PositionsOf, NoApprovalLost
<1> QED BY <1>2, <1>4, <1>5, <1>6, OnlyCounts

(* A count is created, closed or ended: it has no photo to keep.           *)
LEMMA CreateCountKeeps ==
  ASSUME HotelInv, NEW c \in Count, NEW w \in Warehouse, CreateCount(c, w)
  PROVE  HotelInv'
<1>1. HotelTypeOK /\ count[c] \in CountRow BY HotelTypes DEF HotelInv, HotelAddsUp
<1>2. PICK new : new = [count[c] EXCEPT !.status = "DRAFT", !.warehouse = w] OBVIOUS
<1>3. new \in CountRow /\ new.status = "DRAFT" BY <1>1, <1>2 DEF CountRow
<1>4. count' = [count EXCEPT ![c] = new] BY <1>1, <1>2 DEF CreateCount, HotelTypeOK, CountRow
<1>5. PhotoHolds(c)' BY <1>1, <1>3, <1>4 DEF PhotoHolds, HotelTypeOK
<1> QED BY <1>1, <1>3, <1>4, <1>5, CountWrite DEF CreateCount

(* The photo is the stock, which is what the active movements add up to.   *)
LEMMA StartKeeps ==
  ASSUME HotelInv, NEW c \in Count, Start(c)
  PROVE  HotelInv'
<1>1. HotelTypeOK /\ count[c] \in CountRow BY HotelTypes DEF HotelInv, HotelAddsUp
<1> DEFINE lines == {p \in PositionsOf(count[c].warehouse) : stock[p] > 0}
           system == [p \in Position |-> IF p \in lines THEN stock[p] ELSE 0]
           photo == [m \in HotelMovement |-> hotelMovement[m].status]
<1>2. lines \in SUBSET Position /\ lines \subseteq PositionsOf(count[c].warehouse) BY DEF PositionsOf
<1>3. /\ system \in [Position -> Nat]
      /\ \A p \in PositionsOf(count[c].warehouse) : system[p] = stock[p]
  BY <1>1 DEF HotelTypeOK, PositionsOf
<1>4. photo \in [HotelMovement -> MovementStatus] BY <1>1 DEF HotelTypeOK, HotelMovementRow
<1>5. /\ \A m \in HotelMovement : photo[m] = hotelMovement[m].status
      /\ \A p \in Position : PhotoOf(hotelMovement, photo, p) = LedgerOf(hotelMovement, p)
  <2>1. {m \in HotelMovement : photo[m] = "ACTIVE"} = {m \in HotelMovement : hotelMovement[m].status = "ACTIVE"}
    OBVIOUS
  <2> QED BY <2>1 DEF PhotoOf, LedgerOf
<1>6. /\ count[c].status = "DRAFT" /\ UNCHANGED <<stock, hotelMovement, reading, overtaken>>
      /\ count' = [count EXCEPT ![c].status = "COUNTING", ![c].lines = lines,
                                ![c].system = system, ![c].photo = photo]
  BY DEF Start
<1> HIDE DEF lines, system, photo
<1>7. PICK new : new = [count[c] EXCEPT !.status = "COUNTING", !.lines = lines, !.system = system, !.photo = photo]
  OBVIOUS
<1>8. /\ new \in CountRow /\ new.status = "COUNTING" /\ new.lines = lines
      /\ new.system = system /\ new.photo = photo /\ new.warehouse = count[c].warehouse
  BY <1>1, <1>2, <1>3, <1>4, <1>7 DEF CountRow
<1>9. count' = [count EXCEPT ![c] = new] BY <1>1, <1>6, <1>7 DEF HotelTypeOK, CountRow
<1>10. PhotoHolds(c)'
  <2>1. count'[c] = new BY <1>1, <1>9 DEF HotelTypeOK
  <2>2. NoApprovalLost' => \A p \in PositionsOf(count[c].warehouse) : system[p] = PhotoOf(hotelMovement', photo, p)
    <3>1. NoApprovalLost => \A p \in Position : stock[p] = LedgerOf(hotelMovement, p)
      BY <1>1, LedgerIsStock DEF HotelInv, HotelAddsUp
    <3>2. NoApprovalLost' => NoApprovalLost BY <1>6 DEF NoApprovalLost
    <3> QED BY <1>3, <1>5, <1>6, <3>1, <3>2 DEF PositionsOf
  <2>3. \A m \in HotelMovement : photo[m] = "ACTIVE" => hotelMovement'[m].status \in {"ACTIVE", "CANCELLED"}
    BY <1>5, <1>6
  <2> QED BY <1>2, <1>8, <2>1, <2>2, <2>3 DEF PhotoHolds, PositionsOf
<1> QED BY <1>6, <1>8, <1>9, <1>10, CountWrite

(* Counting a position keeps the photo.                                    *)
LEMMA CaptureKeeps ==
  ASSUME HotelInv, NEW c \in Count, NEW p \in Position, NEW quantity \in 0 .. MaxStock, Capture(c, p, quantity)
  PROVE  HotelInv'
<1>1. HotelTypeOK /\ count[c] \in CountRow BY HotelTypes DEF HotelInv, HotelAddsUp
<1>2. PICK new : new = [count[c] EXCEPT !.lines = count[c].lines \cup {p},
                                        !.counted = [count[c].counted EXCEPT ![p] = quantity]]
  OBVIOUS
<1>3. quantity \in Nat BY HotelAssumption
<1>4. /\ new \in CountRow /\ new.status = count[c].status /\ new.lines = count[c].lines \cup {p}
      /\ new.system = count[c].system /\ new.photo = count[c].photo /\ new.warehouse = count[c].warehouse
  BY <1>1, <1>2, <1>3 DEF CountRow
<1>5. count' = [count EXCEPT ![c] = new] BY <1>1, <1>2 DEF Capture, HotelTypeOK, CountRow
<1>6. /\ count[c].status = "COUNTING" /\ p \in PositionsOf(count[c].warehouse)
      /\ UNCHANGED <<stock, hotelMovement, reading, overtaken>>
  BY DEF Capture
<1>7. PhotoHolds(c)'
  <2>1. count'[c] = new BY <1>1, <1>5 DEF HotelTypeOK
  <2>2. PhotoHolds(c) BY DEF HotelInv
  <2> QED BY <1>4, <1>6, <2>1, <2>2 DEF PhotoHolds, PositionsOf, NoApprovalLost
<1> QED BY <1>4, <1>5, <1>6, <1>7, CountWrite

(* Closing keeps the photo.                                                *)
LEMMA CloseKeeps ==
  ASSUME HotelInv, NEW c \in Count, Close(c)
  PROVE  HotelInv'
<1>1. HotelTypeOK /\ count[c] \in CountRow BY HotelTypes DEF HotelInv, HotelAddsUp
<1>2. PICK new : new = [count[c] EXCEPT !.status = "PENDING_APPROVAL"] OBVIOUS
<1>3. /\ new \in CountRow /\ new.status = "PENDING_APPROVAL" /\ new.lines = count[c].lines
      /\ new.system = count[c].system /\ new.photo = count[c].photo /\ new.warehouse = count[c].warehouse
  BY <1>1, <1>2 DEF CountRow
<1>4. count' = [count EXCEPT ![c] = new] BY <1>1, <1>2 DEF Close, HotelTypeOK, CountRow
<1>5. count[c].status = "COUNTING" /\ UNCHANGED <<stock, hotelMovement, reading, overtaken>> BY DEF Close
<1>6. PhotoHolds(c)'
  <2>1. count'[c] = new BY <1>1, <1>4 DEF HotelTypeOK
  <2>2. PhotoHolds(c) BY DEF HotelInv
  <2> QED BY <1>3, <1>5, <2>1, <2>2 DEF PhotoHolds, PositionsOf, NoApprovalLost
<1> QED BY <1>3, <1>4, <1>5, <1>6, CountWrite

(* The row of a count that ended.                                          *)
LEMMA EndedRow ==
  ASSUME HotelTypeOK, NEW c \in Count, NEW s \in {"APPLIED", "CANCELLED"}
  PROVE  Ended(c, s) \in CountRow /\ Ended(c, s).status = s
<1>1. count[c] \in CountRow BY HotelTypes
<1>2. None \in [Position -> Nat] BY DEF None
<1>3. FreeCount \in CountRow BY <1>2 DEF FreeCount, CountRow, MovementStatus
<1> QED BY <1>1, <1>3 DEF Ended, CountRow

(* Reading to cancel changes no table.                                     *)
LEMMA CancelCountReadKeeps ==
  ASSUME HotelInv, NEW c \in Count, CancelCountRead(c)
  PROVE  HotelInv'
<1>1. HotelTypeOK' BY DEF HotelInv, HotelAddsUp, HotelTypeOK, CancelCountRead
<1>2. ReadingsAreOpen'
  BY HotelAssumption DEF HotelInv, ReadingsAreOpen, CancelCountRead, CountCancellable
<1>3. CancelledCountAdjustsNothing'
  BY DEF HotelInv, HotelAddsUp, CancelledCountAdjustsNothing, CancelCountRead
<1>4. ASSUME NEW d \in Count PROVE PhotoHolds(d)'
  BY DEF HotelInv, PhotoHolds, CancelCountRead, PositionsOf, NoApprovalLost
<1>5. UNCHANGED <<stock, hotelMovement, overtaken>> BY DEF CancelCountRead
<1> QED BY <1>1, <1>2, <1>3, <1>4, <1>5, OnlyCounts

(* Cancelling a count ends it, or overwrites its approval.                 *)
LEMMA CancelCountWriteKeeps ==
  ASSUME HotelInv, NEW c \in Count, CancelCountWrite(c)
  PROVE  HotelInv'
<1>1. HotelTypeOK BY DEF HotelInv, HotelAddsUp
<1>2. PICK new : new = Ended(c, "CANCELLED") OBVIOUS
<1>3. new \in CountRow /\ new.status = "CANCELLED" BY <1>1, <1>2, EndedRow
<1>4. /\ c \in reading /\ count' = [count EXCEPT ![c] = new] /\ reading' = reading \ {c}
      /\ UNCHANGED <<stock, hotelMovement, overtaken>>
  BY <1>2 DEF CancelCountWrite
<1>5. c \in overtaken \/ count[c].status # "APPLIED"
  BY <1>4 DEF HotelInv, ReadingsAreOpen, CountCancellable
<1>6. PhotoHolds(c)' BY <1>1, <1>3, <1>4 DEF PhotoHolds, HotelTypeOK
<1> QED BY <1>3, <1>4, <1>5, <1>6, CountWrite

(* What approving a count enters and takes out.                            *)
LEMMA DifferenceTypes ==
  ASSUME HotelTypeOK, NEW c \in Count
  PROVE  /\ \A p \in Position : MovementsSince(c, p) \in Int /\ Difference(c, p) \in Int
         /\ Surplus(c) \in [Position -> Nat] /\ Shortage(c) \in [Position -> Nat]
         /\ \A p \in Position : Surplus(c)[p] - Shortage(c)[p] = Difference(c, p)
<1>1. count[c] \in CountRow BY HotelTypes
<1>2. ASSUME NEW p \in Position PROVE MovementsSince(c, p) \in Int
  <2> DEFINE since == {m \in Active : count[c].photo[m] = "FREE"}
             signed == Signed(p)
  <2>1. since \in SUBSET HotelMovement BY DEF Active
  <2>2. IsFiniteSet(since) BY <2>1, HotelAssumption, FS_Subset
  <2>3. \A m \in HotelMovement : hotelMovement[m].in[p] \in Nat /\ hotelMovement[m].out[p] \in Nat
    BY DEF HotelTypeOK, HotelMovementRow
  <2>4. \A m \in since : signed[m] \in Int BY <2>1, <2>3 DEF Signed
  <2> HIDE DEF since, signed
  <2>5. SumFunctionOnSet(signed, since) \in Int BY <2>2, <2>4, SumIsNumber
  <2> QED BY <2>5 DEF MovementsSince, since, signed
<1>3. ASSUME NEW p \in Position PROVE Difference(c, p) \in Int
  <2>1. count[c].counted[p] \in Int /\ count[c].system[p] \in Int
    BY <1>1 DEF CountRow, Uncounted
  <2> QED BY <1>2, <2>1 DEF Difference
<1>4. \A p \in Position : /\ Surplus(c)[p] = IF Difference(c, p) > 0 THEN Difference(c, p) ELSE 0
                          /\ Shortage(c)[p] = IF Difference(c, p) < 0 THEN -Difference(c, p) ELSE 0
  BY DEF Surplus, Shortage
<1>5. /\ Surplus(c) = [p \in Position |-> Surplus(c)[p]]
      /\ Shortage(c) = [p \in Position |-> Shortage(c)[p]]
  BY DEF Surplus, Shortage
<1>6. \A p \in Position : Surplus(c)[p] \in Nat /\ Shortage(c)[p] \in Nat BY <1>3, <1>4
<1>7. Surplus(c) \in [Position -> Nat] /\ Shortage(c) \in [Position -> Nat] BY <1>5, <1>6
<1> QED BY <1>2, <1>3, <1>4, <1>7

(* Writing a row that was free adds what the row moves, if it is written.  *)
LEMMA RowAdded ==
  ASSUME NEW rows \in MovementRows, NEW m \in HotelMovement, NEW new \in HotelMovementRow,
         NEW moved \in BOOLEAN, new.status = "ACTIVE", moved => rows[m].status = "FREE",
         NEW next, next = IF moved THEN [rows EXCEPT ![m] = new] ELSE rows,
         ~moved => new.in = None /\ new.out = None, NEW p \in Position
  PROVE  next \in MovementRows /\ LedgerOf(next, p) = LedgerOf(rows, p) + new.in[p] - new.out[p]
<1>1. LedgerOf(rows, p) \in Int BY LedgerIsTheWeights
<1>2. new.in[p] \in Nat /\ new.out[p] \in Nat BY DEF HotelMovementRow
<1>3. CASE moved
  <2>1. WeightOf(new, p) = new.in[p] - new.out[p] /\ WeightOf(rows[m], p) = 0 BY <1>3 DEF WeightOf
  <2>2. /\ [rows EXCEPT ![m] = new] \in MovementRows
        /\ LedgerOf([rows EXCEPT ![m] = new], p) = LedgerOf(rows, p) + WeightOf(new, p) - WeightOf(rows[m], p)
    BY LedgerOfOneChange
  <2> QED BY <1>1, <1>2, <1>3, <2>1, <2>2
<1>4. CASE ~moved
  <2>1. new.in[p] = 0 /\ new.out[p] = 0 BY <1>4 DEF None
  <2> QED BY <1>1, <1>4, <2>1
<1> QED BY <1>3, <1>4

(* Approving a count corrects the stock and the ledger alike.              *)
LEMMA ApproveCountKeeps ==
  ASSUME HotelInv, NEW c \in Count, NEW i \in HotelMovement, NEW o \in HotelMovement, ApproveCount(c, i, o)
  PROVE  HotelInv'
<1>1. HotelTypeOK /\ hotelMovement \in MovementRows /\ None \in [Position -> Nat]
  BY HotelTypes DEF HotelInv, HotelAddsUp
<1>2. Surplus(c) \in [Position -> Nat] /\ Shortage(c) \in [Position -> Nat] BY <1>1, DifferenceTypes
<1>3. PICK rowIn : rowIn = Adjustment(c, "ADJUST_IN", None, Surplus(c)) OBVIOUS
<1>4. PICK rowOut : rowOut = Adjustment(c, "ADJUST_OUT", Shortage(c), None) OBVIOUS
<1>5. /\ rowIn \in HotelMovementRow /\ rowIn.status = "ACTIVE" /\ rowIn.count = c
      /\ rowIn.in = Surplus(c) /\ rowIn.out = None
  BY <1>1, <1>2, <1>3 DEF Adjustment, HotelMovementRow, HotelMovementType, MovementStatus
<1>6. /\ rowOut \in HotelMovementRow /\ rowOut.status = "ACTIVE" /\ rowOut.count = c
      /\ rowOut.in = None /\ rowOut.out = Shortage(c)
  BY <1>1, <1>2, <1>4 DEF Adjustment, HotelMovementRow, HotelMovementType, MovementStatus
<1>7. PICK enters \in BOOLEAN : enters <=> Surplus(c) # None OBVIOUS
<1>8. PICK leaves \in BOOLEAN : leaves <=> Shortage(c) # None OBVIOUS
<1>9. /\ enters => hotelMovement[i].status = "FREE"
      /\ leaves => hotelMovement[o].status = "FREE" /\ i # o
      /\ hotelMovement' = [m \in HotelMovement |->
           IF m = i /\ enters THEN rowIn ELSE IF m = o /\ leaves THEN rowOut ELSE hotelMovement[m]]
  BY <1>3, <1>4, <1>7, <1>8 DEF ApproveCount
<1>10. /\ count[c].status = "PENDING_APPROVAL" /\ Sufficient(Shortage(c))
       /\ stock' = Moved(Shortage(c), Surplus(c))
       /\ count' = [count EXCEPT ![c] = Ended(c, "APPLIED")]
       /\ overtaken' = overtaken \cup ({c} \cap reading) /\ UNCHANGED reading
  BY DEF ApproveCount
<1>11. Ended(c, "APPLIED") \in CountRow /\ Ended(c, "APPLIED").status = "APPLIED" BY <1>1, EndedRow
<1>12. /\ stock' \in [Position -> Nat]
       /\ \A p \in Position : stock'[p] = stock[p] - Shortage(c)[p] + Surplus(c)[p]
  BY <1>1, <1>2, <1>10, HotelTypes
<1>13. /\ \A m \in HotelMovement : hotelMovement'[m] \in {rowIn, rowOut, hotelMovement[m]}
       /\ \A m \in HotelMovement : hotelMovement'[m] # hotelMovement[m] => hotelMovement[m].status = "FREE"
  BY <1>9
<1>14. HotelTypeOK'
  <2>1. hotelMovement' \in [HotelMovement -> HotelMovementRow] BY <1>1, <1>5, <1>6, <1>9 DEF HotelTypeOK
  <2> QED BY <1>1, <1>10, <1>11, <1>12, <2>1 DEF HotelTypeOK
<1>15. count'[c].status = "APPLIED" /\ \A d \in Count \ {c} : count'[d] = count[d]
  BY <1>1, <1>10, <1>11 DEF HotelTypeOK
<1>16. ReadingsAreOpen'
  BY <1>10, <1>13, <1>15, HotelAssumption DEF HotelInv, ReadingsAreOpen, CountCancellable
<1>17. StockIsTheLedger'
  <2> SUFFICES ASSUME NoApprovalLost', NEW p \in Position
               PROVE  stock'[p] = LedgerOf(hotelMovement', p)
    BY DEF StockIsTheLedger, LedgerOf, Signed, Active
  <2>1. stock[p] = LedgerOf(hotelMovement, p)
    <3>1. NoApprovalLost BY <1>10 DEF NoApprovalLost
    <3> QED BY <1>1, <3>1, LedgerIsStock DEF HotelInv, HotelAddsUp
  <2>2. PICK mid : mid = IF enters THEN [hotelMovement EXCEPT ![i] = rowIn] ELSE hotelMovement OBVIOUS
  <2>3. mid \in MovementRows /\ LedgerOf(mid, p) = LedgerOf(hotelMovement, p) + rowIn.in[p] - rowIn.out[p]
    BY <1>1, <1>5, <1>7, <1>9, <2>2, RowAdded
  <2>4. leaves => mid[o].status = "FREE" BY <1>1, <1>9, <2>2 DEF MovementRows
  <2>5. PICK next : next = IF leaves THEN [mid EXCEPT ![o] = rowOut] ELSE mid OBVIOUS
  <2>6. next \in MovementRows /\ LedgerOf(next, p) = LedgerOf(mid, p) + rowOut.in[p] - rowOut.out[p]
    BY <1>6, <1>8, <2>3, <2>4, <2>5, RowAdded
  <2>7. hotelMovement' = next
    <3>1. \A m \in HotelMovement : hotelMovement'[m] = next[m]
      BY <1>1, <1>9, <2>2, <2>3, <2>5 DEF MovementRows
    <3>2. hotelMovement' = [m \in HotelMovement |-> hotelMovement'[m]] BY <1>9
    <3>3. next = [m \in HotelMovement |-> next[m]] BY <2>6 DEF MovementRows
    <3> QED BY <3>1, <3>2, <3>3
  <2>8. LedgerOf(hotelMovement, p) \in Int BY <1>1, LedgerIsTheWeights
  <2>9. None[p] = 0 /\ Surplus(c)[p] \in Nat /\ Shortage(c)[p] \in Nat BY <1>2 DEF None
  <2>10. LedgerOf(next, p) = LedgerOf(hotelMovement, p) + Surplus(c)[p] - 0 + 0 - Shortage(c)[p]
    BY <1>5, <1>6, <2>3, <2>6, <2>9
  <2> QED BY <1>12, <2>1, <2>7, <2>8, <2>9, <2>10
<1>18. CancelledCountAdjustsNothing'
  BY <1>5, <1>6, <1>10, <1>13, <1>15 DEF HotelInv, HotelAddsUp, CancelledCountAdjustsNothing
<1>19. ASSUME NEW d \in Count PROVE PhotoHolds(d)'
  <2>1. CASE d = c BY <1>15, <2>1 DEF PhotoHolds
  <2>2. CASE d # c
    <3>1. count'[d] = count[d] /\ overtaken \subseteq overtaken' BY <1>10, <1>15, <2>2
    <3>2. \A m \in HotelMovement : Settled(m) =>
            /\ hotelMovement'[m].status \in {"ACTIVE", "CANCELLED"}
            /\ hotelMovement'[m].in = hotelMovement[m].in /\ hotelMovement'[m].out = hotelMovement[m].out
      BY <1>13 DEF Settled
    <3>3. PhotoHolds(d) BY DEF HotelInv
    <3> QED BY <1>14, <3>1, <3>2, <3>3, PhotoStays DEF PhotoHolds
  <2> QED BY <2>1, <2>2
<1> QED BY <1>14, <1>16, <1>17, <1>18, <1>19 DEF HotelInv, HotelAddsUp

(* Every step of the hotel store keeps its invariant.                      *)
LEMMA HotelInvNext == HotelInv /\ [HotelNext]_hotelVars => HotelInv'
<1> SUFFICES ASSUME HotelInv, [HotelNext]_hotelVars PROVE HotelInv' OBVIOUS
<1>1. ASSUME NEW m \in HotelMovement, MovementStep(m) \/ RejectWrite(m) PROVE HotelInv'
  BY <1>1, BeginCallKeeps, PostKeeps, CancelMovementKeeps, ApproveKeeps, RejectReadKeeps, RejectWriteKeeps
  DEF MovementStep
<1>2. ASSUME NEW c \in Count, CountStep(c) \/ CancelCountWrite(c) PROVE HotelInv'
  BY <1>2, CreateCountKeeps, StartKeeps, CaptureKeeps, CloseKeeps, ApproveCountKeeps, CancelCountReadKeeps,
     CancelCountWriteKeeps
  DEF CountStep
<1>3. CASE UNCHANGED hotelVars
  BY <1>3 DEF hotelVars, HotelInv, HotelAddsUp, HotelTypeOK, StockIsTheLedger, NoApprovalLost, Signed, Active,
       CancelledCountAdjustsNothing, ReadingsAreOpen, CountCancellable, PhotoHolds, PositionsOf
<1> QED BY <1>1, <1>2, <1>3 DEF HotelNext

(* The invariant holds in every history.                                   *)
LEMMA HotelInvariant == HotelSpec => []HotelInv
<1> QED BY HotelInvInit, HotelInvNext, PTL DEF HotelSpec

(* No position of the hotel store goes below zero, the stock of a position *)
(* is the sum of its active movements as long as no reject() overwrites an *)
(* approval, and a count that was cancelled has adjusted nothing.          *)
THEOREM HotelBooksAddUp == HotelSpec => []HotelAddsUp
<1>1. HotelInv => HotelAddsUp BY DEF HotelInv
<1> QED BY <1>1, HotelInvariant, PTL

(* The step that applies a count.                                          *)
LEMMA ApprovalIsRight ==
  ASSUME HotelInv, [HotelNext]_hotelVars, NEW c \in Count,
         Applies(c), PhotoStands(c), NoApprovalLost
  PROVE  CountIsRight(c)
<1>1. HotelTypeOK /\ count[c] \in CountRow BY HotelTypes DEF HotelInv, HotelAddsUp
<1>2. \E i, o \in HotelMovement : ApproveCount(c, i, o)
  <2>1. count[c].status = "PENDING_APPROVAL" /\ count'[c].status = "APPLIED" BY DEF Applies
  <2>2. ~UNCHANGED count BY <2>1
  <2>4. ASSUME NEW d \in Count, NEW i \in HotelMovement, NEW o \in HotelMovement, ApproveCount(d, i, o)
        PROVE  d = c
    BY <1>1, <2>1, <2>4 DEF ApproveCount, HotelTypeOK
  <2>5. ASSUME NEW d \in Count, CountStep(d) \/ CancelCountWrite(d)
        PROVE  \E i, o \in HotelMovement : ApproveCount(d, i, o)
    <3>1. count[d] \in CountRow BY <1>1, HotelTypes
    <3>2. ASSUME NEW w \in Warehouse, CreateCount(d, w) PROVE FALSE
      BY <1>1, <2>1, <3>1, <3>2 DEF CreateCount, HotelTypeOK, CountRow
    <3>3. ASSUME Start(d) PROVE FALSE
      BY <1>1, <2>1, <3>1, <3>3 DEF Start, HotelTypeOK, CountRow
    <3>4. ASSUME NEW p \in Position, NEW quantity \in 0 .. MaxStock, Capture(d, p, quantity) PROVE FALSE
      BY <1>1, <2>1, <3>1, <3>4 DEF Capture, HotelTypeOK, CountRow
    <3>5. ASSUME Close(d) PROVE FALSE
      BY <1>1, <2>1, <3>1, <3>5 DEF Close, HotelTypeOK, CountRow
    <3>6. ASSUME CancelCountRead(d) PROVE FALSE BY <2>2, <3>6 DEF CancelCountRead
    <3>7. ASSUME CancelCountWrite(d) PROVE FALSE
      <4>1. Ended(d, "CANCELLED").status = "CANCELLED" BY <1>1, EndedRow
      <4> QED BY <1>1, <2>1, <3>7, <4>1 DEF CancelCountWrite, HotelTypeOK
    <3> QED BY <2>5, <3>2, <3>3, <3>4, <3>5, <3>6, <3>7 DEF CountStep
  <2>6. ASSUME NEW m \in HotelMovement, MovementStep(m) \/ RejectWrite(m) PROVE FALSE
    BY <2>2, <2>6 DEF MovementStep, RejectWrite, BeginCall, Post, CancelMovement, Approve, RejectRead
  <2>7. PICK d \in Count : CountStep(d) \/ CancelCountWrite(d)
    BY <2>2, <2>6 DEF HotelNext, hotelVars
  <2> QED BY <2>4, <2>5, <2>7
<1>3. PICK i \in HotelMovement, o \in HotelMovement : ApproveCount(c, i, o) BY <1>2
<1>4. SUFFICES ASSUME NEW p \in count[c].lines PROVE stock'[p] = count[c].counted[p] BY DEF CountIsRight
<1>5. PhotoHolds(c) /\ count[c].status = "PENDING_APPROVAL" BY DEF HotelInv, Applies
<1>6. p \in Position /\ p \in PositionsOf(count[c].warehouse) BY <1>5 DEF PhotoHolds, PositionsOf
<1>7. stock'[p] = stock[p] + Difference(c, p)
  <2>1. Surplus(c) \in [Position -> Nat] /\ Shortage(c) \in [Position -> Nat] /\ Difference(c, p) \in Int
        /\ Surplus(c)[p] - Shortage(c)[p] = Difference(c, p)
    BY <1>1, <1>6, DifferenceTypes
  <2>2. stock'[p] = stock[p] - Shortage(c)[p] + Surplus(c)[p]
    BY <1>1, <1>3, <1>6, <2>1, HotelTypes DEF ApproveCount
  <2>3. stock[p] \in Nat /\ Surplus(c)[p] \in Nat /\ Shortage(c)[p] \in Nat
    BY <1>1, <1>6, <2>1 DEF HotelTypeOK
  <2> QED BY <2>1, <2>2, <2>3
<1>8. stock[p] = count[c].system[p] + MovementsSince(c, p)
  <2> DEFINE signed == Signed(p)
             found == {m \in HotelMovement : count[c].photo[m] = "ACTIVE"}
             since == {m \in Active : count[c].photo[m] = "FREE"}
  <2>1. found \cup since = Active /\ found \cap since = {}
    BY DEF PhotoStands, Active
  <2>2. IsFiniteSet(found) /\ IsFiniteSet(since) BY HotelAssumption, FS_Subset DEF Active
  <2>3. \A m \in found \cup since : signed[m] \in Int
    <3>1. \A m \in HotelMovement : hotelMovement[m].in[p] \in Nat /\ hotelMovement[m].out[p] \in Nat
      BY <1>1, <1>6 DEF HotelTypeOK, HotelMovementRow
    <3> QED BY <3>1 DEF Signed, Active
  <2>4. stock[p] = SumFunctionOnSet(signed, Active)
    BY <1>6 DEF HotelInv, HotelAddsUp, StockIsTheLedger
  <2>5. count[c].system[p] = SumFunctionOnSet(signed, found)
    BY <1>5, <1>6 DEF PhotoHolds, PhotoOf, Signed
  <2>6. MovementsSince(c, p) = SumFunctionOnSet(signed, since) BY DEF MovementsSince
  <2> HIDE DEF signed, found, since
  <2>7. SumFunctionOnSet(signed, found \cup since) = SumFunctionOnSet(signed, found) + SumFunctionOnSet(signed, since)
    BY <2>1, <2>2, <2>3, SumOfUnion
  <2> QED BY <2>1, <2>4, <2>5, <2>6, <2>7
<1>9. /\ Difference(c, p) = count[c].counted[p] - count[c].system[p] - MovementsSince(c, p)
      /\ MovementsSince(c, p) \in Int
  BY <1>1, <1>6, DifferenceTypes DEF Difference
<1>10. count[c].counted[p] \in Int /\ count[c].system[p] \in Int BY <1>1, <1>6 DEF CountRow, Uncounted
<1> QED BY <1>7, <1>8, <1>9, <1>10

(* A count that is approved leaves each position as it was counted, as     *)
(* long as its photo stands and no approval was overwritten.               *)
THEOREM CountsAreRight == HotelSpec => ApprovedEqualsCount
<1>1. HotelInv /\ [HotelNext]_hotelVars =>
        [\A c \in Count : Applies(c) /\ PhotoStands(c) /\ NoApprovalLost => CountIsRight(c)]_hotelVars
  BY ApprovalIsRight
<1> QED BY <1>1, HotelInvariant, PTL DEF HotelSpec, ApprovedEqualsCount

-----------------------------------------------------------------------------
(* The kitchen store.                                                      *)

\* What is missing after each of the first n rounds of allocateFefo().
Rounds(left, n, queue, onHand, quantity) ==
  left = [i \in 0 .. n |->
            IF i = 0 THEN quantity
            ELSE IF onHand[queue[i]] < left[i - 1] THEN left[i - 1] - onHand[queue[i]]
            ELSE 0]

(* The loop ends, whatever the queue.                                      *)
LEMMA RoundsExist ==
  ASSUME NEW queue, NEW onHand, NEW quantity, NEW n \in Nat
  PROVE  \E left : Rounds(left, n, queue, onHand, quantity)
<1> DEFINE Bad == {k \in Nat : ~\E left : Rounds(left, k, queue, onHand, quantity)}
<1> SUFFICES ASSUME Bad # {} PROVE FALSE OBVIOUS
<1>1. PICK k \in Bad : \A j \in Bad : k <= j
  <2> HIDE DEF Bad
  <2>1. Bad \in SUBSET Nat BY DEF Bad
  <2> QED BY <2>1, LeastNumber
<1>2. k # 0
  <2>1. Rounds([i \in 0 .. 0 |-> quantity], 0, queue, onHand, quantity) BY DEF Rounds
  <2> QED BY <2>1
<1>3. k \in Nat /\ k - 1 \in Nat BY <1>2
<1>4. PICK before : Rounds(before, k - 1, queue, onHand, quantity) BY <1>1, <1>3
<1> DEFINE last == IF onHand[queue[k]] < before[k - 1] THEN before[k - 1] - onHand[queue[k]] ELSE 0
           left == [i \in 0 .. k |-> IF i = k THEN last ELSE before[i]]
<1>5. \A i \in 0 .. k : left[i] =
            IF i = 0 THEN quantity
            ELSE IF onHand[queue[i]] < left[i - 1] THEN left[i - 1] - onHand[queue[i]]
            ELSE 0
  <2> SUFFICES ASSUME NEW i \in 0 .. k
               PROVE  left[i] = IF i = 0 THEN quantity
                                ELSE IF onHand[queue[i]] < left[i - 1] THEN left[i - 1] - onHand[queue[i]]
                                ELSE 0
    OBVIOUS
  <2>1. CASE i = k
    <3>1. i # 0 /\ left[i - 1] = before[k - 1] /\ left[i] = last BY <1>2, <1>3, <2>1
    <3> HIDE DEF left
    <3> QED BY <2>1, <3>1
  <2>2. CASE i # k
    <3>1. i \in 0 .. k - 1 /\ left[i] = before[i] BY <1>3, <2>2
    <3>2. i # 0 => left[i - 1] = before[i - 1] BY <1>3
    <3>3. before[i] = IF i = 0 THEN quantity
                      ELSE IF onHand[queue[i]] < before[i - 1] THEN before[i - 1] - onHand[queue[i]]
                      ELSE 0
      BY <1>4, <3>1 DEF Rounds
    <3> HIDE DEF left
    <3> QED BY <3>1, <3>2, <3>3
  <2> QED BY <2>1, <2>2
<1>6. left = [i \in 0 .. k |-> left[i]] OBVIOUS
<1>7. Rounds(left, k, queue, onHand, quantity)
  <2> HIDE DEF left
  <2> QED BY <1>5, <1>6 DEF Rounds
<1> QED BY <1>7 DEF Bad

(* Round by round.                                                         *)
LEMMA RemainingIs ==
  ASSUME NEW queue, NEW onHand, NEW quantity, Cardinality(DOMAIN queue) \in Nat, NEW left,
         left = Remaining(queue, onHand, quantity)
  PROVE  /\ left[0] = quantity
         /\ \A i \in 1 .. Cardinality(DOMAIN queue) :
              left[i] = IF onHand[queue[i]] < left[i - 1] THEN left[i - 1] - onHand[queue[i]] ELSE 0
<1>1. PICK n \in Nat : n = Cardinality(DOMAIN queue) OBVIOUS
<1>2. left = CHOOSE g : Rounds(g, n, queue, onHand, quantity)
  BY <1>1 DEF Remaining, Rounds
<1>3. Rounds(left, n, queue, onHand, quantity) BY <1>2, RoundsExist
<1>4. \A i \in 0 .. n : left[i] = IF i = 0 THEN quantity
                      ELSE IF onHand[queue[i]] < left[i - 1] THEN left[i - 1] - onHand[queue[i]]
                      ELSE 0
  BY <1>3 DEF Rounds
<1> QED BY <1>1, <1>4

(* What is missing never grows.                                            *)
LEMMA RemainingShrinks ==
  ASSUME NEW n \in Nat, NEW queue, NEW onHand, NEW quantity \in Nat, NEW left,
         n = Cardinality(DOMAIN queue), left = Remaining(queue, onHand, quantity),
         \A i \in 1 .. n : onHand[queue[i]] \in Nat
  PROVE  /\ \A i \in 0 .. n : left[i] \in Nat
         /\ \A i, j \in 0 .. n : i <= j => left[j] <= left[i]
<1>1. left[0] = quantity /\ \A i \in 1 .. n :
        left[i] = IF onHand[queue[i]] < left[i - 1] THEN left[i - 1] - onHand[queue[i]] ELSE 0
  BY RemainingIs
<1>2. \A i \in 0 .. n : left[i] \in Nat
  <2> DEFINE Bad == {i \in 0 .. n : left[i] \notin Nat}
  <2> SUFFICES ASSUME Bad # {} PROVE FALSE OBVIOUS
  <2>1. PICK k \in Bad : \A j \in Bad : k <= j
    <3>1. Bad \in SUBSET Nat OBVIOUS
    <3> HIDE DEF Bad
    <3> QED BY <3>1, LeastNumber
  <2>2. k # 0 BY <1>1
  <2>3. k - 1 \in 0 .. n /\ k \in 1 .. n BY <2>2
  <2>4. left[k - 1] \in Nat BY <2>1, <2>3
  <2>5. onHand[queue[k]] \in Nat BY <2>3
  <2>6. left[k] \in Nat BY <1>1, <2>3, <2>4, <2>5
  <2> QED BY <2>6
<1>3. \A i \in 1 .. n : left[i] <= left[i - 1]
  <2> SUFFICES ASSUME NEW i \in 1 .. n PROVE left[i] <= left[i - 1] OBVIOUS
  <2>1. i - 1 \in 0 .. n /\ left[i - 1] \in Nat /\ onHand[queue[i]] \in Nat BY <1>2
  <2>2. left[i] = IF onHand[queue[i]] < left[i - 1] THEN left[i - 1] - onHand[queue[i]] ELSE 0 BY <1>1
  <2> QED BY <2>1, <2>2
<1>4. ASSUME NEW i \in 0 .. n PROVE \A j \in 0 .. n : i <= j => left[j] <= left[i]
  <2> DEFINE Bad == {j \in 0 .. n : i <= j /\ ~(left[j] <= left[i])}
  <2> SUFFICES ASSUME Bad # {} PROVE FALSE OBVIOUS
  <2>1. PICK k \in Bad : \A j \in Bad : k <= j
    <3>1. Bad \in SUBSET Nat OBVIOUS
    <3> HIDE DEF Bad
    <3> QED BY <3>1, LeastNumber
  <2>2. k # i BY <1>2
  <2>3. k - 1 \in 0 .. n /\ k \in 1 .. n /\ i <= k - 1 BY <2>2
  <2>4. left[k - 1] <= left[i] BY <2>1, <2>3
  <2>5. left[k] <= left[k - 1] BY <1>3, <2>3
  <2>6. left[k] \in Nat /\ left[k - 1] \in Nat /\ left[i] \in Nat BY <1>2, <2>3
  <2> QED BY <2>4, <2>5, <2>6
<1> QED BY <1>2, <1>4

\* A queue of the lots, each of them once.
QueueOf(queue, n, lots) ==
  /\ n \in Nat /\ n = Cardinality(lots)
  /\ queue \in [1 .. n -> lots]
  /\ \A i, j \in 1 .. n : i # j => queue[i] # queue[j]

(* Every usable lot stands in the queue.                                   *)
LEMMA QueueHasAll ==
  ASSUME NEW lots, IsFiniteSet(lots), NEW n, NEW queue, QueueOf(queue, n, lots)
  PROVE  /\ DOMAIN queue = 1 .. n /\ Cardinality(DOMAIN queue) = n
         /\ lots = {queue[i] : i \in 1 .. n}
<1>1. DOMAIN queue = 1 .. n /\ n \in Nat BY DEF QueueOf
<1>2. IsFiniteSet(1 .. n) /\ Cardinality(1 .. n) = n
  <2>1. IsFiniteSet(1 .. n) /\ Cardinality(1 .. n) = IF 1 > n THEN 0 ELSE n - 1 + 1 BY <1>1, FS_Interval
  <2> QED BY <1>1, <2>1
<1>3. PICK seen : seen = {queue[i] : i \in 1 .. n} OBVIOUS
<1>4. seen \subseteq lots /\ IsFiniteSet(seen) BY <1>3, FS_Subset DEF QueueOf
<1>5. Cardinality(seen) = n
  <2>1. queue \in Bijection(1 .. n, seen)
    BY <1>1, <1>3 DEF QueueOf, Bijection, Injection, Surjection, IsInjective
  <2>2. ExistsBijection(1 .. n, seen) BY <2>1 DEF ExistsBijection
  <2> QED BY <1>2, <1>4, <2>2, FS_Bijection
<1>6. seen = lots BY <1>4, <1>5, FS_Subset DEF QueueOf
<1> QED BY <1>1, <1>2, <1>3, <1>6

\* What the loop takes of the lot in each place is what is no longer missing.
Places(plan, left, n, queue, usable) ==
  /\ \A i \in 1 .. n : plan.take[queue[i]] = left[i - 1] - left[i]
  /\ \A l \in Lot \ usable : plan.take[l] = 0
  /\ plan.take = [l \in Lot |-> plan.take[l]]
  /\ plan.missing = left[n]

(* The loop takes what its rounds say.                                     *)
LEMMA TakenInPlace ==
  ASSUME NEW usable \in SUBSET Lot, NEW n, NEW queue, QueueOf(queue, n, usable),
         NEW onHand, NEW quantity, NEW plan, plan = AllocateFefo(Lot, queue, onHand, quantity),
         NEW left, left = Remaining(queue, onHand, quantity)
  PROVE  Places(plan, left, n, queue, usable)
<1>1. IsFiniteSet(usable) BY KitchenAssumption, FS_Subset
<1>2. DOMAIN queue = 1 .. n /\ Cardinality(DOMAIN queue) = n /\ usable = {queue[i] : i \in 1 .. n}
  BY <1>1, QueueHasAll
<1>3. plan.missing = left[n] BY <1>2 DEF AllocateFefo
<1>4. plan.take = [l \in Lot |->
                     IF \E i \in 1 .. n : queue[i] = l
                     THEN left[(CHOOSE k \in 1 .. n : queue[k] = l) - 1]
                            - left[CHOOSE k \in 1 .. n : queue[k] = l]
                     ELSE 0]
  BY <1>2 DEF AllocateFefo
<1>5. ASSUME NEW i \in 1 .. n PROVE plan.take[queue[i]] = left[i - 1] - left[i]
  <2>1. queue[i] \in Lot BY DEF QueueOf
  <2>2. (CHOOSE k \in 1 .. n : queue[k] = queue[i]) = i BY DEF QueueOf
  <2> QED BY <1>4, <2>1, <2>2
<1>6. ASSUME NEW l \in Lot \ usable PROVE plan.take[l] = 0
  <2>1. ~\E i \in 1 .. n : queue[i] = l BY <1>2
  <2> QED BY <1>4, <2>1
<1>7. plan.take = [l \in Lot |-> plan.take[l]] BY <1>4
<1> QED BY <1>3, <1>5, <1>6, <1>7 DEF Places

\* What a plan of allocateFefo() takes of the usable lots, and what it leaves out.
TakesOf(take, missing, usable, onHand, quantity) ==
  /\ take \in [Lot -> Nat] /\ missing \in Nat
  /\ \A l \in Lot : take[l] <= IF l \in usable THEN onHand[l] ELSE 0
  /\ SumFunctionOnSet(take, Lot) = quantity - missing
  /\ missing > 0 => \A l \in usable : take[l] = onHand[l]

\* It goes on to the next lot only when this one is empty.
InTurn(take, n, queue, onHand) ==
  \A i, j \in 1 .. n : i < j /\ take[queue[j]] > 0 => take[queue[i]] = onHand[queue[i]]

(* The loop takes what it was asked for and is not missing, and of each    *)
(* lot at most what it has; the lots before one it touches it empties.     *)
LEMMA FefoTakes ==
  ASSUME NEW usable \in SUBSET Lot, NEW n, NEW queue, QueueOf(queue, n, usable),
         NEW onHand \in [Lot -> Nat], NEW quantity \in Nat, NEW plan,
         plan = AllocateFefo(Lot, queue, onHand, quantity)
  PROVE  /\ TakesOf(plan.take, plan.missing, usable, onHand, quantity)
         /\ InTurn(plan.take, n, queue, onHand)
<1>1. IsFiniteSet(Lot) /\ IsFiniteSet(usable) BY KitchenAssumption, FS_Subset
<1>2. DOMAIN queue = 1 .. n /\ Cardinality(DOMAIN queue) = n /\ usable = {queue[i] : i \in 1 .. n}
  BY <1>1, QueueHasAll
<1>3. n \in Nat /\ queue \in [1 .. n -> usable] /\ \A i, j \in 1 .. n : i # j => queue[i] # queue[j]
  BY DEF QueueOf
<1>4. PICK left : left = Remaining(queue, onHand, quantity) OBVIOUS
<1>5. PICK take : take = plan.take OBVIOUS
<1>6. /\ \A i \in 1 .. n : take[queue[i]] = left[i - 1] - left[i]
      /\ \A l \in Lot \ usable : take[l] = 0
      /\ take = [l \in Lot |-> take[l]]
      /\ plan.missing = left[n]
  <2>1. Places(plan, left, n, queue, usable) BY <1>4, TakenInPlace
  <2> QED BY <1>5, <2>1 DEF Places
<1>7. \A i \in 1 .. n : onHand[queue[i]] \in Nat BY <1>3
<1>8. /\ left[0] = quantity
      /\ \A i \in 1 .. n :
           left[i] = IF onHand[queue[i]] < left[i - 1] THEN left[i - 1] - onHand[queue[i]] ELSE 0
  BY <1>2, <1>3, <1>4, RemainingIs
<1>9. /\ \A i \in 0 .. n : left[i] \in Nat
      /\ \A i, j \in 0 .. n : i <= j => left[j] <= left[i]
  BY <1>2, <1>3, <1>4, <1>7, RemainingShrinks
<1>10. ASSUME NEW i \in 1 .. n
       PROVE  /\ take[queue[i]] \in Nat /\ take[queue[i]] <= onHand[queue[i]]
              /\ left[i] > 0 => take[queue[i]] = onHand[queue[i]]
              /\ take[queue[i]] > 0 => left[i - 1] > 0
  <2>1. i - 1 \in 0 .. n /\ i \in 0 .. n BY <1>3
  <2>2. left[i - 1] \in Nat /\ left[i] \in Nat /\ onHand[queue[i]] \in Nat BY <1>7, <1>9, <2>1
  <2>3. left[i] = IF onHand[queue[i]] < left[i - 1] THEN left[i - 1] - onHand[queue[i]] ELSE 0 BY <1>8
  <2>4. take[queue[i]] = left[i - 1] - left[i] BY <1>6
  <2> QED BY <2>2, <2>3, <2>4
<1>11. \A l \in usable : take[l] \in Nat /\ take[l] <= onHand[l] BY <1>2, <1>10
<1>12. take \in [Lot -> Nat] BY <1>6, <1>11
<1>13. \A l \in Lot : take[l] <= IF l \in usable THEN onHand[l] ELSE 0 BY <1>6, <1>11
<1>14. ASSUME NEW i \in 1 .. n, NEW j \in 1 .. n, i < j, take[queue[j]] > 0
       PROVE  take[queue[i]] = onHand[queue[i]]
  <2>1. left[j - 1] > 0 BY <1>10, <1>14
  <2>2. i \in 0 .. n /\ j - 1 \in 0 .. n /\ i <= j - 1 BY <1>3, <1>14
  <2>3. left[i] \in Nat /\ left[j - 1] \in Nat /\ left[j - 1] <= left[i] BY <1>9, <2>2
  <2>4. left[i] > 0 BY <2>1, <2>3
  <2> QED BY <1>10, <2>4
<1>15. ASSUME left[n] > 0 PROVE \A l \in usable : take[l] = onHand[l]
  <2>1. SUFFICES ASSUME NEW i \in 1 .. n PROVE take[queue[i]] = onHand[queue[i]] BY <1>2
  <2>2. i \in 0 .. n /\ n \in 0 .. n /\ i <= n BY <1>3
  <2>3. left[i] \in Nat /\ left[n] \in Nat /\ left[n] <= left[i] BY <1>9, <2>2
  <2>4. left[i] > 0 BY <1>15, <2>3
  <2> QED BY <1>10, <2>4
<1>16. SumFunctionOnSet(take, usable) = quantity - left[n]
  <2> DEFINE Firsts(i) == {queue[k] : k \in 1 .. i}
             Bad == {i \in 0 .. n : SumFunctionOnSet(take, Firsts(i)) # quantity - left[i]}
  <2>1. Firsts(n) = usable BY <1>2
  <2> SUFFICES ASSUME Bad # {} PROVE FALSE
    <3>1. n \in 0 .. n BY <1>3
    <3> QED BY <2>1, <3>1
  <2>2. PICK k \in Bad : \A j \in Bad : k <= j
    <3>1. Bad \in SUBSET Nat OBVIOUS
    <3> HIDE DEF Bad
    <3> QED BY <3>1, LeastNumber
  <2>3. k # 0
    <3>1. Firsts(0) = {} OBVIOUS
    <3>2. SumFunctionOnSet(take, Firsts(0)) = 0 BY <3>1, SumOfNone
    <3> QED BY <1>8, <3>2
  <2>4. k \in 1 .. n /\ k - 1 \in 0 .. n /\ k - 1 \notin Bad
    <3>1. k \in 1 .. n /\ k - 1 \in 0 .. n BY <1>3, <2>3
    <3>2. ~(k <= k - 1) BY <3>1
    <3> HIDE DEF Bad
    <3> QED BY <2>2, <3>1, <3>2
  <2>5. SumFunctionOnSet(take, Firsts(k - 1)) = quantity - left[k - 1] BY <2>4
  <2>6. Firsts(k) = Firsts(k - 1) \cup {queue[k]}
    <3>1. 1 .. k = (1 .. (k - 1)) \cup {k} BY <2>4
    <3> QED BY <3>1
  <2>7. queue[k] \notin Firsts(k - 1)
    <3>1. \A j \in 1 .. (k - 1) : j \in 1 .. n /\ j # k BY <1>3, <2>4
    <3> QED BY <1>3, <2>4, <3>1
  <2>8. Firsts(k - 1) \subseteq usable
    <3>1. \A j \in 1 .. (k - 1) : j \in 1 .. n BY <1>3, <2>4
    <3> QED BY <1>3, <3>1
  <2>9. IsFiniteSet(Firsts(k - 1)) /\ \A l \in Firsts(k - 1) \cup {queue[k]} : take[l] \in Int
    <3>1. queue[k] \in usable BY <1>3, <2>4
    <3>2. IsFiniteSet(Firsts(k - 1))
      <4> HIDE DEF Firsts
      <4> QED BY <1>1, <2>8, FS_Subset
    <3> QED BY <1>11, <2>8, <3>1, <3>2
  <2>10. SumFunctionOnSet(take, Firsts(k - 1) \cup {queue[k]}) = take[queue[k]] + SumFunctionOnSet(take, Firsts(k - 1))
    <3> HIDE DEF Firsts, Bad
    <3> QED BY <2>7, <2>9, SumWithOne
  <2>11. take[queue[k]] = left[k - 1] - left[k] BY <1>6, <2>4
  <2>12. left[k] \in Nat /\ left[k - 1] \in Nat BY <1>9, <2>4
  <2>13. SumFunctionOnSet(take, Firsts(k)) = quantity - left[k]
    <3>1. SumFunctionOnSet(take, Firsts(k)) = (left[k - 1] - left[k]) + (quantity - left[k - 1])
      BY <2>5, <2>6, <2>10, <2>11
    <3> HIDE DEF Firsts, Bad
    <3> QED BY <2>12, <3>1
  <2> QED BY <2>2, <2>13
<1>17. SumFunctionOnSet(take, Lot) = SumFunctionOnSet(take, usable)
  <2>1. \A l \in Lot : take[l] \in Int BY <1>12
  <2>2. \A l \in Lot \ usable : take[l] = 0 BY <1>6
  <2> QED BY <1>1, <2>1, <2>2, SumOfSupport
<1>18. left[n] \in Nat BY <1>3, <1>9
<1> QED BY <1>5, <1>6, <1>12, <1>13, <1>14, <1>15, <1>16, <1>17, <1>18 DEF TakesOf, InTurn

(* Some lot goes before no other one.                                      *)
LEMMA SomeGoesLast ==
  ASSUME NEW lots \in SUBSET Lot, lots # {}, NEW expires \in [Lot -> 0 .. Never], NEW received \in [Lot -> Day]
  PROVE  \E e \in lots : \A l \in lots : ~GoesBefore(e, l, expires, received)
<1>1. LastDay \in Nat BY KitchenAssumption
<1> DEFINE ages == {Never - expires[l] : l \in lots}
<1>2. PICK e \in lots : \A l \in lots : expires[l] <= expires[e]
  <2>1. \A l \in lots : expires[l] \in Nat /\ expires[l] <= Never /\ Never \in Nat BY <1>1 DEF Never
  <2>2. ages \in SUBSET Nat /\ ages # {} BY <2>1
  <2>3. PICK a \in ages : \A b \in ages : a <= b
    <3> HIDE DEF ages
    <3> QED BY <2>2, LeastNumber
  <2>4. PICK e \in lots : a = Never - expires[e] BY <2>3
  <2>5. \A l \in lots : Never - expires[e] <= Never - expires[l] BY <2>3, <2>4
  <2> QED BY <2>1, <2>4, <2>5
<1> DEFINE late == {l \in lots : expires[l] = expires[e]}
           waits == {LastDay - received[l] : l \in late}
<1>3. PICK f \in late : \A l \in late : received[l] <= received[f]
  <2>1. \A l \in late : received[l] \in Nat /\ received[l] <= LastDay BY <1>1 DEF Day
  <2>2. waits \in SUBSET Nat /\ waits # {} BY <1>1, <2>1
  <2>3. PICK a \in waits : \A b \in waits : a <= b
    <3> HIDE DEF waits
    <3> QED BY <2>2, LeastNumber
  <2>4. PICK f \in late : a = LastDay - received[f] BY <2>3
  <2>5. \A l \in late : LastDay - received[f] <= LastDay - received[l] BY <2>3, <2>4
  <2> QED BY <1>1, <2>1, <2>4, <2>5
<1>4. ASSUME NEW l \in lots, GoesBefore(f, l, expires, received) PROVE FALSE
  <2>1. expires[l] \in Nat /\ expires[e] \in Nat /\ expires[f] = expires[e] BY <1>1 DEF Never
  <2>2. expires[l] <= expires[e] BY <1>2
  <2>3. l \in late BY <1>4, <2>1, <2>2 DEF GoesBefore
  <2>4. received[l] <= received[f] /\ received[l] \in Nat /\ received[f] \in Nat BY <1>1, <1>3, <2>3 DEF Day
  <2> QED BY <1>4, <2>1, <2>2, <2>4 DEF GoesBefore
<1> QED BY <1>4

(* The sort finds an order.                                                *)
LEMMA QueuesExist ==
  ASSUME NEW lots \in SUBSET Lot, NEW expires \in [Lot -> 0 .. Never], NEW received \in [Lot -> Day]
  PROVE  Queues(lots, expires, received) # {}
<1> DEFINE Bad == {T \in SUBSET lots : Queues(T, expires, received) = {}}
<1> SUFFICES ASSUME Bad # {} PROVE FALSE
  <2>1. lots \in SUBSET lots OBVIOUS
  <2> QED BY <2>1
<1>1. IsFiniteSet(lots) BY KitchenAssumption, FS_Subset
<1>2. PICK T \in Bad : \A U \in Bad : U \subseteq T => U = T
  <2>1. Bad \in SUBSET (SUBSET lots) OBVIOUS
  <2> HIDE DEF Bad
  <2> QED BY <1>1, <2>1, MinimalSubset
<1>3. T \in SUBSET Lot /\ T \in SUBSET lots /\ IsFiniteSet(T) BY <1>1, FS_Subset
<1>4. T # {}
  <2>1. SUFFICES ASSUME T = {} PROVE FALSE OBVIOUS
  <2>2. Cardinality(T) = 0 BY <2>1, FS_EmptySet
  <2>3. 1 .. 0 = {} OBVIOUS
  <2>4. PICK q : q = [i \in {} |-> 0] OBVIOUS
  <2>5. q \in [1 .. Cardinality(T) -> T] /\ DOMAIN q = {} BY <2>2, <2>3, <2>4
  <2>6. q \in Queues(T, expires, received) BY <2>5 DEF Queues
  <2> QED BY <2>6
<1>5. PICK e \in T : \A l \in T : ~GoesBefore(e, l, expires, received) BY <1>3, <1>4, SomeGoesLast
<1>6. PICK U : U = T \ {e} OBVIOUS
<1>7. U \in SUBSET lots /\ U \notin Bad BY <1>2, <1>3, <1>6
<1>8. PICK q \in Queues(U, expires, received) : TRUE BY <1>7
<1>9. IsFiniteSet(U) /\ Cardinality(U) \in Nat /\ Cardinality(U) = Cardinality(T) - 1 /\ Cardinality(T) \in Nat
  BY <1>3, <1>6, FS_RemoveElement, FS_CardinalityType
<1>10. PICK n : n = Cardinality(T) OBVIOUS
<1>11. n \in Nat \ {0} /\ Cardinality(U) = n - 1 BY <1>9, <1>10
<1>12. /\ q \in [1 .. (n - 1) -> U]
       /\ \A i, j \in 1 .. (n - 1) : i < j => q[i] # q[j] /\ ~GoesBefore(q[j], q[i], expires, received)
  BY <1>8, <1>11 DEF Queues
<1>13. PICK p : p = [i \in 1 .. n |-> IF i = n THEN e ELSE q[i]] OBVIOUS
<1>14. /\ p[n] = e
       /\ \A i \in 1 .. n : i # n => i \in 1 .. (n - 1) /\ p[i] = q[i] /\ p[i] \in U
  BY <1>11, <1>12, <1>13
<1>15. p \in [1 .. n -> T] /\ DOMAIN p = 1 .. n BY <1>6, <1>12, <1>13, <1>14
<1>16. ASSUME NEW i \in 1 .. n, NEW j \in 1 .. n, i < j
       PROVE  p[i] # p[j] /\ ~GoesBefore(p[j], p[i], expires, received)
  <2>1. i # n /\ p[i] \in U /\ p[i] \in T BY <1>6, <1>11, <1>14, <1>16
  <2>2. CASE j = n
    <3>1. p[j] = e /\ e \notin U BY <1>6, <1>14, <2>2
    <3> QED BY <1>5, <2>1, <3>1
  <2>3. CASE j # n BY <1>12, <1>14, <1>16, <2>1, <2>3
  <2> QED BY <2>2, <2>3
<1>17. p \in Queues(T, expires, received) BY <1>10, <1>15, <1>16 DEF Queues
<1> QED BY <1>17

\* The rows of the kardex.
KardexRows == [Movement -> MovementRow]

BringsIn(rows, m) ==
  IF rows[m].type = "REVERSAL" THEN ~Brings(rows[rows[m].reversalOf].type) ELSE Brings(rows[m].type)

\* What a row adds to a lot.
WeightIn(rows, m, l) ==
  IF rows[m].type = "NONE" THEN 0
  ELSE IF BringsIn(rows, m) THEN rows[m].lines[l] ELSE -rows[m].lines[l]

WeightsIn(rows, l) == [m \in Movement |-> WeightIn(rows, m, l)]

\* A reversal names a movement that is not one, and nothing else names any.
ReversalsAreNamed ==
  \A m \in Movement :
    /\ movement[m].type = "NONE" => movement[m] = NewMovement
    /\ movement[m].type = "REVERSAL" =>
         /\ movement[m].reversalOf \in Movement
         /\ movement[movement[m].reversalOf].type \notin {"NONE", "REVERSAL"}
    /\ movement[m].type # "REVERSAL" => movement[m].reversalOf = NoMovement

\* Nothing was ever moved on a lot that is still free.
FreeLotsAreEmpty ==
  \A l \in FreeLots : lot[l].onHand = 0 /\ \A m \in Movement : movement[m].lines[l] = 0

\* The inductive invariant of the kitchen store.
KitchenInv == KitchenAddsUp /\ ReversalsAreNamed /\ FreeLotsAreEmpty

(* Rows that are not written weigh nothing.                                *)
LEMMA KardexIsTheWeights ==
  ASSUME NEW rows \in KardexRows, NEW l \in Lot, NEW written, written = {m \in Movement : rows[m].type # "NONE"},
         NEW effects, \A m \in written : effects[m] = WeightIn(rows, m, l)
  PROVE  /\ \A m \in Movement : WeightsIn(rows, l)[m] \in Int
         /\ SumFunctionOnSet(effects, written) = SumFunctionOnSet(WeightsIn(rows, l), Movement)
<1> DEFINE weights == WeightsIn(rows, l)
<1>1. \A m \in Movement : rows[m].lines[l] \in Nat BY DEF KardexRows, MovementRow
<1>2. written \in SUBSET Movement OBVIOUS
<1>3. IsFiniteSet(Movement) /\ IsFiniteSet(written) BY <1>2, KitchenAssumption, FS_Subset
<1>4. \A m \in Movement : weights[m] \in Int BY <1>1 DEF WeightsIn, WeightIn
<1>5. \A m \in Movement \ written : weights[m] = 0 BY DEF WeightsIn, WeightIn
<1>6. \A m \in written : effects[m] = weights[m] BY DEF WeightsIn
<1> HIDE DEF weights
<1>7. SumFunctionOnSet(effects, written) = SumFunctionOnSet(weights, written) BY <1>3, <1>6, SumOfEquals
<1>8. SumFunctionOnSet(weights, Movement) = SumFunctionOnSet(weights, written) BY <1>2, <1>3, <1>4, <1>5, SumOfSupport
<1> QED BY <1>4, <1>7, <1>8 DEF weights

(* The balances follow the rows that are added.                            *)
LEMMA KardexGrows ==
  ASSUME KitchenInv, KitchenTypeOK', NEW added \in SUBSET FreeMovements,
         \A m \in Movement \ added : /\ movement'[m].type = movement[m].type
                                     /\ movement'[m].lines = movement[m].lines
                                     /\ movement'[m].reversalOf = movement[m].reversalOf,
         \A l \in Lot : lot'[l].onHand = lot[l].onHand + SumFunctionOnSet(WeightsIn(movement', l), added)
  PROVE  OnHandIsTheKardex'
<1>1. KitchenTypeOK /\ OnHandIsTheKardex BY DEF KitchenInv, KitchenAddsUp
<1>2. SUFFICES ASSUME NEW l \in Lot
               PROVE  lot'[l].onHand = SumFunctionOnSet(WeightsIn(movement', l), Movement)
  <2>1. PICK rows : rows = movement' OBVIOUS
  <2>2. PICK written : written = {m \in Movement : rows[m].type # "NONE"} OBVIOUS
  <2>3. rows \in KardexRows BY <2>1 DEF KitchenTypeOK, KardexRows
  <2>4. (Movement \ FreeMovements)' = written BY <2>1, <2>2 DEF FreeMovements
  <2>5. ASSUME NEW k \in Lot
        PROVE  SumFunctionOnSet([m \in Movement |->
                                   IF BringsIn(rows, m) THEN rows[m].lines[k] ELSE -rows[m].lines[k]], written)
                 = SumFunctionOnSet(WeightsIn(rows, k), Movement)
    <3> DEFINE effects == [m \in Movement |->
                             IF BringsIn(rows, m) THEN rows[m].lines[k] ELSE -rows[m].lines[k]]
    <3>1. \A m \in written : effects[m] = WeightIn(rows, m, k) BY <2>2 DEF WeightIn
    <3> HIDE DEF effects
    <3>2. SumFunctionOnSet(effects, written) = SumFunctionOnSet(WeightsIn(rows, k), Movement)
      BY <2>2, <2>3, <3>1, KardexIsTheWeights
    <3> QED BY <3>2 DEF effects
  <2> QED BY <2>1, <2>4, <2>5 DEF OnHandIsTheKardex, Effect, BringsIn
<1> DEFINE before == WeightsIn(movement, l)
           after == WeightsIn(movement', l)
           old == Movement \ added
<1>3. /\ lot[l].onHand = SumFunctionOnSet(before, Movement)
      /\ \A m \in Movement : before[m] \in Int
  <2>1. PICK written : written = {m \in Movement : movement[m].type # "NONE"} OBVIOUS
  <2>2. PICK effects : effects = [m \in Movement |-> Effect(m, l)] OBVIOUS
  <2>3. \A m \in written : effects[m] = WeightIn(movement, m, l)
    BY <2>1, <2>2 DEF WeightIn, Effect, BringsIn
  <2>4. movement \in KardexRows BY <1>1 DEF KitchenTypeOK, KardexRows
  <2>5. Movement \ FreeMovements = written BY <2>1 DEF FreeMovements
  <2>6. lot[l].onHand = SumFunctionOnSet(effects, written) BY <1>1, <2>2, <2>5 DEF OnHandIsTheKardex
  <2> QED BY <2>1, <2>3, <2>4, <2>6, KardexIsTheWeights
<1>4. \A m \in Movement : before[m] \in Int BY <1>3
<1>5. \A m \in Movement : after[m] \in Int
  <2>1. \A m \in Movement : movement'[m].lines[l] \in Nat BY DEF KitchenTypeOK, MovementRow
  <2> QED BY <2>1 DEF WeightsIn, WeightIn
<1>6. \A m \in Movement : movement[m].type = "NONE" => before[m] = 0 BY DEF WeightsIn, WeightIn
<1>7. \A m \in old : after[m] = before[m]
  <2> SUFFICES ASSUME NEW m \in old PROVE after[m] = before[m] OBVIOUS
  <2>1. /\ movement'[m].type = movement[m].type /\ movement'[m].lines = movement[m].lines
        /\ movement'[m].reversalOf = movement[m].reversalOf
    OBVIOUS
  <2>2. movement[m].type = "REVERSAL" =>
          movement'[movement[m].reversalOf].type = movement[movement[m].reversalOf].type
    <3>1. SUFFICES ASSUME movement[m].type = "REVERSAL"
                   PROVE  movement[m].reversalOf \in Movement \ added
      OBVIOUS
    <3> QED BY <3>1 DEF KitchenInv, ReversalsAreNamed, FreeMovements
  <2> QED BY <2>1, <2>2 DEF WeightsIn, WeightIn, BringsIn
<1>8. added \in SUBSET Movement /\ old \in SUBSET Movement /\ old \cup added = Movement /\ old \cap added = {}
  BY DEF FreeMovements
<1>9. IsFiniteSet(Movement) /\ IsFiniteSet(added) /\ IsFiniteSet(old) BY <1>8, KitchenAssumption, FS_Subset
<1>10. \A m \in added : before[m] = 0 BY <1>6, <1>8 DEF FreeMovements
<1> HIDE DEF before, after, old
<1>11. SumFunctionOnSet(before, Movement) = SumFunctionOnSet(before, old)
  <2>1. \A m \in Movement \ old : before[m] = 0 BY <1>8, <1>10
  <2> QED BY <1>4, <1>8, <1>9, <2>1, SumOfSupport
<1>12. SumFunctionOnSet(after, Movement) = SumFunctionOnSet(after, old) + SumFunctionOnSet(after, added)
  <2>1. SumFunctionOnSet(after, old \cup added) = SumFunctionOnSet(after, old) + SumFunctionOnSet(after, added)
    BY <1>5, <1>8, <1>9, SumOfUnion
  <2> QED BY <1>8, <2>1
<1>13. SumFunctionOnSet(after, old) = SumFunctionOnSet(before, old) BY <1>7, <1>9, SumOfEquals
<1>14. lot'[l].onHand = lot[l].onHand + SumFunctionOnSet(after, added) BY DEF after
<1> QED BY <1>3, <1>11, <1>12, <1>13, <1>14 DEF after

(* Rows that are added, and are no reversals, keep what is said of the     *)
(* kardex if the balances follow.                                          *)
LEMMA RowsAdded ==
  ASSUME KitchenInv, KitchenTypeOK', FreeLotsAreEmpty', NEW added \in SUBSET FreeMovements,
         \A m \in Movement \ added : movement'[m] = movement[m],
         \A m \in added : /\ movement'[m].type \notin {"NONE", "REVERSAL"}
                          /\ movement'[m].status = "ACTIVE" /\ movement'[m].reversalOf = NoMovement,
         \A l \in Lot : lot'[l].onHand = lot[l].onHand + SumFunctionOnSet(WeightsIn(movement', l), added)
  PROVE  KitchenInv'
<1>1. OnHandIsTheKardex' BY KardexGrows
<1>2. added \subseteq Movement BY DEF FreeMovements
<1>3. ReversalsAreNamed'
  <2> SUFFICES ASSUME NEW m \in Movement
               PROVE  /\ movement'[m].type = "NONE" => movement'[m] = NewMovement
                      /\ movement'[m].type = "REVERSAL" =>
                           /\ movement'[m].reversalOf \in Movement
                           /\ movement'[movement'[m].reversalOf].type \notin {"NONE", "REVERSAL"}
                      /\ movement'[m].type # "REVERSAL" => movement'[m].reversalOf = NoMovement
    BY DEF ReversalsAreNamed, NewMovement, NoLines
  <2>1. CASE m \in added BY <2>1
  <2>2. CASE m \notin added
    <3>1. movement'[m] = movement[m] BY <2>2
    <3>2. movement[m].type = "REVERSAL" =>
            /\ movement[m].reversalOf \in Movement \ added
            /\ movement[movement[m].reversalOf].type \notin {"NONE", "REVERSAL"}
      BY DEF KitchenInv, ReversalsAreNamed, FreeMovements
    <3> QED BY <3>1, <3>2 DEF KitchenInv, ReversalsAreNamed
  <2> QED BY <2>1, <2>2
<1>4. CancelledHasOneReversal'
  <2>1. \A m \in Movement : movement'[m].reversalOf = movement[m].reversalOf
    <3>1. \A m \in added : movement[m].reversalOf = NoMovement
      BY DEF FreeMovements, KitchenInv, ReversalsAreNamed
    <3> QED BY <3>1
  <2> SUFFICES ASSUME NEW m \in Movement, movement'[m].type # "NONE"
               PROVE  LET reversals == {r \in Movement : movement[r].reversalOf = m}
                      IN  /\ Cardinality(reversals) = IF movement'[m].status = "CANCELLED" THEN 1 ELSE 0
                          /\ \A r \in reversals : movement'[r].lines = movement'[m].lines
    <3>1. \A m : {r \in Movement : movement'[r].reversalOf = m} = {r \in Movement : movement[r].reversalOf = m}
      BY <2>1
    <3> QED BY ZenonT(30), <3>1 DEF CancelledHasOneReversal, FreeMovements
  <2>2. \A r \in Movement : movement[r].reversalOf # NoMovement => r \notin added
    BY DEF FreeMovements, KitchenInv, ReversalsAreNamed
  <2>3. CASE m \in added
    <3>1. movement[m].type = "NONE" BY <2>3 DEF FreeMovements
    <3>2. \A r \in Movement : movement[r].reversalOf # m
      BY <3>1, KitchenAssumption DEF KitchenInv, ReversalsAreNamed
    <3>3. {r \in Movement : movement[r].reversalOf = m} = {} BY <3>2
    <3>4. Cardinality({}) = 0 BY FS_EmptySet
    <3> QED BY <2>3, <3>3, <3>4
  <2>4. CASE m \notin added
    <3>1. movement'[m] = movement[m] /\ m \in Movement \ FreeMovements BY <2>4 DEF FreeMovements
    <3>2. /\ Cardinality({r \in Movement : movement[r].reversalOf = m}) = IF movement[m].status = "CANCELLED" THEN 1 ELSE 0
          /\ \A r \in {x \in Movement : movement[x].reversalOf = m} : movement[r].lines = movement[m].lines
      BY <3>1 DEF KitchenInv, KitchenAddsUp, CancelledHasOneReversal
    <3>3. \A r \in Movement : movement[r].reversalOf = m => movement'[r] = movement[r]
      BY <2>2, KitchenAssumption
    <3> QED BY <3>1, <3>2, <3>3
  <2> QED BY <2>3, <2>4
<1> QED BY <1>1, <1>3, <1>4 DEF KitchenInv, KitchenAddsUp

(* Balances after a movement.                                              *)
LEMMA AppliedTypes ==
  ASSUME NEW lots \in [Lot -> LotRow], NEW sign \in {1, -1}, NEW lines \in [Lot -> Nat],
         \A l \in Lot : lots[l].onHand + sign * lines[l] \in Nat
  PROVE  /\ Applied(lots, sign, lines) \in [Lot -> LotRow]
         /\ \A l \in Lot : /\ Applied(lots, sign, lines)[l].onHand = lots[l].onHand + sign * lines[l]
                           /\ Applied(lots, sign, lines)[l].item = lots[l].item
                           /\ Applied(lots, sign, lines)[l].expires = lots[l].expires
                           /\ Applied(lots, sign, lines)[l].received = lots[l].received
<1>1. ASSUME NEW l \in Lot
      PROVE  /\ Applied(lots, sign, lines)[l] \in LotRow
             /\ Applied(lots, sign, lines)[l].onHand = lots[l].onHand + sign * lines[l]
             /\ Applied(lots, sign, lines)[l].item = lots[l].item
             /\ Applied(lots, sign, lines)[l].expires = lots[l].expires
             /\ Applied(lots, sign, lines)[l].received = lots[l].received
  <2>1. PICK after \in Nat : after = lots[l].onHand + sign * lines[l] OBVIOUS
  <2>2. Applied(lots, sign, lines)[l] = [lots[l] EXCEPT !.onHand = after] BY <2>1 DEF Applied
  <2>3. lots[l] \in LotRow OBVIOUS
  <2> QED BY <2>1, <2>2, <2>3 DEF LotRow
<1>2. Applied(lots, sign, lines) = [l \in Lot |-> Applied(lots, sign, lines)[l]] BY DEF Applied
<1> QED BY <1>1, <1>2

(* createMovement() keeps the invariant, whatever lots were just created.  *)
LEMMA CreateMovementKeeps ==
  ASSUME KitchenInv, NEW m \in Movement, NEW type \in MovementType \ {"REVERSAL"},
         NEW lots \in [Lot -> LotRow], NEW lines \in [Lot -> Nat],
         \A l \in Lot : /\ lots[l].onHand = lot[l].onHand
                        /\ lots[l].item = NoItem => lot[l].item = NoItem /\ lines[l] = 0,
         CreateMovement(m, type, lots, lines),
         active' \subseteq Item, today' \in Day, counted' \in Files \cup {NoFile}
  PROVE  KitchenInv'
<1>1. KitchenTypeOK BY DEF KitchenInv, KitchenAddsUp
<1>2. PICK sign \in {1, -1} : sign = DirectSign(type) BY DEF DirectSign
<1>3. /\ m \in FreeMovements /\ lot' = Applied(lots, sign, lines) /\ Enough(sign, lines)
      /\ movement' = [movement EXCEPT ![m] = Row(type, NoMovement, lines)]
  BY <1>2 DEF CreateMovement
<1>4. \A l \in Lot : lots[l].onHand \in Nat /\ lines[l] \in Nat BY DEF LotRow
<1>5. \A l \in Lot : lots[l].onHand + sign * lines[l] \in Nat
  <2>1. CASE sign = 1 BY <1>4, <2>1
  <2>2. CASE sign = -1 BY <1>3, <1>4, <2>2 DEF Enough
  <2> QED BY <2>1, <2>2
<1>6. /\ lot' \in [Lot -> LotRow]
      /\ \A l \in Lot : lot'[l].onHand = lots[l].onHand + sign * lines[l] /\ lot'[l].item = lots[l].item
  BY <1>3, <1>5, AppliedTypes
<1>7. PICK row : row = Row(type, NoMovement, lines) OBVIOUS
<1>8. /\ row \in MovementRow /\ row.type = type /\ row.status = "ACTIVE"
      /\ row.reversalOf = NoMovement /\ row.lines = lines
  BY <1>7 DEF Row, MovementRow
<1>9. /\ movement' \in [Movement -> MovementRow] /\ movement'[m] = row
      /\ \A x \in Movement \ {m} : movement'[x] = movement[x]
  BY <1>1, <1>3, <1>7, <1>8 DEF KitchenTypeOK
<1>10. KitchenTypeOK' BY <1>6, <1>9 DEF KitchenTypeOK
<1>11. FreeLotsAreEmpty'
  <2> SUFFICES ASSUME NEW l \in Lot, lot'[l].item = NoItem
               PROVE  lot'[l].onHand = 0 /\ \A x \in Movement : movement'[x].lines[l] = 0
    BY DEF FreeLotsAreEmpty, FreeLots
  <2>1. l \in FreeLots /\ lines[l] = 0 BY <1>6 DEF FreeLots
  <2>2. lot[l].onHand = 0 /\ \A x \in Movement : movement[x].lines[l] = 0
    BY <2>1 DEF KitchenInv, FreeLotsAreEmpty
  <2>3. sign * 0 = 0 /\ lot'[l].onHand = 0 + sign * lines[l] BY <1>6, <2>2
  <2> QED BY <1>8, <1>9, <2>1, <2>2, <2>3
<1>12. \A l \in Lot : lot'[l].onHand = lot[l].onHand + SumFunctionOnSet(WeightsIn(movement', l), {m})
  <2> SUFFICES ASSUME NEW l \in Lot
               PROVE  lot'[l].onHand = lot[l].onHand + SumFunctionOnSet(WeightsIn(movement', l), {m})
    OBVIOUS
  <2>1. WeightsIn(movement', l)[m] = sign * lines[l]
    <3>1. BringsIn(movement', m) <=> type \in {"STOCK_IN", "ADJUSTMENT_IN"}
      BY <1>8, <1>9 DEF BringsIn, Brings
    <3>2. type # "NONE" BY DEF MovementType
    <3>3. WeightsIn(movement', l)[m] = IF type \in {"STOCK_IN", "ADJUSTMENT_IN"} THEN lines[l] ELSE -lines[l]
      BY <1>8, <1>9, <3>1, <3>2 DEF WeightsIn, WeightIn
    <3>4. sign = IF type \in {"STOCK_IN", "ADJUSTMENT_IN"} THEN 1 ELSE -1 BY <1>2 DEF DirectSign
    <3> QED BY <1>4, <3>3, <3>4
  <2>2. WeightsIn(movement', l)[m] \in Int BY <1>4, <2>1
  <2>3. SumFunctionOnSet(WeightsIn(movement', l), {m}) = sign * lines[l] BY <2>1, <2>2, SumOfOne
  <2> QED BY <1>6, <2>3
<1>13. {m} \in SUBSET FreeMovements BY <1>3
<1>14. \A x \in {m} : /\ movement'[x].type \notin {"NONE", "REVERSAL"}
                      /\ movement'[x].status = "ACTIVE" /\ movement'[x].reversalOf = NoMovement
  BY <1>8, <1>9 DEF MovementType
<1> QED BY <1>9, <1>10, <1>11, <1>12, <1>13, <1>14, RowsAdded

EntryRow == [item: Item, expires: 0 .. Never, received: Day, quantity: Nat]

(* New lots start empty.                                                   *)
LEMMA NewLotsTypes ==
  ASSUME KitchenInv, NEW ls \in SUBSET FreeLots, NEW entries \in [ls -> EntryRow]
  PROVE  /\ WithNewLots(entries) \in [Lot -> LotRow] /\ EntryLines(entries) \in [Lot -> Nat]
         /\ \A l \in Lot \ ls : WithNewLots(entries)[l] = lot[l] /\ EntryLines(entries)[l] = 0
         /\ \A l \in ls : /\ WithNewLots(entries)[l].item = entries[l].item
                          /\ EntryLines(entries)[l] = entries[l].quantity
         /\ \A l \in Lot : /\ WithNewLots(entries)[l].onHand = lot[l].onHand
                           /\ WithNewLots(entries)[l].item = NoItem =>
                                lot[l].item = NoItem /\ EntryLines(entries)[l] = 0
<1>1. lot \in [Lot -> LotRow] BY DEF KitchenInv, KitchenAddsUp, KitchenTypeOK
<1>2. \A l \in Lot \ ls : WithNewLots(entries)[l] = lot[l] /\ EntryLines(entries)[l] = 0
  BY DEF WithNewLots, EntryLines
<1>3. ASSUME NEW l \in ls
      PROVE  /\ WithNewLots(entries)[l] \in LotRow /\ WithNewLots(entries)[l].item = entries[l].item
             /\ entries[l].item \in Item
             /\ WithNewLots(entries)[l].onHand = 0 /\ lot[l].onHand = 0
             /\ EntryLines(entries)[l] = entries[l].quantity /\ entries[l].quantity \in Nat
  <2>1. entries[l] \in EntryRow /\ l \in Lot BY DEF FreeLots
  <2>2. WithNewLots(entries)[l] = [item |-> entries[l].item, expires |-> entries[l].expires,
                                   received |-> entries[l].received, onHand |-> 0]
    BY <2>1 DEF WithNewLots
  <2>3. EntryLines(entries)[l] = entries[l].quantity BY <2>1 DEF EntryLines
  <2>4. lot[l].onHand = 0 BY DEF KitchenInv, FreeLotsAreEmpty
  <2> QED BY <2>1, <2>2, <2>3, <2>4 DEF EntryRow, LotRow
<1>4. \A l \in Lot : WithNewLots(entries)[l] \in LotRow /\ EntryLines(entries)[l] \in Nat
  <2>1. \A l \in Lot \ ls : WithNewLots(entries)[l] \in LotRow BY <1>1, <1>2
  <2> QED BY <1>2, <1>3, <2>1
<1>5. /\ WithNewLots(entries) = [l \in Lot |-> WithNewLots(entries)[l]]
      /\ EntryLines(entries) = [l \in Lot |-> EntryLines(entries)[l]]
  BY DEF WithNewLots, EntryLines
<1>6. WithNewLots(entries) \in [Lot -> LotRow] /\ EntryLines(entries) \in [Lot -> Nat] BY <1>4, <1>5
<1>7. \A l \in Lot : /\ WithNewLots(entries)[l].onHand = lot[l].onHand
                     /\ WithNewLots(entries)[l].item = NoItem =>
                          lot[l].item = NoItem /\ EntryLines(entries)[l] = 0
  BY <1>2, <1>3, KitchenAssumption
<1> QED BY <1>2, <1>3, <1>6, <1>7

(* An entry creates its lots and fills them.                               *)
LEMMA EntryKeeps ==
  ASSUME KitchenInv, NEW m \in Movement, NEW entries \in EntrySets, DOMAIN entries \subseteq FreeLots,
         CreateMovement(m, "STOCK_IN", WithNewLots(entries), EntryLines(entries)),
         counted' = NoFile, UNCHANGED <<active, today>>
  PROVE  KitchenInv'
<1>1. PICK ls \in SUBSET FreeLots : entries \in [ls -> EntryRow]
  <2>1. PICK ls \in SUBSET Lot : entries \in [ls -> Entry] BY DEF EntrySets
  <2>2. \A l \in ls : entries[l] \in EntryRow
    BY <2>1, KitchenAssumption DEF Entry, EntryRow, Quantity
  <2>3. ls = DOMAIN entries BY <2>1
  <2> QED BY <2>1, <2>2, <2>3
<1>2. /\ WithNewLots(entries) \in [Lot -> LotRow] /\ EntryLines(entries) \in [Lot -> Nat]
      /\ \A l \in Lot : /\ WithNewLots(entries)[l].onHand = lot[l].onHand
                        /\ WithNewLots(entries)[l].item = NoItem =>
                             lot[l].item = NoItem /\ EntryLines(entries)[l] = 0
  BY <1>1, NewLotsTypes
<1>3. "STOCK_IN" \in MovementType \ {"REVERSAL"} BY DEF MovementType
<1>4. active' \subseteq Item /\ today' \in Day /\ counted' \in Files \cup {NoFile}
  BY DEF KitchenInv, KitchenAddsUp, KitchenTypeOK
<1> QED BY <1>2, <1>3, <1>4, CreateMovementKeeps

\* The lots allocateFefo() may use for an item.
UsableFor(item, includeExpired) ==
  Usable(LotsOf(item), Expires, OnHand, today, includeExpired)

(* A plan by FEFO covers its quantity, from usable lots, the earliest first*)
LEMMA PlanByFefo ==
  ASSUME KitchenTypeOK, NEW item, NEW quantity \in Nat, NEW includeExpired,
         NEW take \in FefoPlans(item, quantity, includeExpired)
  PROVE  /\ TakesOf(take, 0, UsableFor(item, includeExpired), OnHand, quantity)
         /\ \A a, b \in UsableFor(item, includeExpired) :
              take[b] > 0 /\ GoesBefore(a, b, Expires, Received) => take[a] = OnHand[a]
<1> DEFINE usable == UsableFor(item, includeExpired)
<1>1. usable \in SUBSET Lot BY DEF UsableFor, Usable, LotsOf
<1>2. IsFiniteSet(usable) /\ Cardinality(usable) \in Nat BY <1>1, KitchenAssumption, FS_Subset, FS_CardinalityType
<1>3. OnHand \in [Lot -> Nat] BY DEF OnHand, KitchenTypeOK, LotRow
<1>4. PICK queue \in Queues(usable, Expires, Received) :
        /\ take = AllocateFefo(Lot, queue, OnHand, quantity).take
        /\ AllocateFefo(Lot, queue, OnHand, quantity).missing = 0
  BY DEF FefoPlans, UsableFor
<1>5. PICK n \in Nat : n = Cardinality(usable) BY <1>2
<1>6. /\ queue \in [1 .. n -> usable]
      /\ \A i, j \in 1 .. n : i < j => queue[i] # queue[j] /\ ~GoesBefore(queue[j], queue[i], Expires, Received)
  BY <1>5 DEF Queues
<1> HIDE DEF usable
<1>7. QueueOf(queue, n, usable)
  <2>1. \A i, j \in 1 .. n : i # j => i < j \/ j < i OBVIOUS
  <2> QED BY <1>5, <1>6, <2>1 DEF QueueOf
<1>8. PICK plan : plan = AllocateFefo(Lot, queue, OnHand, quantity) OBVIOUS
<1>9. /\ TakesOf(plan.take, plan.missing, usable, OnHand, quantity)
      /\ InTurn(plan.take, n, queue, OnHand)
  BY <1>1, <1>3, <1>7, <1>8, FefoTakes
<1>10. plan.take = take /\ plan.missing = 0 BY <1>4, <1>8
<1>11. usable = {queue[i] : i \in 1 .. n} BY <1>2, <1>7, QueueHasAll
<1>12. ASSUME NEW a \in usable, NEW b \in usable, take[b] > 0, GoesBefore(a, b, Expires, Received)
       PROVE  take[a] = OnHand[a]
  <2>1. PICK i \in 1 .. n, j \in 1 .. n : a = queue[i] /\ b = queue[j] BY <1>11
  <2>2. ~(j < i) BY <1>6, <1>12, <2>1
  <2>3. i # j
    <3>1. SUFFICES ASSUME a = b PROVE FALSE BY <2>1
    <3>2. Expires[a] \in Int /\ Received[a] \in Int
      BY <1>1, KitchenAssumption DEF Expires, Received, KitchenTypeOK, LotRow, Never, Day
    <3> QED BY <1>12, <3>1, <3>2 DEF GoesBefore
  <2>4. i < j BY <2>2, <2>3
  <2> QED BY <1>9, <1>10, <1>12, <2>1, <2>4 DEF InTurn
<1> QED BY <1>9, <1>10, <1>12 DEF usable

(* A line is planned on lots of its item.                                  *)
LEMMA PlansTypes ==
  ASSUME KitchenTypeOK, NEW line \in OutLine, NEW type \in {"CONSUMPTION", "WASTE"}, NEW plan \in Plans(line, type)
  PROVE  /\ plan \in [Lot -> Nat]
         /\ type = "CONSUMPTION" => line.item \notin Durable
         /\ \A l \in Lot : plan[l] > 0 =>
              /\ lot[l].item = line.item
              /\ type = "CONSUMPTION" => ~IsExpired(lot[l].expires, today)
<1>1. line.item \in active /\ (type = "CONSUMPTION" => line.item \notin Durable) BY DEF Plans
<1>2. line.quantity \in Nat BY KitchenAssumption DEF OutLine, Quantity
<1>3. CASE line.lot = NoLot
  <2>1. plan \in FefoPlans(line.item, line.quantity, type = "WASTE") BY <1>1, <1>3 DEF Plans
  <2>2. TakesOf(plan, 0, UsableFor(line.item, type = "WASTE"), OnHand, line.quantity)
    BY <1>2, <2>1, PlanByFefo
  <2>3. \A l \in Lot : plan[l] \in Nat /\ (plan[l] > 0 => l \in UsableFor(line.item, type = "WASTE"))
    BY <2>2 DEF TakesOf
  <2> QED BY <1>1, <2>2, <2>3 DEF TakesOf, UsableFor, Usable, LotsOf, Expires
<1>4. CASE line.lot # NoLot
  <2>1. /\ lot[line.lot].item = line.item
        /\ type = "CONSUMPTION" => ~IsExpired(lot[line.lot].expires, today)
        /\ plan = [l \in Lot |-> IF l = line.lot THEN line.quantity ELSE 0]
    BY <1>1, <1>4 DEF Plans, NamedLot
  <2> QED BY <1>1, <1>2, <2>1
<1> QED BY <1>3, <1>4

(* The totals of a plan.                                                   *)
LEMMA TotalTypes ==
  ASSUME NEW lines, IsFiniteSet(lines), NEW plan \in [lines -> [Lot -> Nat]]
  PROVE  /\ Total(plan) \in [Lot -> Nat]
         /\ \A l \in Lot : Total(plan)[l] = SumFunctionOnSet([i \in lines |-> plan[i][l]], lines)
<1>1. DOMAIN plan = lines OBVIOUS
<1>2. ASSUME NEW l \in Lot
      PROVE  /\ Total(plan)[l] = SumFunctionOnSet([i \in lines |-> plan[i][l]], lines)
             /\ Total(plan)[l] \in Nat
  <2> DEFINE taken == [i \in lines |-> plan[i][l]]
  <2>1. \A i \in lines : taken[i] \in Nat OBVIOUS
  <2>2. Total(plan)[l] = SumFunctionOnSet(taken, lines) BY <1>1 DEF Total
  <2> HIDE DEF taken
  <2>3. SumFunctionOnSet(taken, lines) \in Nat BY <2>1, SumIsNumber
  <2> QED BY <2>2, <2>3 DEF taken
<1>3. Total(plan) = [l \in Lot |-> Total(plan)[l]] BY DEF Total
<1> QED BY <1>2, <1>3

(* What is taken out is there, and not of a lot that is free.              *)
LEMMA OutKeeps ==
  ASSUME KitchenInv, NEW m \in Movement, NEW type \in MovementType \ {"REVERSAL"}, NEW lines \in [Lot -> Nat],
         \A l \in FreeLots : lines[l] = 0 \/ DirectSign(type) = -1, CreateMovement(m, type, lot, lines),
         counted' = NoFile, UNCHANGED <<active, today>>
  PROVE  KitchenInv'
<1>1. KitchenTypeOK BY DEF KitchenInv, KitchenAddsUp
<1>2. \A l \in Lot : lot[l].item = NoItem => lines[l] = 0
  <2> SUFFICES ASSUME NEW l \in FreeLots PROVE lines[l] = 0 BY DEF FreeLots
  <2>1. CASE DirectSign(type) = -1
    <3>1. l \in Lot /\ lines[l] <= lot[l].onHand BY <2>1 DEF CreateMovement, Enough, FreeLots
    <3>2. lot[l].onHand = 0 /\ lines[l] \in Nat BY <3>1 DEF KitchenInv, FreeLotsAreEmpty
    <3> QED BY <3>1, <3>2
  <2> QED BY <2>1
<1>3. lot \in [Lot -> LotRow] /\ active' \subseteq Item /\ today' \in Day /\ counted' \in Files \cup {NoFile}
  BY <1>1 DEF KitchenTypeOK
<1> QED BY <1>2, <1>3, CreateMovementKeeps

(* What is planned for each line of a request leaves its lots.             *)
LEMMA StockOutKeeps ==
  ASSUME KitchenInv, NEW m \in Movement, NEW type \in {"CONSUMPTION", "WASTE"}, NEW asked \in Requests,
         StockOut(m, type, asked)
  PROVE  KitchenInv'
<1>1. KitchenTypeOK BY DEF KitchenInv, KitchenAddsUp
<1>2. PICK n \in 1 .. MaxLines : asked \in [1 .. n -> OutLine] BY DEF Requests
<1>3. IsFiniteSet(1 .. n)
  <2>1. n \in Int BY KitchenAssumption
  <2> QED BY <2>1, FS_Interval
<1>4. PICK plan \in [1 .. n -> UNION {Plans(asked[i], type) : i \in 1 .. n}] :
        /\ \A i \in 1 .. n : plan[i] \in Plans(asked[i], type)
        /\ CreateMovement(m, type, lot, Total(plan))
  BY <1>2 DEF StockOut
<1>5. plan \in [1 .. n -> [Lot -> Nat]]
  <2>1. \A i \in 1 .. n : plan[i] \in [Lot -> Nat] BY <1>1, <1>2, <1>4, PlansTypes
  <2> QED BY <2>1
<1>6. Total(plan) \in [Lot -> Nat] BY <1>3, <1>5, TotalTypes
<1>7. type \in MovementType \ {"REVERSAL"} /\ DirectSign(type) = -1 BY DEF MovementType, DirectSign
<1>8. counted' = NoFile /\ UNCHANGED <<active, today>> BY DEF StockOut
<1> QED BY <1>4, <1>6, <1>7, <1>8, OutKeeps

(* A count of existing lots.                                               *)
LEMMA AdjustKeeps ==
  ASSUME KitchenInv, NEW m \in Movement, NEW type \in {"ADJUSTMENT_IN", "ADJUSTMENT_OUT"},
         NEW lines \in [Lot -> 0 .. MaxQuantity], Adjust(m, type, lines)
  PROVE  KitchenInv'
<1>1. lines \in [Lot -> Nat] BY KitchenAssumption
<1>2. type \in MovementType \ {"REVERSAL"} BY DEF MovementType
<1>3. /\ \A l \in FreeLots : lines[l] = 0
      /\ CreateMovement(m, type, lot, lines) /\ counted' = NoFile /\ UNCHANGED <<active, today>>
  BY DEF Adjust
<1> QED BY <1>1, <1>2, <1>3, OutKeeps

(* A reversal undoes its source, which nothing else reverses.              *)
LEMMA ReverseKeeps ==
  ASSUME KitchenInv, NEW m \in Movement, NEW source \in Movement, Reverse(m, source)
  PROVE  KitchenInv'
<1>1. KitchenTypeOK /\ m \in FreeMovements BY DEF KitchenInv, KitchenAddsUp, Reverse
<1>2. PICK type : type = movement[source].type OBVIOUS
<1>3. PICK lines : lines = movement[source].lines OBVIOUS
<1>4. PICK sign : sign = KitchenLedgerSign("REVERSAL", type) OBVIOUS
<1>5. /\ type \in MovementType \ {"REVERSAL"} /\ movement[source].status = "ACTIVE"
      /\ \A x \in Movement : movement[x].reversalOf # source
      /\ source # m /\ movement[m].type = "NONE"
  BY <1>1, <1>2 DEF Reverse, Reversible, FreeMovements, KitchenTypeOK, MovementRow
<1>6. /\ sign = IF Brings(type) THEN -1 ELSE 1
      /\ sign \in {1, -1}
  <2>1. sign = -DirectSign(type) BY <1>4 DEF KitchenLedgerSign
  <2>2. CASE Brings(type)
    <3>1. DirectSign(type) = 1 BY <2>2 DEF DirectSign, Brings
    <3>2. sign = -1 BY <2>1, <3>1
    <3> QED BY <2>2, <3>2
  <2>3. CASE ~Brings(type)
    <3>1. DirectSign(type) = -1 BY <2>3 DEF DirectSign, Brings
    <3>2. PICK d \in Int : d = DirectSign(type) BY <3>1
    <3>3. sign = 1
      <4>1. sign = -d BY <2>1, <3>2
      <4>2. sign = 0 - d
        <5>1. \A x \in Int : -x = 0 - x OBVIOUS
        <5> QED BY <4>1, <5>1
      <4>3. d = -1 BY <3>1, <3>2
      <4> QED BY <4>2, <4>3
    <3> QED BY <2>3, <3>3
  <2> QED BY <2>2, <2>3
<1>7. /\ Enough(sign, lines) /\ lot' = Applied(lot, sign, lines)
      /\ movement' = [Cancel(source) EXCEPT ![m] = Row("REVERSAL", source, lines)]
      /\ counted' = NoFile /\ UNCHANGED <<active, today>>
  BY <1>2, <1>3, <1>4 DEF Reverse
<1>8. lines \in [Lot -> Nat] /\ lot \in [Lot -> LotRow] BY <1>1, <1>3 DEF KitchenTypeOK, MovementRow
<1>9. \A l \in Lot : lot[l].onHand \in Nat /\ lines[l] \in Nat BY <1>8 DEF LotRow
<1>10. \A l \in Lot : lot[l].onHand + sign * lines[l] \in Nat
  <2>1. CASE sign = 1 BY <1>9, <2>1
  <2>2. CASE sign = -1 BY <1>7, <1>9, <2>2 DEF Enough
  <2> QED BY <1>6, <2>1, <2>2
<1>11. /\ lot' \in [Lot -> LotRow]
       /\ \A l \in Lot : lot'[l].onHand = lot[l].onHand + sign * lines[l] /\ lot'[l].item = lot[l].item
  BY <1>6, <1>7, <1>8, <1>10, AppliedTypes
<1>12. PICK row : row = Row("REVERSAL", source, lines) OBVIOUS
<1>13. /\ row \in MovementRow /\ row.type = "REVERSAL" /\ row.status = "ACTIVE"
       /\ row.reversalOf = source /\ row.lines = lines
  BY <1>8, <1>12 DEF Row, MovementRow, MovementType
<1>14. PICK undone : undone = [movement[source] EXCEPT !.status = "CANCELLED"] OBVIOUS
<1>15. /\ undone \in MovementRow /\ undone.type = type /\ undone.status = "CANCELLED"
       /\ undone.reversalOf = movement[source].reversalOf /\ undone.lines = lines
  BY <1>1, <1>2, <1>3, <1>14 DEF KitchenTypeOK, MovementRow
<1>16. Cancel(source) = [movement EXCEPT ![source] = undone]
  BY <1>1, <1>14 DEF Cancel, KitchenTypeOK, MovementRow
<1>17. /\ movement' \in [Movement -> MovementRow] /\ movement'[m] = row /\ movement'[source] = undone
       /\ \A x \in Movement \ {m, source} : movement'[x] = movement[x]
  BY <1>1, <1>5, <1>7, <1>12, <1>13, <1>15, <1>16 DEF KitchenTypeOK
<1>18. KitchenTypeOK' BY <1>1, <1>7, <1>11, <1>17 DEF KitchenTypeOK
<1>19. \A x \in Movement \ {m} : /\ movement'[x].type = movement[x].type
                                 /\ movement'[x].lines = movement[x].lines
                                 /\ movement'[x].reversalOf = movement[x].reversalOf
  BY <1>2, <1>3, <1>15, <1>17
<1>20. FreeLotsAreEmpty'
  <2> SUFFICES ASSUME NEW l \in Lot, lot'[l].item = NoItem
               PROVE  lot'[l].onHand = 0 /\ \A x \in Movement : movement'[x].lines[l] = 0
    BY DEF FreeLotsAreEmpty, FreeLots
  <2>1. l \in FreeLots BY <1>11 DEF FreeLots
  <2>2. lot[l].onHand = 0 /\ \A x \in Movement : movement[x].lines[l] = 0
    BY <2>1 DEF KitchenInv, FreeLotsAreEmpty
  <2>3. lines[l] = 0 BY <1>3, <2>2
  <2>4. sign * 0 = 0 /\ lot'[l].onHand = 0 + sign * lines[l] BY <1>6, <1>11, <2>2
  <2> QED BY <1>13, <1>17, <1>19, <2>2, <2>3, <2>4
<1>21. OnHandIsTheKardex'
  <2>1. ASSUME NEW l \in Lot
        PROVE  lot'[l].onHand = lot[l].onHand + SumFunctionOnSet(WeightsIn(movement', l), {m})
    <3>1. BringsIn(movement', m) <=> ~Brings(type) BY <1>13, <1>15, <1>17 DEF BringsIn
    <3>2. WeightsIn(movement', l)[m] = IF Brings(type) THEN -lines[l] ELSE lines[l]
      BY <1>13, <1>17, <3>1 DEF WeightsIn, WeightIn
    <3>3. WeightsIn(movement', l)[m] = sign * lines[l] /\ WeightsIn(movement', l)[m] \in Int
      BY <1>6, <1>9, <3>2
    <3>4. SumFunctionOnSet(WeightsIn(movement', l), {m}) = sign * lines[l] BY <3>3, SumOfOne
    <3> QED BY <1>11, <3>4
  <2>2. {m} \in SUBSET FreeMovements BY <1>1
  <2> QED BY <1>18, <1>19, <2>1, <2>2, KardexGrows
<1>22. ReversalsAreNamed'
  <2> SUFFICES ASSUME NEW x \in Movement
               PROVE  /\ movement'[x].type = "NONE" => movement'[x] = NewMovement
                      /\ movement'[x].type = "REVERSAL" =>
                           /\ movement'[x].reversalOf \in Movement
                           /\ movement'[movement'[x].reversalOf].type \notin {"NONE", "REVERSAL"}
                      /\ movement'[x].type # "REVERSAL" => movement'[x].reversalOf = NoMovement
    BY DEF ReversalsAreNamed, NewMovement, NoLines
  <2>1. type \notin {"NONE", "REVERSAL"} BY <1>5 DEF MovementType
  <2>2. CASE x = m BY <1>13, <1>15, <1>17, <2>1, <2>2
  <2>3. CASE x # m
    <3>1. movement[x].type = "REVERSAL" =>
            /\ movement[x].reversalOf \in Movement \ {m}
            /\ movement[movement[x].reversalOf].type \notin {"NONE", "REVERSAL"}
      BY <1>5 DEF KitchenInv, ReversalsAreNamed
    <3>2. movement[x].type # "REVERSAL" => movement[x].reversalOf = NoMovement
      BY DEF KitchenInv, ReversalsAreNamed
    <3>3. movement[x].type = "NONE" => movement'[x] = NewMovement
      BY <1>2, <1>17, <2>1, <2>3 DEF KitchenInv, ReversalsAreNamed
    <3> QED BY <1>19, <2>3, <3>1, <3>2, <3>3
  <2> QED BY <2>2, <2>3
<1>23. CancelledHasOneReversal'
  <2>1. \A x \in Movement : movement[x].reversalOf # m
    BY <1>5, KitchenAssumption DEF KitchenInv, ReversalsAreNamed
  <2> SUFFICES ASSUME NEW x \in Movement, movement'[x].type # "NONE"
               PROVE  /\ Cardinality({r \in Movement : movement'[r].reversalOf = x})
                           = IF movement'[x].status = "CANCELLED" THEN 1 ELSE 0
                      /\ \A r \in Movement : movement'[r].reversalOf = x => movement'[r].lines = movement'[x].lines
    BY DEF CancelledHasOneReversal, FreeMovements
  <2>2. CASE x = m
    <3>1. {r \in Movement : movement'[r].reversalOf = x} = {} BY <1>5, <1>13, <1>17, <1>19, <2>1, <2>2
    <3>2. Cardinality({}) = 0 BY FS_EmptySet
    <3>3. movement'[x].status = "ACTIVE" BY <1>13, <1>17, <2>2
    <3> QED BY <3>1, <3>2, <3>3
  <2>3. CASE x = source
    <3>1. {r \in Movement : movement'[r].reversalOf = x} = {m} BY <1>5, <1>13, <1>17, <1>19, <2>3
    <3>2. Cardinality({m}) = 1 BY FS_Singleton
    <3> QED BY <1>13, <1>15, <1>17, <2>3, <3>1, <3>2
  <2>4. CASE x \notin {m, source}
    <3>1. {r \in Movement : movement'[r].reversalOf = x} = {r \in Movement : movement[r].reversalOf = x}
      <4>1. movement'[m].reversalOf # x /\ movement[m].reversalOf # x
        BY <1>5, <1>13, <1>17, <2>4, KitchenAssumption DEF KitchenInv, ReversalsAreNamed
      <4> QED BY <1>19, <4>1
    <3>2. x \in Movement \ FreeMovements /\ movement'[x] = movement[x]
      BY <1>17, <2>4 DEF FreeMovements
    <3>3. /\ Cardinality({r \in Movement : movement[r].reversalOf = x}) = IF movement[x].status = "CANCELLED" THEN 1 ELSE 0
          /\ \A r \in {y \in Movement : movement[y].reversalOf = x} : movement[r].lines = movement[x].lines
      BY <3>2 DEF KitchenInv, KitchenAddsUp, CancelledHasOneReversal
    <3>4. \A r \in {y \in Movement : movement'[y].reversalOf = x} : movement'[r].lines = movement'[x].lines
      <4>1. \A r \in {y \in Movement : movement'[y].reversalOf = x} : r # m BY <1>13, <1>17, <2>4
      <4> QED BY <1>19, <2>4, <3>1, <3>3, <4>1
    <3> QED BY <3>1, <3>2, <3>3, <3>4
  <2> QED BY <2>2, <2>3, <2>4
<1> QED BY <1>18, <1>20, <1>21, <1>22, <1>23 DEF KitchenInv, KitchenAddsUp

(* The balance of an item is a number.                                     *)
LEMMA StockTypes ==
  ASSUME KitchenTypeOK, NEW item
  PROVE  /\ LotsOf(item) \in SUBSET Lot /\ IsFiniteSet(LotsOf(item))
         /\ Stock(item) \in Nat
         /\ \A q \in Nat : SetDelta(item, q) \in Int
<1>1. LotsOf(item) \in SUBSET Lot BY DEF LotsOf
<1>2. IsFiniteSet(LotsOf(item)) BY <1>1, KitchenAssumption, FS_Subset
<1>3. \A l \in LotsOf(item) : OnHand[l] \in Nat BY <1>1 DEF OnHand, KitchenTypeOK, LotRow
<1>4. Stock(item) \in Nat BY <1>2, <1>3, SumIsNumber DEF Stock
<1>5. \A q \in Nat : SetDelta(item, q) \in Int BY <1>4 DEF SetDelta, Current
<1> QED BY <1>1, <1>2, <1>4, <1>5

\* The items of a file that have too little, and those that have too much.
Short(file) == {i \in DOMAIN file : SetDelta(i, file[i]) > 0}
Over(file) == {i \in DOMAIN file : SetDelta(i, file[i]) < 0}

\* The lots it creates.
NewLotsOf(file, lotFor, expires) ==
  [l \in {lotFor[i] : i \in Short(file)} |->
     LET i == CHOOSE k \in Short(file) : lotFor[k] = l
     IN  [item |-> i, expires |-> expires[i], received |-> today,
          quantity |-> SetDelta(i, file[i])]]

\* What the SET import creates, plans and writes.
SetWrites(in, out, file, lotFor, up, down, entries, plan) ==
  /\ up = Short(file) /\ down = Over(file) /\ up \cup down # {}
  /\ in # out /\ in \in FreeMovements /\ out \in FreeMovements
  /\ \A i \in up : lotFor[i] \in FreeLots
  /\ \A i, k \in up : i # k => lotFor[i] # lotFor[k]
  /\ entries \in [{lotFor[i] : i \in up} -> EntryRow]
  /\ \A i \in up : /\ entries[lotFor[i]].item = i
                   /\ entries[lotFor[i]].quantity = SetDelta(i, file[i])
  /\ plan \in [down -> [Lot -> Nat]]
  /\ \A i \in down : plan[i] \in FefoPlans(i, -SetDelta(i, file[i]), TRUE)
  /\ Enough(-1, Total(plan))
  /\ lot' = Applied(Applied(WithNewLots(entries), 1, EntryLines(entries)), -1, Total(plan))
  /\ movement' = [m \in Movement |->
       IF m = in /\ up # {} THEN Row("STOCK_IN", NoMovement, EntryLines(entries))
       ELSE IF m = out /\ down # {} THEN Row("ADJUSTMENT_OUT", NoMovement, Total(plan))
       ELSE movement[m]]
  /\ counted' = file /\ UNCHANGED <<active, today>>

(* The SET import, line by line.                                           *)
LEMMA SetImports ==
  ASSUME KitchenInv, NEW in \in FreeMovements, NEW out \in FreeMovements, NEW file \in Files,
         NEW lotFor \in [DOMAIN file -> Lot], NEW expires \in [DOMAIN file -> 0 .. Never],
         ImportSet(in, out, file, lotFor, expires)
  PROVE  /\ DOMAIN file \in SUBSET Item /\ IsFiniteSet(DOMAIN file)
         /\ \A i \in DOMAIN file : file[i] \in Nat /\ SetDelta(i, file[i]) \in Int
         /\ \E entries, plan : SetWrites(in, out, file, lotFor, Short(file), Over(file), entries, plan)
<1>1. KitchenTypeOK BY DEF KitchenInv, KitchenAddsUp
<1>2. DOMAIN file \in SUBSET Item /\ \A i \in DOMAIN file : file[i] \in Nat
  <2>1. PICK is \in SUBSET Item \ {{}} : file \in [is -> ImportQuantity] BY DEF Files
  <2> QED BY <2>1, KitchenAssumption
<1>3. IsFiniteSet(DOMAIN file) BY <1>2, KitchenAssumption, FS_Subset
<1>4. \A i \in DOMAIN file : SetDelta(i, file[i]) \in Int BY <1>1, <1>2, StockTypes
<1>5. PICK up : up = Short(file) OBVIOUS
<1>6. PICK down : down = Over(file) OBVIOUS
<1>7. PICK entries : entries = NewLotsOf(file, lotFor, expires) OBVIOUS
<1>8. PICK plan \in [down -> UNION {FefoPlans(i, -SetDelta(i, file[i]), TRUE) : i \in down}] :
        /\ \A i \in down : plan[i] \in FefoPlans(i, -SetDelta(i, file[i]), TRUE)
        /\ Enough(-1, Total(plan))
        /\ lot' = Applied(Applied(WithNewLots(entries), 1, EntryLines(entries)), -1, Total(plan))
        /\ movement' = [m \in Movement |->
             IF m = in /\ up # {} THEN Row("STOCK_IN", NoMovement, EntryLines(entries))
             ELSE IF m = out /\ down # {} THEN Row("ADJUSTMENT_OUT", NoMovement, Total(plan))
             ELSE movement[m]]
  <2>1. \E plan \in [Over(file) -> UNION {FefoPlans(i, -SetDelta(i, file[i]), TRUE) : i \in Over(file)}] :
          /\ \A i \in Over(file) : plan[i] \in FefoPlans(i, -SetDelta(i, file[i]), TRUE)
          /\ Enough(-1, Total(plan))
          /\ lot' = Applied(Applied(WithNewLots(NewLotsOf(file, lotFor, expires)), 1,
                                    EntryLines(NewLotsOf(file, lotFor, expires))), -1, Total(plan))
          /\ movement' = [m \in Movement |->
               IF m = in /\ Short(file) # {}
               THEN Row("STOCK_IN", NoMovement, EntryLines(NewLotsOf(file, lotFor, expires)))
               ELSE IF m = out /\ Over(file) # {} THEN Row("ADJUSTMENT_OUT", NoMovement, Total(plan))
               ELSE movement[m]]
    BY Zenon DEF ImportSet, Short, Over, NewLotsOf
  <2> QED BY ZenonT(30), <1>5, <1>6, <1>7, <2>1
<1>9. /\ in # out /\ up \cup down # {}
      /\ \A i \in up : lotFor[i] \in FreeLots
      /\ \A i, k \in up : i # k => lotFor[i] # lotFor[k]
      /\ counted' = file /\ UNCHANGED <<active, today>>
  BY <1>5, <1>6 DEF ImportSet, Short, Over
<1>10. ASSUME NEW i \in up
       PROVE  /\ entries[lotFor[i]] \in EntryRow /\ entries[lotFor[i]].item = i
              /\ entries[lotFor[i]].quantity = SetDelta(i, file[i])
  <2>1. i \in DOMAIN file /\ i \in Item /\ SetDelta(i, file[i]) > 0 BY <1>2, <1>5 DEF Short
  <2>2. (CHOOSE k \in up : lotFor[k] = lotFor[i]) = i BY <1>9
  <2>3. entries[lotFor[i]] = [item |-> i, expires |-> expires[i], received |-> today,
                              quantity |-> SetDelta(i, file[i])]
    BY <1>5, <1>7, <2>2 DEF NewLotsOf
  <2>4. today \in Day /\ expires[i] \in 0 .. Never /\ SetDelta(i, file[i]) \in Nat
    BY <1>1, <1>4, <2>1 DEF KitchenTypeOK
  <2> QED BY <2>1, <2>3, <2>4 DEF EntryRow
<1>11. entries \in [{lotFor[i] : i \in up} -> EntryRow]
  <2>1. PICK ls : ls = {lotFor[i] : i \in up} OBVIOUS
  <2>2. entries = [l \in ls |-> entries[l]] BY <1>5, <1>7, <2>1 DEF NewLotsOf
  <2>3. \A l \in ls : entries[l] \in EntryRow BY <1>10, <2>1
  <2>4. entries \in [ls -> EntryRow] BY <2>2, <2>3
  <2> QED BY <2>1, <2>4
<1>12. \A i \in down : plan[i] \in [Lot -> Nat]
  <2> SUFFICES ASSUME NEW i \in down PROVE plan[i] \in [Lot -> Nat] OBVIOUS
  <2>1. i \in DOMAIN file /\ SetDelta(i, file[i]) < 0 BY <1>6 DEF Over
  <2>2. PICK quantity \in Nat : quantity = -SetDelta(i, file[i]) BY <1>4, <2>1
  <2>3. plan[i] \in FefoPlans(i, quantity, TRUE) BY <1>8, <2>2
  <2> QED BY <1>1, <2>2, <2>3, PlanByFefo DEF TakesOf
<1>13. plan \in [down -> [Lot -> Nat]] BY <1>8, <1>12
<1>14. SetWrites(in, out, file, lotFor, up, down, entries, plan)
  BY <1>5, <1>6, <1>8, <1>9, <1>10, <1>11, <1>13 DEF SetWrites
<1> QED BY <1>2, <1>3, <1>4, <1>5, <1>6, <1>14

(* What it does to the balances.                                           *)
LEMMA SetBalances ==
  ASSUME KitchenInv, NEW in, NEW out, NEW file, NEW lotFor, NEW up, NEW down, NEW entries, NEW plan,
         SetWrites(in, out, file, lotFor, up, down, entries, plan), IsFiniteSet(DOMAIN file)
  PROVE  /\ IsFiniteSet(up) /\ IsFiniteSet(down)
         /\ EntryLines(entries) \in [Lot -> Nat] /\ Total(plan) \in [Lot -> Nat]
         /\ lot' \in [Lot -> LotRow]
         /\ \A l \in Lot :
              /\ lot'[l].onHand = lot[l].onHand + EntryLines(entries)[l] - Total(plan)[l]
              /\ lot'[l].item = WithNewLots(entries)[l].item
              /\ Total(plan)[l] <= lot[l].onHand
              /\ lot'[l].item = NoItem => lot[l].item = NoItem /\ EntryLines(entries)[l] = 0
<1>1. lot \in [Lot -> LotRow] BY DEF KitchenInv, KitchenAddsUp, KitchenTypeOK
<1>2. up \subseteq DOMAIN file /\ down \subseteq DOMAIN file BY DEF SetWrites, Short, Over
<1>3. IsFiniteSet(up) /\ IsFiniteSet(down) BY <1>2, FS_Subset
<1>4. PICK ls : ls = {lotFor[i] : i \in up} OBVIOUS
<1>5. ls \in SUBSET FreeLots /\ entries \in [ls -> EntryRow] BY <1>4 DEF SetWrites
<1>6. /\ WithNewLots(entries) \in [Lot -> LotRow] /\ EntryLines(entries) \in [Lot -> Nat]
      /\ \A l \in Lot : /\ WithNewLots(entries)[l].onHand = lot[l].onHand
                        /\ WithNewLots(entries)[l].item = NoItem =>
                             lot[l].item = NoItem /\ EntryLines(entries)[l] = 0
  BY <1>5, NewLotsTypes
<1>7. plan \in [down -> [Lot -> Nat]] BY DEF SetWrites
<1>8. Total(plan) \in [Lot -> Nat] BY <1>3, <1>7, TotalTypes
<1>9. PICK lots : lots = WithNewLots(entries) OBVIOUS
<1>10. PICK arrives \in [Lot -> Nat] : arrives = EntryLines(entries) BY <1>6
<1>11. PICK leaves \in [Lot -> Nat] : leaves = Total(plan) BY <1>8
<1>12. \A l \in Lot : lot[l].onHand \in Nat BY <1>1 DEF LotRow
<1>13. /\ lots \in [Lot -> LotRow] /\ \A l \in Lot : lots[l].onHand = lot[l].onHand
  BY <1>6, <1>9
<1>14. \A l \in Lot : lots[l].onHand + 1 * arrives[l] \in Nat BY <1>12, <1>13
<1>15. PICK filled : filled = Applied(lots, 1, arrives) OBVIOUS
<1>16. /\ filled \in [Lot -> LotRow]
       /\ \A l \in Lot : filled[l].onHand = lots[l].onHand + 1 * arrives[l] /\ filled[l].item = lots[l].item
  <2>1. 1 \in {1, -1} OBVIOUS
  <2> QED BY <1>13, <1>14, <1>15, <2>1, AppliedTypes
<1>17. \A l \in Lot : leaves[l] <= lot[l].onHand BY <1>11 DEF SetWrites, Enough
<1>18. \A l \in Lot : filled[l].onHand = lot[l].onHand + arrives[l] BY <1>12, <1>13, <1>16
<1>19. \A l \in Lot : filled[l].onHand + (-1) * leaves[l] \in Nat BY <1>12, <1>17, <1>18
<1>20. lot' = Applied(filled, -1, leaves) BY <1>9, <1>10, <1>11, <1>15 DEF SetWrites
<1>21. /\ lot' \in [Lot -> LotRow]
       /\ \A l \in Lot : lot'[l].onHand = filled[l].onHand + (-1) * leaves[l] /\ lot'[l].item = filled[l].item
  <2>1. -1 \in {1, -1} OBVIOUS
  <2> QED BY <1>16, <1>19, <1>20, <2>1, AppliedTypes
<1>22. \A l \in Lot : lot'[l].onHand = lot[l].onHand + arrives[l] - leaves[l] /\ lot'[l].item = lots[l].item
  BY <1>12, <1>16, <1>18, <1>21
<1> QED BY <1>3, <1>6, <1>8, <1>9, <1>10, <1>11, <1>17, <1>21, <1>22

(* The SET import keeps the books.                                         *)
LEMMA ImportSetKeeps ==
  ASSUME KitchenInv, NEW in \in FreeMovements, NEW out \in FreeMovements, NEW file \in Files,
         NEW lotFor \in [DOMAIN file -> Lot], NEW expires \in [DOMAIN file -> 0 .. Never],
         ImportSet(in, out, file, lotFor, expires)
  PROVE  KitchenInv'
<1>1. KitchenTypeOK BY DEF KitchenInv, KitchenAddsUp
<1>2. PICK up, down : up = Short(file) /\ down = Over(file) OBVIOUS
<1>3. PICK entries, plan : SetWrites(in, out, file, lotFor, up, down, entries, plan) BY <1>2, SetImports
<1>4. PICK arrives : arrives = EntryLines(entries) OBVIOUS
<1>5. PICK leaves : leaves = Total(plan) OBVIOUS
<1>6. /\ IsFiniteSet(up) /\ IsFiniteSet(down)
      /\ arrives \in [Lot -> Nat] /\ leaves \in [Lot -> Nat]
      /\ lot' \in [Lot -> LotRow]
      /\ \A l \in Lot :
           /\ lot'[l].onHand = lot[l].onHand + arrives[l] - leaves[l]
           /\ leaves[l] <= lot[l].onHand
           /\ lot'[l].item = NoItem => lot[l].item = NoItem /\ arrives[l] = 0
  <2>1. IsFiniteSet(DOMAIN file) BY SetImports
  <2> QED BY <1>3, <1>4, <1>5, <2>1, SetBalances
<1>7. in # out /\ in \in Movement /\ out \in Movement BY <1>3 DEF SetWrites, FreeMovements
<1>8. PICK entry : entry = Row("STOCK_IN", NoMovement, arrives) OBVIOUS
<1>9. PICK exit : exit = Row("ADJUSTMENT_OUT", NoMovement, leaves) OBVIOUS
<1>10. /\ entry \in MovementRow /\ entry.type = "STOCK_IN" /\ entry.status = "ACTIVE"
       /\ entry.reversalOf = NoMovement /\ entry.lines = arrives
  BY <1>6, <1>8 DEF Row, MovementRow, MovementType
<1>11. /\ exit \in MovementRow /\ exit.type = "ADJUSTMENT_OUT" /\ exit.status = "ACTIVE"
       /\ exit.reversalOf = NoMovement /\ exit.lines = leaves
  BY <1>6, <1>9 DEF Row, MovementRow, MovementType
<1>12. movement' = [m \in Movement |-> IF m = in /\ up # {} THEN entry
                                       ELSE IF m = out /\ down # {} THEN exit
                                       ELSE movement[m]]
  BY <1>3, <1>4, <1>5, <1>8, <1>9 DEF SetWrites
<1>13. PICK added : added = {m \in {in, out} : (m = in /\ up # {}) \/ (m = out /\ down # {})} OBVIOUS
<1>14. /\ added \in SUBSET FreeMovements
       /\ \A m \in Movement \ added : movement'[m] = movement[m]
       /\ in \in added => movement'[in] = entry
       /\ out \in added => movement'[out] = exit
  BY <1>7, <1>12, <1>13
<1>15. movement' \in [Movement -> MovementRow] BY <1>1, <1>10, <1>11, <1>12 DEF KitchenTypeOK
<1>16. KitchenTypeOK'
  <2>1. counted' = file /\ active' = active /\ today' = today BY <1>3 DEF SetWrites
  <2> QED BY <1>1, <1>6, <1>15, <2>1 DEF KitchenTypeOK
<1>17. FreeLotsAreEmpty'
  <2> SUFFICES ASSUME NEW l \in Lot, lot'[l].item = NoItem
               PROVE  lot'[l].onHand = 0 /\ \A x \in Movement : movement'[x].lines[l] = 0
    BY DEF FreeLotsAreEmpty, FreeLots
  <2>1. l \in FreeLots /\ arrives[l] = 0 BY <1>6 DEF FreeLots
  <2>2. lot[l].onHand = 0 /\ \A x \in Movement : movement[x].lines[l] = 0
    BY <2>1 DEF KitchenInv, FreeLotsAreEmpty
  <2>3. leaves[l] = 0 /\ lot'[l].onHand = 0 BY <1>6, <2>1, <2>2
  <2> QED BY <1>10, <1>11, <1>12, <2>1, <2>2, <2>3
<1>18. \A m \in added : /\ movement'[m].type \notin {"NONE", "REVERSAL"}
                        /\ movement'[m].status = "ACTIVE" /\ movement'[m].reversalOf = NoMovement
  BY <1>10, <1>11, <1>13, <1>14
<1>19. ASSUME NEW l \in Lot
       PROVE  lot'[l].onHand = lot[l].onHand + SumFunctionOnSet(WeightsIn(movement', l), added)
  <2>1. PICK weights : weights = WeightsIn(movement', l) OBVIOUS
  <2>2. arrives[l] \in Nat /\ leaves[l] \in Nat /\ lot[l].onHand \in Nat
    BY <1>1, <1>6 DEF KitchenTypeOK, LotRow
  <2>3. in \in added => weights[in] = arrives[l]
    BY <1>7, <1>10, <1>14, <2>1 DEF WeightsIn, WeightIn, BringsIn, Brings
  <2>4. out \in added => weights[out] = -leaves[l]
    BY <1>7, <1>11, <1>14, <2>1 DEF WeightsIn, WeightIn, BringsIn, Brings
  <2>5. up = {} => arrives[l] = 0
    <3>1. up = {} => entries \in [{} -> EntryRow] BY <1>3 DEF SetWrites
    <3> QED BY <1>4, <3>1 DEF EntryLines
  <2>6. down = {} => leaves[l] = 0
    <3>1. SUFFICES ASSUME down = {} PROVE leaves[l] = 0 OBVIOUS
    <3>2. plan \in [{} -> [Lot -> Nat]] BY <1>3, <3>1 DEF SetWrites
    <3>3. IsFiniteSet({}) BY FS_EmptySet
    <3>4. \A k \in Lot : Total(plan)[k] = SumFunctionOnSet([i \in {} |-> plan[i][k]], {})
      BY <3>2, <3>3, TotalTypes
    <3>5. SumFunctionOnSet([i \in {} |-> plan[i][l]], {}) = 0 BY SumOfNone
    <3> QED BY <1>5, <3>4, <3>5
  <2>7. up # {} \/ down # {} BY <1>3 DEF SetWrites
  <2>8. SumFunctionOnSet(weights, added) = arrives[l] - leaves[l]
    <3>1. CASE up # {} /\ down # {}
      <4>1. added = {in, out} BY <1>7, <1>13, <3>1
      <4>2. weights[in] = arrives[l] /\ weights[out] = -leaves[l] BY <2>3, <2>4, <4>1
      <4>3. weights[in] \in Int /\ weights[out] \in Int BY <2>2, <4>2
      <4>4. SumFunctionOnSet(weights, {in, out}) = weights[in] + weights[out] BY <1>7, <4>3, SumOfTwo
      <4> QED BY <2>2, <4>1, <4>2, <4>4
    <3>2. CASE up = {}
      <4>1. added = {out} BY <1>7, <1>13, <2>7, <3>2
      <4>2. weights[out] = -leaves[l] /\ weights[out] \in Int BY <2>2, <2>4, <4>1
      <4>3. SumFunctionOnSet(weights, {out}) = weights[out] BY <4>2, SumOfOne
      <4> QED BY <2>2, <2>5, <3>2, <4>1, <4>2, <4>3
    <3>3. CASE down = {}
      <4>1. added = {in} BY <1>7, <1>13, <2>7, <3>3
      <4>2. weights[in] = arrives[l] /\ weights[in] \in Int BY <2>2, <2>3, <4>1
      <4>3. SumFunctionOnSet(weights, {in}) = weights[in] BY <4>2, SumOfOne
      <4> QED BY <2>2, <2>6, <3>3, <4>1, <4>2, <4>3
    <3> QED BY <3>1, <3>2, <3>3
  <2> QED BY <1>6, <2>1, <2>2, <2>8
<1> QED BY <1>14, <1>16, <1>17, <1>18, <1>19, RowsAdded

\* What is planned for an item leaves lots of the item and is what it has too much.
PlannedFor(plan, down, file) ==
  \A i \in down : /\ \A l \in Lot : plan[i][l] \in Nat /\ (plan[i][l] > 0 => lot[l].item = i)
                  /\ SumFunctionOnSet(plan[i], Lot) = -SetDelta(i, file[i])

\* The plans for the items that have too much.
PlansOver(plan, down, file) ==
  /\ down = Over(file) /\ IsFiniteSet(down)
  /\ \A i \in DOMAIN file : SetDelta(i, file[i]) \in Int
  /\ plan \in [down -> [Lot -> Nat]]
  /\ \A i \in down : plan[i] \in FefoPlans(i, -SetDelta(i, file[i]), TRUE)

(* The SET import takes from the lots of an item what the item has too     *)
(* much, and nothing of the others'.                                       *)
LEMMA SetTakesItsOwn ==
  ASSUME KitchenTypeOK, NEW file, NEW down, NEW plan, PlansOver(plan, down, file)
  PROVE  /\ PlannedFor(plan, down, file)
         /\ \A l \in Lot : Total(plan)[l] = IF lot[l].item \in down THEN plan[lot[l].item][l] ELSE 0
<1> USE DEF PlansOver
<1>1. ASSUME NEW i \in down
      PROVE  /\ \A l \in Lot : plan[i][l] \in Nat /\ (plan[i][l] > 0 => lot[l].item = i)
             /\ SumFunctionOnSet(plan[i], Lot) = -SetDelta(i, file[i])
  <2>1. i \in DOMAIN file /\ SetDelta(i, file[i]) < 0 /\ SetDelta(i, file[i]) \in Int BY DEF Over
  <2>2. PICK quantity \in Nat : quantity = -SetDelta(i, file[i]) BY <2>1
  <2>3. PICK take \in [Lot -> Nat] : take = plan[i] OBVIOUS
  <2>4. take \in FefoPlans(i, quantity, TRUE) BY <2>2, <2>3
  <2>5. TakesOf(take, 0, UsableFor(i, TRUE), OnHand, quantity) BY <2>4, PlanByFefo
  <2>6. \A l \in UsableFor(i, TRUE) : lot[l].item = i BY DEF UsableFor, Usable, LotsOf
  <2>7. SumFunctionOnSet(take, Lot) = quantity BY <2>5 DEF TakesOf
  <2>8. \A l \in Lot : take[l] \in Nat /\ (take[l] > 0 => l \in UsableFor(i, TRUE))
    <3>1. SUFFICES ASSUME NEW l \in Lot, take[l] > 0, l \notin UsableFor(i, TRUE) PROVE FALSE
      OBVIOUS
    <3>2. take[l] <= 0 BY <2>5, <3>1 DEF TakesOf
    <3> QED BY <3>1, <3>2
  <2> QED BY <2>2, <2>3, <2>6, <2>7, <2>8
<1>2. ASSUME NEW l \in Lot
      PROVE  Total(plan)[l] = IF lot[l].item \in down THEN plan[lot[l].item][l] ELSE 0
  <2> DEFINE taken == [i \in down |-> plan[i][l]]
  <2>1. Total(plan)[l] = SumFunctionOnSet(taken, down) BY TotalTypes
  <2>2. \A i \in down : taken[i] \in Int /\ taken[i] \in Nat /\ (i # lot[l].item => taken[i] = 0) BY <1>1
  <2>3. \A i \in down : taken[i] = plan[i][l] OBVIOUS
  <2> HIDE DEF taken
  <2>4. CASE lot[l].item \in down
    <3>1. PICK i \in down : i = lot[l].item BY <2>4
    <3>2. \A k \in down \ {i} : taken[k] = 0 BY <2>2, <3>1
    <3>3. SumFunctionOnSet(taken, down) = SumFunctionOnSet(taken, {i})
      <4>1. {i} \in SUBSET down OBVIOUS
      <4> QED BY <2>2, <3>2, <4>1, SumOfSupport
    <3>4. SumFunctionOnSet(taken, {i}) = taken[i] BY <2>2, SumOfOne
    <3> QED BY <2>1, <2>3, <2>4, <3>1, <3>3, <3>4
  <2>5. CASE lot[l].item \notin down
    <3>1. \A k \in down \ {} : taken[k] = 0 BY <2>2, <2>5
    <3>2. SumFunctionOnSet(taken, down) = SumFunctionOnSet(taken, {})
      <4>1. {} \in SUBSET down OBVIOUS
      <4> QED BY <2>2, <3>1, <4>1, SumOfSupport
    <3> QED BY <2>1, <2>5, <3>2, SumOfNone
  <2> QED BY <2>4, <2>5
<1> QED BY <1>1, <1>2 DEF PlannedFor

(* After a SET import each item it counted has what the file says.         *)
LEMMA ImportSetCounts ==
  ASSUME KitchenInv, NEW in \in FreeMovements, NEW out \in FreeMovements, NEW file \in Files,
         NEW lotFor \in [DOMAIN file -> Lot], NEW expires \in [DOMAIN file -> 0 .. Never],
         ImportSet(in, out, file, lotFor, expires)
  PROVE  SetLeavesTheCount'
<1>1. KitchenTypeOK BY DEF KitchenInv, KitchenAddsUp
<1>2. /\ DOMAIN file \in SUBSET Item /\ IsFiniteSet(DOMAIN file)
      /\ \A i \in DOMAIN file : file[i] \in Nat /\ SetDelta(i, file[i]) \in Int
  BY SetImports
<1>3. PICK up, down : up = Short(file) /\ down = Over(file) OBVIOUS
<1>4. PICK entries, plan : SetWrites(in, out, file, lotFor, up, down, entries, plan) BY <1>3, SetImports
<1>5. PICK arrives : arrives = EntryLines(entries) OBVIOUS
<1>6. PICK leaves : leaves = Total(plan) OBVIOUS
<1>7. /\ IsFiniteSet(up) /\ IsFiniteSet(down)
      /\ arrives \in [Lot -> Nat] /\ leaves \in [Lot -> Nat]
      /\ lot' \in [Lot -> LotRow]
      /\ \A l \in Lot :
           /\ lot'[l].onHand = lot[l].onHand + arrives[l] - leaves[l]
           /\ lot'[l].item = WithNewLots(entries)[l].item
           /\ leaves[l] <= lot[l].onHand
  BY <1>2, <1>4, <1>5, <1>6, SetBalances
<1>8. /\ plan \in [down -> [Lot -> Nat]]
      /\ \A i \in down : plan[i] \in FefoPlans(i, -SetDelta(i, file[i]), TRUE)
      /\ \A i \in up : /\ entries[lotFor[i]].item = i
                       /\ entries[lotFor[i]].quantity = SetDelta(i, file[i])
                       /\ lotFor[i] \in FreeLots
      /\ \A i, k \in up : i # k => lotFor[i] # lotFor[k]
      /\ entries \in [{lotFor[i] : i \in up} -> EntryRow]
      /\ counted' = file
  BY <1>4 DEF SetWrites
<1>9. /\ PlannedFor(plan, down, file)
      /\ \A l \in Lot : leaves[l] = IF lot[l].item \in down THEN plan[lot[l].item][l] ELSE 0
  <2>1. \A k \in DOMAIN file : SetDelta(k, file[k]) \in Int BY <1>2
  <2>2. PlansOver(plan, down, file) BY <1>3, <1>7, <1>8, <2>1 DEF PlansOver
  <2>3. /\ PlannedFor(plan, down, file)
        /\ \A l \in Lot : Total(plan)[l] = IF lot[l].item \in down THEN plan[lot[l].item][l] ELSE 0
    BY <1>1, <2>2, SetTakesItsOwn
  <2> QED BY <1>6, <2>3
<1>10. PICK ls : ls = {lotFor[i] : i \in up} OBVIOUS
<1>11. ls \in SUBSET FreeLots /\ entries \in [ls -> EntryRow] BY <1>8, <1>10
<1>12. /\ \A l \in Lot \ ls : WithNewLots(entries)[l] = lot[l] /\ arrives[l] = 0
       /\ \A l \in ls : /\ WithNewLots(entries)[l].item = entries[l].item
                        /\ arrives[l] = entries[l].quantity
  BY <1>5, <1>11, NewLotsTypes
<1>13. SUFFICES ASSUME NEW i \in DOMAIN file, file[i] > 0
                PROVE  SumFunctionOnSet(OnHand', LotsOf(i)') = file[i]
  BY <1>8 DEF SetLeavesTheCount, Stock
<1>14. PICK mine : mine = LotsOf(i) OBVIOUS
<1>15. PICK old : old = OnHand OBVIOUS
<1>16. PICK new : new = OnHand' OBVIOUS
<1>17. i \in Item /\ i # NoItem BY <1>2, <1>13, KitchenAssumption
<1>18. /\ mine \in SUBSET Lot /\ IsFiniteSet(mine) /\ mine \cap ls = {}
       /\ \A l \in mine : lot[l].item = i
  BY <1>1, <1>11, <1>14, <1>17, StockTypes DEF LotsOf, FreeLots
<1>19. /\ \A l \in Lot : /\ old[l] = lot[l].onHand /\ old[l] \in Nat
                         /\ new[l] = lot'[l].onHand /\ new[l] \in Nat
                         /\ new[l] = old[l] + arrives[l] - leaves[l]
                         /\ arrives[l] \in Nat /\ leaves[l] \in Nat /\ leaves[l] <= old[l]
  BY <1>1, <1>7, <1>15, <1>16 DEF OnHand, KitchenTypeOK, LotRow
<1>20. PICK balance \in Int : balance = SumFunctionOnSet(old, mine)
  <2>1. \A l \in mine : old[l] \in Int BY <1>18, <1>19
  <2> QED BY <1>18, <2>1, SumIsNumber
<1>21. PICK delta \in Int : delta = SetDelta(i, file[i]) BY <1>2, <1>13
<1>22. delta = file[i] - balance
  BY <1>2, <1>13, <1>14, <1>15, <1>20, <1>21 DEF SetDelta, Current, Stock
<1>23. /\ i \in up <=> delta > 0
       /\ i \in down <=> delta < 0
  BY <1>3, <1>13, <1>21 DEF Short, Over
<1>24. \A l \in mine : new[l] = old[l] - leaves[l]
  BY <1>12, <1>18, <1>19
<1>25. CASE i \in up
  <2>1. PICK fresh \in FreeLots : fresh = lotFor[i] BY <1>8, <1>25
  <2>2. fresh \in ls /\ fresh \in Lot /\ fresh \notin mine
    BY <1>10, <1>18, <1>25, <2>1 DEF FreeLots
  <2>3. new[fresh] = delta
    <3>1. old[fresh] = 0 BY <1>19, <2>1, <2>2 DEF KitchenInv, FreeLotsAreEmpty
    <3>2. arrives[fresh] = delta BY <1>8, <1>12, <1>21, <1>25, <2>1, <2>2
    <3>3. leaves[fresh] = 0 BY <1>19, <2>2, <3>1
    <3> QED BY <1>19, <2>2, <3>1, <3>2, <3>3
  <2>4. LotsOf(i)' = mine \cup {fresh}
    <3>1. ASSUME NEW l \in Lot PROVE lot'[l].item = i <=> l \in mine \/ l = fresh
      <4>1. CASE l \in ls
        <5>1. PICK k \in up : l = lotFor[k] BY <1>10, <4>1
        <5>2. lot'[l].item = k BY <1>7, <1>8, <1>12, <4>1, <5>1
        <5>3. l = fresh <=> k = i BY <1>8, <1>25, <2>1, <5>1
        <5> QED BY <1>18, <4>1, <5>2, <5>3
      <4>2. CASE l \notin ls
        <5>1. lot'[l].item = lot[l].item BY <1>7, <1>12, <4>2
        <5> QED BY <1>14, <2>2, <4>2, <5>1 DEF LotsOf
      <4> QED BY <4>1, <4>2
    <3> QED BY <2>2, <1>18, <3>1 DEF LotsOf
  <2>5. \A l \in mine : new[l] = old[l]
    <3>1. i \notin down BY <1>23, <1>25
    <3>2. \A l \in mine : leaves[l] = 0 BY <1>9, <1>18, <3>1
    <3> QED BY <1>18, <1>19, <1>24, <3>2
  <2>6. SumFunctionOnSet(new, mine) = balance BY <1>18, <1>20, <2>5, SumOfEquals
  <2>7. SumFunctionOnSet(new, mine \cup {fresh}) = new[fresh] + SumFunctionOnSet(new, mine)
    <3>1. \A l \in mine \cup {fresh} : new[l] \in Int BY <1>18, <1>19, <2>2
    <3> QED BY <1>18, <2>2, <3>1, SumWithOne
  <2>8. file[i] \in Nat BY <1>2, <1>13
  <2> QED BY <1>16, <1>20, <1>21, <1>22, <2>3, <2>4, <2>6, <2>7, <2>8
<1>26. CASE i \notin up
  <2>1. LotsOf(i)' = mine
    <3>1. ASSUME NEW l \in Lot PROVE lot'[l].item = i <=> l \in mine
      <4>1. CASE l \in ls
        <5>1. PICK k \in up : l = lotFor[k] BY <1>10, <4>1
        <5>2. lot'[l].item = k BY <1>7, <1>8, <1>12, <4>1, <5>1
        <5> QED BY <1>18, <1>26, <4>1, <5>2
      <4>2. CASE l \notin ls
        <5>1. lot'[l].item = lot[l].item BY <1>7, <1>12, <4>2
        <5> QED BY <1>14, <5>1 DEF LotsOf
      <4> QED BY <4>1, <4>2
    <3> QED BY <1>18, <3>1 DEF LotsOf
  <2>2. CASE i \in down
    <3>1. PICK take \in [Lot -> Nat] : take = plan[i] BY <1>8, <2>2
    <3>2. /\ \A l \in mine : leaves[l] = take[l]
      BY <1>9, <1>18, <2>2, <3>1
    <3>3. SumFunctionOnSet(take, Lot) = -delta /\ \A l \in Lot \ mine : take[l] = 0
      <4>1. /\ \A l \in Lot : take[l] > 0 => lot[l].item = i
            /\ SumFunctionOnSet(take, Lot) = -SetDelta(i, file[i])
        BY <1>9, <2>2, <3>1 DEF PlannedFor
      <4>2. \A l \in Lot : take[l] \in Nat OBVIOUS
      <4> QED BY <1>14, <1>21, <4>1, <4>2 DEF LotsOf
    <3>4. SumFunctionOnSet(take, mine) = -delta
      <4>1. \A l \in Lot : take[l] \in Int OBVIOUS
      <4> QED BY <1>18, <3>3, <4>1, KitchenAssumption, SumOfSupport
    <3>5. SumFunctionOnSet(old, mine) = SumFunctionOnSet(new, mine) + SumFunctionOnSet(take, mine)
      <4>1. \A l \in mine : new[l] \in Int /\ take[l] \in Int /\ old[l] = new[l] + take[l]
        BY <1>18, <1>19, <1>24, <3>2
      <4> QED BY <1>18, <4>1, SumOfSums
    <3>6. SumFunctionOnSet(new, mine) \in Int
      <4>1. \A l \in mine : new[l] \in Int BY <1>18, <1>19
      <4> QED BY <1>18, <4>1, SumIsNumber
    <3>7. file[i] \in Nat BY <1>2, <1>13
    <3>8. PICK after \in Int : after = SumFunctionOnSet(new, mine) BY <3>6
    <3>9. PICK gone : gone = SumFunctionOnSet(take, mine) OBVIOUS
    <3>10. balance = after + gone /\ gone = -delta BY <1>20, <3>4, <3>5, <3>8, <3>9
    <3>11. after = file[i] BY <1>22, <3>7, <3>10
    <3> QED BY <1>16, <2>1, <3>8, <3>11
  <2>3. CASE i \notin down
    <3>1. delta = 0 BY <1>21, <1>23, <1>26, <2>3
    <3>2. \A l \in mine : leaves[l] = 0 BY <1>9, <1>18, <2>3
    <3>3. \A l \in mine : new[l] = old[l] BY <1>18, <1>19, <1>24, <3>2
    <3>4. SumFunctionOnSet(new, mine) = balance BY <1>18, <1>20, <3>3, SumOfEquals
    <3>5. file[i] \in Nat BY <1>2, <1>13
    <3> QED BY <1>16, <1>20, <1>22, <2>1, <3>1, <3>4, <3>5
  <2> QED BY <2>2, <2>3
<1> QED BY <1>25, <1>26

\* The inductive invariant with what the last SET import left.
KitchenCounts == KitchenInv /\ SetLeavesTheCount

(* The store starts empty.                                                 *)
LEMMA KitchenStarts == KitchenInit => KitchenCounts
<1> SUFFICES ASSUME KitchenInit PROVE KitchenCounts OBVIOUS
<1>1. /\ lot = [l \in Lot |-> NewLot] /\ movement = [m \in Movement |-> NewMovement]
      /\ active = Item /\ today = 0 /\ counted = NoFile
  BY DEF KitchenInit
<1>2. NewLot \in LotRow /\ NewLot.item = NoItem /\ NewLot.onHand = 0
  <2>1. LastDay \in Nat /\ Never \in Nat BY KitchenAssumption DEF Never
  <2> QED BY <2>1 DEF NewLot, LotRow, Day, Never
<1>3. NewMovement \in MovementRow /\ NewMovement.type = "NONE" /\ NewMovement.reversalOf = NoMovement
      /\ NewMovement.lines = NoLines
  BY DEF NewMovement, MovementRow, NoLines
<1>4. KitchenTypeOK
  <2>1. today \in Day BY <1>1, KitchenAssumption DEF Day
  <2> QED BY <1>1, <1>2, <1>3, <2>1 DEF KitchenTypeOK
<1>5. Movement \ FreeMovements = {} BY <1>1, <1>3 DEF FreeMovements
<1>6. OnHandIsTheKardex
  <2>1. ASSUME NEW l \in Lot PROVE SumFunctionOnSet([m \in Movement |-> Effect(m, l)], {}) = 0
    BY SumOfNone
  <2> QED BY <1>1, <1>2, <1>5, <2>1 DEF OnHandIsTheKardex
<1>7. CancelledHasOneReversal BY <1>5 DEF CancelledHasOneReversal
<1>8. ReversalsAreNamed BY <1>1, <1>3 DEF ReversalsAreNamed
<1>9. FreeLotsAreEmpty BY <1>1, <1>2, <1>3 DEF FreeLotsAreEmpty, FreeLots, NoLines
<1>10. SetLeavesTheCount BY <1>1 DEF SetLeavesTheCount, NoFile
<1> QED BY <1>4, <1>6, <1>7, <1>8, <1>9, <1>10 DEF KitchenCounts, KitchenInv, KitchenAddsUp

(* Every step keeps the books and what was counted.                        *)
LEMMA KitchenStays == KitchenCounts /\ [KitchenNext]_kitchenVars => KitchenCounts'
<1> SUFFICES ASSUME KitchenCounts, [KitchenNext]_kitchenVars PROVE KitchenCounts' OBVIOUS
<1>1. KitchenInv /\ KitchenTypeOK /\ SetLeavesTheCount BY DEF KitchenCounts, KitchenInv, KitchenAddsUp
<1>2. counted' = NoFile => SetLeavesTheCount' BY DEF SetLeavesTheCount, NoFile
<1>3. ASSUME UNCHANGED <<lot, movement, counted>>, active' \subseteq Item, today' \in Day
      PROVE  KitchenCounts'
  <2>1. KitchenTypeOK' BY <1>1, <1>3 DEF KitchenTypeOK
  <2>2. OnHandIsTheKardex' BY <1>1, <1>3
    DEF KitchenInv, KitchenAddsUp, OnHandIsTheKardex, FreeMovements, Effect
  <2>3. CancelledHasOneReversal' BY <1>1, <1>3
    DEF KitchenInv, KitchenAddsUp, CancelledHasOneReversal, FreeMovements
  <2>4. ReversalsAreNamed' BY <1>1, <1>3 DEF KitchenInv, ReversalsAreNamed, NewMovement, NoLines
  <2>5. FreeLotsAreEmpty' BY <1>1, <1>3 DEF KitchenInv, FreeLotsAreEmpty, FreeLots
  <2>6. SetLeavesTheCount' BY <1>1, <1>3 DEF SetLeavesTheCount, Stock, OnHand, LotsOf
  <2> QED BY <2>1, <2>2, <2>3, <2>4, <2>5, <2>6 DEF KitchenCounts, KitchenInv, KitchenAddsUp
<1>4. ASSUME NEW m \in FreeMovements, Operation(m) PROVE KitchenCounts'
  <2>1. m \in Movement BY DEF FreeMovements
  <2>2. CASE \E entries \in EntrySets : StockIn(m, entries)
    <3>1. PICK entries \in EntrySets : StockIn(m, entries) BY <2>2
    <3>2. KitchenInv' BY <1>1, <2>1, <3>1, EntryKeeps DEF StockIn
    <3> QED BY <1>2, <3>1, <3>2 DEF KitchenCounts, StockIn
  <2>3. CASE \E entries \in EntrySets : ImportAdd(m, entries)
    <3>1. PICK entries \in EntrySets : ImportAdd(m, entries) BY <2>3
    <3>2. KitchenInv' BY <1>1, <2>1, <3>1, EntryKeeps DEF ImportAdd
    <3> QED BY <1>2, <3>1, <3>2 DEF KitchenCounts, ImportAdd
  <2>4. CASE \E type \in {"CONSUMPTION", "WASTE"}, asked \in Requests : StockOut(m, type, asked)
    <3>1. KitchenInv' BY <1>1, <2>1, <2>4, StockOutKeeps
    <3>2. counted' = NoFile BY <2>4 DEF StockOut
    <3> QED BY <1>2, <3>1, <3>2 DEF KitchenCounts
  <2>5. CASE \E type \in {"ADJUSTMENT_IN", "ADJUSTMENT_OUT"}, lines \in [Lot -> 0 .. MaxQuantity] :
               Adjust(m, type, lines)
    <3>1. KitchenInv' BY <1>1, <2>1, <2>5, AdjustKeeps
    <3>2. counted' = NoFile BY <2>5 DEF Adjust
    <3> QED BY <1>2, <3>1, <3>2 DEF KitchenCounts
  <2>6. CASE \E source \in Movement : Reverse(m, source)
    <3>1. KitchenInv' BY <1>1, <2>1, <2>6, ReverseKeeps
    <3>2. counted' = NoFile BY <2>6 DEF Reverse
    <3> QED BY <1>2, <3>1, <3>2 DEF KitchenCounts
  <2>7. CASE \E out \in FreeMovements, file \in Files :
               \E lotFor \in [DOMAIN file -> Lot], expires \in [DOMAIN file -> 0 .. Never] :
                 ImportSet(m, out, file, lotFor, expires)
    <3>1. PICK out \in FreeMovements, file \in Files :
               \E lotFor \in [DOMAIN file -> Lot], expires \in [DOMAIN file -> 0 .. Never] :
                 ImportSet(m, out, file, lotFor, expires)
      BY <2>7
    <3>2. PICK lotFor \in [DOMAIN file -> Lot], expires \in [DOMAIN file -> 0 .. Never] :
                 ImportSet(m, out, file, lotFor, expires)
      BY <3>1
    <3>3. KitchenInv' BY <1>1, <3>2, ImportSetKeeps
    <3>4. SetLeavesTheCount' BY <1>1, <3>2, ImportSetCounts
    <3> QED BY <3>3, <3>4 DEF KitchenCounts
  <2> QED BY <1>4, <2>2, <2>3, <2>4, <2>5, <2>6, <2>7 DEF Operation
<1>5. ASSUME NEW item \in Item, SetActive(item) PROVE KitchenCounts'
  BY <1>1, <1>3, <1>5 DEF SetActive, KitchenTypeOK
<1>6. CASE Midnight
  <2>1. today' \in Day BY <1>1, <1>6, KitchenAssumption DEF Midnight, KitchenTypeOK, Day
  <2> QED BY <1>1, <1>3, <1>6, <2>1 DEF Midnight, KitchenTypeOK
<1>7. CASE UNCHANGED kitchenVars BY <1>1, <1>3, <1>7 DEF kitchenVars, KitchenTypeOK
<1> QED BY <1>4, <1>5, <1>6, <1>7 DEF KitchenNext

(* Lots and movements of the kitchen agree, whatever the number of items,  *)
(* lots and movements: post(), reverse() and the imports keep every balance *)
(* the sum of its kardex, never below zero, and cancel a movement with     *)
(* exactly one reversal.                                                   *)
THEOREM KitchenBooksAddUp == KitchenSpec => []KitchenAddsUp
<1>1. KitchenInit => KitchenCounts BY KitchenStarts
<1>2. KitchenCounts /\ [KitchenNext]_kitchenVars => KitchenCounts' BY KitchenStays
<1>3. KitchenCounts => KitchenAddsUp BY DEF KitchenCounts, KitchenInv
<1> QED BY <1>1, <1>2, <1>3, PTL DEF KitchenSpec

(* First expired, first out: the plans of allocateFefo() are the earliest  *)
(* lots, and there is one exactly when the usable lots hold the quantity.  *)
LEMMA FefoIsExact == KitchenTypeOK => EarliestFirst /\ CoversExactly
<1> SUFFICES ASSUME KitchenTypeOK PROVE EarliestFirst /\ CoversExactly OBVIOUS
<1>1. OnHand \in [Lot -> Nat] /\ Expires \in [Lot -> 0 .. Never] /\ Received \in [Lot -> Day]
  BY DEF OnHand, Expires, Received, KitchenTypeOK, LotRow
<1>2. \A l \in Lot : OnHand[l] = lot[l].onHand /\ Expires[l] = lot[l].expires /\ Received[l] = lot[l].received
  BY DEF OnHand, Expires, Received
<1>3. \A l \in Lot : Expires[l] \in Int /\ Received[l] \in Int
  BY <1>1, KitchenAssumption DEF Never, Day
<1>4. Quantity \subseteq Nat BY KitchenAssumption DEF Quantity
<1>5. EarliestFirst
  <2> SUFFICES ASSUME NEW item \in Item, NEW quantity \in Quantity, NEW includeExpired \in BOOLEAN,
                      NEW take \in FefoPlans(item, quantity, includeExpired),
                      NEW a \in UsableFor(item, includeExpired), NEW b \in UsableFor(item, includeExpired),
                      take[b] > 0, lot[a].expires <= lot[b].expires,
                      lot[a].expires = lot[b].expires => lot[a].received < lot[b].received
               PROVE  take[a] = lot[a].onHand
    BY DEF EarliestFirst, UsableFor
  <2>1. a \in Lot /\ b \in Lot BY DEF UsableFor, Usable, LotsOf
  <2>2. GoesBefore(a, b, Expires, Received) BY <1>2, <1>3, <2>1 DEF GoesBefore
  <2>3. quantity \in Nat BY <1>4
  <2> QED BY <1>2, <2>1, <2>2, <2>3, PlanByFefo
<1>6. CoversExactly
  <2> SUFFICES ASSUME NEW item \in Item, NEW quantity \in Quantity, NEW includeExpired \in BOOLEAN
               PROVE  /\ FefoPlans(item, quantity, includeExpired) # {}
                           <=> quantity <= SumFunctionOnSet(OnHand, UsableFor(item, includeExpired))
                      /\ \A take \in FefoPlans(item, quantity, includeExpired) :
                           /\ SumFunctionOnSet(take, Lot) = quantity
                           /\ \A l \in Lot : take[l] <= IF l \in UsableFor(item, includeExpired)
                                                        THEN lot[l].onHand ELSE 0
    BY DEF CoversExactly, UsableFor
  <2>1. PICK usable : usable = UsableFor(item, includeExpired) OBVIOUS
  <2>2. usable \in SUBSET Lot BY <2>1 DEF UsableFor, Usable, LotsOf
  <2>3. IsFiniteSet(Lot) /\ IsFiniteSet(usable) /\ Cardinality(usable) \in Nat
    BY <2>2, KitchenAssumption, FS_Subset, FS_CardinalityType
  <2>4. quantity \in Nat BY <1>4
  <2>5. ASSUME NEW take \in [Lot -> Nat], NEW missing \in Nat, TakesOf(take, missing, usable, OnHand, quantity)
        PROVE  /\ SumFunctionOnSet(take, usable) = quantity - missing
               /\ SumFunctionOnSet(take, usable) <= SumFunctionOnSet(OnHand, usable)
               /\ missing > 0 => SumFunctionOnSet(take, usable) = SumFunctionOnSet(OnHand, usable)
    <3>1. SumFunctionOnSet(take, Lot) = quantity - missing BY <2>5 DEF TakesOf
    <3>2. \A l \in Lot : take[l] <= IF l \in usable THEN OnHand[l] ELSE 0 BY <2>5 DEF TakesOf
    <3>3. \A l \in Lot \ usable : take[l] = 0
      <4> SUFFICES ASSUME NEW l \in Lot \ usable PROVE take[l] = 0 OBVIOUS
      <4>1. take[l] <= 0 /\ take[l] \in Nat BY <3>2
      <4> QED BY <4>1
    <3>4. SumFunctionOnSet(take, Lot) = SumFunctionOnSet(take, usable)
      <4>1. \A l \in Lot : take[l] \in Int OBVIOUS
      <4> QED BY <2>2, <2>3, <3>3, <4>1, SumOfSupport
    <3>5. SumFunctionOnSet(take, usable) <= SumFunctionOnSet(OnHand, usable)
      <4>1. \A l \in usable : take[l] \in Int /\ OnHand[l] \in Int /\ take[l] <= OnHand[l]
        BY <1>1, <2>2, <3>2
      <4> QED BY <2>3, <4>1, SumAtMost
    <3>6. missing > 0 => SumFunctionOnSet(take, usable) = SumFunctionOnSet(OnHand, usable)
      <4>1. missing > 0 => \A l \in usable : take[l] = OnHand[l] BY <2>5 DEF TakesOf
      <4> QED BY <2>3, <4>1, SumOfEquals
    <3> QED BY <3>1, <3>4, <3>5, <3>6
  <2>6. ASSUME NEW take \in FefoPlans(item, quantity, includeExpired)
        PROVE  /\ SumFunctionOnSet(take, Lot) = quantity
               /\ \A l \in Lot : take[l] <= IF l \in usable THEN lot[l].onHand ELSE 0
               /\ quantity <= SumFunctionOnSet(OnHand, usable)
    <3>1. TakesOf(take, 0, usable, OnHand, quantity) BY <2>1, <2>4, PlanByFefo
    <3>2. take \in [Lot -> Nat] /\ 0 \in Nat BY <3>1 DEF TakesOf
    <3>3. /\ SumFunctionOnSet(take, usable) = quantity - 0
          /\ SumFunctionOnSet(take, usable) <= SumFunctionOnSet(OnHand, usable)
      BY <2>5, <3>1, <3>2
    <3>4. SumFunctionOnSet(take, Lot) = quantity - 0 BY <3>1 DEF TakesOf
    <3>5. \A l \in Lot : take[l] <= IF l \in usable THEN OnHand[l] ELSE 0 BY <3>1 DEF TakesOf
    <3> QED BY <1>2, <2>4, <3>3, <3>4, <3>5
  <2>7. ASSUME quantity <= SumFunctionOnSet(OnHand, usable)
        PROVE  FefoPlans(item, quantity, includeExpired) # {}
    <3>1. PICK queue \in Queues(usable, Expires, Received) : TRUE BY <1>1, <2>2, QueuesExist
    <3>2. PICK n \in Nat : n = Cardinality(usable) BY <2>3
    <3>3. QueueOf(queue, n, usable)
      <4>1. /\ queue \in [1 .. n -> usable]
            /\ \A i, j \in 1 .. n : i < j => queue[i] # queue[j]
        BY <3>1, <3>2 DEF Queues
      <4>2. \A i, j \in 1 .. n : i # j => i < j \/ j < i OBVIOUS
      <4> QED BY <3>2, <4>1, <4>2 DEF QueueOf
    <3>4. PICK plan : plan = AllocateFefo(Lot, queue, OnHand, quantity) OBVIOUS
    <3>5. TakesOf(plan.take, plan.missing, usable, OnHand, quantity)
      BY <1>1, <2>2, <2>4, <3>3, <3>4, FefoTakes
    <3>6. plan.take \in [Lot -> Nat] /\ plan.missing \in Nat BY <3>5 DEF TakesOf
    <3>7. plan.missing = 0
      <4>1. SUFFICES ASSUME plan.missing > 0 PROVE FALSE BY <3>6
      <4>2. SumFunctionOnSet(OnHand, usable) = quantity - plan.missing BY <2>5, <3>5, <3>6, <4>1
      <4> QED BY <2>4, <2>7, <3>6, <4>1, <4>2
    <3>8. plan.take \in FefoPlans(item, quantity, includeExpired)
      BY <2>1, <3>1, <3>4, <3>7 DEF FefoPlans, UsableFor
    <3> QED BY <3>8
  <2> QED BY <2>1, <2>6, <2>7
<1> QED BY <1>5, <1>6

\* What a row that appears as a consumption takes.
Edible == \A m \in Movement : Appeared(m) /\ movement'[m].type = "CONSUMPTION" =>
            \A l \in Lot : movement'[m].lines[l] > 0 =>
              ~IsExpired(lot[l].expires, today) /\ lot[l].item \notin Durable

(* createMovement() writes one row, of its type.                           *)
LEMMA OneRowAppears ==
  ASSUME KitchenTypeOK, NEW m \in Movement, NEW type, NEW lots, NEW lines,
         CreateMovement(m, type, lots, lines), NEW x \in Movement, Appeared(x)
  PROVE  x = m /\ movement'[x].type = type /\ movement'[x].lines = lines
<1>1. PICK row : row = Row(type, NoMovement, lines) OBVIOUS
<1>2. row.type = type /\ row.lines = lines BY <1>1 DEF Row
<1>3. movement' = [movement EXCEPT ![m] = row] BY <1>1 DEF CreateMovement
<1> QED BY <1>2, <1>3 DEF Appeared, KitchenTypeOK

(* A consumption takes nothing that is expired or durable.                 *)
LEMMA StockOutIsEdible ==
  ASSUME KitchenTypeOK, NEW m \in Movement, NEW type \in {"CONSUMPTION", "WASTE"}, NEW asked \in Requests,
         StockOut(m, type, asked)
  PROVE  Edible
<1>1. PICK n \in 1 .. MaxLines : asked \in [1 .. n -> OutLine] BY DEF Requests
<1>2. IsFiniteSet(1 .. n)
  <2>1. n \in Int BY KitchenAssumption
  <2> QED BY <2>1, FS_Interval
<1>3. PICK plan \in [1 .. n -> UNION {Plans(asked[i], type) : i \in 1 .. n}] :
        /\ \A i \in 1 .. n : plan[i] \in Plans(asked[i], type)
        /\ CreateMovement(m, type, lot, Total(plan))
  BY <1>1 DEF StockOut
<1>4. ASSUME NEW i \in 1 .. n
      PROVE  /\ plan[i] \in [Lot -> Nat]
             /\ type = "CONSUMPTION" => \A l \in Lot : plan[i][l] > 0 =>
                  ~IsExpired(lot[l].expires, today) /\ lot[l].item \notin Durable
  <2>1. PICK line \in OutLine : line = asked[i] BY <1>1
  <2>2. PICK take \in Plans(line, type) : take = plan[i] BY <1>3, <2>1
  <2>3. /\ take \in [Lot -> Nat]
        /\ type = "CONSUMPTION" => line.item \notin Durable
        /\ \A l \in Lot : take[l] > 0 =>
             /\ lot[l].item = line.item
             /\ type = "CONSUMPTION" => ~IsExpired(lot[l].expires, today)
    BY PlansTypes
  <2> QED BY <2>2, <2>3
<1>5. plan \in [1 .. n -> [Lot -> Nat]] BY <1>3, <1>4
<1> SUFFICES ASSUME NEW x \in Movement, Appeared(x), movement'[x].type = "CONSUMPTION",
                    NEW l \in Lot, movement'[x].lines[l] > 0
             PROVE  ~IsExpired(lot[l].expires, today) /\ lot[l].item \notin Durable
  BY DEF Edible
<1>6. type = "CONSUMPTION" /\ movement'[x].lines = Total(plan) BY <1>3, OneRowAppears
<1>7. PICK taken : taken = [i \in 1 .. n |-> plan[i][l]] OBVIOUS
<1>8. Total(plan)[l] = SumFunctionOnSet(taken, 1 .. n) BY <1>2, <1>5, <1>7, TotalTypes
<1>9. \A i \in 1 .. n : taken[i] \in Int /\ taken[i] \in Nat BY <1>4, <1>7
<1>10. PICK i \in 1 .. n : taken[i] # 0
  <2> SUFFICES ASSUME \A i \in 1 .. n : taken[i] = 0 PROVE FALSE OBVIOUS
  <2>1. PICK all : all = 1 .. n OBVIOUS
  <2>2. /\ IsFiniteSet(all) /\ {} \in SUBSET all
        /\ \A i \in all : taken[i] \in Int
        /\ \A i \in all \ {} : taken[i] = 0
    BY <1>2, <1>9, <2>1
  <2>3. SumFunctionOnSet(taken, all) = SumFunctionOnSet(taken, {}) BY <2>2, SumOfSupport
  <2>4. Total(plan)[l] = 0 BY <1>8, <2>1, <2>3, SumOfNone
  <2> QED BY <1>6, <2>4
<1>11. plan[i][l] > 0
  <2>1. PICK all : all = 1 .. n OBVIOUS
  <2>2. i \in all /\ \A k \in all : taken[k] \in Nat BY <1>9, <2>1
  <2>3. taken[i] \in Nat /\ taken[i] # 0 BY <1>10, <2>2
  <2>4. PICK some \in Nat : some = taken[i] BY <2>3
  <2>5. some > 0
    <3>1. some # 0 BY <2>3, <2>4
    <3>2. \A k \in Nat : k # 0 => k > 0 OBVIOUS
    <3> QED BY <3>1, <3>2
  <2> QED BY <1>7, <2>4, <2>5
<1> QED BY <1>4, <1>6, <1>11

(* Only stockOut() records a consumption.                                  *)
LEMMA StepsAreEdible ==
  ASSUME KitchenInv, [KitchenNext]_kitchenVars
  PROVE  [Edible]_kitchenVars
<1>1. KitchenTypeOK BY DEF KitchenInv, KitchenAddsUp
<1>2. ASSUME UNCHANGED movement PROVE Edible BY <1>2 DEF Edible, Appeared
<1>3. ASSUME NEW m \in FreeMovements, Operation(m) PROVE Edible
  <2>1. m \in Movement BY DEF FreeMovements
  <2>2. ASSUME NEW type, type # "CONSUMPTION", NEW lots, NEW lines, CreateMovement(m, type, lots, lines)
        PROVE  Edible
    <3>1. \A x \in Movement : Appeared(x) => movement'[x].type = type
      BY <1>1, <2>1, <2>2, OneRowAppears
    <3> QED BY <2>2, <3>1 DEF Edible
  <2>3. CASE \E entries \in EntrySets : StockIn(m, entries) BY <2>2, <2>3 DEF StockIn
  <2>4. CASE \E entries \in EntrySets : ImportAdd(m, entries) BY <2>2, <2>4 DEF ImportAdd
  <2>5. CASE \E type \in {"CONSUMPTION", "WASTE"}, asked \in Requests : StockOut(m, type, asked)
    BY <1>1, <2>1, <2>5, StockOutIsEdible
  <2>6. CASE \E type \in {"ADJUSTMENT_IN", "ADJUSTMENT_OUT"}, lines \in [Lot -> 0 .. MaxQuantity] :
               Adjust(m, type, lines)
    <3>1. PICK type \in {"ADJUSTMENT_IN", "ADJUSTMENT_OUT"}, lines \in [Lot -> 0 .. MaxQuantity] :
               Adjust(m, type, lines)
      BY <2>6
    <3> QED BY <2>2, <3>1 DEF Adjust
  <2>7. ASSUME NEW source \in Movement, Reverse(m, source) PROVE Edible
    <3>1. PICK row : row = Row("REVERSAL", source, movement[source].lines) OBVIOUS
    <3>2. PICK undone : undone = [movement[source] EXCEPT !.status = "CANCELLED"] OBVIOUS
    <3>3. row.type = "REVERSAL" BY <3>1 DEF Row
    <3>4. undone.type = movement[source].type BY <1>1, <3>2 DEF KitchenTypeOK, MovementRow
    <3>5. movement' = [[movement EXCEPT ![source] = undone] EXCEPT ![m] = row]
      BY <1>1, <2>7, <3>1, <3>2 DEF Reverse, Cancel, KitchenTypeOK, MovementRow
    <3>6. \A x \in Movement : Appeared(x) => movement'[x].type = "REVERSAL"
      <4> HIDE <2>7
      <4> SUFFICES ASSUME NEW x \in Movement, Appeared(x) PROVE movement'[x].type = "REVERSAL" OBVIOUS
      <4>1. CASE x = m BY <1>1, <2>1, <3>3, <3>5, <4>1 DEF KitchenTypeOK
      <4>2. CASE x # m
        <5>1. movement'[x] = IF x = source THEN undone ELSE movement[x]
          BY <1>1, <2>1, <3>5, <4>2 DEF KitchenTypeOK
        <5>2. movement'[x].type = movement[x].type BY <3>4, <5>1
        <5> QED BY <5>2 DEF Appeared
      <4> QED BY <4>1, <4>2
    <3> QED BY <3>6 DEF Edible
  <2>8. ASSUME NEW out \in FreeMovements, NEW file \in Files,
               NEW lotFor \in [DOMAIN file -> Lot], NEW expires \in [DOMAIN file -> 0 .. Never],
               ImportSet(m, out, file, lotFor, expires)
        PROVE  Edible
    <3>1. PICK entries, plan :
            movement' = [x \in Movement |->
              IF x = m /\ Short(file) # {} THEN Row("STOCK_IN", NoMovement, EntryLines(entries))
              ELSE IF x = out /\ Over(file) # {} THEN Row("ADJUSTMENT_OUT", NoMovement, Total(plan))
              ELSE movement[x]]
      <4>1. PICK entries, plan : SetWrites(m, out, file, lotFor, Short(file), Over(file), entries, plan)
        BY <1>3, <2>8, SetImports
      <4> QED BY <4>1 DEF SetWrites
    <3>2. \A x \in Movement : Appeared(x) => movement'[x].type \in {"STOCK_IN", "ADJUSTMENT_OUT"}
      BY <3>1 DEF Appeared, Row
    <3> QED BY <3>2 DEF Edible
  <2> QED BY <1>3, <2>3, <2>4, <2>5, <2>6, <2>7, <2>8 DEF Operation
<1>4. ASSUME NEW item \in Item, SetActive(item) PROVE Edible BY <1>2, <1>4 DEF SetActive
<1>5. CASE Midnight BY <1>2, <1>5 DEF Midnight
<1> QED BY <1>3, <1>4, <1>5 DEF KitchenNext

(* Quantities are exact, whatever the items and the lots: allocateFefo()   *)
(* takes what was asked for, from the lots that expire first, and fails    *)
(* only when they hold less; an import with SET leaves what the file says; *)
(* a consumption takes nothing expired or durable.                         *)
THEOREM KitchenTakesExactly == KitchenSpec => QuantitiesAreExact
<1>1. KitchenInit => KitchenCounts BY KitchenStarts
<1>2. KitchenCounts /\ [KitchenNext]_kitchenVars => KitchenCounts' BY KitchenStays
<1>3. KitchenCounts => EarliestFirst /\ CoversExactly /\ SetLeavesTheCount
  BY FefoIsExact DEF KitchenCounts, KitchenInv, KitchenAddsUp
<1>4. KitchenCounts /\ [KitchenNext]_kitchenVars => [Edible]_kitchenVars
  BY StepsAreEdible DEF KitchenCounts
<1>5. KitchenSpec => [](EarliestFirst /\ CoversExactly /\ SetLeavesTheCount)
  BY <1>1, <1>2, <1>3, PTL DEF KitchenSpec
<1>6. KitchenSpec => [][Edible]_kitchenVars BY <1>1, <1>2, <1>4, PTL DEF KitchenSpec
<1>7. KitchenSpec => ConsumptionIsEdible BY <1>6 DEF ConsumptionIsEdible, Edible
<1> QED BY <1>5, <1>7 DEF QuantitiesAreExact
=============================================================================
