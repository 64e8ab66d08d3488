----------------------------- MODULE Inventory ------------------------------
(***************************************************************************)
(* The device inventory: physical units, the movements that change their   *)
(* status, the loans that hold them and the running kardex per device.     *)
(*                                                                         *)
(* Every operation below is one Serializable transaction of                *)
(* InventoryService and therefore one step; its retry loop and idempotency *)
(* key are the subject of module IdempotentRequests.                       *)
(*                                                                         *)
(* A movement's rows name the exact units they move and no unit twice, so  *)
(* a movement is the set of its units and the condition its row records    *)
(* for each.  Which of several eligible units the API picks (the lowest    *)
(* asset tags) is left open: a step may take any of them.                  *)
(***************************************************************************)
EXTENDS Integers, FiniteSets, Functions

(* The vocabulary, and the single bookkeeping rule: services/ledger.ts says*)
(* how much one movement row changes the AVAILABLE stock of its device.  A*)
(* row moves `quantity' physical units and names each of them, so the rule*)
(* is stated per unit: its sign times the quantity is the row's delta.   *)

\* The condition a row records.  "UNSET" is the column's NULL.
Condition == {"UNSET", "GOOD", "FAIR", "POOR", "BROKEN"}

\* DeviceUnitStatus, and "ABSENT" for a unit that is not registered yet.
UnitStatus == {"ABSENT", "AVAILABLE", "ON_LOAN", "DAMAGED", "IN_MAINTENANCE",
               "RETIRED"}

\* The movement types the HTTP routes can register (MovementTypeSchema and the
\* loan, return, revert and cancel handlers); "NONE" is no movement at all.
MovementType == {"STOCK_IN", "LOAN", "RETURN", "RETIREMENT", "MAINTENANCE_IN",
                 "MAINTENANCE_OUT", "REVERSAL"}

\* The status a unit takes when it comes back in the given condition.
ConditionToStatus(condition) ==
  IF condition \in {"UNSET", "GOOD", "FAIR"} THEN "AVAILABLE"
  ELSE IF condition = "BROKEN" THEN "RETIRED" ELSE "DAMAGED"

\* Mutant of DirectSign: retiring a DAMAGED unit takes it off the shelf again.
DirectSignNoPoorRetirement(type, condition) ==
  IF type = "STOCK_IN" THEN 1
  ELSE IF type \in {"LOAN", "MAINTENANCE_IN", "RETIREMENT"} THEN -1
  ELSE IF type \in {"RETURN", "MAINTENANCE_OUT"} /\ condition # "POOR" THEN 1
  ELSE 0

\* ledgerDelta of one unit for every type but REVERSAL.
DirectSign(type, condition) ==
  IF type = "STOCK_IN" THEN 1
  ELSE IF type \in {"LOAN", "MAINTENANCE_IN"} THEN -1
  ELSE IF condition = "POOR" THEN 0
  ELSE IF type \in {"RETURN", "MAINTENANCE_OUT"} THEN 1
  ELSE IF type = "RETIREMENT" THEN -1 ELSE 0

\* ledgerDelta for one unit; `source' is the type of the reversed movement.
LedgerSign(type, condition, source) ==
  IF type = "REVERSAL" THEN 0 - DirectSign(source, condition)
                       ELSE DirectSign(type, condition)

-----------------------------------------------------------------------------

CONSTANTS
  Device,             \* catalogue entries
  Unit,               \* physical units, registered or still to come
  DeviceOf,           \* the device a unit belongs to, for its whole life
  Movement, Loan, LoanItem,   \* row identifiers: bounds on what is recorded
  NoMovement, NoLoan,         \* the NULL of a foreign key
  MaintenanceInCondition,     \* conditions clients send with MAINTENANCE_IN
  ExitCondition,              \* conditions units come back in
  RowOrderMatches     \* items[0] and findFirst name rows of the same line

ASSUME ConstantsAssumption ==
  /\ IsFiniteSet(Unit) /\ IsFiniteSet(Movement)
  /\ DeviceOf \in [Unit -> Device]
  /\ NoMovement \notin Movement
  /\ NoLoan \notin Loan
  /\ Loan \cap UnitStatus = {}
  /\ MaintenanceInCondition \subseteq Condition
  /\ ExitCondition \subseteq Condition
  /\ RowOrderMatches \in BOOLEAN

VARIABLES
  status,      \* device_units.status
  movement,    \* movements with their items
  ledger,      \* per device, the sum of ledgerDelta over movement_items
  loan,        \* loans
  item         \* loan_items with their loan_item_units

vars == <<status, movement, ledger, loan, item>>

MovementRow == [type: MovementType \cup {"NONE"}, status: {"ACTIVE", "CANCELLED"},
                source: MovementType \cup {"NONE"},
                units: SUBSET Unit, condition: [Unit -> Condition]]

LoanStatus == {"NONE", "ACTIVE", "PARTIAL", "RETURNED", "CANCELLED"}

LoanRow == [status: LoanStatus, movement: Movement \cup {NoMovement}]

\* `open' and `back' are the item's units with returned = false and true.
ItemRow == [loan: Loan \cup {NoLoan}, quantity: Nat, returnedQuantity: Nat,
            open: SUBSET Unit, back: SUBSET Unit]

NoCondition == [u \in Unit |-> "UNSET"]

FreeMovement == [type |-> "NONE", status |-> "ACTIVE", source |-> "NONE",
                 units |-> {}, condition |-> NoCondition]

FreeLoan == [status |-> "NONE", movement |-> NoMovement]

FreeItem == [loan |-> NoLoan, quantity |-> 0, returnedQuantity |-> 0,
             open |-> {}, back |-> {}]

Init ==
  /\ status   = [u \in Unit |-> "ABSENT"]
  /\ movement = [m \in Movement |-> FreeMovement]
  /\ ledger   = [d \in Device |-> 0]
  /\ loan     = [l \in Loan |-> FreeLoan]
  /\ item     = [i \in LoanItem |-> FreeItem]

-----------------------------------------------------------------------------
(* Helpers shared by the operations.                                       *)

UnitsOf(d) == {u \in Unit : DeviceOf[u] = d}

SameDevice(units) == \A u, v \in units : DeviceOf[u] = DeviceOf[v]

IsFree(m) == movement[m].type = "NONE"

\* The row a movement leaves; conditions of units it does not move are NULL.
Row(type, source, units, condition) ==
  [type |-> type, status |-> "ACTIVE", source |-> source, units |-> units,
   condition |-> [u \in Unit |-> IF u \in units THEN condition[u] ELSE "UNSET"]]

Cancelled(row) == [row EXCEPT !.status = "CANCELLED"]

\* What the row adds to the kardex of device d.
LedgerDelta(d, row) ==
  Cardinality({u \in row.units \cap UnitsOf(d) :
                 LedgerSign(row.type, row.condition[u], row.source) = 1})
    - Cardinality({u \in row.units \cap UnitsOf(d) :
                     LedgerSign(row.type, row.condition[u], row.source) = -1})

\* transitionUnits: every unit must still be in `from', or nothing happens.
TransitionUnits(units, from, to) ==
  /\ \A u \in units : status[u] = from
  /\ status' = [u \in Unit |-> IF u \in units THEN to[u] ELSE status[u]]

Constantly(value) == [u \in Unit |-> value]

\* movement.create: one new row, and the kardex that results from it.
Record(m, row) ==
  /\ IsFree(m)
  /\ movement' = [movement EXCEPT ![m] = row]
  /\ ledger' = [d \in Device |-> ledger[d] + LedgerDelta(d, row)]

BrokenOf(units, condition) == {u \in units : condition[u] = "BROKEN"}

AutomaticRetirementRow(broken) ==
  Row("RETIREMENT", "NONE", broken, Constantly("BROKEN"))

\* The movement, and the automatic retirement of what came back broken.
RecordWithRetirement(m, r, row) ==
  LET broken == BrokenOf(row.units, row.condition)
  IN  IF broken = {}
      THEN Record(m, row)
      ELSE /\ m # r /\ IsFree(m) /\ IsFree(r)
           /\ movement' = [movement EXCEPT ![m] = row,
                                           ![r] = AutomaticRetirementRow(broken)]
           /\ ledger' = [d \in Device |-> ledger[d] + LedgerDelta(d, row)
                           + LedgerDelta(d, AutomaticRetirementRow(broken))]

ItemsOf(l) == {i \in LoanItem : item[i].loan = l}

IsOpen(l) == loan[l].status \in {"ACTIVE", "PARTIAL"}

-----------------------------------------------------------------------------
(* Movements.                                                              *)

\* movementEntry, and the initial stock of createDevice.
StockIn(m, units) ==
  /\ units # {}
  /\ TransitionUnits(units, "ABSENT", Constantly("AVAILABLE"))
  /\ Record(m, Row("STOCK_IN", "NONE", units, NoCondition))
  /\ UNCHANGED <<loan, item>>

\* movementRetirement drops whatever condition the request carries.
Retire(m, units) ==
  /\ units # {}
  /\ TransitionUnits(units, "AVAILABLE", Constantly("RETIRED"))
  /\ Record(m, Row("RETIREMENT", "NONE", units, NoCondition))
  /\ UNCHANGED <<loan, item>>

\* retireUnitForMaterialOutput; an already retired unit is left alone.
RetireUnitForMaterialOutput(m, u) ==
  /\ status[u] \in {"AVAILABLE", "DAMAGED"}
  /\ TransitionUnits({u}, status[u], Constantly("RETIRED"))
  /\ Record(m, Row("RETIREMENT", "NONE", {u},
                   Constantly(IF status[u] = "DAMAGED" THEN "POOR" ELSE "UNSET")))
  /\ UNCHANGED <<loan, item>>

\* movementMaintenanceIn keeps the condition the request carries.
MaintenanceIn(m, units, c) ==
  /\ TransitionUnits(units, "AVAILABLE", Constantly("IN_MAINTENANCE"))
  /\ Record(m, Row("MAINTENANCE_IN", "NONE", units, Constantly(c)))
  /\ UNCHANGED <<loan, item>>

\* movementMaintenanceOut: each unit leaves as its condition says.
MaintenanceOut(m, r, units, condition) ==
  /\ TransitionUnits(units, "IN_MAINTENANCE",
                     [u \in units |-> ConditionToStatus(condition[u])])
  /\ RecordWithRetirement(m, r, Row("MAINTENANCE_OUT", "NONE", units, condition))
  /\ UNCHANGED <<loan, item>>

\* Mutant of RevertedUnits: what came out broken is brought back as well.
RevertedUnitsAll(row) == row.units

\* The units and statuses movementReversion changes for the source row.
RevertedUnits(row) ==
  IF row.type = "MAINTENANCE_IN" THEN row.units
  ELSE row.units \ BrokenOf(row.units, row.condition)

LeftAs(row, u) ==
  IF row.type = "MAINTENANCE_IN" THEN "IN_MAINTENANCE"
                                 ELSE ConditionToStatus(row.condition[u])

BeforeIt(row) ==
  IF row.type = "MAINTENANCE_IN" THEN "AVAILABLE" ELSE "IN_MAINTENANCE"

\* movementReversion: only maintenance can be reverted, and only while its
\* units are still in the status it left.  The rows it records leave out the
\* BROKEN ones whatever the type of the source.
Revert(m, s) ==
  LET row == movement[s]
  IN  /\ row.type \in {"MAINTENANCE_IN", "MAINTENANCE_OUT"}
      /\ row.status = "ACTIVE"
      /\ \A u \in RevertedUnits(row) : status[u] = LeftAs(row, u)
      /\ status' = [u \in Unit |-> IF u \in RevertedUnits(row)
                                     THEN BeforeIt(row) ELSE status[u]]
      /\ IsFree(m)
      /\ LET reversal == Row("REVERSAL", row.type,
                             row.units \ BrokenOf(row.units, row.condition),
                             row.condition)
         IN  /\ movement' = [movement EXCEPT ![s] = Cancelled(row), ![m] = reversal]
             /\ ledger' = [d \in Device |-> ledger[d] + LedgerDelta(d, reversal)]
      /\ UNCHANGED <<loan, item>>

-----------------------------------------------------------------------------
(* Loans.                                                                  *)

\* movementLoan: `lines' gives each new item the units it lends.
Lend(m, l, lines) ==
  LET units == UNION {lines[i] : i \in DOMAIN lines}
  IN  /\ loan[l].status = "NONE"
      /\ DOMAIN lines # {}
      /\ \A i \in DOMAIN lines :
           /\ item[i].loan = NoLoan
           /\ lines[i] # {} /\ SameDevice(lines[i])
           /\ \A j \in DOMAIN lines \ {i} : lines[i] \cap lines[j] = {}
      /\ TransitionUnits(units, "AVAILABLE", Constantly("ON_LOAN"))
      /\ Record(m, Row("LOAN", "NONE", units, NoCondition))
      /\ loan' = [loan EXCEPT ![l] = [status |-> "ACTIVE", movement |-> m]]
      /\ item' = [i \in LoanItem |->
                    IF i \in DOMAIN lines
                    THEN [loan |-> l, quantity |-> Cardinality(lines[i]),
                          returnedQuantity |-> 0, open |-> lines[i], back |-> {}]
                    ELSE item[i]]

\* Mutant of Closing: the pending counter goes down instead of up.
ClosingDown(i, units) ==
  LET arrived == item[i].open \cap units
  IN  [loan |-> item[i].loan, quantity |-> item[i].quantity,
       returnedQuantity |-> item[i].returnedQuantity - Cardinality(arrived),
       open |-> item[i].open \ arrived, back |-> item[i].back \cup arrived]

\* Mutant of Closing: the units are not marked as returned.
ClosingCountersOnly(i, units) ==
  [item[i] EXCEPT !.returnedQuantity = @ + Cardinality(item[i].open \cap units)]

\* The item once the units in `units' have come back.
Closing(i, units) ==
  LET arrived == item[i].open \cap units
  IN  [loan |-> item[i].loan, quantity |-> item[i].quantity,
       returnedQuantity |-> item[i].returnedQuantity + Cardinality(arrived),
       open |-> item[i].open \ arrived, back |-> item[i].back \cup arrived]

\* movementLoanReturn: the loan's status is derived from its updated items.
ReturnLoan(m, r, l, units, condition) ==
  /\ IsOpen(l)
  /\ units # {}
  /\ units \subseteq UNION {item[i].open : i \in ItemsOf(l)}
  /\ TransitionUnits(units, "ON_LOAN",
                     [u \in units |-> ConditionToStatus(condition[u])])
  /\ item' = [i \in LoanItem |-> IF i \in ItemsOf(l) THEN Closing(i, units)
                                                     ELSE item[i]]
  /\ loan' = [loan EXCEPT ![l].status =
                IF \A i \in ItemsOf(l) :
                     item'[i].returnedQuantity >= item'[i].quantity
                THEN "RETURNED"
                ELSE IF \E i \in ItemsOf(l) : item'[i].returnedQuantity > 0
                     THEN "PARTIAL" ELSE "ACTIVE"]
  /\ RecordWithRetirement(m, r, Row("RETURN", "NONE", units, condition))

\* Mutant of Rewritten: the units handed in stay on the movement.
RewrittenAppending(row, replaced, units) == [row EXCEPT !.units = @ \cup units]

\* The LOAN movement once one of its rows names `units' instead of `replaced'.
Rewritten(row, replaced, units) == [row EXCEPT !.units = (@ \ replaced) \cup units]

\* updateLoan with a resource change: item i (items[0]) hands its units in and
\* takes `units'.  The LOAN movement's row that is rewritten is the one
\* findFirst returns, the row of item j: nothing in the query makes it i's.
UpdateLoan(l, i, j, units) ==
  LET m == loan[l].movement
      replaced == item[j].open
  IN  /\ IsOpen(l)
      /\ {i, j} \subseteq ItemsOf(l)
      /\ RowOrderMatches => i = j
      /\ \A k \in ItemsOf(l) : item[k].returnedQuantity = 0
      /\ units # {} /\ SameDevice(units)
      /\ \A u \in item[i].open : status[u] = "ON_LOAN"
      /\ \A u \in units : u \in item[i].open \/ status[u] = "AVAILABLE"
      /\ status' = [u \in Unit |-> IF u \in units THEN "ON_LOAN"
                                   ELSE IF u \in item[i].open THEN "AVAILABLE"
                                   ELSE status[u]]
      /\ item' = [item EXCEPT ![i].open = units, ![i].quantity = Cardinality(units)]
      /\ movement' = [movement EXCEPT ![m] = Rewritten(movement[m], replaced, units)]
      /\ ledger' = [d \in Device |->
                      ledger[d] + Cardinality(replaced \cap UnitsOf(d))
                                - Cardinality(units \cap UnitsOf(d))]
      /\ UNCHANGED loan

\* cancelLoan: what is still out comes back and a REVERSAL of the LOAN names it.
CancelLoan(m, l) ==
  LET pending == UNION {item[i].open : i \in ItemsOf(l)}
      reversal == Row("REVERSAL", "LOAN", pending, NoCondition)
  IN  /\ IsOpen(l)
      /\ TransitionUnits(pending, "ON_LOAN", Constantly("AVAILABLE"))
      /\ item' = [i \in LoanItem |->
                    IF i \in ItemsOf(l)
                    THEN [loan |-> l, quantity |-> item[i].quantity,
                          returnedQuantity |-> item[i].quantity,
                          open |-> {}, back |-> item[i].back \cup item[i].open]
                    ELSE item[i]]
      /\ IsFree(m)
      /\ movement' = [x \in Movement |->
                        IF x = loan[l].movement THEN Cancelled(movement[x])
                        ELSE IF x = m /\ pending # {} THEN reversal
                        ELSE movement[x]]
      /\ ledger' = [d \in Device |-> ledger[d] + LedgerDelta(d, reversal)]
      /\ loan' = [loan EXCEPT ![l].status = "CANCELLED"]

-----------------------------------------------------------------------------

Lines == UNION {[S -> SUBSET Unit] : S \in SUBSET LoanItem}

\* The condition of a maintenance exit may be left out, a return's may not.
ReturnCondition == ExitCondition \ {"UNSET"}

Next ==
  \/ \E m \in Movement, units \in SUBSET Unit : StockIn(m, units)
  \/ \E m \in Movement, units \in SUBSET Unit : Retire(m, units)
  \/ \E m \in Movement, u \in Unit : RetireUnitForMaterialOutput(m, u)
  \/ \E m \in Movement, units \in SUBSET Unit, c \in MaintenanceInCondition :
       MaintenanceIn(m, units, c)
  \/ \E m, r \in Movement, units \in SUBSET Unit :
       \E condition \in [units -> ExitCondition] : MaintenanceOut(m, r, units, condition)
  \/ \E m, s \in Movement : Revert(m, s)
  \/ \E m \in Movement, l \in Loan, lines \in Lines : Lend(m, l, lines)
  \/ \E m, r \in Movement, l \in Loan, units \in SUBSET Unit :
       \E condition \in [units -> ReturnCondition] :
         ReturnLoan(m, r, l, units, condition)
  \/ \E l \in Loan, i, j \in LoanItem, units \in SUBSET Unit :
       UpdateLoan(l, i, j, units)
  \/ \E m \in Movement, l \in Loan : CancelLoan(m, l)

Spec == Init /\ [][Next]_vars

-----------------------------------------------------------------------------
(* What makes the inventory correct: the rules of inventory-audit.service. *)

\* Every table holds well-formed rows.
TypeOK ==
  /\ status \in [Unit -> UnitStatus]
  /\ movement \in [Movement -> MovementRow]
  /\ ledger \in [Device -> Int]
  /\ loan \in [Loan -> LoanRow]
  /\ item \in [LoanItem -> ItemRow]

AvailableOf(d) == {u \in UnitsOf(d) : status[u] = "AVAILABLE"}

\* LEDGER_MISMATCH: adding up ledgerDelta over the movements of a device gives
\* exactly its available units (ledger.ts promises it for every history).
LedgerMatchesStock ==
  \A d \in Device : ledger[d] = Cardinality(AvailableOf(d))

\* UNIT_IN_MULTIPLE_OPEN_LOANS, OPEN_LOAN_UNIT_NOT_ON_LOAN and
\* ON_LOAN_UNIT_WITHOUT_LOAN: a unit is ON_LOAN exactly when one and only one
\* loan item still waits for it, whatever was edited, returned or cancelled.
LentUnitsHaveOneLoan ==
  /\ \A u \in Unit : status[u] = "ON_LOAN" <=> \E i \in LoanItem : u \in item[i].open
  /\ \A i, j \in LoanItem : i # j => item[i].open \cap item[j].open = {}

DerivedStatus(l) ==
  IF \A i \in ItemsOf(l) : item[i].returnedQuantity >= item[i].quantity THEN "RETURNED"
  ELSE IF \E i \in ItemsOf(l) : item[i].returnedQuantity > 0 THEN "PARTIAL"
  ELSE "ACTIVE"

\* LOAN_ITEM_PENDING_MISMATCH, CLOSED_LOAN_WITH_OPEN_UNITS and
\* LOAN_STATUS_MISMATCH: the counters of an item, the units it waits for and
\* the status of its loan tell the same story.
LoanStatusMatchesItems ==
  /\ \A i \in LoanItem :
       item[i].quantity - item[i].returnedQuantity = Cardinality(item[i].open)
  /\ \A l \in Loan : loan[l].status \in {"RETURNED", "CANCELLED"} =>
       \A i \in ItemsOf(l) : item[i].open = {}
  /\ \A l \in Loan : loan[l].status \notin {"NONE", "CANCELLED"} =>
       loan[l].status = DerivedStatus(l)

\* updateLoan keeps "el movimiento PRESTAMO consistente": the LOAN movement
\* names exactly the units the loan's items lent, and is cancelled with it.
LoanMovementNamesItsUnits ==
  \A l \in Loan : loan[l].status # "NONE" =>
    LET m == loan[l].movement IN
    /\ m \in Movement
    /\ movement[m].type = "LOAN"
    /\ movement[m].units = UNION {item[i].open \cup item[i].back : i \in ItemsOf(l)}
    /\ movement[m].status = "CANCELLED" <=> loan[l].status = "CANCELLED"

StillActive(type, u) ==
  {m \in Movement : /\ movement[m].type = type /\ movement[m].status = "ACTIVE"
                    /\ u \in movement[m].units}

\* However entries, exits and reversals interleave, a unit in use is in the
\* workshop exactly when one more entry than exits of it stands unreverted.
MaintenanceIsBalanced ==
  \A u \in Unit : status[u] # "RETIRED" =>
    Cardinality(StillActive("MAINTENANCE_IN", u))
      = Cardinality(StillActive("MAINTENANCE_OUT", u))
          + (IF status[u] = "IN_MAINTENANCE" THEN 1 ELSE 0)

\* The running kardex is what stockLedger and ledgerByDevice recompute: the sum
\* of ledgerDelta over every movement row of the device as it stands now.
KardexIsTheSum ==
  \A d \in Device :
    ledger[d] = SumFunctionOnSet([m \in Movement |-> LedgerDelta(d, movement[m])], Movement)

\* The books the inventory keeps agree: the kardex with its rows, the counters
\* and the status of a loan with its lines, its LOAN movement with the units
\* that are out, and maintenance with its entries (updateLoan, closeLoanItem,
\* reverseMovement, transitionUnits).
BooksAgree ==
  /\ KardexIsTheSum
  /\ LoanStatusMatchesItems
  /\ LoanMovementNamesItsUnits
  /\ MaintenanceIsBalanced

\* No step reopens a closed loan or touches its items, or revives a cancelled
\* movement or rewrites its rows.
ClosedIsFinal ==
  [][/\ \A l \in Loan : loan[l].status \in {"RETURNED", "CANCELLED"} =>
          /\ loan'[l] = loan[l]
          /\ \A i \in ItemsOf(l) : item'[i] = item[i]
     /\ \A m \in Movement : movement[m].status = "CANCELLED" => movement'[m] = movement[m]]_vars

\* Where each unit is, for Custody: with its loan while it is ON_LOAN.
PlaceOf ==
  [u \in Unit |->
     IF status[u] = "ON_LOAN"
     THEN item[CHOOSE i \in LoanItem : u \in item[i].open].loan
     ELSE status[u]]

BookOf ==
  [l \in Loan |-> IF loan[l].status = "NONE" THEN "blank"
                  ELSE IF loan[l].status \in {"ACTIVE", "PARTIAL"} THEN "open"
                  ELSE "closed"]

Abstract == INSTANCE Custody WITH place <- PlaceOf, book <- BookOf

\* Every operation is one legal move of Custody: loans hand units only to and
\* from the shelf, never to each other, and close with their last unit.
ImplementsCustody == Abstract!Spec

\* No sequence of operations moves a unit, a loan or a movement in a way that
\* the life of a unit does not have: closed rows stay closed and every step is
\* a step of Custody (transitionUnits, closeLoanItem, reverseMovement).
StepsAreLegal == ClosedIsFinal /\ ImplementsCustody
=============================================================================
