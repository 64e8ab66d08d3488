-------------------------- MODULE InventoryProofs ---------------------------
(***************************************************************************)
(* Proofs about Inventory for every number of devices, units, movements    *)
(* and loans.                                                              *)
(***************************************************************************)
EXTENDS Inventory, Sums, TLAPS

-----------------------------------------------------------------------------
(* Facts about the helpers.                                                *)

\* A set of units is finite, so counting it gives a natural number.
LEMMA UnitsAreCounted ==
  ASSUME NEW S, S \subseteq Unit
  PROVE  IsFiniteSet(S) /\ Cardinality(S) \in Nat
BY ConstantsAssumption, FS_Subset, FS_CardinalityType

\* A row is well formed whenever its type, source and conditions are.
LEMMA RowType ==
  ASSUME NEW type \in MovementType, NEW source \in MovementType \cup {"NONE"},
         NEW units \in SUBSET Unit, NEW condition,
         \A u \in units : condition[u] \in Condition
  PROVE  Row(type, source, units, condition) \in MovementRow
BY DEF Row, MovementRow, Condition

\* What a row adds to a kardex is an integer.
LEMMA LedgerDeltaType ==
  ASSUME NEW d \in Device, NEW row \in MovementRow
  PROVE  LedgerDelta(d, row) \in Int
<1> DEFINE Plus == {u \in row.units \cap UnitsOf(d) :
                      LedgerSign(row.type, row.condition[u], row.source) = 1}
           Minus == {u \in row.units \cap UnitsOf(d) :
                       LedgerSign(row.type, row.condition[u], row.source) = -1}
<1>1. Plus \subseteq Unit /\ Minus \subseteq Unit
  BY DEF UnitsOf
<1>2. Cardinality(Plus) \in Nat /\ Cardinality(Minus) \in Nat
  BY <1>1, UnitsAreCounted
<1> QED
  BY <1>2 DEF LedgerDelta

\* conditionToStatus() names one of three statuses.
LEMMA ConditionToStatusType ==
  ASSUME NEW c \in Condition
  PROVE  ConditionToStatus(c) \in {"AVAILABLE", "DAMAGED", "RETIRED"}
BY DEF ConditionToStatus, Condition

\* transitionUnits leaves every unit with a status.
LEMMA TransitionType ==
  ASSUME TypeOK, NEW units \in SUBSET Unit, NEW from, NEW to,
         \A u \in units : to[u] \in UnitStatus,
         TransitionUnits(units, from, to)
  PROVE  status' \in [Unit -> UnitStatus]
BY DEF TransitionUnits, TypeOK

\* One recorded row keeps the tables of movements and the kardex well formed.
LEMMA RecordType ==
  ASSUME TypeOK, NEW m \in Movement, NEW row \in MovementRow, Record(m, row)
  PROVE  movement' \in [Movement -> MovementRow] /\ ledger' \in [Device -> Int]
<1>1. movement' \in [Movement -> MovementRow]
  BY DEF Record, TypeOK
<1>2. \A d \in Device : ledger[d] + LedgerDelta(d, row) \in Int
  BY LedgerDeltaType DEF TypeOK
<1> QED
  BY <1>1, <1>2 DEF Record

\* The row of an automatic retirement is well formed.
LEMMA RetirementRowType ==
  ASSUME NEW broken \in SUBSET Unit
  PROVE  AutomaticRetirementRow(broken) \in MovementRow
<1>1. \A u \in broken : Constantly("BROKEN")[u] \in Condition
  BY DEF Constantly, Condition
<1> QED
  BY <1>1, RowType DEF AutomaticRetirementRow, MovementType

\* So do a row and the automatic retirement of its broken units.
LEMMA RecordWithRetirementType ==
  ASSUME TypeOK, NEW m \in Movement, NEW r \in Movement, NEW row \in MovementRow,
         RecordWithRetirement(m, r, row)
  PROVE  movement' \in [Movement -> MovementRow] /\ ledger' \in [Device -> Int]
<1> DEFINE broken == BrokenOf(row.units, row.condition)
<1>1. CASE broken = {}
  BY <1>1, RecordType DEF RecordWithRetirement
<1>2. CASE broken # {}
  <2>1. AutomaticRetirementRow(broken) \in MovementRow
    BY RetirementRowType DEF BrokenOf, MovementRow
  <2>2. movement' \in [Movement -> MovementRow]
    BY <1>2, <2>1 DEF RecordWithRetirement, TypeOK
  <2>3. \A d \in Device : ledger[d] + LedgerDelta(d, row)
                            + LedgerDelta(d, AutomaticRetirementRow(broken)) \in Int
    BY <2>1, LedgerDeltaType DEF TypeOK
  <2> QED
    BY <1>2, <2>2, <2>3 DEF RecordWithRetirement
<1> QED
  BY <1>1, <1>2

-----------------------------------------------------------------------------
(* Type correctness.                                                       *)

\* The empty database is well typed.
LEMMA TypeInit == Init => TypeOK
BY ConstantsAssumption
   DEF Init, TypeOK, FreeMovement, FreeLoan, FreeItem, MovementRow, LoanRow,
       LoanStatus, ItemRow, UnitStatus, NoCondition, Condition

\* Every operation of InventoryService keeps the tables well typed.
LEMMA TypeNext == TypeOK /\ [Next]_vars => TypeOK'
<1> SUFFICES ASSUME TypeOK, [Next]_vars PROVE TypeOK'
  OBVIOUS
<1>0. /\ \A u \in Unit : NoCondition[u] \in Condition
      /\ \A c \in Condition, u \in Unit : Constantly(c)[u] \in Condition
      /\ \A s \in UnitStatus, u \in Unit : Constantly(s)[u] \in UnitStatus
  BY DEF NoCondition, Constantly, Condition
<1>s. {"AVAILABLE", "DAMAGED", "RETIRED", "IN_MAINTENANCE", "ON_LOAN"} \subseteq UnitStatus
  BY DEF UnitStatus
<1>1. ASSUME NEW m \in Movement, NEW units \in SUBSET Unit, StockIn(m, units)
      PROVE  TypeOK'
  <2>1. Row("STOCK_IN", "NONE", units, NoCondition) \in MovementRow
    BY <1>0, RowType DEF MovementType
  <2>2. status' \in [Unit -> UnitStatus]
    BY <1>0, <1>1, <1>s, TransitionType DEF StockIn
  <2> QED
    BY <1>1, <2>1, <2>2, RecordType DEF StockIn, TypeOK
<1>2. ASSUME NEW m \in Movement, NEW units \in SUBSET Unit, Retire(m, units)
      PROVE  TypeOK'
  <2>1. Row("RETIREMENT", "NONE", units, NoCondition) \in MovementRow
    BY <1>0, RowType DEF MovementType
  <2>2. status' \in [Unit -> UnitStatus]
    BY <1>0, <1>2, <1>s, TransitionType DEF Retire
  <2> QED
    BY <1>2, <2>1, <2>2, RecordType DEF Retire, TypeOK
<1>3. ASSUME NEW m \in Movement, NEW u \in Unit, RetireUnitForMaterialOutput(m, u)
      PROVE  TypeOK'
  <2> DEFINE c == IF status[u] = "DAMAGED" THEN "POOR" ELSE "UNSET"
  <2>0. c \in Condition
    BY DEF Condition
  <2>1. Row("RETIREMENT", "NONE", {u}, Constantly(c)) \in MovementRow
    BY <1>0, <2>0, RowType DEF MovementType
  <2>2. status' \in [Unit -> UnitStatus]
    <3>1. \A v \in {u} : Constantly("RETIRED")[v] \in UnitStatus
      BY <1>0, <1>s
    <3>2. TransitionUnits({u}, status[u], Constantly("RETIRED"))
      BY <1>3 DEF RetireUnitForMaterialOutput
    <3> HIDE DEF c
    <3> QED
      BY <3>1, <3>2, TransitionType
  <2> QED
    BY <1>3, <2>1, <2>2, RecordType DEF RetireUnitForMaterialOutput, TypeOK
<1>4. ASSUME NEW m \in Movement, NEW units \in SUBSET Unit,
             NEW c \in MaintenanceInCondition, MaintenanceIn(m, units, c)
      PROVE  TypeOK'
  <2>1. Row("MAINTENANCE_IN", "NONE", units, Constantly(c)) \in MovementRow
    BY <1>0, RowType, ConstantsAssumption DEF MovementType
  <2>2. status' \in [Unit -> UnitStatus]
    BY <1>0, <1>4, <1>s, TransitionType DEF MaintenanceIn
  <2> QED
    BY <1>4, <2>1, <2>2, RecordType DEF MaintenanceIn, TypeOK
<1>5. ASSUME NEW m \in Movement, NEW r \in Movement, NEW units \in SUBSET Unit,
             NEW condition \in [units -> ExitCondition],
             MaintenanceOut(m, r, units, condition)
      PROVE  TypeOK'
  <2>0. \A u \in units : condition[u] \in Condition
    BY ConstantsAssumption
  <2>1. Row("MAINTENANCE_OUT", "NONE", units, condition) \in MovementRow
    BY <2>0, RowType DEF MovementType
  <2>2. \A u \in units : [v \in units |-> ConditionToStatus(condition[v])][u] \in UnitStatus
    BY <2>0, <1>s, ConditionToStatusType
  <2>3. status' \in [Unit -> UnitStatus]
    BY <1>5, <2>2, TransitionType DEF MaintenanceOut
  <2> QED
    BY <1>5, <2>1, <2>3, RecordWithRetirementType DEF MaintenanceOut, TypeOK
<1>6. ASSUME NEW m \in Movement, NEW s \in Movement, Revert(m, s)
      PROVE  TypeOK'
  <2> DEFINE row == movement[s]
             kept == row.units \ BrokenOf(row.units, row.condition)
             reversal == Row("REVERSAL", row.type, kept, row.condition)
  <2>1. row \in MovementRow
    BY DEF TypeOK
  <2>2. reversal \in MovementRow
    <3>1. \A u \in kept : row.condition[u] \in Condition
      BY <2>1 DEF MovementRow
    <3>2. row.type \in MovementType \cup {"NONE"} /\ kept \in SUBSET Unit
      BY <2>1 DEF MovementRow
    <3> QED
      BY <3>1, <3>2, RowType DEF MovementType
  <2>3. movement' \in [Movement -> MovementRow]
    BY <1>6, <2>1, <2>2 DEF Revert, Cancelled, TypeOK, MovementRow
  <2>4. \A d \in Device : ledger[d] + LedgerDelta(d, reversal) \in Int
    BY <2>2, LedgerDeltaType DEF TypeOK
  <2>5. ledger' \in [Device -> Int]
    BY <1>6, <2>4 DEF Revert
  <2>6. status' \in [Unit -> UnitStatus]
    BY <1>6, <1>s DEF Revert, BeforeIt, TypeOK
  <2> QED
    BY <1>6, <2>3, <2>5, <2>6 DEF Revert, TypeOK
<1>7. ASSUME NEW m \in Movement, NEW l \in Loan, NEW lines \in Lines, Lend(m, l, lines)
      PROVE  TypeOK'
  <2> DEFINE units == UNION {lines[i] : i \in DOMAIN lines}
  <2>0. \A i \in DOMAIN lines : lines[i] \in SUBSET Unit
    BY DEF Lines
  <2>1. units \in SUBSET Unit
    BY <2>0
  <2>2. Row("LOAN", "NONE", units, NoCondition) \in MovementRow
    BY <1>0, <2>1, RowType DEF MovementType
  <2>3. status' \in [Unit -> UnitStatus]
    BY <1>0, <1>7, <1>s, <2>1, TransitionType DEF Lend
  <2>4. loan' \in [Loan -> LoanRow]
    BY <1>7 DEF Lend, TypeOK, LoanRow, LoanStatus
  <2>5. \A i \in DOMAIN lines :
          [loan |-> l, quantity |-> Cardinality(lines[i]), returnedQuantity |-> 0,
           open |-> lines[i], back |-> {}] \in ItemRow
    BY <2>0, UnitsAreCounted DEF ItemRow
  <2>6. item' \in [LoanItem -> ItemRow]
    BY <1>7, <2>5 DEF Lend, TypeOK
  <2> QED
    BY <1>7, <2>2, <2>3, <2>4, <2>6, RecordType DEF Lend, TypeOK
<1>8. ASSUME NEW m \in Movement, NEW r \in Movement, NEW l \in Loan,
             NEW units \in SUBSET Unit, NEW condition \in [units -> ReturnCondition],
             ReturnLoan(m, r, l, units, condition)
      PROVE  TypeOK'
  <2>0. \A u \in units : condition[u] \in Condition
    BY ConstantsAssumption DEF ReturnCondition
  <2>1. Row("RETURN", "NONE", units, condition) \in MovementRow
    BY <2>0, RowType DEF MovementType
  <2>2. \A u \in units : [v \in units |-> ConditionToStatus(condition[v])][u] \in UnitStatus
    BY <2>0, <1>s, ConditionToStatusType
  <2>3. status' \in [Unit -> UnitStatus]
    BY <1>8, <2>2, TransitionType DEF ReturnLoan
  <2>4. \A i \in LoanItem : Closing(i, units) \in ItemRow
    <3> SUFFICES ASSUME NEW i \in LoanItem PROVE Closing(i, units) \in ItemRow
      OBVIOUS
    <3>1. item[i] \in ItemRow
      BY DEF TypeOK
    <3>2. Cardinality(item[i].open \cap units) \in Nat
      BY UnitsAreCounted
    <3> QED
      BY <3>1, <3>2 DEF Closing, ItemRow
  <2>5. item' \in [LoanItem -> ItemRow]
    BY <1>8, <2>4 DEF ReturnLoan, TypeOK
  <2>6. loan' \in [Loan -> LoanRow]
    <3> DEFINE s == IF \A i \in ItemsOf(l) : item'[i].returnedQuantity >= item'[i].quantity
                    THEN "RETURNED"
                    ELSE IF \E i \in ItemsOf(l) : item'[i].returnedQuantity > 0
                         THEN "PARTIAL" ELSE "ACTIVE"
    <3>1. s \in LoanStatus
      BY DEF LoanStatus
    <3>2. loan' = [loan EXCEPT ![l].status = s]
      BY <1>8 DEF ReturnLoan
    <3> HIDE DEF s
    <3> QED
      BY <3>1, <3>2 DEF TypeOK, LoanRow
  <2> QED
    BY <1>8, <2>1, <2>3, <2>5, <2>6, RecordWithRetirementType DEF ReturnLoan, TypeOK
<1>9. ASSUME NEW l \in Loan, NEW i \in LoanItem, NEW j \in LoanItem,
             NEW units \in SUBSET Unit, UpdateLoan(l, i, j, units)
      PROVE  TypeOK'
  <2>1. status' \in [Unit -> UnitStatus]
    BY <1>9, <1>s DEF UpdateLoan, TypeOK
  <2>2. item' \in [LoanItem -> ItemRow]
    BY ZenonT(30), <1>9, UnitsAreCounted DEF UpdateLoan, TypeOK, ItemRow
  <2>3. movement' \in [Movement -> MovementRow]
    <3>1. item[j].open \in SUBSET Unit
      BY DEF TypeOK, ItemRow
    <3>2. \A m \in Movement : [movement[m] EXCEPT !.units = (@ \ item[j].open) \cup units]
                                \in MovementRow
      BY <3>1 DEF TypeOK, MovementRow
    <3> QED
      BY <1>9, <3>2 DEF UpdateLoan, Rewritten, TypeOK
  <2>4. ledger' \in [Device -> Int]
    <3>1. \A d \in Device : /\ Cardinality(item[j].open \cap UnitsOf(d)) \in Nat
                            /\ Cardinality(units \cap UnitsOf(d)) \in Nat
      BY UnitsAreCounted DEF UnitsOf
    <3> QED
      BY <1>9, <3>1 DEF UpdateLoan, TypeOK
  <2> QED
    BY <1>9, <2>1, <2>2, <2>3, <2>4 DEF UpdateLoan, TypeOK
<1>10. ASSUME NEW m \in Movement, NEW l \in Loan, CancelLoan(m, l)
       PROVE  TypeOK'
  <2> DEFINE pending == UNION {item[i].open : i \in ItemsOf(l)}
             reversal == Row("REVERSAL", "LOAN", pending, NoCondition)
  <2>1. pending \in SUBSET Unit
    BY DEF TypeOK, ItemRow, ItemsOf
  <2>2. reversal \in MovementRow
    BY <1>0, <2>1, RowType DEF MovementType
  <2>3. status' \in [Unit -> UnitStatus]
    BY <1>0, <1>10, <1>s, <2>1, TransitionType DEF CancelLoan
  <2>4. movement' \in [Movement -> MovementRow]
    <3>1. \A x \in Movement : Cancelled(movement[x]) \in MovementRow
      BY DEF Cancelled, TypeOK, MovementRow
    <3> QED
      BY <1>10, <2>2, <3>1 DEF CancelLoan, TypeOK
  <2>5. \A d \in Device : ledger[d] + LedgerDelta(d, reversal) \in Int
    BY <2>2, LedgerDeltaType DEF TypeOK
  <2>6. ledger' \in [Device -> Int]
    BY <1>10, <2>5 DEF CancelLoan
  <2>7. loan' \in [Loan -> LoanRow]
    BY <1>10 DEF CancelLoan, TypeOK, LoanRow, LoanStatus
  <2>8. item' \in [LoanItem -> ItemRow]
    BY <1>10 DEF CancelLoan, TypeOK, ItemRow
  <2> QED
    BY <2>3, <2>4, <2>6, <2>7, <2>8 DEF TypeOK
<1>11. CASE UNCHANGED vars
  BY <1>11 DEF vars, TypeOK
<1> QED
  BY <1>1, <1>2, <1>3, <1>4, <1>5, <1>6, <1>7, <1>8, <1>9, <1>10, <1>11 DEF Next

\* Whatever sequence of operations runs, every table keeps well-formed rows.
THEOREM TypeCorrect == Spec => []TypeOK
BY TypeInit, TypeNext, PTL DEF Spec

-----------------------------------------------------------------------------
(* The kardex equals the stock.  Each step takes a set of units off the     *)
(* shelf and puts another one on it; the rows it records have to add up to *)
(* the difference.                                                         *)

\* Taking L out of A and adding the disjoint G changes its size by |G| - |L|.
LEMMA SwapCount ==
  ASSUME NEW A \in SUBSET Unit, NEW L \in SUBSET A, NEW G \in SUBSET Unit,
         G \cap A = {}
  PROVE  Cardinality((A \ L) \cup G) = Cardinality(A) + Cardinality(G) - Cardinality(L)
<1>1. /\ IsFiniteSet(A) /\ IsFiniteSet(L) /\ IsFiniteSet(G) /\ IsFiniteSet(A \ L)
      /\ Cardinality(A) \in Nat /\ Cardinality(L) \in Nat /\ Cardinality(G) \in Nat
      /\ Cardinality(A \ L) \in Nat
  <2>1. L \subseteq Unit /\ (A \ L) \subseteq Unit
    OBVIOUS
  <2> QED
    BY <2>1, UnitsAreCounted
<1>2. Cardinality(A \ L) = Cardinality(A) - Cardinality(L)
  <2>1. A \cap L = L
    OBVIOUS
  <2> QED
    BY <1>1, <2>1, FS_Difference
<1>3. Cardinality((A \ L) \cup G) = Cardinality(A \ L) + Cardinality(G)
  <2>1. (A \ L) \cap G = {}
    OBVIOUS
  <2>2. Cardinality((A \ L) \cup G)
          = Cardinality(A \ L) + Cardinality(G) - Cardinality((A \ L) \cap G)
    BY <1>1, FS_Union
  <2>3. Cardinality((A \ L) \cap G) = 0
    BY <2>1, FS_EmptySet
  <2> QED
    BY <1>1, <2>2, <2>3
<1> QED
  BY <1>1, <1>2, <1>3

\* The kardex of d stays exact in a step that takes the units L of d off the
\* shelf, puts the units G on it and records |G| - |L|.
LEMMA KardexStep ==
  ASSUME TypeOK, NEW d \in Device, ledger[d] = Cardinality(AvailableOf(d)),
         NEW L \in SUBSET AvailableOf(d), NEW G \in SUBSET UnitsOf(d),
         G \cap AvailableOf(d) = {},
         AvailableOf(d)' = (AvailableOf(d) \ L) \cup G,
         ledger'[d] = ledger[d] + (Cardinality(G) - Cardinality(L))
  PROVE  ledger'[d] = Cardinality(AvailableOf(d)')
<1>1. AvailableOf(d) \in SUBSET Unit /\ G \in SUBSET Unit
  BY DEF AvailableOf, UnitsOf
<1>2. Cardinality(AvailableOf(d)') = Cardinality(AvailableOf(d)) + Cardinality(G) - Cardinality(L)
  BY <1>1, SwapCount
<1>3. Cardinality(AvailableOf(d)) \in Nat /\ Cardinality(G) \in Nat /\ Cardinality(L) \in Nat
  BY <1>1, UnitsAreCounted
<1> QED
  BY <1>2, <1>3

\* Two special cases: units only come, or only go.
LEMMA OnTheShelf ==
  ASSUME TypeOK, NEW d \in Device, ledger[d] = Cardinality(AvailableOf(d)),
         NEW G \in SUBSET UnitsOf(d), G \cap AvailableOf(d) = {},
         AvailableOf(d)' = AvailableOf(d) \cup G,
         ledger'[d] = ledger[d] + Cardinality(G)
  PROVE  ledger'[d] = Cardinality(AvailableOf(d)')
<1>1. {} \in SUBSET AvailableOf(d) /\ AvailableOf(d)' = (AvailableOf(d) \ {}) \cup G
  OBVIOUS
<1>2. Cardinality(G) \in Nat /\ Cardinality({}) = 0
  BY UnitsAreCounted, FS_EmptySet DEF UnitsOf
<1>3. ledger'[d] = ledger[d] + (Cardinality(G) - Cardinality({}))
  BY <1>2
<1> QED
  BY <1>1, <1>3, KardexStep

\* Units that only leave the shelf.
LEMMA OffTheShelf ==
  ASSUME TypeOK, NEW d \in Device, ledger[d] = Cardinality(AvailableOf(d)),
         NEW L \in SUBSET AvailableOf(d),
         AvailableOf(d)' = AvailableOf(d) \ L,
         ledger'[d] = ledger[d] + (0 - Cardinality(L))
  PROVE  ledger'[d] = Cardinality(AvailableOf(d)')
<1>1. /\ {} \in SUBSET UnitsOf(d) /\ {} \cap AvailableOf(d) = {}
      /\ AvailableOf(d)' = (AvailableOf(d) \ L) \cup {}
  OBVIOUS
<1>2. Cardinality({}) = 0
  BY FS_EmptySet
<1>3. ledger'[d] = ledger[d] + (Cardinality({}) - Cardinality(L))
  BY <1>2
<1> QED
  BY <1>1, <1>3, KardexStep

\* The delta of a row is a count of the units it gives minus those it takes.
LEMMA DeltaOf ==
  ASSUME NEW d \in Device, NEW row, NEW G, NEW L,
         G = {u \in row.units \cap UnitsOf(d) :
                LedgerSign(row.type, row.condition[u], row.source) = 1},
         L = {u \in row.units \cap UnitsOf(d) :
                LedgerSign(row.type, row.condition[u], row.source) = -1}
  PROVE  LedgerDelta(d, row) = Cardinality(G) - Cardinality(L)
BY DEF LedgerDelta

\* A row whose units all count +1 adds their number to the kardex.
LEMMA AllGained ==
  ASSUME NEW d \in Device, NEW type, NEW source, NEW units \in SUBSET Unit,
         NEW condition,
         \A u \in units : LedgerSign(type, condition[u], source) = 1
  PROVE  LedgerDelta(d, Row(type, source, units, condition)) = Cardinality(units \cap UnitsOf(d))
<1> DEFINE row == Row(type, source, units, condition)
           U == units \cap UnitsOf(d)
<1>1. /\ row.units = units /\ row.type = type /\ row.source = source
      /\ \A u \in units : row.condition[u] = condition[u]
  BY DEF Row
<1>2. Cardinality({}) = 0 /\ Cardinality(U) \in Nat
  BY UnitsAreCounted, FS_EmptySet
<1> HIDE DEF row
<1>3. /\ U = {u \in row.units \cap UnitsOf(d) :
                LedgerSign(row.type, row.condition[u], row.source) = 1}
      /\ {} = {u \in row.units \cap UnitsOf(d) :
                 LedgerSign(row.type, row.condition[u], row.source) = -1}
  BY <1>1
<1>4. LedgerDelta(d, row) = Cardinality(U) - Cardinality({})
  BY <1>3, DeltaOf
<1> QED
  BY <1>2, <1>4 DEF row

\* A row whose units all count -1 takes their number off the kardex.
LEMMA AllTaken ==
  ASSUME NEW d \in Device, NEW type, NEW source, NEW units \in SUBSET Unit,
         NEW condition,
         \A u \in units : LedgerSign(type, condition[u], source) = -1
  PROVE  LedgerDelta(d, Row(type, source, units, condition))
           = 0 - Cardinality(units \cap UnitsOf(d))
<1> DEFINE row == Row(type, source, units, condition)
           U == units \cap UnitsOf(d)
<1>1. /\ row.units = units /\ row.type = type /\ row.source = source
      /\ \A u \in units : row.condition[u] = condition[u]
  BY DEF Row
<1>2. Cardinality({}) = 0 /\ Cardinality(U) \in Nat
  BY UnitsAreCounted, FS_EmptySet
<1> HIDE DEF row
<1>3. /\ {} = {u \in row.units \cap UnitsOf(d) :
                 LedgerSign(row.type, row.condition[u], row.source) = 1}
      /\ U = {u \in row.units \cap UnitsOf(d) :
                LedgerSign(row.type, row.condition[u], row.source) = -1}
  BY <1>1
<1>4. LedgerDelta(d, row) = Cardinality({}) - Cardinality(U)
  BY <1>3, DeltaOf
<1> QED
  BY <1>2, <1>4 DEF row

\* What comes back in several conditions: the row and the automatic retirement
\* of the broken units together add exactly the units that end AVAILABLE.
LEMMA ReturnDelta ==
  ASSUME TypeOK, NEW d \in Device, NEW m \in Movement, NEW r \in Movement,
         NEW type \in {"RETURN", "MAINTENANCE_OUT"}, NEW units \in SUBSET Unit,
         NEW condition, \A u \in units : condition[u] \in Condition,
         RecordWithRetirement(m, r, Row(type, "NONE", units, condition))
  PROVE  ledger'[d] = ledger[d] +
           Cardinality({u \in units \cap UnitsOf(d) :
                          ConditionToStatus(condition[u]) = "AVAILABLE"})
<1> DEFINE row == Row(type, "NONE", units, condition)
           broken == BrokenOf(row.units, row.condition)
           good == {u \in units \cap UnitsOf(d) :
                      ConditionToStatus(condition[u]) = "AVAILABLE"}
           gain == {u \in units \cap UnitsOf(d) : condition[u] # "POOR"}
           worn == broken \cap UnitsOf(d)
<1>1. /\ row.units = units /\ row.type = type /\ row.source = "NONE"
      /\ \A u \in units : row.condition[u] = condition[u]
  BY DEF Row
<1>2. broken = {u \in units : condition[u] = "BROKEN"}
  <2> HIDE DEF row
  <2> QED
    BY <1>1 DEF BrokenOf
<1>3. LedgerDelta(d, row) = Cardinality(gain) - Cardinality({})
  <2> HIDE DEF row
  <2>1. \A u \in units : /\ LedgerSign(type, condition[u], "NONE") = 1
                           <=> condition[u] # "POOR"
                         /\ LedgerSign(type, condition[u], "NONE") # -1
    BY DEF LedgerSign, DirectSign
  <2>2. gain = {u \in row.units \cap UnitsOf(d) :
                  LedgerSign(row.type, row.condition[u], row.source) = 1}
    BY <1>1, <2>1
  <2>3. {} = {u \in row.units \cap UnitsOf(d) :
                LedgerSign(row.type, row.condition[u], row.source) = -1}
    BY <1>1, <2>1
  <2> QED
    BY <2>2, <2>3, DeltaOf
<1>4. LedgerDelta(d, AutomaticRetirementRow(broken)) = 0 - Cardinality(worn)
  <2>1. broken \in SUBSET Unit
    BY <1>2
  <2>2. \A u \in broken : LedgerSign("RETIREMENT", Constantly("BROKEN")[u], "NONE") = -1
    BY <2>1 DEF LedgerSign, DirectSign, Constantly
  <2> HIDE DEF broken
  <2> QED
    BY <2>1, <2>2, AllTaken DEF AutomaticRetirementRow
<1>5. Cardinality(good) = Cardinality(gain) - Cardinality(worn)
  <2>1. good = (gain \ worn) \cup {} /\ worn \in SUBSET gain
    <3> HIDE DEF broken
    <3> QED
      BY <1>2 DEF ConditionToStatus, Condition
  <2>2. gain \in SUBSET Unit
    OBVIOUS
  <2> HIDE DEF gain, worn, good
  <2>3. Cardinality(good) = Cardinality(gain) + Cardinality({}) - Cardinality(worn)
    <3>1. {} \in SUBSET Unit /\ {} \cap gain = {}
      OBVIOUS
    <3> QED
      BY <2>1, <2>2, <3>1, SwapCount
  <2>4. Cardinality({}) = 0 /\ Cardinality(gain) \in Nat
    BY <2>2, FS_EmptySet, UnitsAreCounted
  <2>5. worn \subseteq Unit
    BY <2>1, <2>2
  <2>6. Cardinality(worn) \in Nat
    BY <2>5, UnitsAreCounted
  <2> QED
    BY <2>3, <2>4, <2>6
<1>6. /\ Cardinality({}) = 0 /\ Cardinality(gain) \in Nat /\ Cardinality(worn) \in Nat
      /\ ledger[d] \in Int
  <2>1. gain \subseteq Unit /\ worn \subseteq Unit
    BY <1>2
  <2> QED
    BY <2>1, FS_EmptySet, UnitsAreCounted DEF TypeOK
<1>7. CASE broken = {}
  <2>1. Cardinality(worn) = 0
    BY <1>7, FS_EmptySet
  <2>2. ledger'[d] = ledger[d] + LedgerDelta(d, row)
    BY <1>7 DEF RecordWithRetirement, Record
  <2> HIDE DEF good, gain, worn, broken, row
  <2> QED
    BY <1>3, <1>5, <1>6, <2>1, <2>2 DEF good
<1>8. CASE broken # {}
  <2>1. ledger'[d] = ledger[d] + LedgerDelta(d, row)
                       + LedgerDelta(d, AutomaticRetirementRow(broken))
    BY <1>8 DEF RecordWithRetirement
  <2> HIDE DEF good, gain, worn, broken, row
  <2> QED
    BY <1>3, <1>4, <1>5, <1>6, <2>1 DEF good
<1> QED
  BY <1>7, <1>8

\* The two circumstances in which the kardex is exact: no client declares units
\* BROKEN when it sends them to maintenance, and updateLoan's two unordered
\* queries return rows of the same line.  Runs show that both are needed.
SoundUse == "BROKEN" \notin MaintenanceInCondition /\ RowOrderMatches

\* movementReversion leaves BROKEN rows out, so entries must not hold any.
EntriesNotBroken ==
  \A m \in Movement : movement[m].type = "MAINTENANCE_IN" =>
    \A u \in Unit : movement[m].condition[u] # "BROKEN"

KardexInv == TypeOK /\ EntriesNotBroken /\ LedgerMatchesStock

\* The kardex of the empty database is exact.
LEMMA KardexInit == Init => KardexInv
<1> SUFFICES ASSUME Init PROVE EntriesNotBroken /\ LedgerMatchesStock
  BY TypeInit DEF KardexInv
<1>1. EntriesNotBroken
  BY DEF Init, EntriesNotBroken, FreeMovement
<1>2. \A d \in Device : AvailableOf(d) = {}
  BY DEF Init, AvailableOf, UnitsOf
<1> QED
  BY <1>1, <1>2, FS_EmptySet DEF Init, LedgerMatchesStock

\* Recording a row that is no maintenance entry keeps the entries unbroken.
LEMMA EntriesRecord ==
  ASSUME TypeOK, EntriesNotBroken, NEW m \in Movement, NEW row,
         row.type # "MAINTENANCE_IN", Record(m, row)
  PROVE  EntriesNotBroken'
BY DEF Record, TypeOK, EntriesNotBroken

\* Recording an exit, with its automatic retirement, adds no entry row.
LEMMA EntriesRecordWithRetirement ==
  ASSUME TypeOK, EntriesNotBroken, NEW m \in Movement, NEW r \in Movement, NEW row,
         row.type # "MAINTENANCE_IN", RecordWithRetirement(m, r, row)
  PROVE  EntriesNotBroken'
<1> DEFINE broken == BrokenOf(row.units, row.condition)
<1>1. CASE broken = {}
  BY <1>1, EntriesRecord DEF RecordWithRetirement
<1>2. CASE broken # {}
  <2>1. AutomaticRetirementRow(broken).type # "MAINTENANCE_IN"
    BY DEF AutomaticRetirementRow, Row
  <2>2. movement' = [movement EXCEPT ![m] = row, ![r] = AutomaticRetirementRow(broken)]
    BY <1>2 DEF RecordWithRetirement
  <2> HIDE DEF broken
  <2> QED
    BY <2>1, <2>2 DEF TypeOK, EntriesNotBroken
<1> QED
  BY <1>1, <1>2

\* No operation records an entry of broken units when clients send none.
LEMMA EntriesNext ==
  ASSUME TypeOK, EntriesNotBroken, SoundUse, [Next]_vars
  PROVE  EntriesNotBroken'
<1>1. ASSUME NEW m \in Movement, NEW units \in SUBSET Unit, StockIn(m, units)
      PROVE  EntriesNotBroken'
  BY <1>1, EntriesRecord DEF StockIn, Row
<1>2. ASSUME NEW m \in Movement, NEW units \in SUBSET Unit, Retire(m, units)
      PROVE  EntriesNotBroken'
  BY <1>2, EntriesRecord DEF Retire, Row
<1>3. ASSUME NEW m \in Movement, NEW u \in Unit, RetireUnitForMaterialOutput(m, u)
      PROVE  EntriesNotBroken'
  BY <1>3, EntriesRecord DEF RetireUnitForMaterialOutput, Row
<1>4. ASSUME NEW m \in Movement, NEW units \in SUBSET Unit,
             NEW c \in MaintenanceInCondition, MaintenanceIn(m, units, c)
      PROVE  EntriesNotBroken'
  <2>1. \A u \in Unit : Row("MAINTENANCE_IN", "NONE", units, Constantly(c)).condition[u]
                           # "BROKEN"
    BY DEF Row, Constantly, SoundUse
  <2> QED
    BY <1>4, <2>1 DEF MaintenanceIn, Record, TypeOK, EntriesNotBroken
<1>5. ASSUME NEW m \in Movement, NEW r \in Movement, NEW units \in SUBSET Unit,
             NEW condition \in [units -> ExitCondition],
             MaintenanceOut(m, r, units, condition)
      PROVE  EntriesNotBroken'
  <2>1. Row("MAINTENANCE_OUT", "NONE", units, condition).type # "MAINTENANCE_IN"
    BY DEF Row
  <2> QED
    BY <1>5, <2>1, EntriesRecordWithRetirement DEF MaintenanceOut
<1>6. ASSUME NEW m \in Movement, NEW s \in Movement, Revert(m, s)
      PROVE  EntriesNotBroken'
  BY <1>6 DEF Revert, Row, Cancelled, TypeOK, MovementRow, EntriesNotBroken
<1>7. ASSUME NEW m \in Movement, NEW l \in Loan, NEW lines \in Lines, Lend(m, l, lines)
      PROVE  EntriesNotBroken'
  BY <1>7, EntriesRecord DEF Lend, Row
<1>8. ASSUME NEW m \in Movement, NEW r \in Movement, NEW l \in Loan,
             NEW units \in SUBSET Unit, NEW condition \in [units -> ReturnCondition],
             ReturnLoan(m, r, l, units, condition)
      PROVE  EntriesNotBroken'
  <2>1. Row("RETURN", "NONE", units, condition).type # "MAINTENANCE_IN"
    BY DEF Row
  <2> QED
    BY <1>8, <2>1, EntriesRecordWithRetirement DEF ReturnLoan
<1>9. ASSUME NEW l \in Loan, NEW i \in LoanItem, NEW j \in LoanItem,
             NEW units \in SUBSET Unit, UpdateLoan(l, i, j, units)
      PROVE  EntriesNotBroken'
  BY <1>9 DEF UpdateLoan, Rewritten, TypeOK, MovementRow, EntriesNotBroken
<1>10. ASSUME NEW m \in Movement, NEW l \in Loan, CancelLoan(m, l)
       PROVE  EntriesNotBroken'
  BY <1>10 DEF CancelLoan, Row, Cancelled, TypeOK, MovementRow, EntriesNotBroken
<1>11. CASE UNCHANGED vars
  BY <1>11 DEF vars, EntriesNotBroken
<1> QED
  BY <1>1, <1>2, <1>3, <1>4, <1>5, <1>6, <1>7, <1>8, <1>9, <1>10, <1>11 DEF Next

\* Every operation adds to the kardex exactly what it adds to the shelf.
LEMMA KardexNext ==
  ASSUME TypeOK, EntriesNotBroken, LedgerMatchesStock, SoundUse, [Next]_vars
  PROVE  LedgerMatchesStock'
<1> SUFFICES ASSUME NEW d \in Device PROVE ledger'[d] = Cardinality(AvailableOf(d)')
  BY DEF LedgerMatchesStock
<1>0. /\ ledger[d] = Cardinality(AvailableOf(d)) /\ ledger[d] \in Int
      /\ Cardinality({}) = 0
  BY FS_EmptySet DEF LedgerMatchesStock, TypeOK
<1>c. \A S \in SUBSET Unit : Cardinality(S \cap UnitsOf(d)) \in Nat
  BY UnitsAreCounted DEF UnitsOf
<1>1. ASSUME NEW m \in Movement, NEW units \in SUBSET Unit, StockIn(m, units)
      PROVE  ledger'[d] = Cardinality(AvailableOf(d)')
  <2> DEFINE G == units \cap UnitsOf(d)
  <2>1. \A u \in units : LedgerSign("STOCK_IN", NoCondition[u], "NONE") = 1
    BY DEF LedgerSign, DirectSign
  <2>2. ledger'[d] = ledger[d] + Cardinality(G)
    BY <1>0, <1>1, <1>c, <2>1, AllGained DEF StockIn, Record
  <2>3. /\ G \cap AvailableOf(d) = {}
        /\ AvailableOf(d)' = AvailableOf(d) \cup G
    BY <1>1 DEF StockIn, TransitionUnits, Constantly, AvailableOf, UnitsOf
  <2> QED
    BY <1>0, <2>2, <2>3, OnTheShelf
<1>2. ASSUME NEW m \in Movement, NEW units \in SUBSET Unit, Retire(m, units)
      PROVE  ledger'[d] = Cardinality(AvailableOf(d)')
  <2> DEFINE L == units \cap UnitsOf(d)
  <2>1. \A u \in units : LedgerSign("RETIREMENT", NoCondition[u], "NONE") = -1
    BY DEF LedgerSign, DirectSign, NoCondition
  <2>2. ledger'[d] = ledger[d] + (0 - Cardinality(L))
    BY <1>0, <1>2, <1>c, <2>1, AllTaken DEF Retire, Record
  <2>3. /\ L \in SUBSET AvailableOf(d)
        /\ AvailableOf(d)' = AvailableOf(d) \ L
    BY <1>2 DEF Retire, TransitionUnits, Constantly, AvailableOf, UnitsOf
  <2> QED
    BY <1>0, <2>2, <2>3, OffTheShelf
<1>3. ASSUME NEW m \in Movement, NEW u \in Unit, RetireUnitForMaterialOutput(m, u)
      PROVE  ledger'[d] = Cardinality(AvailableOf(d)')
  <2> DEFINE L == {v \in {u} \cap UnitsOf(d) : status[v] = "AVAILABLE"}
             c == Constantly(IF status[u] = "DAMAGED" THEN "POOR" ELSE "UNSET")
             row == Row("RETIREMENT", "NONE", {u}, c)
  <2>1. /\ row.units = {u} /\ row.type = "RETIREMENT"
        /\ row.condition[u] = IF status[u] = "DAMAGED" THEN "POOR" ELSE "UNSET"
    BY DEF Row, Constantly
  <2>2. LedgerDelta(d, row) = 0 - Cardinality(L)
    <3> HIDE DEF row
    <3>1. status[u] \in {"AVAILABLE", "DAMAGED"}
      BY <1>3 DEF RetireUnitForMaterialOutput
    <3>2. {} = {v \in row.units \cap UnitsOf(d) :
                  LedgerSign(row.type, row.condition[v], row.source) = 1}
      BY <2>1, <3>1 DEF LedgerSign, DirectSign
    <3>3. L = {v \in row.units \cap UnitsOf(d) :
                 LedgerSign(row.type, row.condition[v], row.source) = -1}
      BY <2>1, <3>1 DEF LedgerSign, DirectSign
    <3> QED
      BY <1>0, <3>2, <3>3, DeltaOf
  <2>3. ledger'[d] = ledger[d] + (0 - Cardinality(L))
    BY <1>3, <2>2 DEF RetireUnitForMaterialOutput, Record
  <2>4. /\ L \in SUBSET AvailableOf(d)
        /\ AvailableOf(d)' = AvailableOf(d) \ L
    BY <1>3 DEF RetireUnitForMaterialOutput, TransitionUnits, Constantly, AvailableOf, UnitsOf
  <2> QED
    BY <1>0, <2>3, <2>4, OffTheShelf
<1>4. ASSUME NEW m \in Movement, NEW units \in SUBSET Unit,
             NEW c \in MaintenanceInCondition, MaintenanceIn(m, units, c)
      PROVE  ledger'[d] = Cardinality(AvailableOf(d)')
  <2> DEFINE L == units \cap UnitsOf(d)
  <2>1. \A u \in units : LedgerSign("MAINTENANCE_IN", Constantly(c)[u], "NONE") = -1
    BY DEF LedgerSign, DirectSign
  <2>2. ledger'[d] = ledger[d] + (0 - Cardinality(L))
    BY <1>0, <1>4, <1>c, <2>1, AllTaken DEF MaintenanceIn, Record
  <2>3. /\ L \in SUBSET AvailableOf(d)
        /\ AvailableOf(d)' = AvailableOf(d) \ L
    BY <1>4 DEF MaintenanceIn, TransitionUnits, Constantly, AvailableOf, UnitsOf
  <2> QED
    BY <1>0, <2>2, <2>3, OffTheShelf
<1>5. ASSUME NEW m \in Movement, NEW r \in Movement, NEW units \in SUBSET Unit,
             NEW condition \in [units -> ExitCondition],
             MaintenanceOut(m, r, units, condition)
      PROVE  ledger'[d] = Cardinality(AvailableOf(d)')
  <2> DEFINE G == {u \in units \cap UnitsOf(d) :
                     ConditionToStatus(condition[u]) = "AVAILABLE"}
  <2>1. \A u \in units : condition[u] \in Condition
    BY ConstantsAssumption
  <2>2. ledger'[d] = ledger[d] + Cardinality(G)
    BY <1>5, <2>1, ReturnDelta DEF MaintenanceOut
  <2>3. /\ G \cap AvailableOf(d) = {}
        /\ AvailableOf(d)' = AvailableOf(d) \cup G
    BY <1>5 DEF MaintenanceOut, TransitionUnits, AvailableOf, UnitsOf
  <2> QED
    BY <1>0, <2>2, <2>3, OnTheShelf
<1>6. ASSUME NEW m \in Movement, NEW s \in Movement, Revert(m, s)
      PROVE  ledger'[d] = Cardinality(AvailableOf(d)')
  <2> DEFINE row == movement[s]
             kept == row.units \ BrokenOf(row.units, row.condition)
             reversal == Row("REVERSAL", row.type, kept, row.condition)
  <2>0. row \in MovementRow /\ row.units \subseteq Unit /\ kept \in SUBSET Unit
    BY DEF TypeOK, MovementRow
  <2>1. ledger'[d] = ledger[d] + LedgerDelta(d, reversal)
    BY <1>6 DEF Revert
  <2>2. CASE row.type = "MAINTENANCE_IN"
    <3> DEFINE G == kept \cap UnitsOf(d)
    <3>1. kept = row.units /\ RevertedUnits(row) = row.units
      BY <2>0, <2>2 DEF EntriesNotBroken, BrokenOf, RevertedUnits
    <3>2. \A u \in kept : LedgerSign("REVERSAL", row.condition[u], row.type) = 1
      <4>1. \A c : DirectSign("MAINTENANCE_IN", c) = -1
        BY DEF DirectSign
      <4> QED
        BY <2>2, <4>1 DEF LedgerSign
    <3>3. ledger'[d] = ledger[d] + Cardinality(G)
      <4> HIDE DEF row, kept
      <4> QED
        BY <1>0, <1>c, <2>0, <2>1, <3>2, AllGained
    <3>4. /\ G \cap AvailableOf(d) = {}
          /\ AvailableOf(d)' = AvailableOf(d) \cup G
      BY <1>6, <2>2, <3>1 DEF Revert, LeftAs, BeforeIt, AvailableOf, UnitsOf
    <3> QED
      BY <1>0, <3>3, <3>4, OnTheShelf
  <2>3. CASE row.type = "MAINTENANCE_OUT"
    <3> DEFINE L == {u \in kept \cap UnitsOf(d) :
                       ConditionToStatus(row.condition[u]) = "AVAILABLE"}
    <3>1. RevertedUnits(row) = kept
      BY <2>3 DEF RevertedUnits
    <3>2. /\ reversal.units = kept /\ reversal.type = "REVERSAL"
          /\ reversal.source = row.type
          /\ \A u \in kept : reversal.condition[u] = row.condition[u]
      BY <2>0 DEF Row
    <3>3. \A u \in kept : /\ row.condition[u] \in Condition
                          /\ row.condition[u] # "BROKEN"
      BY <2>0 DEF MovementRow, BrokenOf
    <3>4. LedgerDelta(d, reversal) = 0 - Cardinality(L)
      <4> HIDE DEF reversal, row, kept
      <4>1. \A u \in kept : /\ LedgerSign("REVERSAL", row.condition[u], row.type) # 1
                            /\ LedgerSign("REVERSAL", row.condition[u], row.type) = -1
                                 <=> ConditionToStatus(row.condition[u]) = "AVAILABLE"
        BY <2>3, <3>3 DEF LedgerSign, DirectSign, ConditionToStatus, Condition
      <4>2. {} = {u \in reversal.units \cap UnitsOf(d) :
                    LedgerSign(reversal.type, reversal.condition[u], reversal.source) = 1}
        BY <3>2, <4>1
      <4>3. L = {u \in reversal.units \cap UnitsOf(d) :
                   LedgerSign(reversal.type, reversal.condition[u], reversal.source) = -1}
        BY <3>2, <4>1
      <4> QED
        BY <1>0, <4>2, <4>3, DeltaOf
    <3>5. /\ L \in SUBSET AvailableOf(d)
          /\ AvailableOf(d)' = AvailableOf(d) \ L
      BY <1>6, <2>0, <2>3, <3>1 DEF Revert, LeftAs, BeforeIt, AvailableOf, UnitsOf
    <3> QED
      BY <1>0, <2>1, <3>4, <3>5, OffTheShelf
  <2> QED
    BY <1>6, <2>2, <2>3 DEF Revert
<1>7. ASSUME NEW m \in Movement, NEW l \in Loan, NEW lines \in Lines, Lend(m, l, lines)
      PROVE  ledger'[d] = Cardinality(AvailableOf(d)')
  <2> DEFINE units == UNION {lines[i] : i \in DOMAIN lines}
             L == units \cap UnitsOf(d)
  <2>0. units \in SUBSET Unit
    BY DEF Lines
  <2>1. \A u \in units : LedgerSign("LOAN", NoCondition[u], "NONE") = -1
    BY DEF LedgerSign, DirectSign
  <2>2. ledger'[d] = ledger[d] + LedgerDelta(d, Row("LOAN", "NONE", units, NoCondition))
    BY <1>7 DEF Lend, Record
  <2>3. TransitionUnits(units, "AVAILABLE", Constantly("ON_LOAN"))
    BY <1>7 DEF Lend
  <2> HIDE DEF units
  <2>4. ledger'[d] = ledger[d] + (0 - Cardinality(L))
    BY <1>0, <1>c, <2>0, <2>1, <2>2, AllTaken
  <2>5. /\ L \in SUBSET AvailableOf(d)
        /\ AvailableOf(d)' = AvailableOf(d) \ L
    BY <2>0, <2>3 DEF TransitionUnits, Constantly, AvailableOf, UnitsOf
  <2> QED
    BY <1>0, <2>4, <2>5, OffTheShelf
<1>8. ASSUME NEW m \in Movement, NEW r \in Movement, NEW l \in Loan,
             NEW units \in SUBSET Unit, NEW condition \in [units -> ReturnCondition],
             ReturnLoan(m, r, l, units, condition)
      PROVE  ledger'[d] = Cardinality(AvailableOf(d)')
  <2> DEFINE G == {u \in units \cap UnitsOf(d) :
                     ConditionToStatus(condition[u]) = "AVAILABLE"}
  <2>1. \A u \in units : condition[u] \in Condition
    BY ConstantsAssumption DEF ReturnCondition
  <2>2. ledger'[d] = ledger[d] + Cardinality(G)
    BY <1>8, <2>1, ReturnDelta DEF ReturnLoan
  <2>3. TransitionUnits(units, "ON_LOAN", [u \in units |-> ConditionToStatus(condition[u])])
    BY <1>8 DEF ReturnLoan
  <2>4. /\ G \cap AvailableOf(d) = {}
        /\ AvailableOf(d)' = AvailableOf(d) \cup G
    BY <2>3 DEF TransitionUnits, AvailableOf, UnitsOf
  <2> QED
    BY <1>0, <2>2, <2>4, OnTheShelf
<1>9. ASSUME NEW l \in Loan, NEW i \in LoanItem, NEW j \in LoanItem,
             NEW units \in SUBSET Unit, UpdateLoan(l, i, j, units)
      PROVE  ledger'[d] = Cardinality(AvailableOf(d)')
  <2> DEFINE held == item[i].open
             G == (held \ units) \cap UnitsOf(d)
             L == (units \ held) \cap UnitsOf(d)
             H == held \cap UnitsOf(d)
             N == units \cap UnitsOf(d)
  <2>1. i = j /\ held \in SUBSET Unit
    BY <1>9 DEF UpdateLoan, SoundUse, TypeOK, ItemRow
  <2>2. ledger'[d] = ledger[d] + Cardinality(H) - Cardinality(N)
    BY <1>9, <2>1 DEF UpdateLoan
  <2>3. Cardinality(N) = Cardinality(H) + Cardinality(L) - Cardinality(G)
    <3>1. N = (H \ G) \cup L /\ G \in SUBSET H /\ L \cap H = {}
      OBVIOUS
    <3>2. H \in SUBSET Unit /\ L \in SUBSET Unit
      BY <2>1
    <3> HIDE DEF H, G, L, N
    <3> QED
      BY <3>1, <3>2, SwapCount
  <2>4. /\ Cardinality(H) \in Nat /\ Cardinality(N) \in Nat
        /\ Cardinality(G) \in Nat /\ Cardinality(L) \in Nat
    <3>1. held \ units \in SUBSET Unit /\ units \ held \in SUBSET Unit
      BY <2>1
    <3> QED
      BY <1>c, <2>1, <3>1
  <2>5. /\ L \in SUBSET AvailableOf(d) /\ G \cap AvailableOf(d) = {}
        /\ AvailableOf(d)' = (AvailableOf(d) \ L) \cup G
    BY <1>9, <2>1 DEF UpdateLoan, AvailableOf, UnitsOf
  <2>6. G \in SUBSET UnitsOf(d)
    OBVIOUS
  <2> HIDE DEF H, G, L, N
  <2>7. ledger'[d] = ledger[d] + (Cardinality(G) - Cardinality(L))
    BY <1>0, <2>2, <2>3, <2>4
  <2> QED
    BY <1>0, <2>5, <2>6, <2>7, KardexStep
<1>10. ASSUME NEW m \in Movement, NEW l \in Loan, CancelLoan(m, l)
       PROVE  ledger'[d] = Cardinality(AvailableOf(d)')
  <2> DEFINE pending == UNION {item[i].open : i \in ItemsOf(l)}
             G == pending \cap UnitsOf(d)
  <2>0. pending \in SUBSET Unit
    BY DEF TypeOK, ItemRow, ItemsOf
  <2>1. \A u \in pending : LedgerSign("REVERSAL", NoCondition[u], "LOAN") = 1
    <3>1. \A c : DirectSign("LOAN", c) = -1
      BY DEF DirectSign
    <3> QED
      BY <3>1 DEF LedgerSign
  <2>2. ledger'[d] = ledger[d] + LedgerDelta(d, Row("REVERSAL", "LOAN", pending, NoCondition))
    BY <1>10 DEF CancelLoan
  <2>3. TransitionUnits(pending, "ON_LOAN", Constantly("AVAILABLE"))
    BY <1>10 DEF CancelLoan
  <2> HIDE DEF pending
  <2>4. ledger'[d] = ledger[d] + Cardinality(G)
    BY <1>0, <1>c, <2>0, <2>1, <2>2, AllGained
  <2>5. /\ G \cap AvailableOf(d) = {}
        /\ AvailableOf(d)' = AvailableOf(d) \cup G
    BY <2>0, <2>3 DEF TransitionUnits, Constantly, AvailableOf, UnitsOf
  <2> QED
    BY <1>0, <2>4, <2>5, OnTheShelf
<1>11. CASE UNCHANGED vars
  BY <1>0, <1>11 DEF vars, AvailableOf
<1> QED
  BY <1>1, <1>2, <1>3, <1>4, <1>5, <1>6, <1>7, <1>8, <1>9, <1>10, <1>11 DEF Next

\* The kardex never drifts from the shelf: over any history of stock entries,
\* loans, edits, returns, cancellations, maintenance, reversals and
\* retirements, ledger.ts adds up to exactly the AVAILABLE units.
THEOREM KardexIsExact == SoundUse => (Spec => []LedgerMatchesStock)
<1> SUFFICES ASSUME SoundUse PROVE Spec => []LedgerMatchesStock
  OBVIOUS
<1>1. KardexInv /\ [Next]_vars => KardexInv'
  BY TypeNext, EntriesNext, KardexNext DEF KardexInv
<1>2. KardexInv => LedgerMatchesStock
  BY DEF KardexInv
<1> QED
  BY <1>1, <1>2, KardexInit, PTL DEF Spec

-----------------------------------------------------------------------------
(* Lent units.                                                             *)

\* A row of loan_items that no loan has used yet waits for nothing.
FreshItemsHoldNothing ==
  \A i \in LoanItem : item[i].loan = NoLoan => item[i].open = {}

LoanInv == TypeOK /\ FreshItemsHoldNothing /\ LentUnitsHaveOneLoan

\* A step that leaves the loan items alone and neither takes a unit out of
\* ON_LOAN nor puts one there keeps the loans consistent.
LEMMA LoansUntouched ==
  ASSUME TypeOK, LoanInv, item' = item,
         \A u \in Unit : status'[u] = "ON_LOAN" <=> status[u] = "ON_LOAN"
  PROVE  FreshItemsHoldNothing' /\ LentUnitsHaveOneLoan'
BY DEF LoanInv, FreshItemsHoldNothing, LentUnitsHaveOneLoan

\* No operation puts a unit into the open part of two loan items.
LEMMA LoanInvNext == LoanInv /\ [Next]_vars => LoanInv'
<1> SUFFICES ASSUME LoanInv, [Next]_vars
             PROVE  FreshItemsHoldNothing' /\ LentUnitsHaveOneLoan'
  BY TypeNext DEF LoanInv
<1>0. TypeOK
  BY DEF LoanInv
<1>1. ASSUME NEW m \in Movement, NEW units \in SUBSET Unit, StockIn(m, units)
      PROVE  FreshItemsHoldNothing' /\ LentUnitsHaveOneLoan'
  BY <1>0, <1>1, LoansUntouched DEF StockIn, TransitionUnits, Constantly
<1>2. ASSUME NEW m \in Movement, NEW units \in SUBSET Unit, Retire(m, units)
      PROVE  FreshItemsHoldNothing' /\ LentUnitsHaveOneLoan'
  BY <1>0, <1>2, LoansUntouched DEF Retire, TransitionUnits, Constantly
<1>3. ASSUME NEW m \in Movement, NEW u \in Unit, RetireUnitForMaterialOutput(m, u)
      PROVE  FreshItemsHoldNothing' /\ LentUnitsHaveOneLoan'
  BY <1>0, <1>3, LoansUntouched DEF RetireUnitForMaterialOutput, TransitionUnits, Constantly
<1>4. ASSUME NEW m \in Movement, NEW units \in SUBSET Unit,
             NEW c \in MaintenanceInCondition, MaintenanceIn(m, units, c)
      PROVE  FreshItemsHoldNothing' /\ LentUnitsHaveOneLoan'
  BY <1>0, <1>4, LoansUntouched DEF MaintenanceIn, TransitionUnits, Constantly
<1>5. ASSUME NEW m \in Movement, NEW r \in Movement, NEW units \in SUBSET Unit,
             NEW condition \in [units -> ExitCondition],
             MaintenanceOut(m, r, units, condition)
      PROVE  FreshItemsHoldNothing' /\ LentUnitsHaveOneLoan'
  <2>1. \A u \in units : ConditionToStatus(condition[u]) # "ON_LOAN"
    BY ConstantsAssumption, ConditionToStatusType
  <2> QED
    BY <1>0, <1>5, <2>1, LoansUntouched DEF MaintenanceOut, TransitionUnits
<1>6. ASSUME NEW m \in Movement, NEW s \in Movement, Revert(m, s)
      PROVE  FreshItemsHoldNothing' /\ LentUnitsHaveOneLoan'
  <2>1. \A u \in RevertedUnits(movement[s]) : LeftAs(movement[s], u) # "ON_LOAN"
    <3>1. \A u \in RevertedUnits(movement[s]) : movement[s].condition[u] \in Condition
      BY <1>0 DEF RevertedUnits, TypeOK, MovementRow
    <3> QED
      BY <3>1, ConditionToStatusType DEF LeftAs
  <2>2. BeforeIt(movement[s]) # "ON_LOAN"
    BY DEF BeforeIt
  <2>3. \A u \in RevertedUnits(movement[s]) : status[u] # "ON_LOAN" /\ status'[u] # "ON_LOAN"
    BY <1>0, <1>6, <2>1, <2>2 DEF Revert, RevertedUnits, TypeOK, MovementRow
  <2>4. \A u \in Unit \ RevertedUnits(movement[s]) : status'[u] = status[u]
    BY <1>6 DEF Revert
  <2>5. item' = item
    BY <1>6 DEF Revert
  <2> QED
    BY <1>0, <2>3, <2>4, <2>5, LoansUntouched
<1>7. ASSUME NEW m \in Movement, NEW l \in Loan, NEW lines \in Lines, Lend(m, l, lines)
      PROVE  FreshItemsHoldNothing' /\ LentUnitsHaveOneLoan'
  <2> DEFINE S == DOMAIN lines
             units == UNION {lines[i] : i \in S}
  <2>1. /\ S \subseteq LoanItem
        /\ \A i \in S : lines[i] \subseteq Unit
    BY DEF Lines
  <2>2. /\ \A u \in units : status[u] = "AVAILABLE" /\ status'[u] = "ON_LOAN"
        /\ \A u \in Unit \ units : status'[u] = status[u]
    BY <1>7, <2>1 DEF Lend, TransitionUnits, Constantly
  <2>3. /\ \A i \in S : item'[i].open = lines[i] /\ item'[i].loan = l
        /\ \A i \in S : item[i].open = {}
        /\ \A i \in LoanItem \ S : item'[i] = item[i]
        /\ \A i, j \in S : i # j => lines[i] \cap lines[j] = {}
    BY <1>7, <2>1 DEF Lend, LoanInv, FreshItemsHoldNothing
  <2>4. FreshItemsHoldNothing'
    BY <2>3, ConstantsAssumption DEF LoanInv, FreshItemsHoldNothing
  <2>5. \A i \in LoanItem : item[i].open \cap units = {} /\ item[i].open \subseteq Unit
    BY <1>0, <2>2 DEF LoanInv, LentUnitsHaveOneLoan, TypeOK, ItemRow
  <2>6. \A u \in Unit : status'[u] = "ON_LOAN" <=> \E i \in LoanItem : u \in item'[i].open
    <3> SUFFICES ASSUME NEW u \in Unit
                 PROVE  status'[u] = "ON_LOAN" <=> \E i \in LoanItem : u \in item'[i].open
      OBVIOUS
    <3>1. CASE u \in units
      <4>1. PICK i \in S : u \in lines[i]
        BY <3>1
      <4> QED
        BY <2>1, <2>2, <2>3, <3>1, <4>1
    <3>2. CASE u \notin units
      BY <2>1, <2>2, <2>3, <3>2 DEF LoanInv, LentUnitsHaveOneLoan
    <3> QED
      BY <3>1, <3>2
  <2>7. \A i, j \in LoanItem : i # j => item'[i].open \cap item'[j].open = {}
    <3>1. \A i \in S : lines[i] \subseteq units
      OBVIOUS
    <3> HIDE DEF units
    <3> QED
      BY <2>3, <2>5, <3>1 DEF LoanInv, LentUnitsHaveOneLoan
  <2> QED
    BY <2>4, <2>6, <2>7 DEF LentUnitsHaveOneLoan
<1>8. ASSUME NEW m \in Movement, NEW r \in Movement, NEW l \in Loan,
             NEW units \in SUBSET Unit, NEW condition \in [units -> ReturnCondition],
             ReturnLoan(m, r, l, units, condition)
      PROVE  FreshItemsHoldNothing' /\ LentUnitsHaveOneLoan'
  <2>1. \A u \in units : status'[u] # "ON_LOAN"
    <3>1. \A u \in units : ConditionToStatus(condition[u]) # "ON_LOAN"
      BY ConstantsAssumption, ConditionToStatusType DEF ReturnCondition
    <3> QED
      BY <1>8, <3>1 DEF ReturnLoan, TransitionUnits
  <2>2. \A u \in Unit \ units : status'[u] = status[u]
    BY <1>8 DEF ReturnLoan, TransitionUnits
  <2>3. \A i \in LoanItem : /\ item'[i].open = item[i].open \ units
                            /\ item'[i].loan = item[i].loan
    <3> SUFFICES ASSUME NEW i \in LoanItem
                 PROVE  /\ item'[i].open = item[i].open \ units
                        /\ item'[i].loan = item[i].loan
      OBVIOUS
    <3>1. CASE i \in ItemsOf(l)
      BY <1>8, <3>1 DEF ReturnLoan, Closing
    <3>2. CASE i \notin ItemsOf(l)
      <4>1. item'[i] = item[i]
        BY <1>8, <3>2 DEF ReturnLoan
      <4>2. \A u \in units : \E j \in ItemsOf(l) : u \in item[j].open
        BY <1>8 DEF ReturnLoan
      <4>3. item[i].open \cap units = {}
        BY <3>2, <4>2 DEF LoanInv, LentUnitsHaveOneLoan, ItemsOf
      <4> QED
        BY <4>1, <4>3
    <3> QED
      BY <3>1, <3>2
  <2> QED
    BY <1>0, <2>1, <2>2, <2>3 DEF LoanInv, FreshItemsHoldNothing, LentUnitsHaveOneLoan
<1>9. ASSUME NEW l \in Loan, NEW i \in LoanItem, NEW j \in LoanItem,
             NEW units \in SUBSET Unit, UpdateLoan(l, i, j, units)
      PROVE  FreshItemsHoldNothing' /\ LentUnitsHaveOneLoan'
  <2>1. /\ item'[i].open = units /\ item'[i].loan = l /\ l # NoLoan
        /\ \A k \in LoanItem \ {i} : item'[k] = item[k]
    BY <1>0, <1>9, ConstantsAssumption DEF UpdateLoan, ItemsOf, TypeOK, ItemRow
  <2>2. \A u \in Unit : status'[u] = IF u \in units THEN "ON_LOAN"
                                     ELSE IF u \in item[i].open THEN "AVAILABLE"
                                     ELSE status[u]
    BY <1>9 DEF UpdateLoan
  <2>3. \A k \in LoanItem \ {i} : /\ item[k].open \cap units = {}
                                  /\ item[k].open \cap item[i].open = {}
    BY <1>9 DEF UpdateLoan, LoanInv, LentUnitsHaveOneLoan
  <2> QED
    BY <1>0, <2>1, <2>2, <2>3
       DEF LoanInv, FreshItemsHoldNothing, LentUnitsHaveOneLoan
<1>10. ASSUME NEW m \in Movement, NEW l \in Loan, CancelLoan(m, l)
       PROVE  FreshItemsHoldNothing' /\ LentUnitsHaveOneLoan'
  <2> DEFINE pending == UNION {item[i].open : i \in ItemsOf(l)}
  <2>1. /\ \A i \in ItemsOf(l) : item'[i].open = {}
        /\ \A i \in LoanItem \ ItemsOf(l) : item'[i] = item[i]
    BY <1>10 DEF CancelLoan, ItemsOf
  <2>2. \A u \in Unit : status'[u] = IF u \in pending THEN "AVAILABLE" ELSE status[u]
    BY <1>10 DEF CancelLoan, TransitionUnits, Constantly
  <2>3. \A i \in LoanItem \ ItemsOf(l) : item[i].open \cap pending = {}
    BY DEF LoanInv, LentUnitsHaveOneLoan, ItemsOf
  <2>4. \A i \in ItemsOf(l) : item[i].open \subseteq pending
    OBVIOUS
  <2> HIDE DEF pending
  <2> QED
    BY <1>0, <2>1, <2>2, <2>3, <2>4
       DEF LoanInv, FreshItemsHoldNothing, LentUnitsHaveOneLoan
<1>11. CASE UNCHANGED vars
  BY <1>11 DEF vars, LoanInv, FreshItemsHoldNothing, LentUnitsHaveOneLoan
<1> QED
  BY <1>1, <1>2, <1>3, <1>4, <1>5, <1>6, <1>7, <1>8, <1>9, <1>10, <1>11 DEF Next

\* Through every edit, partial return and cancellation a unit is ON_LOAN
\* exactly while one loan item, and only one, waits for it.
THEOREM LoansAreExclusive == Spec => []LentUnitsHaveOneLoan
<1>1. Init => LoanInv
  BY TypeInit DEF Init, LoanInv, FreshItemsHoldNothing, LentUnitsHaveOneLoan, FreeItem
<1>2. LoanInv => LentUnitsHaveOneLoan
  BY DEF LoanInv
<1> QED
  BY <1>1, <1>2, LoanInvNext, PTL DEF Spec

-----------------------------------------------------------------------------
(* The loans' books, and the refinement of Custody.                        *)

\* A line that names a loan names one that was made.
LinesHaveALoan ==
  \A i \in LoanItem : item[i].loan # NoLoan => loan[item[i].loan].status # "NONE"

\* Every loan that was made has a LOAN movement of its own, cancelled with it.
LoansHaveAMovement ==
  \A l \in Loan : loan[l].status # "NONE" =>
    /\ loan[l].movement \in Movement
    /\ movement[loan[l].movement].type = "LOAN"
    /\ movement[loan[l].movement].status = "CANCELLED" <=> loan[l].status = "CANCELLED"
    /\ \A k \in Loan \ {l} : loan[k].status # "NONE" => loan[k].movement # loan[l].movement

\* A row that records no movement was not cancelled.
FreeIsActive == \A m \in Movement : IsFree(m) => movement[m].status = "ACTIVE"

\* The inductive invariant under the moves of Custody.
CustodyInv ==
  /\ LoanInv
  /\ LoanStatusMatchesItems
  /\ LinesHaveALoan
  /\ LoansHaveAMovement
  /\ FreeIsActive

\* The legs of Custody: the moves between premises.
Legs == Abstract!Leg

\* What the operations that touch no loan have in common.
PremisesStep ==
  /\ UNCHANGED <<loan, item>>
  /\ \A u \in Unit : status'[u] = status[u] \/ <<status[u], status'[u]>> \in Legs
  /\ \A x \in Movement :
       \/ movement'[x] = movement[x]
       \/ movement'[x].status = "ACTIVE" /\ movement[x].type = "NONE"
       \/ /\ movement[x].status = "ACTIVE" /\ movement'[x].type = movement[x].type
          /\ movement[x].type \in {"MAINTENANCE_IN", "MAINTENANCE_OUT"}

\* The rows of earlier movements stay as they are, and new ones are active.
RowsStay ==
  \A x \in Movement :
    \/ movement'[x] = movement[x]
    \/ movement'[x].status = "ACTIVE" /\ movement[x].type = "NONE"

\* Recording a movement touches no earlier one.
LEMMA RecordStays ==
  ASSUME TypeOK, NEW m \in Movement, NEW row, row.status = "ACTIVE", Record(m, row)
  PROVE  RowsStay /\ movement'[m] = row
BY DEF Record, IsFree, RowsStay, TypeOK

\* Nor does recording it with an automatic retirement.
LEMMA RecordWithRetirementStays ==
  ASSUME TypeOK, NEW m \in Movement, NEW r \in Movement, NEW row, row.status = "ACTIVE",
         RecordWithRetirement(m, r, row)
  PROVE  RowsStay
<1>1. CASE BrokenOf(row.units, row.condition) = {}
  BY <1>1, RecordStays DEF RecordWithRetirement
<1>2. CASE BrokenOf(row.units, row.condition) # {}
  <2>1. PICK second : second = AutomaticRetirementRow(BrokenOf(row.units, row.condition))
    OBVIOUS
  <2>2. second.status = "ACTIVE"
    BY <2>1 DEF AutomaticRetirementRow, Row
  <2>3. /\ m # r /\ IsFree(m) /\ IsFree(r)
        /\ movement' = [movement EXCEPT ![m] = row, ![r] = second]
    BY <1>2, <2>1 DEF RecordWithRetirement
  <2> QED
    BY <2>2, <2>3 DEF IsFree, RowsStay, TypeOK
<1> QED
  BY <1>1, <1>2

\* Stock, retirements, maintenance and its reversal touch no loan and follow
\* the legs of Custody.
LEMMA PremisesSteps ==
  ASSUME TypeOK
  PROVE  /\ \A m \in Movement, units \in SUBSET Unit :
              StockIn(m, units) \/ Retire(m, units) => PremisesStep
         /\ \A m \in Movement, u \in Unit : RetireUnitForMaterialOutput(m, u) => PremisesStep
         /\ \A m \in Movement, units \in SUBSET Unit, c \in MaintenanceInCondition :
              MaintenanceIn(m, units, c) => PremisesStep
         /\ \A m, r \in Movement, units \in SUBSET Unit :
              \A condition \in [units -> ExitCondition] :
                MaintenanceOut(m, r, units, condition) => PremisesStep
         /\ \A m, s \in Movement : Revert(m, s) => PremisesStep
<1>1. ASSUME NEW m \in Movement, NEW units \in SUBSET Unit, StockIn(m, units) \/ Retire(m, units)
      PROVE  PremisesStep
  <2>1. RowsStay
    BY <1>1, RecordStays DEF StockIn, Retire, Row
  <2>2. \A u \in Unit : status'[u] = status[u] \/ <<status[u], status'[u]>> \in Legs
    BY <1>1 DEF StockIn, Retire, TransitionUnits, Constantly, TypeOK, Legs, Abstract!Leg
  <2> QED
    BY <1>1, <2>1, <2>2 DEF StockIn, Retire, PremisesStep, RowsStay
<1>2. ASSUME NEW m \in Movement, NEW u \in Unit, RetireUnitForMaterialOutput(m, u)
      PROVE  PremisesStep
  <2>1. RowsStay
    BY <1>2, RecordStays DEF RetireUnitForMaterialOutput, Row
  <2>2. \A v \in Unit : status'[v] = status[v] \/ <<status[v], status'[v]>> \in Legs
    BY <1>2 DEF RetireUnitForMaterialOutput, TransitionUnits, Constantly, TypeOK, Legs, Abstract!Leg
  <2> QED
    BY <1>2, <2>1, <2>2 DEF RetireUnitForMaterialOutput, PremisesStep, RowsStay
<1>3. ASSUME NEW m \in Movement, NEW units \in SUBSET Unit, NEW c \in MaintenanceInCondition,
             MaintenanceIn(m, units, c)
      PROVE  PremisesStep
  <2>1. RowsStay
    BY <1>3, RecordStays DEF MaintenanceIn, Row
  <2>2. \A u \in Unit : status'[u] = status[u] \/ <<status[u], status'[u]>> \in Legs
    BY <1>3 DEF MaintenanceIn, TransitionUnits, Constantly, TypeOK, Legs, Abstract!Leg
  <2> QED
    BY <1>3, <2>1, <2>2 DEF MaintenanceIn, PremisesStep, RowsStay
<1>4. ASSUME NEW m \in Movement, NEW r \in Movement, NEW units \in SUBSET Unit,
             NEW condition \in [units -> ExitCondition], MaintenanceOut(m, r, units, condition)
      PROVE  PremisesStep
  <2>1. RowsStay
    BY <1>4, RecordWithRetirementStays DEF MaintenanceOut, Row
  <2>2. \A u \in units : ConditionToStatus(condition[u]) \in {"AVAILABLE", "DAMAGED", "RETIRED"}
    BY ConditionToStatusType, ConstantsAssumption
  <2>3. \A u \in Unit : status'[u] = status[u] \/ <<status[u], status'[u]>> \in Legs
    BY <1>4, <2>2 DEF MaintenanceOut, TransitionUnits, TypeOK, Legs, Abstract!Leg
  <2> QED
    BY <1>4, <2>1, <2>3 DEF MaintenanceOut, PremisesStep, RowsStay
<1>5. ASSUME NEW m \in Movement, NEW s \in Movement, Revert(m, s)
      PROVE  PremisesStep
  <2>1. /\ movement[s].type \in {"MAINTENANCE_IN", "MAINTENANCE_OUT"}
        /\ movement[s].status = "ACTIVE" /\ movement[s] \in MovementRow
        /\ RevertedUnits(movement[s]) \subseteq Unit
        /\ \A u \in RevertedUnits(movement[s]) : status[u] = LeftAs(movement[s], u)
        /\ status' = [u \in Unit |-> IF u \in RevertedUnits(movement[s])
                                     THEN BeforeIt(movement[s]) ELSE status[u]]
        /\ UNCHANGED <<loan, item>>
    BY <1>5 DEF Revert, RevertedUnits, TypeOK, MovementRow
  <2>2. ASSUME NEW u \in RevertedUnits(movement[s])
        PROVE  <<LeftAs(movement[s], u), BeforeIt(movement[s])>> \in Legs
    <3>1. CASE movement[s].type = "MAINTENANCE_IN"
      BY <3>1 DEF LeftAs, BeforeIt, Legs, Abstract!Leg
    <3>2. CASE movement[s].type = "MAINTENANCE_OUT"
      <4>1. movement[s].condition[u] \in Condition \ {"BROKEN"}
        BY <2>1, <2>2, <3>2 DEF RevertedUnits, BrokenOf, MovementRow
      <4>2. LeftAs(movement[s], u) \in {"AVAILABLE", "DAMAGED"}
        BY <3>2, <4>1 DEF LeftAs, ConditionToStatus, Condition
      <4> QED
        BY <3>2, <4>2 DEF BeforeIt, Legs, Abstract!Leg
    <3> QED
      BY <2>1, <3>1, <3>2
  <2>3. \A u \in Unit : status'[u] = status[u] \/ <<status[u], status'[u]>> \in Legs
    BY <2>1, <2>2
  <2>4. PICK reversal, cancelled :
          /\ reversal.status = "ACTIVE" /\ cancelled.type = movement[s].type
          /\ movement' = [movement EXCEPT ![s] = cancelled, ![m] = reversal]
    <3>1. PICK reversal, cancelled :
            /\ reversal = Row("REVERSAL", movement[s].type,
                              movement[s].units \ BrokenOf(movement[s].units, movement[s].condition),
                              movement[s].condition)
            /\ cancelled = [movement[s] EXCEPT !.status = "CANCELLED"]
      OBVIOUS
    <3>2. reversal.status = "ACTIVE"
      BY <3>1 DEF Row
    <3>3. cancelled.type = movement[s].type
      BY <2>1, <3>1 DEF MovementRow
    <3>4. movement' = [movement EXCEPT ![s] = cancelled, ![m] = reversal]
      BY <1>5, <3>1 DEF Revert, Cancelled
    <3> QED
      BY <3>2, <3>3, <3>4
  <2>5. movement[m].type = "NONE"
    BY <1>5 DEF Revert, IsFree
  <2> QED
    BY <2>1, <2>3, <2>4, <2>5 DEF PremisesStep, TypeOK
<1> QED
  BY <1>1, <1>2, <1>3, <1>4, <1>5

-----------------------------------------------------------------------------

\* What Lend() does: the lines in S, free before, are l's and wait for units
\* from the shelf.
LendStep(m, l, S) ==
  /\ S # {} /\ loan[l].status = "NONE"
  /\ loan' = [loan EXCEPT ![l] = [status |-> "ACTIVE", movement |-> m]]
  /\ \A i \in S : /\ item[i].loan = NoLoan /\ item'[i].loan = l
                  /\ item'[i].returnedQuantity = 0
                  /\ item'[i].quantity = Cardinality(item'[i].open)
                  /\ item'[i].open # {} /\ item'[i].open \subseteq Unit
  /\ \A i \in LoanItem \ S : item'[i] = item[i]
  /\ \A u \in Unit : \/ status[u] = "AVAILABLE" /\ \E i \in S : u \in item'[i].open
                     \/ status'[u] = status[u] /\ \A i \in S : u \notin item'[i].open
  /\ RowsStay
  /\ movement[m].type = "NONE" /\ movement'[m].type = "LOAN" /\ movement'[m].status = "ACTIVE"

\* What ReturnLoan() does: units come back to lines of l.
ReturnStep(l, units) ==
  /\ IsOpen(l) /\ units # {} /\ units \subseteq Unit
  /\ \A u \in units : /\ \E i \in ItemsOf(l) : u \in item[i].open
                      /\ status'[u] \in {"AVAILABLE", "DAMAGED", "RETIRED"}
  /\ \A u \in Unit \ units : status'[u] = status[u]
  /\ \A i \in ItemsOf(l) :
       /\ item'[i].loan = l /\ item'[i].quantity = item[i].quantity
       /\ item'[i].open = item[i].open \ units
       /\ item'[i].returnedQuantity = item[i].returnedQuantity + Cardinality(item[i].open \cap units)
  /\ \A i \in LoanItem \ ItemsOf(l) : item'[i] = item[i]
  /\ loan'[l].status = DerivedStatus(l)' /\ loan'[l].movement = loan[l].movement
  /\ \A k \in Loan \ {l} : loan'[k] = loan[k]
  /\ RowsStay

\* What UpdateLoan() does: line i swaps its units with the shelf.
UpdateStep(l, i, units) ==
  /\ IsOpen(l) /\ i \in ItemsOf(l) /\ units # {} /\ units \subseteq Unit
  /\ \A k \in ItemsOf(l) : item[k].returnedQuantity = 0
  /\ \A u \in Unit :
       \/ u \in units /\ (u \in item[i].open \/ status[u] = "AVAILABLE")
       \/ u \notin units /\ u \in item[i].open /\ status'[u] = "AVAILABLE"
       \/ u \notin units /\ u \notin item[i].open /\ status'[u] = status[u]
  /\ item'[i].loan = l /\ item'[i].open = units /\ item'[i].quantity = Cardinality(units)
  /\ item'[i].returnedQuantity = 0
  /\ \A k \in LoanItem \ {i} : item'[k] = item[k]
  /\ loan' = loan
  /\ \A x \in Movement : /\ movement'[x].type = movement[x].type
                         /\ movement'[x].status = movement[x].status
                         /\ x # loan[l].movement => movement'[x] = movement[x]

\* What CancelLoan() does: what the lines of l wait for comes back.
CancelStep(l) ==
  /\ IsOpen(l)
  /\ \A u \in Unit :
       \/ status'[u] = "AVAILABLE" /\ \E i \in ItemsOf(l) : u \in item[i].open
       \/ status'[u] = status[u] /\ \A i \in ItemsOf(l) : u \notin item[i].open
  /\ \A i \in ItemsOf(l) : /\ item'[i].loan = l /\ item'[i].open = {}
                           /\ item'[i].quantity \in Nat
                           /\ item'[i].returnedQuantity = item'[i].quantity
  /\ \A i \in LoanItem \ ItemsOf(l) : item'[i] = item[i]
  /\ loan'[l].status = "CANCELLED" /\ loan'[l].movement = loan[l].movement
  /\ \A k \in Loan \ {l} : loan'[k] = loan[k]
  /\ movement'[loan[l].movement].type = "LOAN"
  /\ movement'[loan[l].movement].status = "CANCELLED"
  /\ \A x \in Movement \ {loan[l].movement} :
       \/ movement'[x] = movement[x]
       \/ movement'[x].status = "ACTIVE" /\ movement[x].type = "NONE"

\* movementLoan is a LendStep.
LEMMA LendEffect ==
  ASSUME CustodyInv, NEW m \in Movement, NEW l \in Loan, NEW lines \in Lines, Lend(m, l, lines)
  PROVE  LendStep(m, l, DOMAIN lines) /\ DOMAIN lines \subseteq LoanItem
<1> DEFINE S == DOMAIN lines
           units == UNION {lines[i] : i \in S}
<1>0. TypeOK
  BY DEF CustodyInv, LoanInv
<1>1. S \subseteq LoanItem /\ \A i \in S : lines[i] \subseteq Unit
  BY DEF Lines
<1>2. /\ S # {} /\ loan[l].status = "NONE"
      /\ loan' = [loan EXCEPT ![l] = [status |-> "ACTIVE", movement |-> m]]
      /\ \A i \in S : /\ item[i].loan = NoLoan /\ lines[i] # {}
                      /\ item'[i] = [loan |-> l, quantity |-> Cardinality(lines[i]),
                                     returnedQuantity |-> 0, open |-> lines[i], back |-> {}]
      /\ \A i \in LoanItem \ S : item'[i] = item[i]
  BY <1>1 DEF Lend
<1>3. /\ \A u \in units : status[u] = "AVAILABLE"
      /\ \A u \in Unit \ units : status'[u] = status[u]
  BY DEF Lend, TransitionUnits
<1>4. PICK row : row = Row("LOAN", "NONE", units, NoCondition)
  OBVIOUS
<1>5. Record(m, row) /\ row.status = "ACTIVE" /\ row.type = "LOAN"
  BY <1>4 DEF Lend, Row
<1>6. RowsStay /\ movement'[m] = row /\ movement[m].type = "NONE"
  BY <1>0, <1>5, RecordStays DEF Record, IsFree
<1>7. \A u \in Unit : \/ status[u] = "AVAILABLE" /\ \E i \in S : u \in lines[i]
                      \/ status'[u] = status[u] /\ \A i \in S : u \notin lines[i]
  BY <1>3
<1> HIDE DEF units, S
<1>8. ASSUME NEW i \in S
      PROVE  /\ item'[i].loan = l /\ item'[i].returnedQuantity = 0 /\ item'[i].open = lines[i]
             /\ item'[i].quantity = Cardinality(lines[i])
  <2>1. PICK n : n = Cardinality(lines[i])
    OBVIOUS
  <2>2. item'[i] = [loan |-> l, quantity |-> n, returnedQuantity |-> 0,
                    open |-> lines[i], back |-> {}]
    BY <1>2, <2>1
  <2> QED
    BY <2>1, <2>2
<1>9. \A i \in S : /\ item[i].loan = NoLoan /\ item'[i].loan = l
                  /\ item'[i].returnedQuantity = 0
                  /\ item'[i].quantity = Cardinality(item'[i].open)
                  /\ item'[i].open # {} /\ item'[i].open \subseteq Unit
  BY <1>1, <1>2, <1>8
<1>10. \A u \in Unit : \/ status[u] = "AVAILABLE" /\ \E i \in S : u \in item'[i].open
                       \/ status'[u] = status[u] /\ \A i \in S : u \notin item'[i].open
  BY <1>7, <1>8
<1>11. LendStep(m, l, S)
  BY <1>2, <1>5, <1>6, <1>9, <1>10 DEF LendStep
<1> QED
  BY <1>1, <1>11 DEF S

\* movementLoanReturn is a ReturnStep.
LEMMA ReturnEffect ==
  ASSUME CustodyInv, NEW m \in Movement, NEW r \in Movement, NEW l \in Loan,
         NEW units \in SUBSET Unit, NEW condition \in [units -> ReturnCondition],
         ReturnLoan(m, r, l, units, condition)
  PROVE  ReturnStep(l, units)
<1>0. TypeOK
  BY DEF CustodyInv, LoanInv
<1>1. /\ IsOpen(l) /\ units # {}
      /\ \A u \in units : \E i \in ItemsOf(l) : u \in item[i].open
      /\ \A u \in Unit \ units : status'[u] = status[u]
      /\ \A u \in units : status'[u] = ConditionToStatus(condition[u])
  BY DEF ReturnLoan, TransitionUnits
<1>2. \A u \in units : ConditionToStatus(condition[u]) \in {"AVAILABLE", "DAMAGED", "RETIRED"}
  BY ConditionToStatusType, ConstantsAssumption DEF ReturnCondition
<1>3. /\ \A i \in ItemsOf(l) : item'[i] = Closing(i, units)
      /\ \A i \in LoanItem \ ItemsOf(l) : item'[i] = item[i]
  BY DEF ReturnLoan, ItemsOf
<1>4. ASSUME NEW i \in ItemsOf(l)
      PROVE  /\ item'[i].loan = l /\ item'[i].quantity = item[i].quantity
             /\ item'[i].open = item[i].open \ units
             /\ item'[i].returnedQuantity
                  = item[i].returnedQuantity + Cardinality(item[i].open \cap units)
  <2>1. PICK n, left, back :
          /\ n = item[i].returnedQuantity + Cardinality(item[i].open \cap units)
          /\ left = item[i].open \ (item[i].open \cap units)
          /\ back = item[i].back \cup (item[i].open \cap units)
    OBVIOUS
  <2>2. item'[i] = [loan |-> item[i].loan, quantity |-> item[i].quantity,
                    returnedQuantity |-> n, open |-> left, back |-> back]
    BY <1>3, <2>1 DEF Closing
  <2>3. left = item[i].open \ units /\ item[i].loan = l
    BY <2>1 DEF ItemsOf
  <2> QED
    BY <2>1, <2>2, <2>3
<1>5. ItemsOf(l)' = ItemsOf(l)
  BY <1>3, <1>4 DEF ItemsOf
<1>6. loan' = [loan EXCEPT ![l].status = DerivedStatus(l)']
  BY <1>5 DEF ReturnLoan, DerivedStatus
<1>7. /\ loan'[l].status = DerivedStatus(l)' /\ loan'[l].movement = loan[l].movement
      /\ \A k \in Loan \ {l} : loan'[k] = loan[k]
  BY <1>0, <1>6 DEF TypeOK, LoanRow
<1>8. RowsStay
  <2>1. PICK row : row = Row("RETURN", "NONE", units, condition)
    OBVIOUS
  <2> QED
    BY <1>0, <2>1, RecordWithRetirementStays DEF ReturnLoan, Row
<1> QED
  BY <1>1, <1>2, <1>3, <1>4, <1>7, <1>8 DEF ReturnStep

\* updateLoan is an UpdateStep.
LEMMA UpdateEffect ==
  ASSUME CustodyInv, NEW l \in Loan, NEW i \in LoanItem, NEW j \in LoanItem,
         NEW units \in SUBSET Unit, UpdateLoan(l, i, j, units)
  PROVE  UpdateStep(l, i, units)
<1>0. TypeOK
  BY DEF CustodyInv, LoanInv
<1>1. /\ IsOpen(l) /\ i \in ItemsOf(l) /\ units # {} /\ loan' = loan
      /\ \A k \in ItemsOf(l) : item[k].returnedQuantity = 0
      /\ \A u \in units : u \in item[i].open \/ status[u] = "AVAILABLE"
      /\ status' = [u \in Unit |-> IF u \in units THEN "ON_LOAN"
                                   ELSE IF u \in item[i].open THEN "AVAILABLE"
                                   ELSE status[u]]
      /\ item' = [item EXCEPT ![i].open = units, ![i].quantity = Cardinality(units)]
      /\ movement' = [movement EXCEPT ![loan[l].movement] =
                        Rewritten(movement[loan[l].movement], item[j].open, units)]
  BY DEF UpdateLoan
<1>2. \A u \in Unit :
        \/ u \in units /\ (u \in item[i].open \/ status[u] = "AVAILABLE")
        \/ u \notin units /\ u \in item[i].open /\ status'[u] = "AVAILABLE"
        \/ u \notin units /\ u \notin item[i].open /\ status'[u] = status[u]
  BY <1>1
<1>3. /\ item'[i].loan = l /\ item'[i].open = units /\ item'[i].quantity = Cardinality(units)
      /\ item'[i].returnedQuantity = 0
      /\ \A k \in LoanItem \ {i} : item'[k] = item[k]
  BY <1>0, <1>1 DEF TypeOK, ItemRow, ItemsOf
<1>4. loan[l].movement \in Movement
  BY <1>1 DEF IsOpen, CustodyInv, LoansHaveAMovement
<1>5. PICK row : row = Rewritten(movement[loan[l].movement], item[j].open, units)
  OBVIOUS
<1>6. /\ row.type = movement[loan[l].movement].type
      /\ row.status = movement[loan[l].movement].status
  BY <1>0, <1>4, <1>5 DEF Rewritten, TypeOK, MovementRow
<1>7. \A x \in Movement : /\ movement'[x].type = movement[x].type
                          /\ movement'[x].status = movement[x].status
                          /\ x # loan[l].movement => movement'[x] = movement[x]
  BY <1>0, <1>1, <1>4, <1>5, <1>6 DEF TypeOK
<1> QED
  BY <1>1, <1>2, <1>3, <1>7 DEF UpdateStep

\* cancelLoan is a CancelStep.
LEMMA CancelEffect ==
  ASSUME CustodyInv, NEW m \in Movement, NEW l \in Loan, CancelLoan(m, l)
  PROVE  CancelStep(l)
<1> DEFINE pending == UNION {item[i].open : i \in ItemsOf(l)}
<1>0. TypeOK
  BY DEF CustodyInv, LoanInv
<1>1. /\ IsOpen(l) /\ movement[m].type = "NONE"
      /\ \A u \in pending : u \in Unit => status'[u] = "AVAILABLE"
      /\ \A u \in Unit \ pending : status'[u] = status[u]
      /\ \A i \in ItemsOf(l) :
           item'[i] = [loan |-> l, quantity |-> item[i].quantity,
                       returnedQuantity |-> item[i].quantity,
                       open |-> {}, back |-> item[i].back \cup item[i].open]
      /\ \A i \in LoanItem \ ItemsOf(l) : item'[i] = item[i]
      /\ loan' = [loan EXCEPT ![l].status = "CANCELLED"]
  BY DEF CancelLoan, TransitionUnits, Constantly, ItemsOf, IsFree
<1>2. \A u \in Unit : \/ status'[u] = "AVAILABLE" /\ \E i \in ItemsOf(l) : u \in item[i].open
                      \/ status'[u] = status[u] /\ \A i \in ItemsOf(l) : u \notin item[i].open
  BY <1>1
<1>3. /\ loan'[l].status = "CANCELLED" /\ loan'[l].movement = loan[l].movement
      /\ \A k \in Loan \ {l} : loan'[k] = loan[k]
  BY <1>0, <1>1 DEF TypeOK, LoanRow
<1>4. ASSUME NEW i \in ItemsOf(l)
      PROVE  /\ item'[i].loan = l /\ item'[i].open = {} /\ item'[i].quantity \in Nat
             /\ item'[i].returnedQuantity = item'[i].quantity
  <2>1. PICK n, back : n = item[i].quantity /\ back = item[i].back \cup item[i].open
    OBVIOUS
  <2>2. item'[i] = [loan |-> l, quantity |-> n, returnedQuantity |-> n,
                    open |-> {}, back |-> back]
    BY <1>1, <2>1
  <2>3. n \in Nat
    BY <1>0, <2>1 DEF TypeOK, ItemRow, ItemsOf
  <2> QED
    BY <2>2, <2>3
<1>5. PICK reversal : reversal = Row("REVERSAL", "LOAN", pending, NoCondition)
  OBVIOUS
<1>6. reversal.status = "ACTIVE"
  BY <1>5 DEF Row
<1>7. PICK cancelled : cancelled = Cancelled(movement[loan[l].movement])
  OBVIOUS
<1>8. loan[l].movement \in Movement /\ movement[loan[l].movement].type = "LOAN"
  BY <1>1 DEF IsOpen, CustodyInv, LoansHaveAMovement
<1>9. cancelled.type = "LOAN" /\ cancelled.status = "CANCELLED"
  BY <1>0, <1>7, <1>8 DEF Cancelled, TypeOK, MovementRow
<1>10. \A x \in Movement : movement'[x] = IF x = loan[l].movement THEN Cancelled(movement[x])
                                          ELSE IF x = m /\ pending # {} THEN reversal
                                          ELSE movement[x]
  BY <1>5 DEF CancelLoan
<1> HIDE DEF pending
<1>11. /\ movement'[loan[l].movement].type = "LOAN"
       /\ movement'[loan[l].movement].status = "CANCELLED"
       /\ \A x \in Movement \ {loan[l].movement} :
            \/ movement'[x] = movement[x]
            \/ movement'[x].status = "ACTIVE" /\ movement[x].type = "NONE"
  BY <1>1, <1>6, <1>7, <1>8, <1>9, <1>10
<1> QED
  BY <1>1, <1>2, <1>3, <1>4, <1>11 DEF CancelStep

-----------------------------------------------------------------------------

\* What the status of loan l is to say.
StatusIsTrue(l) ==
  /\ loan[l].status \in {"RETURNED", "CANCELLED"} => \A i \in ItemsOf(l) : item[i].open = {}
  /\ loan[l].status \notin {"NONE", "CANCELLED"} => loan[l].status = DerivedStatus(l)

\* The counters of a line and the units it waits for.
CountersAreTrue(i) == item[i].quantity - item[i].returnedQuantity = Cardinality(item[i].open)

\* The loans' books, line by line and loan by loan.
LEMMA BooksByParts ==
  LoanStatusMatchesItems <=>
    (\A i \in LoanItem : CountersAreTrue(i)) /\ (\A l \in Loan : StatusIsTrue(l))
BY DEF LoanStatusMatchesItems, StatusIsTrue, CountersAreTrue

\* A loan whose row and lines a step leaves alone keeps a true status.
LEMMA StatusStays ==
  ASSUME NEW l \in Loan, StatusIsTrue(l), loan'[l] = loan[l], ItemsOf(l)' = ItemsOf(l),
         \A i \in ItemsOf(l) : item'[i] = item[i]
  PROVE  StatusIsTrue(l)'
<1>1. DerivedStatus(l)' = DerivedStatus(l)
  BY DEF DerivedStatus
<1> QED
  BY <1>1 DEF StatusIsTrue

\* An open loan has a line that waits for a unit.
OpenLoansWait ==
  \A l \in Loan : IsOpen(l) => \E i \in ItemsOf(l) : item[i].open # {}

\* Its status is derived from counters that say so.
LEMMA WaitOfOpenLoans == CustodyInv => OpenLoansWait
<1> SUFFICES ASSUME CustodyInv, NEW l \in Loan, IsOpen(l)
             PROVE  \E i \in ItemsOf(l) : item[i].open # {}
  BY DEF OpenLoansWait
<1>1. loan[l].status = DerivedStatus(l) /\ loan[l].status # "RETURNED"
  BY DEF CustodyInv, LoanStatusMatchesItems, IsOpen
<1>2. PICK i \in ItemsOf(l) : ~(item[i].returnedQuantity >= item[i].quantity)
  BY <1>1 DEF DerivedStatus
<1>3. i \in LoanItem /\ item[i] \in ItemRow
  BY DEF ItemsOf, CustodyInv, LoanInv, TypeOK
<1>4. item[i].quantity - item[i].returnedQuantity = Cardinality(item[i].open)
  BY <1>3 DEF CustodyInv, LoanStatusMatchesItems
<1>5. Cardinality(item[i].open) # 0
  BY <1>2, <1>3, <1>4 DEF ItemRow
<1> QED
  BY <1>5, FS_EmptySet

\* Only lines with a loan wait for units, and their loan is open.
LEMMA WaitingLinesAreOpen ==
  ASSUME CustodyInv, NEW i \in LoanItem, item[i].open # {}
  PROVE  item[i].loan \in Loan /\ IsOpen(item[i].loan)
<1>1. item[i].loan \in Loan /\ loan[item[i].loan].status # "NONE"
  BY DEF CustodyInv, LoanInv, FreshItemsHoldNothing, TypeOK, ItemRow, LinesHaveALoan
<1>2. i \in ItemsOf(item[i].loan)
  BY DEF ItemsOf
<1>3. loan[item[i].loan].status \notin {"RETURNED", "CANCELLED"}
  BY <1>1, <1>2 DEF CustodyInv, LoanStatusMatchesItems
<1> QED
  BY <1>1, <1>3 DEF CustodyInv, LoanInv, TypeOK, LoanRow, LoanStatus, IsOpen

\* What a loan and its lines owe each other, one step later.
BooksKept == (LoanStatusMatchesItems /\ LinesHaveALoan /\ LoansHaveAMovement /\ FreeIsActive)'

\* The steps that touch no loan.
LEMMA PremisesKeep ==
  ASSUME CustodyInv, TypeOK', PremisesStep
  PROVE  BooksKept
<1>1. UNCHANGED <<loan, item>>
  BY DEF PremisesStep
<1>2. LoanStatusMatchesItems'
  BY <1>1 DEF CustodyInv, LoanStatusMatchesItems, DerivedStatus, ItemsOf
<1>3. LinesHaveALoan'
  BY <1>1 DEF CustodyInv, LinesHaveALoan
<1>4. LoansHaveAMovement'
  BY <1>1 DEF CustodyInv, LoansHaveAMovement, PremisesStep
<1>5. FreeIsActive'
  BY DEF CustodyInv, FreeIsActive, PremisesStep, IsFree
<1> QED
  BY <1>2, <1>3, <1>4, <1>5 DEF BooksKept

\* A new loan waits for everything it lent.
LEMMA LendKeeps ==
  ASSUME CustodyInv, NEW m \in Movement, NEW l \in Loan, NEW S \in SUBSET LoanItem,
         LendStep(m, l, S)
  PROVE  BooksKept
<1>0. TypeOK
  BY DEF CustodyInv, LoanInv
<1>1. /\ loan'[l] = [status |-> "ACTIVE", movement |-> m]
      /\ \A k \in Loan \ {l} : loan'[k] = loan[k]
  BY <1>0 DEF LendStep, TypeOK
<1>2. ItemsOf(l) = {}
  BY ConstantsAssumption DEF LendStep, CustodyInv, LinesHaveALoan, ItemsOf
<1>3. ItemsOf(l)' = S
  BY <1>2 DEF LendStep, ItemsOf
<1>4. \A k \in Loan \ {l} : ItemsOf(k)' = ItemsOf(k)
  BY ConstantsAssumption DEF LendStep, ItemsOf
<1>5. \A i \in LoanItem : CountersAreTrue(i)'
  <2>1. ASSUME NEW i \in S PROVE CountersAreTrue(i)'
    <3>1. Cardinality(item'[i].open) \in Nat
      BY UnitsAreCounted DEF LendStep
    <3> QED
      BY <3>1 DEF LendStep, CountersAreTrue
  <2> QED
    BY <2>1, BooksByParts DEF LendStep, CustodyInv, CountersAreTrue
<1>6. ASSUME NEW k \in Loan PROVE StatusIsTrue(k)'
  <2>1. CASE k = l
    <3>1. PICK i \in S : TRUE
      BY DEF LendStep
    <3>2. /\ item'[i].returnedQuantity = 0 /\ item'[i].quantity = Cardinality(item'[i].open)
          /\ item'[i].open # {} /\ item'[i].open \subseteq Unit
      BY DEF LendStep
    <3>3. Cardinality(item'[i].open) \in Nat /\ Cardinality(item'[i].open) # 0
      BY <3>2, UnitsAreCounted, FS_EmptySet
    <3>4. ~(item'[i].returnedQuantity >= item'[i].quantity)
      BY <3>2, <3>3
    <3>5. \A j \in S : ~(item'[j].returnedQuantity > 0)
      BY DEF LendStep
    <3>6. DerivedStatus(l)' = "ACTIVE"
      BY <1>3, <3>4, <3>5 DEF DerivedStatus
    <3> QED
      BY <1>1, <2>1, <3>6 DEF StatusIsTrue
  <2>2. CASE k # l
    <3>1. \A i \in ItemsOf(k) : item'[i] = item[i]
      BY <2>2, ConstantsAssumption DEF LendStep, ItemsOf
    <3> QED
      BY <1>1, <1>4, <2>2, <3>1, BooksByParts, StatusStays DEF CustodyInv
  <2> QED
    BY <2>1, <2>2
<1>7. LoanStatusMatchesItems'
  BY <1>5, <1>6 DEF LoanStatusMatchesItems, StatusIsTrue, CountersAreTrue
<1>8. LinesHaveALoan'
  BY <1>0, <1>1 DEF LendStep, CustodyInv, LinesHaveALoan, TypeOK, ItemRow
<1>9. LoansHaveAMovement'
  BY <1>1 DEF LendStep, RowsStay, CustodyInv, LoansHaveAMovement
<1>10. FreeIsActive'
  BY DEF LendStep, RowsStay, CustodyInv, FreeIsActive, IsFree
<1> QED
  BY <1>7, <1>8, <1>9, <1>10 DEF BooksKept

\* A return lowers what the lines wait for by what it raises their counters.
LEMMA ReturnKeeps ==
  ASSUME CustodyInv, NEW l \in Loan, NEW units, ReturnStep(l, units)
  PROVE  BooksKept
<1>0. TypeOK
  BY DEF CustodyInv, LoanInv
<1>l. \A i \in LoanItem : item'[i].loan = item[i].loan
  BY DEF ReturnStep, ItemsOf
<1>1. \A k \in Loan : ItemsOf(k)' = ItemsOf(k)
  BY <1>l DEF ItemsOf
<1>2. ASSUME NEW i \in LoanItem PROVE CountersAreTrue(i)'
  <2>1. CASE i \in ItemsOf(l)
    <3> DEFINE open == item[i].open
    <3>1. item[i] \in ItemRow /\ open \subseteq Unit
      BY <1>0 DEF TypeOK, ItemRow
    <3>2. /\ IsFiniteSet(open) /\ Cardinality(open) \in Nat
          /\ Cardinality(open \cap units) \in Nat
      <4>1. open \cap units \subseteq Unit
        BY <3>1
      <4> HIDE DEF open
      <4> QED
        BY <3>1, <4>1, UnitsAreCounted
    <3>3. Cardinality(open \ units) = Cardinality(open) - Cardinality(open \cap units)
      BY <3>2, FS_Difference
    <3>4. item[i].quantity - item[i].returnedQuantity = Cardinality(open)
      BY DEF CustodyInv, LoanStatusMatchesItems
    <3>5. /\ item'[i].quantity = item[i].quantity /\ item'[i].open = open \ units
          /\ item'[i].returnedQuantity = item[i].returnedQuantity + Cardinality(open \cap units)
      BY <2>1 DEF ReturnStep
    <3>6. item[i].quantity \in Nat /\ item[i].returnedQuantity \in Nat
      BY <3>1 DEF ItemRow
    <3> HIDE DEF open
    <3> QED
      BY <3>2, <3>3, <3>4, <3>5, <3>6 DEF CountersAreTrue
  <2>2. CASE i \notin ItemsOf(l)
    BY <2>2, BooksByParts DEF ReturnStep, CustodyInv, CountersAreTrue
  <2> QED
    BY <2>1, <2>2
<1>3. ASSUME NEW k \in Loan PROVE StatusIsTrue(k)'
  <2>1. CASE k = l
    <3>1. loan'[l].status = DerivedStatus(l)'
      BY DEF ReturnStep
    <3>2. loan'[l].status # "CANCELLED"
      BY <3>1 DEF DerivedStatus
    <3>3. ASSUME loan'[l].status = "RETURNED", NEW i \in ItemsOf(l)' PROVE item'[i].open = {}
      <4>1. item'[i].returnedQuantity >= item'[i].quantity
        BY <3>1, <3>3 DEF DerivedStatus
      <4>2. i \in LoanItem /\ item[i] \in ItemRow /\ i \in ItemsOf(l)
        BY <1>0, <1>1, <3>3 DEF ItemsOf, TypeOK
      <4>3. item'[i].open \subseteq Unit
        BY <4>2 DEF ReturnStep, ItemRow
      <4>4. IsFiniteSet(item'[i].open) /\ Cardinality(item'[i].open) \in Nat
        BY <4>3, UnitsAreCounted
      <4>5. item'[i].quantity - item'[i].returnedQuantity = Cardinality(item'[i].open)
        BY <1>2, <4>2 DEF CountersAreTrue
      <4>6. item'[i].quantity \in Nat /\ item'[i].returnedQuantity \in Nat
        <5>1. item[i].open \cap units \subseteq Unit
          BY <4>2 DEF ItemRow
        <5>2. Cardinality(item[i].open \cap units) \in Nat
          BY <5>1, UnitsAreCounted
        <5> QED
          BY <4>2, <5>2 DEF ReturnStep, ItemRow
      <4>7. Cardinality(item'[i].open) = 0
        BY <4>1, <4>4, <4>5, <4>6
      <4> QED
        BY <4>4, <4>7, FS_EmptySet
    <3> QED
      BY <2>1, <3>1, <3>2, <3>3 DEF StatusIsTrue
  <2>2. CASE k # l
    <3>1. \A i \in ItemsOf(k) : item'[i] = item[i]
      BY <2>2 DEF ReturnStep, ItemsOf
    <3>2. loan'[k] = loan[k]
      BY <2>2 DEF ReturnStep
    <3> QED
      BY <1>1, <3>1, <3>2, BooksByParts, StatusStays DEF CustodyInv
  <2> QED
    BY <2>1, <2>2
<1>4. LoanStatusMatchesItems'
  BY <1>2, <1>3 DEF LoanStatusMatchesItems, StatusIsTrue, CountersAreTrue
<1>5. loan[l].status \notin {"NONE", "CANCELLED"} /\ loan'[l].status \notin {"NONE", "CANCELLED"}
  BY DEF ReturnStep, IsOpen, DerivedStatus
<1>6. LinesHaveALoan'
  <2>1. \A i \in LoanItem : item[i].loan \in Loan \cup {NoLoan}
    BY <1>0 DEF TypeOK, ItemRow
  <2>2. \A k \in Loan : loan[k].status # "NONE" => loan'[k].status # "NONE"
    BY <1>5 DEF ReturnStep
  <2> QED
    BY <1>l, <2>1, <2>2 DEF CustodyInv, LinesHaveALoan
<1>7. LoansHaveAMovement'
  BY <1>5 DEF ReturnStep, RowsStay, CustodyInv, LoansHaveAMovement
<1>8. FreeIsActive'
  BY DEF ReturnStep, RowsStay, CustodyInv, FreeIsActive, IsFree
<1> QED
  BY <1>4, <1>6, <1>7, <1>8 DEF BooksKept

\* An edited loan is as active as before.
LEMMA UpdateKeeps ==
  ASSUME CustodyInv, NEW l \in Loan, NEW i \in LoanItem, NEW units, UpdateStep(l, i, units)
  PROVE  BooksKept
<1>0. TypeOK
  BY DEF CustodyInv, LoanInv
<1>l. \A k \in LoanItem : item'[k].loan = item[k].loan
  BY DEF UpdateStep, ItemsOf
<1>1. \A k \in Loan : ItemsOf(k)' = ItemsOf(k)
  BY <1>l DEF ItemsOf
<1>2. loan' = loan
  BY DEF UpdateStep
<1>3. Cardinality(units) \in Nat /\ Cardinality(units) # 0
  BY UnitsAreCounted, FS_EmptySet DEF UpdateStep
<1>4. ASSUME NEW k \in LoanItem PROVE CountersAreTrue(k)'
  <2>1. CASE k = i
    BY <1>3, <2>1 DEF UpdateStep, CountersAreTrue
  <2>2. CASE k # i
    BY <2>2, BooksByParts DEF UpdateStep, CustodyInv, CountersAreTrue
  <2> QED
    BY <2>1, <2>2
<1>5. ASSUME NEW k \in Loan PROVE StatusIsTrue(k)'
  <2>1. CASE k = l
    <3>1. \A j \in ItemsOf(l) : item[j].returnedQuantity = 0 /\ item'[j].returnedQuantity = 0
      BY DEF UpdateStep, ItemsOf
    <3>2. i \in ItemsOf(l)' /\ ~(item'[i].returnedQuantity >= item'[i].quantity)
      BY <1>1, <1>3 DEF UpdateStep
    <3>3. \A j \in ItemsOf(l)' : ~(item'[j].returnedQuantity > 0)
      BY <1>1, <3>1
    <3>4. DerivedStatus(l)' = "ACTIVE"
      BY <3>2, <3>3 DEF DerivedStatus
    <3>5. loan[l].status = DerivedStatus(l) /\ loan[l].status \in {"ACTIVE", "PARTIAL"}
      BY BooksByParts DEF CustodyInv, StatusIsTrue, UpdateStep, IsOpen
    <3>6. \A j \in ItemsOf(l) : ~(item[j].returnedQuantity > 0)
      BY <3>1
    <3>7. loan[l].status = "ACTIVE"
      BY <3>5, <3>6 DEF DerivedStatus
    <3> QED
      BY <1>2, <2>1, <3>4, <3>7 DEF StatusIsTrue
  <2>2. CASE k # l
    <3>1. \A j \in ItemsOf(k) : item'[j] = item[j]
      BY <2>2 DEF UpdateStep, ItemsOf
    <3> QED
      BY <1>1, <1>2, <3>1, BooksByParts, StatusStays DEF CustodyInv
  <2> QED
    BY <2>1, <2>2
<1>6. LoanStatusMatchesItems'
  BY <1>4, <1>5 DEF LoanStatusMatchesItems, StatusIsTrue, CountersAreTrue
<1>7. LinesHaveALoan'
  BY <1>l, <1>2 DEF CustodyInv, LinesHaveALoan
<1>8. LoansHaveAMovement'
  BY <1>2 DEF UpdateStep, CustodyInv, LoansHaveAMovement
<1>9. FreeIsActive'
  BY DEF UpdateStep, CustodyInv, FreeIsActive, IsFree
<1> QED
  BY <1>6, <1>7, <1>8, <1>9 DEF BooksKept

\* A cancelled loan waits for nothing, and its movement is cancelled with it.
LEMMA CancelKeeps ==
  ASSUME CustodyInv, NEW l \in Loan, CancelStep(l)
  PROVE  BooksKept
<1>0. TypeOK
  BY DEF CustodyInv, LoanInv
<1>l. \A k \in LoanItem : item'[k].loan = item[k].loan
  BY DEF CancelStep, ItemsOf
<1>1. \A k \in Loan : ItemsOf(k)' = ItemsOf(k)
  BY <1>l DEF ItemsOf
<1>2. ASSUME NEW i \in LoanItem PROVE CountersAreTrue(i)'
  <2>1. CASE i \in ItemsOf(l)
    <3>1. Cardinality({}) = 0
      BY FS_EmptySet
    <3>2. PICK n \in Nat : item'[i].quantity = n /\ item'[i].returnedQuantity = n /\ item'[i].open = {}
      BY <2>1 DEF CancelStep
    <3> QED
      BY <3>1, <3>2 DEF CountersAreTrue
  <2>2. CASE i \notin ItemsOf(l)
    BY <2>2, BooksByParts DEF CancelStep, CustodyInv, CountersAreTrue
  <2> QED
    BY <2>1, <2>2
<1>3. ASSUME NEW k \in Loan PROVE StatusIsTrue(k)'
  <2>1. CASE k = l
    BY <1>1, <2>1 DEF CancelStep, StatusIsTrue
  <2>2. CASE k # l
    <3>1. \A i \in ItemsOf(k) : item'[i] = item[i]
      BY <2>2 DEF CancelStep, ItemsOf
    <3>2. loan'[k] = loan[k]
      BY <2>2 DEF CancelStep
    <3> QED
      BY <1>1, <3>1, <3>2, BooksByParts, StatusStays DEF CustodyInv
  <2> QED
    BY <2>1, <2>2
<1>4. LoanStatusMatchesItems'
  BY <1>2, <1>3 DEF LoanStatusMatchesItems, StatusIsTrue, CountersAreTrue
<1>5. LinesHaveALoan'
  <2>1. \A i \in LoanItem : item[i].loan \in Loan \cup {NoLoan}
    BY <1>0 DEF TypeOK, ItemRow
  <2>2. \A k \in Loan : loan[k].status # "NONE" => loan'[k].status # "NONE"
    BY DEF CancelStep
  <2> QED
    BY <1>l, <2>1, <2>2 DEF CustodyInv, LinesHaveALoan
<1>6. loan[l].status \notin {"NONE", "CANCELLED"}
  BY DEF CancelStep, IsOpen
<1>7. LoansHaveAMovement'
  BY <1>6 DEF CancelStep, CustodyInv, LoansHaveAMovement
<1>8. FreeIsActive'
  BY DEF CancelStep, CustodyInv, FreeIsActive, IsFree
<1> QED
  BY <1>4, <1>5, <1>7, <1>8 DEF BooksKept

\* Which step a step of the inventory is.
LEMMA StepKinds ==
  ASSUME CustodyInv, Next
  PROVE  \/ PremisesStep
         \/ \E l \in Loan :
              \/ \E m \in Movement, S \in SUBSET LoanItem : LendStep(m, l, S)
              \/ \E units \in SUBSET Unit : ReturnStep(l, units)
              \/ \E i \in LoanItem, units \in SUBSET Unit : UpdateStep(l, i, units)
              \/ CancelStep(l)
<1>1. TypeOK
  BY DEF CustodyInv, LoanInv
<1>2. ASSUME NEW m \in Movement, NEW l \in Loan, NEW lines \in Lines, Lend(m, l, lines)
      PROVE  \E S \in SUBSET LoanItem : LendStep(m, l, S)
  BY <1>2, LendEffect
<1> QED
  BY <1>1, <1>2, PremisesSteps, ReturnEffect, UpdateEffect, CancelEffect DEF Next

\* Every step keeps the invariant.
LEMMA CustodyInvNext == CustodyInv /\ [Next]_vars => CustodyInv'
<1> SUFFICES ASSUME CustodyInv, [Next]_vars PROVE CustodyInv'
  OBVIOUS
<1>1. LoanInv' /\ TypeOK'
  BY LoanInvNext DEF CustodyInv, LoanInv
<1>2. BooksKept
  <2>1. CASE Next
    BY <1>1, <2>1, StepKinds, PremisesKeep, LendKeeps, ReturnKeeps, UpdateKeeps, CancelKeeps
  <2>2. CASE UNCHANGED vars
    BY <2>2 DEF vars, CustodyInv, BooksKept, LoanStatusMatchesItems, DerivedStatus, ItemsOf,
                LinesHaveALoan, LoansHaveAMovement, FreeIsActive, IsFree
  <2> QED
    BY <2>1, <2>2
<1> QED
  BY <1>1, <1>2 DEF BooksKept, CustodyInv

\* There are no loans at first.
LEMMA CustodyInvInit == Init => CustodyInv
<1> SUFFICES ASSUME Init PROVE CustodyInv
  OBVIOUS
<1>1. LoanInv
  BY TypeInit DEF Init, LoanInv, FreshItemsHoldNothing, LentUnitsHaveOneLoan, FreeItem
<1>2. LoanStatusMatchesItems
  <2>1. Cardinality({}) = 0
    BY FS_EmptySet
  <2>2. \A i \in LoanItem : /\ item[i].quantity = 0 /\ item[i].returnedQuantity = 0
                             /\ item[i].open = {}
    BY DEF Init, FreeItem
  <2>3. \A l \in Loan : loan[l].status = "NONE"
    BY DEF Init, FreeLoan
  <2>4. ASSUME NEW i \in LoanItem PROVE CountersAreTrue(i)
    <3>1. Cardinality(item[i].open) = 0
      BY <2>1, <2>2
    <3>2. item[i].quantity - item[i].returnedQuantity = 0
      BY <2>2
    <3> QED
      BY <3>1, <3>2 DEF CountersAreTrue
  <2>5. ASSUME NEW l \in Loan PROVE StatusIsTrue(l)
    BY <2>3 DEF StatusIsTrue
  <2> QED
    BY <2>4, <2>5, BooksByParts
<1>3. LinesHaveALoan /\ LoansHaveAMovement /\ FreeIsActive
  BY DEF Init, FreeItem, FreeLoan, FreeMovement, LinesHaveALoan, LoansHaveAMovement, FreeIsActive
<1> QED
  BY <1>1, <1>2, <1>3 DEF CustodyInv

\* The counters of a line, the units it waits for and the status of its loan
\* tell the same story in every history.
THEOREM LoanBooksAgree == Spec => []LoanStatusMatchesItems
<1>1. CustodyInv => LoanStatusMatchesItems
  BY DEF CustodyInv
<1> QED
  BY <1>1, CustodyInvInit, CustodyInvNext, PTL DEF Spec

-----------------------------------------------------------------------------
(* Closed rows, and the refinement of Custody.                             *)

\* A step as ClosedIsFinal allows it.
ClosedStays ==
  /\ \A l \in Loan : loan[l].status \in {"RETURNED", "CANCELLED"} =>
       /\ loan'[l] = loan[l]
       /\ \A i \in ItemsOf(l) : item'[i] = item[i]
  /\ \A m \in Movement : movement[m].status = "CANCELLED" => movement'[m] = movement[m]

\* Every step leaves closed loans and cancelled movements alone.
LEMMA ClosedStep ==
  ASSUME CustodyInv, Next
  PROVE  ClosedStays
<1>0. \A m \in Movement : movement[m].status = "CANCELLED" => movement[m].type # "NONE"
  BY DEF CustodyInv, FreeIsActive, IsFree
<1>1. CASE PremisesStep
  BY <1>0, <1>1 DEF PremisesStep, ClosedStays
<1>2. ASSUME NEW m \in Movement, NEW l \in Loan, NEW S \in SUBSET LoanItem, LendStep(m, l, S)
      PROVE  ClosedStays
  <2>1. loan[l].status = "NONE" /\ \A k \in Loan \ {l} : loan'[k] = loan[k]
    BY <1>2 DEF LendStep, CustodyInv, LoanInv, TypeOK
  <2>2. \A k \in Loan : \A i \in ItemsOf(k) : item'[i] = item[i]
    BY <1>2, ConstantsAssumption DEF LendStep, ItemsOf
  <2>3. \A x \in Movement : movement[x].status = "CANCELLED" => movement'[x] = movement[x]
    BY <1>0, <1>2 DEF LendStep, RowsStay
  <2> QED
    BY <2>1, <2>2, <2>3 DEF ClosedStays
<1>3. ASSUME NEW l \in Loan, NEW units \in SUBSET Unit, ReturnStep(l, units)
      PROVE  ClosedStays
  BY <1>0, <1>3 DEF ReturnStep, RowsStay, IsOpen, ItemsOf, ClosedStays
<1>4. ASSUME NEW l \in Loan, NEW i \in LoanItem, NEW units \in SUBSET Unit, UpdateStep(l, i, units)
      PROVE  ClosedStays
  <2>1. movement[loan[l].movement].status # "CANCELLED"
    BY <1>4 DEF UpdateStep, IsOpen, CustodyInv, LoansHaveAMovement
  <2> QED
    BY <1>4, <2>1 DEF UpdateStep, IsOpen, ItemsOf, ClosedStays
<1>5. ASSUME NEW l \in Loan, CancelStep(l)
      PROVE  ClosedStays
  <2>1. movement[loan[l].movement].status # "CANCELLED"
    BY <1>5 DEF CancelStep, IsOpen, CustodyInv, LoansHaveAMovement
  <2> QED
    BY <1>0, <1>5, <2>1 DEF CancelStep, IsOpen, ItemsOf, ClosedStays
<1> QED
  BY <1>1, <1>2, <1>3, <1>4, <1>5, StepKinds

\* Where a unit is: with the loan of the line that waits for it, or where its
\* status says.
UnitsArePlaced ==
  /\ PlaceOf = [u \in Unit |-> PlaceOf[u]]
  /\ \A u \in Unit :
       /\ status[u] # "ON_LOAN" => PlaceOf[u] = status[u]
       /\ \A i \in LoanItem : u \in item[i].open => PlaceOf[u] = item[i].loan

\* Each unit has one line at most, so it has one place.
LEMMA PlaceIsKnown == LentUnitsHaveOneLoan => UnitsArePlaced
<1> SUFFICES ASSUME LentUnitsHaveOneLoan PROVE UnitsArePlaced
  OBVIOUS
<1>1. PlaceOf = [u \in Unit |-> PlaceOf[u]]
  BY DEF PlaceOf
<1>2. ASSUME NEW u \in Unit, status[u] # "ON_LOAN" PROVE PlaceOf[u] = status[u]
  BY <1>2 DEF PlaceOf
<1>3. ASSUME NEW u \in Unit, NEW i \in LoanItem, u \in item[i].open
      PROVE  PlaceOf[u] = item[i].loan
  <2>1. (CHOOSE j \in LoanItem : u \in item[j].open) = i
    <3>1. \A j \in LoanItem : u \in item[j].open => j = i
      BY <1>3 DEF LentUnitsHaveOneLoan
    <3> QED
      BY <1>3, <3>1
  <2>2. status[u] = "ON_LOAN"
    BY <1>3 DEF LentUnitsHaveOneLoan
  <2> QED
    BY <2>1, <2>2 DEF PlaceOf
<1> QED
  BY <1>1, <1>2, <1>3 DEF UnitsArePlaced

\* The places are those of Custody, and a unit is with a loan exactly when a
\* line of that loan waits for it.
PlacesAreCustody ==
  /\ PlaceOf \in [Unit -> Abstract!Premises \cup Loan]
  /\ \A u \in Unit, l \in Loan : PlaceOf[u] = l <=> \E i \in ItemsOf(l) : u \in item[i].open

\* The loans of waiting lines are open, and no loan is called like a status.
LEMMA PlaceType == CustodyInv => PlacesAreCustody
<1> SUFFICES ASSUME CustodyInv PROVE PlacesAreCustody
  OBVIOUS
<1>1. LentUnitsHaveOneLoan /\ TypeOK
  BY DEF CustodyInv, LoanInv
<1>2. UnitsArePlaced
  BY <1>1, PlaceIsKnown
<1>3. ASSUME NEW u \in Unit
      PROVE  /\ PlaceOf[u] \in Abstract!Premises \cup Loan
             /\ \A l \in Loan : PlaceOf[u] = l <=> \E i \in ItemsOf(l) : u \in item[i].open
  <2>1. CASE status[u] = "ON_LOAN"
    <3>1. PICK i \in LoanItem : u \in item[i].open
      BY <1>1, <2>1 DEF LentUnitsHaveOneLoan
    <3>2. PlaceOf[u] = item[i].loan /\ item[i].loan \in Loan
      BY <1>2, <3>1, WaitingLinesAreOpen DEF UnitsArePlaced
    <3> QED
      BY <1>2, <3>1, <3>2 DEF ItemsOf, UnitsArePlaced
  <2>2. CASE status[u] # "ON_LOAN"
    <3>1. PlaceOf[u] = status[u] /\ status[u] \in UnitStatus /\ status[u] \in Abstract!Premises
      BY <1>1, <1>2, <2>2 DEF TypeOK, UnitStatus, Abstract!Premises, UnitsArePlaced
    <3>2. \A i \in LoanItem : u \notin item[i].open
      BY <1>1, <2>2 DEF LentUnitsHaveOneLoan
    <3>3. \A l \in Loan : PlaceOf[u] # l
      BY <3>1, ConstantsAssumption
    <3> QED
      BY <3>1, <3>2, <3>3 DEF ItemsOf
  <2> QED
    BY <2>1, <2>2
<1>4. PlaceOf \in [Unit -> Abstract!Premises \cup Loan]
  BY <1>2, <1>3 DEF UnitsArePlaced
<1> QED
  BY <1>3, <1>4 DEF PlacesAreCustody

\* What holds of the places before a step and after it.
LEMMA PlacesAround ==
  /\ CustodyInv => UnitsArePlaced /\ PlacesAreCustody /\ OpenLoansWait
  /\ CustodyInv' => UnitsArePlaced' /\ PlacesAreCustody' /\ OpenLoansWait'
<1>1. CustodyInv => UnitsArePlaced /\ PlacesAreCustody /\ OpenLoansWait
  BY PlaceIsKnown, PlaceType, WaitOfOpenLoans DEF CustodyInv, LoanInv
<1> QED
  BY <1>1, PTL

\* A step that touches no loan is a move between the premises.
LEMMA PremisesMoves ==
  ASSUME CustodyInv, CustodyInv', PremisesStep
  PROVE  Abstract!Move
<1>0. /\ UnitsArePlaced /\ UnitsArePlaced' /\ PlacesAreCustody'
      /\ LentUnitsHaveOneLoan /\ LentUnitsHaveOneLoan'
  BY PlacesAround DEF CustodyInv, LoanInv
<1>1. item' = item /\ BookOf' = BookOf
  BY DEF PremisesStep, BookOf
<1>2. ASSUME NEW u \in Unit
      PROVE  PlaceOf'[u] = PlaceOf[u] \/ <<PlaceOf[u], PlaceOf'[u]>> \in Abstract!Leg
  <2>1. CASE status[u] = "ON_LOAN" /\ status'[u] = "ON_LOAN"
    <3>1. PICK i \in LoanItem : u \in item[i].open
      BY <1>0, <2>1 DEF LentUnitsHaveOneLoan
    <3> QED
      BY <1>0, <1>1, <3>1 DEF UnitsArePlaced
  <2>2. CASE status[u] # "ON_LOAN" /\ status'[u] # "ON_LOAN"
    BY <1>0, <2>2 DEF UnitsArePlaced, PremisesStep, Legs
  <2>3. status[u] = "ON_LOAN" <=> status'[u] = "ON_LOAN"
    BY DEF PremisesStep, Legs, Abstract!Leg
  <2> QED
    BY <2>1, <2>2, <2>3
<1> QED
  BY <1>0, <1>1, <1>2 DEF Abstract!Move, PlacesAreCustody

\* Lending opens a blank book with units from the shelf.
LEMMA LendOpens ==
  ASSUME CustodyInv, CustodyInv', NEW m \in Movement, NEW l \in Loan,
         NEW S \in SUBSET LoanItem, LendStep(m, l, S)
  PROVE  Abstract!Open(l)
<1>0. /\ UnitsArePlaced /\ UnitsArePlaced' /\ PlacesAreCustody'
      /\ LentUnitsHaveOneLoan /\ LentUnitsHaveOneLoan' /\ TypeOK
  BY PlacesAround DEF CustodyInv, LoanInv
<1> DEFINE lent == {u \in Unit : \E i \in S : u \in item'[i].open}
<1>1. lent # {} /\ lent \in SUBSET Unit
  <2>1. PICK i \in S : item'[i].open # {} /\ item'[i].open \subseteq Unit
    BY DEF LendStep
  <2> QED
    BY <2>1
<1>2. \A u \in lent : PlaceOf[u] = "AVAILABLE" /\ PlaceOf'[u] = l
  BY <1>0 DEF LendStep, UnitsArePlaced
<1>3. ASSUME NEW u \in Unit \ lent PROVE PlaceOf'[u] = PlaceOf[u]
  <2>1. status'[u] = status[u] /\ \A i \in S : u \notin item'[i].open
    BY DEF LendStep
  <2>2. CASE status[u] = "ON_LOAN"
    <3>1. PICK i \in LoanItem : u \in item'[i].open
      BY <1>0, <2>1, <2>2 DEF LentUnitsHaveOneLoan
    <3>2. item'[i] = item[i]
      BY <2>1, <3>1 DEF LendStep
    <3> QED
      BY <1>0, <3>1, <3>2 DEF UnitsArePlaced
  <2>3. CASE status[u] # "ON_LOAN"
    BY <1>0, <2>1, <2>3 DEF UnitsArePlaced
  <2> QED
    BY <2>2, <2>3
<1> HIDE DEF lent
<1>4. PlaceOf' = [u \in Unit |-> IF u \in lent THEN l ELSE PlaceOf[u]]
  BY <1>0, <1>2, <1>3 DEF UnitsArePlaced
<1>5. BookOf[l] = "blank" /\ BookOf' = [BookOf EXCEPT ![l] = "open"]
  <2>1. /\ loan[l].status = "NONE" /\ loan'[l].status = "ACTIVE"
        /\ \A k \in Loan \ {l} : loan'[k] = loan[k]
    BY <1>0 DEF LendStep, TypeOK
  <2> QED
    BY <2>1 DEF BookOf
<1> QED
  BY <1>1, <1>2, <1>4, <1>5 DEF Abstract!Open

\* A unit that a step does not move, and whose line goes on waiting for it.
LEMMA PlaceStays ==
  ASSUME CustodyInv, CustodyInv', NEW u \in Unit, status'[u] = status[u],
         \A i \in LoanItem : /\ u \in item[i].open => u \in item'[i].open
                             /\ item'[i].loan = item[i].loan
  PROVE  PlaceOf'[u] = PlaceOf[u]
<1>0. /\ UnitsArePlaced /\ UnitsArePlaced'
      /\ LentUnitsHaveOneLoan /\ LentUnitsHaveOneLoan'
  BY PlacesAround DEF CustodyInv, LoanInv
<1>1. CASE status[u] = "ON_LOAN"
  <2>1. PICK i \in LoanItem : u \in item[i].open
    BY <1>0, <1>1 DEF LentUnitsHaveOneLoan
  <2> QED
    BY <1>0, <2>1 DEF UnitsArePlaced
<1>2. CASE status[u] # "ON_LOAN"
  BY <1>0, <1>2 DEF UnitsArePlaced
<1> QED
  BY <1>1, <1>2

\* Returns give units back, and the last of them closes the book.
LEMMA ReturnGivesBack ==
  ASSUME CustodyInv, CustodyInv', NEW l \in Loan, NEW units \in SUBSET Unit,
         ReturnStep(l, units)
  PROVE  Abstract!GiveBack(l)
<1>0. /\ UnitsArePlaced /\ UnitsArePlaced' /\ PlacesAreCustody /\ PlacesAreCustody'
      /\ LentUnitsHaveOneLoan /\ LentUnitsHaveOneLoan' /\ TypeOK
  BY PlacesAround DEF CustodyInv, LoanInv
<1>l. \A i \in LoanItem : item'[i].loan = item[i].loan
  BY DEF ReturnStep, ItemsOf
<1>1. \A u \in units : PlaceOf[u] = l /\ PlaceOf'[u] \in {"AVAILABLE", "DAMAGED", "RETIRED"}
  BY <1>0 DEF ReturnStep, UnitsArePlaced, ItemsOf
<1>2. ASSUME NEW u \in Unit \ units PROVE PlaceOf'[u] = PlaceOf[u]
  <2>1. \A i \in LoanItem : u \in item[i].open => u \in item'[i].open
    BY DEF ReturnStep
  <2>2. status'[u] = status[u]
    BY DEF ReturnStep
  <2> QED
    BY <1>l, <2>1, <2>2, PlaceStays
<1>3. PlaceOf' # PlaceOf
  <2>1. PICK u \in units : TRUE
    BY DEF ReturnStep
  <2>2. l \notin {"AVAILABLE", "DAMAGED", "RETIRED"}
    BY ConstantsAssumption DEF UnitStatus
  <2> QED
    BY <1>1, <2>1, <2>2
<1>4. BookOf[l] = "open" /\ \A k \in Loan \ {l} : BookOf'[k] = BookOf[k]
  BY DEF ReturnStep, IsOpen, BookOf
<1>5. BookOf'[l] = IF \E u \in Unit : PlaceOf'[u] = l THEN "open" ELSE "closed"
  <2>1. loan'[l].status \in {"RETURNED", "PARTIAL", "ACTIVE"}
    BY DEF ReturnStep, DerivedStatus
  <2>2. BookOf'[l] = IF loan'[l].status = "RETURNED" THEN "closed" ELSE "open"
    BY <2>1 DEF BookOf
  <2>3. (\E u \in Unit : PlaceOf'[u] = l) <=> \E i \in ItemsOf(l)' : item'[i].open # {}
    <3>1. \A i \in ItemsOf(l)' : item'[i].open \subseteq Unit
      BY DEF CustodyInv, LoanInv, TypeOK, ItemRow, ItemsOf
    <3> QED
      BY <1>0, <3>1 DEF PlacesAreCustody
  <2>4. CASE loan'[l].status = "RETURNED"
    <3>1. \A i \in ItemsOf(l)' : item'[i].open = {}
      BY <2>4 DEF CustodyInv, LoanStatusMatchesItems
    <3> QED
      BY <2>2, <2>3, <2>4, <3>1
  <2>5. CASE loan'[l].status # "RETURNED"
    <3>1. IsOpen(l)'
      BY <2>1, <2>5 DEF IsOpen
    <3>2. \E i \in ItemsOf(l)' : item'[i].open # {}
      BY <3>1, PlacesAround DEF OpenLoansWait
    <3> QED
      BY <2>2, <2>3, <2>5, <3>2
  <2> QED
    BY <2>4, <2>5
<1>6. BookOf' = [BookOf EXCEPT ![l] =
                   IF \E u \in Unit : PlaceOf'[u] = l THEN "open" ELSE "closed"]
  <2>1. PICK b : b = IF \E u \in Unit : PlaceOf'[u] = l THEN "open" ELSE "closed"
    OBVIOUS
  <2>2. BookOf' = [BookOf EXCEPT ![l] = b]
    <3>1. BookOf = [k \in Loan |-> BookOf[k]] /\ BookOf' = [k \in Loan |-> BookOf'[k]]
      BY DEF BookOf
    <3> QED
      BY <1>4, <1>5, <2>1, <3>1
  <2> QED
    BY <2>1, <2>2
<1> QED
  BY <1>0, <1>1, <1>2, <1>3, <1>4, <1>6 DEF Abstract!GiveBack, PlacesAreCustody

\* A cancellation gives everything back.
LEMMA CancelGivesBack ==
  ASSUME CustodyInv, CustodyInv', NEW l \in Loan, CancelStep(l)
  PROVE  Abstract!GiveBack(l)
<1>0. /\ UnitsArePlaced /\ UnitsArePlaced' /\ PlacesAreCustody /\ PlacesAreCustody'
      /\ LentUnitsHaveOneLoan /\ LentUnitsHaveOneLoan' /\ TypeOK
  BY PlacesAround DEF CustodyInv, LoanInv
<1>l. \A i \in LoanItem : item'[i].loan = item[i].loan
  BY DEF CancelStep, ItemsOf
<1>1. ASSUME NEW u \in Unit, \E i \in ItemsOf(l) : u \in item[i].open
      PROVE  PlaceOf[u] = l /\ PlaceOf'[u] = "AVAILABLE"
  <2>1. PlaceOf[u] = l
    BY <1>0, <1>1 DEF PlacesAreCustody
  <2>2. status'[u] = "AVAILABLE"
    BY <1>1 DEF CancelStep
  <2> QED
    BY <1>0, <2>1, <2>2 DEF UnitsArePlaced
<1>2. ASSUME NEW u \in Unit, ~\E i \in ItemsOf(l) : u \in item[i].open
      PROVE  PlaceOf'[u] = PlaceOf[u]
  <2>1. \A i \in LoanItem : u \in item[i].open => u \in item'[i].open
    BY <1>2 DEF CancelStep
  <2>2. status'[u] = status[u]
    BY <1>2 DEF CancelStep
  <2> QED
    BY <1>l, <2>1, <2>2, PlaceStays
<1>3. l # "AVAILABLE"
  BY ConstantsAssumption DEF UnitStatus
<1>4. PlaceOf' # PlaceOf
  <2>1. PICK i \in ItemsOf(l) : item[i].open # {}
    BY WaitOfOpenLoans DEF CancelStep, OpenLoansWait
  <2>2. PICK u \in Unit : u \in item[i].open
    BY <1>0, <2>1 DEF TypeOK, ItemRow, ItemsOf
  <2> QED
    BY <1>1, <1>3, <2>1, <2>2
<1>5. ~\E u \in Unit : PlaceOf'[u] = l
  <2>1. ItemsOf(l)' = ItemsOf(l)
    BY <1>l DEF ItemsOf
  <2> QED
    BY <1>0, <2>1 DEF CancelStep, PlacesAreCustody
<1>6. BookOf[l] = "open" /\ BookOf' = [BookOf EXCEPT ![l] = "closed"]
  BY ZenonT(30) DEF CancelStep, IsOpen, BookOf
<1> QED
  BY <1>0, <1>1, <1>2, <1>4, <1>5, <1>6 DEF Abstract!GiveBack, PlacesAreCustody

\* An edit exchanges units with the shelf and leaves some with the loan.
LEMMA UpdateExchanges ==
  ASSUME CustodyInv, CustodyInv', NEW l \in Loan, NEW i \in LoanItem,
         NEW units \in SUBSET Unit, UpdateStep(l, i, units)
  PROVE  Abstract!Exchange(l)
<1>0. /\ UnitsArePlaced /\ UnitsArePlaced' /\ PlacesAreCustody /\ PlacesAreCustody'
      /\ LentUnitsHaveOneLoan /\ LentUnitsHaveOneLoan' /\ TypeOK
  BY PlacesAround DEF CustodyInv, LoanInv
<1>l. \A k \in LoanItem : item'[k].loan = item[k].loan
  BY DEF UpdateStep, ItemsOf
<1>1. \A u \in units : PlaceOf'[u] = l
  BY <1>0 DEF UpdateStep, UnitsArePlaced
<1>2. ASSUME NEW u \in Unit
      PROVE  \/ PlaceOf'[u] = PlaceOf[u]
             \/ PlaceOf[u] = l /\ PlaceOf'[u] = "AVAILABLE"
             \/ PlaceOf[u] = "AVAILABLE" /\ PlaceOf'[u] = l
  <2>1. CASE u \in item[i].open
    <3>1. PlaceOf[u] = l
      BY <1>0, <2>1 DEF UpdateStep, UnitsArePlaced, ItemsOf
    <3>2. CASE u \in units
      BY <1>1, <3>1, <3>2
    <3>3. CASE u \notin units
      BY <1>0, <2>1, <3>1, <3>3 DEF UpdateStep, UnitsArePlaced
    <3> QED
      BY <3>2, <3>3
  <2>2. CASE u \notin item[i].open /\ u \in units
    BY <1>0, <1>1, <2>2 DEF UpdateStep, UnitsArePlaced
  <2>3. CASE u \notin item[i].open /\ u \notin units
    <3>1. \A k \in LoanItem : u \in item[k].open => u \in item'[k].open
      BY <2>3 DEF UpdateStep
    <3>2. status'[u] = status[u]
      BY <2>3 DEF UpdateStep
    <3> QED
      BY <1>l, <3>1, <3>2, PlaceStays
  <2> QED
    BY <2>1, <2>2, <2>3
<1>3. \E u \in Unit : PlaceOf'[u] = l
  BY <1>1 DEF UpdateStep
<1>4. BookOf[l] = "open" /\ BookOf' = BookOf
  BY DEF UpdateStep, IsOpen, BookOf
<1> QED
  BY <1>0, <1>2, <1>3, <1>4 DEF Abstract!Exchange, PlacesAreCustody

\* Every step is a step of Custody.
LEMMA StepRefines == CustodyInv /\ CustodyInv' /\ [Next]_vars => [Abstract!Next]_(Abstract!custody)
<1> SUFFICES ASSUME CustodyInv, CustodyInv', [Next]_vars
             PROVE  [Abstract!Next]_(Abstract!custody)
  OBVIOUS
<1>1. CASE Next
  <2>1. Abstract!Next
    BY <1>1, StepKinds, PremisesMoves, LendOpens, ReturnGivesBack, UpdateExchanges,
       CancelGivesBack DEF Abstract!Next
  <2> QED
    BY <2>1
<1>2. CASE UNCHANGED vars
  BY <1>2 DEF vars, Abstract!custody, PlaceOf, BookOf
<1> QED
  BY <1>1, <1>2

\* The empty tables are an empty Custody.
LEMMA InitRefines == Init => Abstract!Init
<1> SUFFICES ASSUME Init PROVE Abstract!Init
  OBVIOUS
<1>1. \A u \in Unit : PlaceOf[u] = "ABSENT"
  BY DEF Init, PlaceOf
<1>2. PlaceOf = [u \in Unit |-> "ABSENT"]
  BY <1>1 DEF PlaceOf
<1>3. BookOf = [l \in Loan |-> "blank"]
  BY DEF Init, BookOf, FreeLoan
<1> QED
  BY <1>2, <1>3 DEF Abstract!Init

\* Every history of the inventory is a history of Custody, whatever is moved,
\* lent, edited, returned, cancelled or reverted.
THEOREM InventoryImplementsCustody == Spec => Abstract!Spec
<1>1. Spec => []CustodyInv
  BY CustodyInvInit, CustodyInvNext, PTL DEF Spec
<1> QED
  BY <1>1, InitRefines, StepRefines, PTL DEF Spec, Abstract!Spec

\* Closed loans and cancelled movements never change again, and every step is a
\* legal move of Custody.
THEOREM StepsOfInventoryAreLegal == Spec => StepsAreLegal
<1>1. Spec => []CustodyInv
  BY CustodyInvInit, CustodyInvNext, PTL DEF Spec
<1>2. CustodyInv /\ [Next]_vars => [ClosedStays]_vars
  BY ClosedStep
<1>3. Spec => ClosedIsFinal
  BY <1>1, <1>2, PTL DEF Spec, ClosedIsFinal, ClosedStays
<1> QED
  BY <1>3, InventoryImplementsCustody DEF StepsAreLegal, ImplementsCustody

-----------------------------------------------------------------------------
(* The kardex and its rows.                                                *)

\* What every movement row adds to the kardex of device d.
Deltas(d) == [m \in Movement |-> LedgerDelta(d, movement[m])]

\* A row that records no movement moves nothing.
FreeRowsAreEmpty == \A m \in Movement : IsFree(m) => movement[m].units = {}

\* The kardex and its rows, with what recording a row rests on.
SumInv == KardexIsTheSum /\ FreeRowsAreEmpty

\* The kardex of d is the sum of its rows.
LEMMA KardexOf ==
  KardexIsTheSum <=> \A d \in Device : ledger[d] = SumFunctionOnSet(Deltas(d), Movement)
BY DEF KardexIsTheSum, Deltas

\* What a row that names no unit adds.
LEMMA DeltaOfNothing ==
  ASSUME NEW d \in Device, NEW row, row.units = {}
  PROVE  LedgerDelta(d, row) = 0
<1>1. LedgerDelta(d, row) = Cardinality({}) - Cardinality({})
  BY DeltaOf
<1>2. Cardinality({}) = 0
  BY FS_EmptySet
<1> QED
  BY <1>1, <1>2

\* Cancelling a row does not change what it adds.
LEMMA DeltaOfCancelled ==
  ASSUME NEW d \in Device, NEW row \in MovementRow
  PROVE  LedgerDelta(d, Cancelled(row)) = LedgerDelta(d, row)
<1>1. PICK cancelled : cancelled = Cancelled(row)
  OBVIOUS
<1>2. /\ cancelled.units = row.units /\ cancelled.type = row.type
      /\ cancelled.source = row.source /\ cancelled.condition = row.condition
  BY <1>1 DEF Cancelled, MovementRow
<1>3. LedgerDelta(d, cancelled) = LedgerDelta(d, row)
  BY <1>2 DEF LedgerDelta
<1> QED
  BY <1>1, <1>3

\* One row that changes moves the sum by what it adds more than before.
LEMMA SumMoves ==
  ASSUME TypeOK, TypeOK', NEW d \in Device, NEW m \in Movement,
         ledger[d] = SumFunctionOnSet(Deltas(d), Movement),
         \A x \in Movement \ {m} : LedgerDelta(d, movement'[x]) = LedgerDelta(d, movement[x]),
         ledger'[d] = ledger[d] + LedgerDelta(d, movement'[m]) - LedgerDelta(d, movement[m])
  PROVE  ledger'[d] = SumFunctionOnSet(Deltas(d)', Movement)
<1>1. PICK f, g : f = Deltas(d) /\ g = Deltas(d)'
  OBVIOUS
<1>2. \A x \in Movement : movement[x] \in MovementRow /\ movement'[x] \in MovementRow
  BY DEF TypeOK
<1>3. \A x \in Movement : /\ f[x] = LedgerDelta(d, movement[x]) /\ f[x] \in Int
                          /\ g[x] = LedgerDelta(d, movement'[x]) /\ g[x] \in Int
  BY <1>1, <1>2, LedgerDeltaType DEF Deltas
<1>4. \A x \in Movement \ {m} : f[x] = g[x]
  BY <1>3
<1>5. SumFunctionOnSet(g, Movement) = SumFunctionOnSet(f, Movement) + g[m] - f[m]
  BY <1>3, <1>4, ConstantsAssumption, SumChanged
<1> QED
  BY <1>1, <1>3, <1>5

\* A recorded row brings the kardex what it adds.
LEMMA RecordAddsUp ==
  ASSUME TypeOK, TypeOK', SumInv, NEW m \in Movement, NEW row \in MovementRow,
         row.type # "NONE", Record(m, row)
  PROVE  SumInv'
<1>1. /\ IsFree(m) /\ movement' = [movement EXCEPT ![m] = row]
      /\ ledger' = [d \in Device |-> ledger[d] + LedgerDelta(d, row)]
  BY DEF Record
<1>2. movement'[m] = row /\ \A x \in Movement \ {m} : movement'[x] = movement[x]
  BY <1>1 DEF TypeOK
<1>3. ASSUME NEW d \in Device PROVE ledger'[d] = SumFunctionOnSet(Deltas(d)', Movement)
  <2>1. LedgerDelta(d, movement[m]) = 0
    BY <1>1, DeltaOfNothing DEF SumInv, FreeRowsAreEmpty
  <2>2. LedgerDelta(d, row) \in Int /\ ledger[d] \in Int
    BY LedgerDeltaType DEF TypeOK
  <2>3. ledger'[d] = ledger[d] + LedgerDelta(d, movement'[m]) - LedgerDelta(d, movement[m])
    BY <1>1, <1>2, <2>1, <2>2
  <2>4. \A x \in Movement \ {m} : LedgerDelta(d, movement'[x]) = LedgerDelta(d, movement[x])
    BY <1>2
  <2> QED
    BY <2>3, <2>4, KardexOf, SumMoves DEF SumInv
<1>4. KardexIsTheSum'
  BY <1>3 DEF KardexIsTheSum, Deltas
<1>5. FreeRowsAreEmpty'
  BY <1>2 DEF SumInv, FreeRowsAreEmpty, IsFree
<1> QED
  BY <1>4, <1>5 DEF SumInv

\* So do a row and the automatic retirement recorded with it.
LEMMA RecordWithRetirementAddsUp ==
  ASSUME TypeOK, TypeOK', SumInv, NEW m \in Movement, NEW r \in Movement,
         NEW row \in MovementRow, row.type # "NONE", RecordWithRetirement(m, r, row)
  PROVE  SumInv'
<1>1. CASE BrokenOf(row.units, row.condition) = {}
  BY <1>1, RecordAddsUp DEF RecordWithRetirement
<1>2. CASE BrokenOf(row.units, row.condition) # {}
  <2>1. PICK second : second = AutomaticRetirementRow(BrokenOf(row.units, row.condition))
    OBVIOUS
  <2>2. /\ m # r /\ IsFree(m) /\ IsFree(r)
        /\ movement' = [movement EXCEPT ![m] = row, ![r] = second]
        /\ ledger' = [d \in Device |-> ledger[d] + LedgerDelta(d, row) + LedgerDelta(d, second)]
    BY <1>2, <2>1 DEF RecordWithRetirement
  <2>3. second \in MovementRow /\ second.type = "RETIREMENT"
    <3>1. BrokenOf(row.units, row.condition) \in SUBSET Unit
      BY DEF BrokenOf, MovementRow
    <3>2. second.type = "RETIREMENT"
      BY <2>1 DEF AutomaticRetirementRow, Row
    <3> QED
      BY <2>1, <3>1, <3>2, RetirementRowType
  <2>4. /\ movement'[m] = row /\ movement'[r] = second
        /\ \A x \in Movement \ {m, r} : movement'[x] = movement[x]
    BY <2>2 DEF TypeOK
  <2>5. ASSUME NEW d \in Device PROVE ledger'[d] = SumFunctionOnSet(Deltas(d)', Movement)
    <3>1. PICK f, g, h : f = Deltas(d) /\ g = Deltas(d)' /\ h = [f EXCEPT ![m] = LedgerDelta(d, row)]
      OBVIOUS
    <3>2. \A x \in Movement : movement[x] \in MovementRow /\ movement'[x] \in MovementRow
      BY DEF TypeOK
    <3>3. \A x \in Movement : /\ f[x] = LedgerDelta(d, movement[x]) /\ f[x] \in Int
                              /\ g[x] = LedgerDelta(d, movement'[x]) /\ g[x] \in Int
      BY <3>1, <3>2, LedgerDeltaType DEF Deltas
    <3>4. LedgerDelta(d, row) \in Int /\ LedgerDelta(d, second) \in Int /\ ledger[d] \in Int
      BY <2>3, LedgerDeltaType DEF TypeOK
    <3>5. f[m] = 0 /\ f[r] = 0
      BY <2>2, <3>3, DeltaOfNothing DEF SumInv, FreeRowsAreEmpty
    <3>6. h[m] = LedgerDelta(d, row) /\ \A x \in Movement \ {m} : h[x] = f[x]
      BY <3>1 DEF Deltas
    <3>7. /\ g[m] = LedgerDelta(d, row) /\ g[r] = LedgerDelta(d, second)
          /\ \A x \in Movement \ {m, r} : g[x] = f[x]
      BY <2>4, <3>3
    <3>8. \A x \in Movement : h[x] \in Int
      BY <3>3, <3>4, <3>6
    <3>9. SumFunctionOnSet(h, Movement) = SumFunctionOnSet(f, Movement) + h[m] - f[m]
      BY <3>3, <3>6, <3>8, ConstantsAssumption, SumChanged
    <3>10. \A x \in Movement \ {r} : h[x] = g[x]
      BY <3>6, <3>7
    <3>11. SumFunctionOnSet(g, Movement) = SumFunctionOnSet(h, Movement) + g[r] - h[r]
      BY <3>3, <3>8, <3>10, ConstantsAssumption, SumChanged
    <3>12. ledger[d] = SumFunctionOnSet(f, Movement)
      BY <3>1, KardexOf DEF SumInv
    <3>13. ledger'[d] = ledger[d] + LedgerDelta(d, row) + LedgerDelta(d, second)
      BY <2>2
    <3>14. h[m] = LedgerDelta(d, row) /\ f[m] = 0 /\ g[r] = LedgerDelta(d, second) /\ h[r] = 0
      BY <2>2, <3>5, <3>6, <3>7
    <3>15. ledger'[d] = SumFunctionOnSet(g, Movement)
      BY <3>4, <3>9, <3>11, <3>12, <3>13, <3>14
    <3> QED
      BY <3>1, <3>15
  <2>6. KardexIsTheSum'
    BY <2>5 DEF KardexIsTheSum, Deltas
  <2>7. FreeRowsAreEmpty'
    BY <2>3, <2>4 DEF SumInv, FreeRowsAreEmpty, IsFree
  <2> QED
    BY <2>6, <2>7 DEF SumInv
<1> QED
  BY <1>1, <1>2

-----------------------------------------------------------------------------
(* The LOAN movements name what the loans lent.                            *)

\* A line that has taken nothing back keeps no returned unit.
NothingIsBack == \A i \in LoanItem : item[i].returnedQuantity = 0 => item[i].back = {}

\* The loans, their LOAN movements and what came back.
NamesInv == CustodyInv /\ NothingIsBack /\ LoanMovementNamesItsUnits

\* What line i of a loan lent.
LentBy(i) == item[i].open \cup item[i].back

\* The LOAN movement of loan l names the units its lines lent.
Named(l) ==
  loan[l].status # "NONE" =>
    movement[loan[l].movement].units = UNION {LentBy(i) : i \in ItemsOf(l)}

\* What a LOAN movement owes its loan, loan by loan.
LEMMA NamesByLoan ==
  ASSUME CustodyInv
  PROVE  LoanMovementNamesItsUnits <=> \A l \in Loan : Named(l)
BY DEF LoanMovementNamesItsUnits, Named, LentBy, CustodyInv, LoansHaveAMovement

\* A loan whose row, lines and movement stay keeps its names.
LEMMA NameStays ==
  ASSUME NEW l \in Loan, Named(l), loan'[l].movement = loan[l].movement,
         loan[l].status # "NONE", ItemsOf(l)' = ItemsOf(l),
         movement'[loan[l].movement].units = movement[loan[l].movement].units,
         \A i \in ItemsOf(l) : LentBy(i)' = LentBy(i)
  PROVE  Named(l)'
<1>1. {LentBy(i)' : i \in ItemsOf(l)'} = {LentBy(i) : i \in ItemsOf(l)}
  OBVIOUS
<1>2. UNION {LentBy(i)' : i \in ItemsOf(l)'} = UNION {LentBy(i) : i \in ItemsOf(l)}
  BY <1>1
<1> QED
  BY <1>2 DEF Named

\* The movement of a loan that was made keeps its units in every step but
\* updateLoan of that loan.
NamesStay ==
  \A l \in Loan : loan[l].status # "NONE" =>
    movement'[loan[l].movement].units = movement[loan[l].movement].units

\* A step that records rows leaves the units of the LOAN movements alone.
LEMMA NamesStayRecorded ==
  ASSUME CustodyInv, NEW m \in Movement, NEW r \in Movement, NEW row,
         Record(m, row) \/ RecordWithRetirement(m, r, row)
  PROVE  NamesStay
<1> SUFFICES ASSUME NEW l \in Loan, loan[l].status # "NONE"
             PROVE  movement'[loan[l].movement] = movement[loan[l].movement]
  BY DEF NamesStay
<1>1. loan[l].movement \in Movement /\ movement[loan[l].movement].type = "LOAN"
  BY DEF CustodyInv, LoansHaveAMovement
<1>2. TypeOK
  BY DEF CustodyInv, LoanInv
<1>3. CASE Record(m, row)
  BY <1>1, <1>2, <1>3 DEF Record, IsFree, TypeOK
<1>4. CASE RecordWithRetirement(m, r, row) /\ BrokenOf(row.units, row.condition) = {}
  <2>1. Record(m, row)
    BY <1>4 DEF RecordWithRetirement
  <2> QED
    BY <1>1, <1>2, <2>1 DEF Record, IsFree, TypeOK
<1>5. CASE RecordWithRetirement(m, r, row) /\ BrokenOf(row.units, row.condition) # {}
  <2>1. PICK second : second = AutomaticRetirementRow(BrokenOf(row.units, row.condition))
    OBVIOUS
  <2>2. IsFree(m) /\ IsFree(r) /\ movement' = [movement EXCEPT ![m] = row, ![r] = second]
    BY <1>5, <2>1 DEF RecordWithRetirement
  <2> QED
    BY <1>1, <1>2, <2>2 DEF IsFree, TypeOK
<1> QED
  BY <1>3, <1>4, <1>5

\* Every step of a loan's life keeps the names of the loans it leaves alone.
LEMMA NamesAside ==
  ASSUME NamesInv, NamesStay, CustodyInv', NEW k \in Loan, loan'[k] = loan[k],
         ItemsOf(k)' = ItemsOf(k), \A i \in ItemsOf(k) : item'[i] = item[i]
  PROVE  Named(k)'
<1>1. Named(k)
  BY NamesByLoan DEF NamesInv
<1>2. \A i \in ItemsOf(k) : LentBy(i)' = LentBy(i)
  BY DEF LentBy
<1>3. CASE loan[k].status = "NONE"
  BY <1>3 DEF Named
<1>4. CASE loan[k].status # "NONE"
  BY <1>1, <1>2, <1>4, NameStays DEF NamesStay
<1> QED
  BY <1>3, <1>4

\* The steps that touch no loan.
LEMMA NamesUntouched ==
  ASSUME NamesInv, NamesStay, CustodyInv', UNCHANGED <<loan, item>>
  PROVE  NamesInv'
<1>1. \A k \in Loan : ItemsOf(k)' = ItemsOf(k)
  BY DEF ItemsOf
<1>2. \A k \in Loan : Named(k)'
  BY <1>1, NamesAside DEF ItemsOf
<1>3. LoanMovementNamesItsUnits'
  BY <1>2 DEF Named, LentBy, LoanMovementNamesItsUnits, CustodyInv, LoansHaveAMovement
<1> QED
  BY <1>3 DEF NamesInv, NothingIsBack

\* A new loan names what its lines lend.
LEMMA LendNames ==
  ASSUME NamesInv, CustodyInv', NEW m \in Movement, NEW l \in Loan, NEW lines \in Lines,
         Lend(m, l, lines)
  PROVE  NamesInv'
<1>0. TypeOK /\ CustodyInv
  BY DEF NamesInv, CustodyInv, LoanInv
<1>1. PICK S, units : S = DOMAIN lines /\ units = UNION {lines[i] : i \in S}
  OBVIOUS
<1>2. S \subseteq LoanItem
  BY <1>1 DEF Lines
<1>3. /\ loan[l].status = "NONE"
      /\ loan' = [loan EXCEPT ![l] = [status |-> "ACTIVE", movement |-> m]]
      /\ \A i \in S : item[i].loan = NoLoan
      /\ \A i \in LoanItem \ S : item'[i] = item[i]
  BY <1>1, <1>2 DEF Lend
<1>4. ASSUME NEW i \in S
      PROVE  item'[i].loan = l /\ item'[i].open = lines[i] /\ item'[i].back = {}
  <2>1. PICK n : n = Cardinality(lines[i])
    OBVIOUS
  <2>2. item'[i] = [loan |-> l, quantity |-> n, returnedQuantity |-> 0,
                    open |-> lines[i], back |-> {}]
    BY <1>1, <1>2, <2>1 DEF Lend
  <2> QED
    BY <2>2
<1>5. PICK row : row = Row("LOAN", "NONE", units, NoCondition)
  OBVIOUS
<1>6. Record(m, row) /\ row.units = units
  BY <1>1, <1>5 DEF Lend, Row
<1>7. NamesStay
  BY <1>0, <1>6, NamesStayRecorded
<1>8. ItemsOf(l)' = S
  <2>1. \A i \in LoanItem : item[i].loan # l
    BY <1>0, <1>3, ConstantsAssumption DEF CustodyInv, LinesHaveALoan
  <2> QED
    BY <1>2, <1>3, <1>4, <2>1 DEF ItemsOf
<1>9. Named(l)'
  <2>1. loan'[l].movement = m
    BY <1>0, <1>3 DEF TypeOK
  <2>2. movement'[m].units = units
    BY <1>0, <1>6 DEF Record, TypeOK
  <2>3. \A i \in S : LentBy(i)' = lines[i]
    BY <1>4 DEF LentBy
  <2>4. {LentBy(i)' : i \in ItemsOf(l)'} = {lines[i] : i \in S}
    BY <1>8, <2>3
  <2>5. UNION {LentBy(i)' : i \in ItemsOf(l)'} = units
    BY <1>1, <2>4
  <2> QED
    BY <2>1, <2>2, <2>5 DEF Named
<1>10. ASSUME NEW k \in Loan \ {l} PROVE Named(k)'
  <2>1. loan'[k] = loan[k]
    BY <1>0, <1>3 DEF TypeOK
  <2>2. ItemsOf(k)' = ItemsOf(k) /\ \A i \in ItemsOf(k) : item'[i] = item[i]
    BY <1>2, <1>3, <1>4, ConstantsAssumption DEF ItemsOf
  <2> QED
    BY <1>7, <2>1, <2>2, NamesAside
<1>11. NothingIsBack'
  BY <1>2, <1>3, <1>4 DEF NamesInv, NothingIsBack
<1>12. LoanMovementNamesItsUnits'
  BY <1>9, <1>10 DEF Named, LentBy, LoanMovementNamesItsUnits, CustodyInv, LoansHaveAMovement
<1> QED
  BY <1>11, <1>12 DEF NamesInv

\* What comes back moves from one half of a line to the other.
LEMMA ReturnNames ==
  ASSUME NamesInv, CustodyInv', NEW m \in Movement, NEW r \in Movement, NEW l \in Loan,
         NEW units \in SUBSET Unit, NEW condition \in [units -> ReturnCondition],
         ReturnLoan(m, r, l, units, condition)
  PROVE  NamesInv'
<1>0. TypeOK /\ CustodyInv
  BY DEF NamesInv, CustodyInv, LoanInv
<1>1. ReturnStep(l, units)
  BY <1>0, ReturnEffect
<1>2. /\ \A i \in ItemsOf(l) : item'[i].loan = l
      /\ \A i \in LoanItem \ ItemsOf(l) : item'[i] = item[i]
      /\ loan'[l].movement = loan[l].movement /\ loan[l].status # "NONE"
      /\ \A k \in Loan \ {l} : loan'[k] = loan[k]
  BY <1>1 DEF ReturnStep, IsOpen
<1>3. ASSUME NEW i \in ItemsOf(l)
      PROVE  /\ LentBy(i)' = LentBy(i)
             /\ item'[i].returnedQuantity = 0 => item'[i].back = {}
  <2>1. PICK n, left, back :
          /\ n = item[i].returnedQuantity + Cardinality(item[i].open \cap units)
          /\ left = item[i].open \ (item[i].open \cap units)
          /\ back = item[i].back \cup (item[i].open \cap units)
    OBVIOUS
  <2>2. item'[i] = [loan |-> item[i].loan, quantity |-> item[i].quantity,
                    returnedQuantity |-> n, open |-> left, back |-> back]
    BY <2>1 DEF ReturnLoan, ItemsOf, Closing
  <2>3. item'[i].open = left /\ item'[i].back = back /\ item'[i].returnedQuantity = n
    BY <2>2
  <2>4. LentBy(i)' = LentBy(i)
    BY <2>1, <2>3 DEF LentBy
  <2>5. ASSUME n = 0 PROVE back = {}
    <3>1. IsFiniteSet(item[i].open \cap units) /\ Cardinality(item[i].open \cap units) \in Nat
      BY UnitsAreCounted
    <3>2. i \in LoanItem /\ item[i].returnedQuantity \in Nat
      BY <1>0 DEF ItemsOf, TypeOK, ItemRow
    <3>3. Cardinality(item[i].open \cap units) = 0 /\ item[i].returnedQuantity = 0
      BY <2>1, <2>5, <3>1, <3>2
    <3>4. item[i].open \cap units = {}
      BY <3>1, <3>3, FS_EmptySet
    <3>5. item[i].back = {}
      BY <3>2, <3>3 DEF NamesInv, NothingIsBack
    <3> QED
      BY <2>1, <3>4, <3>5
  <2> QED
    BY <2>3, <2>4, <2>5
<1>4. ItemsOf(l)' = ItemsOf(l)
  BY <1>2 DEF ItemsOf
<1>5. NamesStay
  <2>1. PICK row : row = Row("RETURN", "NONE", units, condition)
    OBVIOUS
  <2> QED
    BY <1>0, <2>1, NamesStayRecorded DEF ReturnLoan
<1>6. Named(l)'
  <2>1. Named(l)
    BY <1>0, NamesByLoan DEF NamesInv
  <2>2. movement'[loan[l].movement].units = movement[loan[l].movement].units
    BY <1>2, <1>5 DEF NamesStay
  <2> QED
    BY <1>2, <1>3, <1>4, <2>1, <2>2, NameStays
<1>7. ASSUME NEW k \in Loan \ {l} PROVE Named(k)'
  <2>1. ItemsOf(k)' = ItemsOf(k) /\ \A i \in ItemsOf(k) : item'[i] = item[i]
    BY <1>2 DEF ItemsOf
  <2> QED
    BY <1>2, <1>5, <2>1, NamesAside
<1>8. NothingIsBack'
  BY <1>2, <1>3 DEF NamesInv, NothingIsBack
<1>9. LoanMovementNamesItsUnits'
  BY <1>6, <1>7 DEF Named, LentBy, LoanMovementNamesItsUnits, CustodyInv, LoansHaveAMovement
<1> QED
  BY <1>8, <1>9 DEF NamesInv

\* The units of the LOAN movement are counted by the ledger as taken.
LEMMA DeltaOfLoan ==
  ASSUME NEW d \in Device, NEW row \in MovementRow, row.type = "LOAN"
  PROVE  LedgerDelta(d, row) = 0 - Cardinality(row.units \cap UnitsOf(d))
<1>1. PICK taken : taken = row.units \cap UnitsOf(d)
  OBVIOUS
<1>2. \A u \in taken : LedgerSign(row.type, row.condition[u], row.source) = -1
  BY DEF LedgerSign, DirectSign
<1>3. taken = {u \in row.units \cap UnitsOf(d) :
                 LedgerSign(row.type, row.condition[u], row.source) = -1}
  BY <1>1, <1>2
<1>4. {} = {u \in row.units \cap UnitsOf(d) :
              LedgerSign(row.type, row.condition[u], row.source) = 1}
  BY <1>1, <1>2
<1>5. LedgerDelta(d, row) = Cardinality({}) - Cardinality(taken)
  BY <1>3, <1>4, DeltaOf
<1>6. Cardinality({}) = 0
  BY FS_EmptySet
<1> QED
  BY <1>1, <1>5, <1>6

\* What updateLoan() finds and leaves on the LOAN movement: the line handed in
\* is named there, and what it takes instead is not.
LEMMA UpdateRow ==
  ASSUME NamesInv, RowOrderMatches, NEW l \in Loan, NEW i \in LoanItem, NEW j \in LoanItem,
         NEW units \in SUBSET Unit, UpdateLoan(l, i, j, units)
  PROVE  LET m == loan[l].movement
         IN  /\ m \in Movement /\ i = j /\ i \in ItemsOf(l)
             /\ movement[m].type = "LOAN" /\ movement[m].units \in SUBSET Unit
             /\ movement' = [movement EXCEPT ![m] = Rewritten(movement[m], item[i].open, units)]
             /\ \A k \in ItemsOf(l) : item[k].back = {}
             /\ movement[m].units = UNION {item[k].open : k \in ItemsOf(l)}
             /\ item[i].open \subseteq movement[m].units
             /\ (movement[m].units \ item[i].open) \cap units = {}
<1>0. TypeOK /\ CustodyInv
  BY DEF NamesInv, CustodyInv, LoanInv
<1>1. PICK m : m = loan[l].movement
  OBVIOUS
<1>2. /\ IsOpen(l) /\ i = j /\ i \in ItemsOf(l)
      /\ movement' = [movement EXCEPT ![m] = Rewritten(movement[m], item[i].open, units)]
      /\ \A k \in ItemsOf(l) : item[k].returnedQuantity = 0
      /\ \A u \in units : u \in item[i].open \/ status[u] = "AVAILABLE"
  BY <1>1 DEF UpdateLoan
<1>3. m \in Movement /\ movement[m].type = "LOAN"
  BY <1>0, <1>1, <1>2 DEF IsOpen, CustodyInv, LoansHaveAMovement
<1>4. movement[m].units \in SUBSET Unit
  BY <1>0, <1>3 DEF TypeOK, MovementRow
<1>5. \A k \in ItemsOf(l) : k \in LoanItem /\ item[k].back = {} /\ LentBy(k) = item[k].open
  BY <1>2 DEF NamesInv, NothingIsBack, ItemsOf, LentBy
<1>6. {LentBy(k) : k \in ItemsOf(l)} = {item[k].open : k \in ItemsOf(l)}
  BY <1>5
<1>7. movement[m].units = UNION {LentBy(k) : k \in ItemsOf(l)}
  BY <1>0, <1>1, <1>2, NamesByLoan DEF NamesInv, Named, IsOpen
<1>8. movement[m].units = UNION {item[k].open : k \in ItemsOf(l)}
  BY <1>6, <1>7
<1>9. item[i].open \subseteq movement[m].units
  BY <1>2, <1>8
<1>10. ASSUME NEW u \in movement[m].units \ item[i].open PROVE u \notin units
  <2>1. PICK k \in ItemsOf(l) : u \in item[k].open
    BY <1>8
  <2>2. status[u] = "ON_LOAN"
    BY <1>0, <1>4, <1>5, <2>1 DEF CustodyInv, LoanInv, LentUnitsHaveOneLoan
  <2> QED
    BY <1>2, <2>2
<1> QED
  BY <1>1, <1>2, <1>3, <1>4, <1>5, <1>8, <1>9, <1>10

\* A line that changes its units changes them on the LOAN movement as well.
LEMMA UpdateNames ==
  ASSUME NamesInv, CustodyInv', RowOrderMatches, NEW l \in Loan, NEW i \in LoanItem,
         NEW j \in LoanItem, NEW units \in SUBSET Unit, UpdateLoan(l, i, j, units)
  PROVE  NamesInv'
<1>0. TypeOK /\ CustodyInv
  BY DEF NamesInv, CustodyInv, LoanInv
<1>1. PICK m : m = loan[l].movement
  OBVIOUS
<1>2. PICK row : row = Rewritten(movement[m], item[i].open, units)
  OBVIOUS
<1>3. /\ m \in Movement /\ i \in ItemsOf(l) /\ movement[m].type = "LOAN"
      /\ movement' = [movement EXCEPT ![m] = row]
      /\ \A k \in ItemsOf(l) : item[k].back = {}
      /\ movement[m].units = UNION {item[k].open : k \in ItemsOf(l)}
      /\ (movement[m].units \ item[i].open) \cap units = {}
  BY <1>1, <1>2, UpdateRow
<1>4. row.units = (movement[m].units \ item[i].open) \cup units
  BY <1>0, <1>2, <1>3 DEF Rewritten, TypeOK, MovementRow
<1>5. /\ item' = [item EXCEPT ![i].open = units, ![i].quantity = Cardinality(units)]
      /\ loan' = loan
  BY DEF UpdateLoan
<1>6. /\ item'[i].open = units /\ item'[i].back = item[i].back /\ item'[i].loan = item[i].loan
      /\ \A k \in LoanItem \ {i} : item'[k] = item[k]
  BY <1>0, <1>5 DEF TypeOK, ItemRow
<1>7. \A k \in Loan : ItemsOf(k)' = ItemsOf(k)
  BY <1>6 DEF ItemsOf
<1>8. Named(l)'
  <2>1. movement'[m].units = row.units
    BY <1>0, <1>3 DEF TypeOK
  <2>2. \A k \in ItemsOf(l) : k # i => item[k].open \cap item[i].open = {}
    BY <1>0 DEF CustodyInv, LoanInv, LentUnitsHaveOneLoan, ItemsOf
  <2>3. \A k \in ItemsOf(l) : LentBy(k)' = IF k = i THEN units ELSE item[k].open
    BY <1>3, <1>6 DEF LentBy, ItemsOf
  <2>4. {LentBy(k)' : k \in ItemsOf(l)'} = {IF k = i THEN units ELSE item[k].open : k \in ItemsOf(l)}
    BY <1>7, <2>3
  <2>5. UNION {IF k = i THEN units ELSE item[k].open : k \in ItemsOf(l)} = row.units
    <3>1. ASSUME NEW u, u \in row.units
          PROVE  \E k \in ItemsOf(l) : u \in IF k = i THEN units ELSE item[k].open
      <4>1. CASE u \in units
        BY <1>3, <4>1
      <4>2. CASE u \notin units
        BY <1>3, <1>4, <3>1, <4>2
      <4> QED
        BY <4>1, <4>2
    <3>2. ASSUME NEW k \in ItemsOf(l), NEW u, u \in IF k = i THEN units ELSE item[k].open
          PROVE  u \in row.units
      BY <1>3, <1>4, <2>2, <3>2
    <3> QED
      BY <3>1, <3>2
  <2>6. UNION {LentBy(k)' : k \in ItemsOf(l)'} = row.units
    BY <2>4, <2>5
  <2> QED
    BY <1>1, <1>5, <2>1, <2>6 DEF Named
<1>9. ASSUME NEW k \in Loan \ {l} PROVE Named(k)'
  <2>1. Named(k)
    BY <1>0, NamesByLoan DEF NamesInv
  <2>2. CASE loan[k].status = "NONE"
    BY <1>5, <2>2 DEF Named
  <2>3. CASE loan[k].status # "NONE"
    <3>1. loan[k].movement \in Movement /\ loan[k].movement # m
      BY <1>0, <1>1, <2>3 DEF CustodyInv, LoansHaveAMovement, UpdateLoan, IsOpen
    <3>2. movement'[loan[k].movement].units = movement[loan[k].movement].units
      BY <1>0, <1>3, <3>1 DEF TypeOK
    <3>3. \A h \in ItemsOf(k) : h # i
      BY <1>3 DEF ItemsOf
    <3>4. \A h \in ItemsOf(k) : LentBy(h)' = LentBy(h)
      BY <1>6, <3>3 DEF LentBy, ItemsOf
    <3> QED
      BY <1>5, <1>7, <2>1, <2>3, <3>2, <3>4, NameStays
  <2> QED
    BY <2>2, <2>3
<1>10. NothingIsBack'
  BY <1>3, <1>6 DEF NamesInv, NothingIsBack
<1>11. LoanMovementNamesItsUnits'
  BY <1>8, <1>9 DEF Named, LentBy, LoanMovementNamesItsUnits, CustodyInv, LoansHaveAMovement
<1> QED
  BY <1>10, <1>11 DEF NamesInv

\* A cancelled loan keeps the names of what it lent.
LEMMA CancelNames ==
  ASSUME NamesInv, CustodyInv', NEW m \in Movement, NEW l \in Loan, CancelLoan(m, l)
  PROVE  NamesInv'
<1>0. TypeOK /\ CustodyInv
  BY DEF NamesInv, CustodyInv, LoanInv
<1>1. CancelStep(l)
  BY <1>0, CancelEffect
<1>2. /\ IsOpen(l) /\ loan[l].status # "NONE" /\ loan'[l].movement = loan[l].movement
      /\ \A i \in ItemsOf(l) : item'[i].loan = l
      /\ \A i \in LoanItem \ ItemsOf(l) : item'[i] = item[i]
      /\ \A k \in Loan \ {l} : loan'[k] = loan[k]
  BY <1>1 DEF CancelStep, IsOpen
<1>3. PICK pending, reversal :
        /\ pending = UNION {item[i].open : i \in ItemsOf(l)}
        /\ reversal = Row("REVERSAL", "LOAN", pending, NoCondition)
  OBVIOUS
<1>4. /\ movement[m].type = "NONE"
      /\ \A x \in Movement : movement'[x] = IF x = loan[l].movement THEN Cancelled(movement[x])
                                            ELSE IF x = m /\ pending # {} THEN reversal
                                            ELSE movement[x]
  BY <1>3 DEF CancelLoan, IsFree
<1>5. NamesStay
  <2> SUFFICES ASSUME NEW k \in Loan, loan[k].status # "NONE"
               PROVE  movement'[loan[k].movement].units = movement[loan[k].movement].units
    BY DEF NamesStay
  <2>1. loan[k].movement \in Movement /\ movement[loan[k].movement].type = "LOAN"
    BY <1>0 DEF CustodyInv, LoansHaveAMovement
  <2>2. Cancelled(movement[loan[k].movement]).units = movement[loan[k].movement].units
    BY <1>0, <2>1 DEF Cancelled, TypeOK, MovementRow
  <2> QED
    BY <1>4, <2>1, <2>2
<1>6. ASSUME NEW i \in ItemsOf(l)
      PROVE  /\ LentBy(i)' = LentBy(i)
             /\ item'[i].returnedQuantity = 0 => item'[i].back = {}
  <2>1. PICK n, back : n = item[i].quantity /\ back = item[i].back \cup item[i].open
    OBVIOUS
  <2>2. item'[i] = [loan |-> l, quantity |-> n, returnedQuantity |-> n,
                    open |-> {}, back |-> back]
    BY <2>1 DEF CancelLoan, ItemsOf
  <2>3. item'[i].open = {} /\ item'[i].back = back /\ item'[i].returnedQuantity = n
    BY <2>2
  <2>4. LentBy(i)' = LentBy(i)
    BY <2>1, <2>3 DEF LentBy
  <2>5. ASSUME n = 0 PROVE back = {}
    <3>1. i \in LoanItem /\ item[i] \in ItemRow /\ item[i].open \subseteq Unit
      BY <1>0 DEF ItemsOf, TypeOK, ItemRow
    <3>2. IsFiniteSet(item[i].open) /\ Cardinality(item[i].open) \in Nat
      BY <3>1, UnitsAreCounted
    <3>3. item[i].quantity - item[i].returnedQuantity = Cardinality(item[i].open)
      BY <1>0, <3>1 DEF CustodyInv, LoanStatusMatchesItems
    <3>4. item[i].returnedQuantity = 0 /\ Cardinality(item[i].open) = 0
      BY <2>1, <2>5, <3>1, <3>2, <3>3 DEF ItemRow
    <3>5. item[i].open = {} /\ item[i].back = {}
      BY <3>1, <3>2, <3>4, FS_EmptySet DEF NamesInv, NothingIsBack
    <3> QED
      BY <2>1, <3>5
  <2> QED
    BY <2>3, <2>4, <2>5
<1>7. ItemsOf(l)' = ItemsOf(l)
  BY <1>2 DEF ItemsOf
<1>8. Named(l)'
  <2>1. Named(l)
    BY <1>0, NamesByLoan DEF NamesInv
  <2>2. movement'[loan[l].movement].units = movement[loan[l].movement].units
    BY <1>2, <1>5 DEF NamesStay
  <2> QED
    BY <1>2, <1>6, <1>7, <2>1, <2>2, NameStays
<1>9. ASSUME NEW k \in Loan \ {l} PROVE Named(k)'
  <2>1. ItemsOf(k)' = ItemsOf(k) /\ \A i \in ItemsOf(k) : item'[i] = item[i]
    BY <1>2 DEF ItemsOf
  <2> QED
    BY <1>2, <1>5, <2>1, NamesAside
<1>10. NothingIsBack'
  BY <1>2, <1>6 DEF NamesInv, NothingIsBack
<1>11. LoanMovementNamesItsUnits'
  BY <1>8, <1>9 DEF Named, LentBy, LoanMovementNamesItsUnits, CustodyInv, LoansHaveAMovement
<1> QED
  BY <1>10, <1>11 DEF NamesInv

-----------------------------------------------------------------------------
(* The kardex and the names, operation by operation.                       *)

\* The rows the operations record are well formed.
LEMMA RecordedRows ==
  ASSUME NEW units \in SUBSET Unit
  PROVE  /\ Row("STOCK_IN", "NONE", units, NoCondition) \in MovementRow
         /\ Row("RETIREMENT", "NONE", units, NoCondition) \in MovementRow
         /\ Row("LOAN", "NONE", units, NoCondition) \in MovementRow
         /\ Row("REVERSAL", "LOAN", units, NoCondition) \in MovementRow
         /\ \A c \in Condition :
              /\ Row("RETIREMENT", "NONE", units, Constantly(c)) \in MovementRow
              /\ Row("MAINTENANCE_IN", "NONE", units, Constantly(c)) \in MovementRow
         /\ \A condition \in [units -> Condition] :
              /\ Row("MAINTENANCE_OUT", "NONE", units, condition) \in MovementRow
              /\ Row("RETURN", "NONE", units, condition) \in MovementRow
<1>1. /\ \A u \in units : NoCondition[u] \in Condition
      /\ \A c \in Condition, u \in units : Constantly(c)[u] \in Condition
  BY DEF NoCondition, Constantly, Condition
<1>2. {"STOCK_IN", "RETIREMENT", "LOAN", "REVERSAL", "MAINTENANCE_IN", "MAINTENANCE_OUT", "RETURN"}
        \subseteq MovementType
  BY DEF MovementType
<1> QED
  BY <1>1, <1>2, RowType

\* What the steps that record rows, and nothing else, do to the tables.
Recorded(row) ==
  \E m, r \in Movement : Record(m, row) \/ RecordWithRetirement(m, r, row)

\* The kardex follows every such step.
LEMMA RecordedAddsUp ==
  ASSUME TypeOK, TypeOK', SumInv, NEW row \in MovementRow, row.type # "NONE", Recorded(row)
  PROVE  SumInv'
BY RecordAddsUp, RecordWithRetirementAddsUp DEF Recorded

\* Which rows the operations record.
LEMMA WhatIsRecorded ==
  /\ \A m \in Movement, units \in SUBSET Unit :
       /\ StockIn(m, units) => Recorded(Row("STOCK_IN", "NONE", units, NoCondition))
       /\ Retire(m, units) => Recorded(Row("RETIREMENT", "NONE", units, NoCondition))
  /\ \A m \in Movement, u \in Unit : RetireUnitForMaterialOutput(m, u) =>
       \E c \in Condition : Recorded(Row("RETIREMENT", "NONE", {u}, Constantly(c)))
  /\ \A m \in Movement, units \in SUBSET Unit, c \in MaintenanceInCondition :
       MaintenanceIn(m, units, c) => Recorded(Row("MAINTENANCE_IN", "NONE", units, Constantly(c)))
  /\ \A m, r \in Movement, units \in SUBSET Unit : \A condition \in [units -> ExitCondition] :
       MaintenanceOut(m, r, units, condition) =>
         Recorded(Row("MAINTENANCE_OUT", "NONE", units, condition))
  /\ \A m \in Movement, l \in Loan, lines \in Lines : Lend(m, l, lines) =>
       \E units \in SUBSET Unit : Recorded(Row("LOAN", "NONE", units, NoCondition))
  /\ \A m, r \in Movement, l \in Loan, units \in SUBSET Unit :
       \A condition \in [units -> ReturnCondition] :
         ReturnLoan(m, r, l, units, condition) => Recorded(Row("RETURN", "NONE", units, condition))
<1>1. ASSUME NEW m \in Movement, NEW u \in Unit, RetireUnitForMaterialOutput(m, u)
      PROVE  \E c \in Condition : Recorded(Row("RETIREMENT", "NONE", {u}, Constantly(c)))
  <2>1. PICK c \in Condition : c = IF status[u] = "DAMAGED" THEN "POOR" ELSE "UNSET"
    BY DEF Condition
  <2>2. Record(m, Row("RETIREMENT", "NONE", {u}, Constantly(c)))
    BY <1>1, <2>1 DEF RetireUnitForMaterialOutput
  <2> QED
    BY <2>2 DEF Recorded
<1>2. ASSUME NEW m \in Movement, NEW l \in Loan, NEW lines \in Lines, Lend(m, l, lines)
      PROVE  \E units \in SUBSET Unit : Recorded(Row("LOAN", "NONE", units, NoCondition))
  <2>1. PICK units : units = UNION {lines[i] : i \in DOMAIN lines}
    OBVIOUS
  <2>2. units \in SUBSET Unit
    BY <2>1 DEF Lines
  <2>3. Record(m, Row("LOAN", "NONE", units, NoCondition))
    BY <1>2, <2>1 DEF Lend
  <2> QED
    BY <2>2, <2>3 DEF Recorded
<1>3. \A m \in Movement, units \in SUBSET Unit :
       /\ StockIn(m, units) => Recorded(Row("STOCK_IN", "NONE", units, NoCondition))
       /\ Retire(m, units) => Recorded(Row("RETIREMENT", "NONE", units, NoCondition))
  BY DEF StockIn, Retire, Recorded
<1>4. \A m \in Movement, units \in SUBSET Unit, c \in MaintenanceInCondition :
       MaintenanceIn(m, units, c) => Recorded(Row("MAINTENANCE_IN", "NONE", units, Constantly(c)))
  BY DEF MaintenanceIn, Recorded
<1>5. \A m, r \in Movement, units \in SUBSET Unit : \A condition \in [units -> ExitCondition] :
       MaintenanceOut(m, r, units, condition) =>
         Recorded(Row("MAINTENANCE_OUT", "NONE", units, condition))
  BY DEF MaintenanceOut, Recorded
<1>6. \A m, r \in Movement, l \in Loan, units \in SUBSET Unit :
       \A condition \in [units -> ReturnCondition] :
         ReturnLoan(m, r, l, units, condition) => Recorded(Row("RETURN", "NONE", units, condition))
  BY DEF ReturnLoan, Recorded
<1> QED
  BY <1>1, <1>2, <1>3, <1>4, <1>5, <1>6

\* Every step but updateLoan, the reversals and cancelLoan only records.
LEMMA RecordingSteps ==
  ASSUME Next
  PROVE  \/ \E row \in MovementRow : row.type # "NONE" /\ Recorded(row)
         \/ \E m, s \in Movement : Revert(m, s)
         \/ \E l \in Loan, i, j \in LoanItem, units \in SUBSET Unit : UpdateLoan(l, i, j, units)
         \/ \E m \in Movement, l \in Loan : CancelLoan(m, l)
<1> DEFINE Records == \E row \in MovementRow : row.type # "NONE" /\ Recorded(row)
<1>0. \A type, source, units, condition :
        Row(type, source, units, condition).type = type
  BY DEF Row
<1>1. ASSUME NEW m \in Movement, NEW units \in SUBSET Unit, StockIn(m, units) \/ Retire(m, units)
      PROVE  Records
  <2>1. \/ Recorded(Row("STOCK_IN", "NONE", units, NoCondition))
        \/ Recorded(Row("RETIREMENT", "NONE", units, NoCondition))
    BY <1>1, WhatIsRecorded
  <2> QED
    BY <1>0, <2>1, RecordedRows
<1>2. ASSUME NEW m \in Movement, NEW u \in Unit, RetireUnitForMaterialOutput(m, u)
      PROVE  Records
  <2>1. PICK c \in Condition : Recorded(Row("RETIREMENT", "NONE", {u}, Constantly(c)))
    BY <1>2, WhatIsRecorded
  <2>2. {u} \in SUBSET Unit
    OBVIOUS
  <2>3. Row("RETIREMENT", "NONE", {u}, Constantly(c)) \in MovementRow
    BY <2>2, RecordedRows
  <2> QED
    BY <1>0, <2>1, <2>3
<1>3. ASSUME NEW m \in Movement, NEW units \in SUBSET Unit, NEW c \in MaintenanceInCondition,
             MaintenanceIn(m, units, c)
      PROVE  Records
  <2>1. Recorded(Row("MAINTENANCE_IN", "NONE", units, Constantly(c))) /\ c \in Condition
    BY <1>3, WhatIsRecorded, ConstantsAssumption
  <2>2. Row("MAINTENANCE_IN", "NONE", units, Constantly(c)) \in MovementRow
    BY <2>1, RecordedRows
  <2> QED
    BY <1>0, <2>1, <2>2
<1>4. ASSUME NEW m \in Movement, NEW r \in Movement, NEW units \in SUBSET Unit,
             NEW condition \in [units -> ExitCondition], MaintenanceOut(m, r, units, condition)
      PROVE  Records
  <2>1. Recorded(Row("MAINTENANCE_OUT", "NONE", units, condition))
    BY <1>4, WhatIsRecorded
  <2>2. condition \in [units -> Condition]
    BY ConstantsAssumption
  <2>3. Row("MAINTENANCE_OUT", "NONE", units, condition) \in MovementRow
    BY <2>2, RecordedRows
  <2> QED
    BY <1>0, <2>1, <2>3
<1>5. ASSUME NEW m \in Movement, NEW l \in Loan, NEW lines \in Lines, Lend(m, l, lines)
      PROVE  Records
  <2>1. PICK units \in SUBSET Unit : Recorded(Row("LOAN", "NONE", units, NoCondition))
    BY <1>5, WhatIsRecorded
  <2>2. Row("LOAN", "NONE", units, NoCondition) \in MovementRow
    BY RecordedRows
  <2> QED
    BY <1>0, <2>1, <2>2
<1>6. ASSUME NEW m \in Movement, NEW r \in Movement, NEW l \in Loan, NEW units \in SUBSET Unit,
             NEW condition \in [units -> ReturnCondition], ReturnLoan(m, r, l, units, condition)
      PROVE  Records
  <2>1. Recorded(Row("RETURN", "NONE", units, condition))
    BY <1>6, WhatIsRecorded
  <2>2. condition \in [units -> Condition]
    BY ConstantsAssumption DEF ReturnCondition
  <2>3. Row("RETURN", "NONE", units, condition) \in MovementRow
    BY <2>2, RecordedRows
  <2> QED
    BY <1>0, <2>1, <2>3
<1> HIDE DEF Records
<1>7. \/ Records
      \/ \E m, s \in Movement : Revert(m, s)
      \/ \E l \in Loan, i, j \in LoanItem, units \in SUBSET Unit : UpdateLoan(l, i, j, units)
      \/ \E m \in Movement, l \in Loan : CancelLoan(m, l)
  BY <1>1, <1>2, <1>3, <1>4, <1>5, <1>6 DEF Next
<1> QED
  BY <1>7 DEF Records

\* The LOAN movement that is rewritten moves the kardex by the units it gives
\* back and those it takes.
LEMMA UpdateAddsUp ==
  ASSUME TypeOK, TypeOK', SumInv, NamesInv, RowOrderMatches, NEW l \in Loan, NEW i \in LoanItem,
         NEW j \in LoanItem, NEW units \in SUBSET Unit, UpdateLoan(l, i, j, units)
  PROVE  SumInv'
<1>1. PICK m, row : m = loan[l].movement /\ row = Rewritten(movement[m], item[i].open, units)
  OBVIOUS
<1>2. /\ m \in Movement /\ i = j /\ movement[m].type = "LOAN" /\ movement[m].units \in SUBSET Unit
      /\ movement' = [movement EXCEPT ![m] = row]
      /\ item[i].open \subseteq movement[m].units
      /\ (movement[m].units \ item[i].open) \cap units = {}
  BY <1>1, UpdateRow
<1>3. /\ movement[m] \in MovementRow /\ movement'[m] = row /\ row \in MovementRow
      /\ \A x \in Movement \ {m} : movement'[x] = movement[x]
  BY <1>2 DEF TypeOK
<1>4. row.type = "LOAN" /\ row.units = (movement[m].units \ item[i].open) \cup units
  BY <1>1, <1>2, <1>3 DEF Rewritten, MovementRow
<1>5. ASSUME NEW d \in Device PROVE ledger'[d] = SumFunctionOnSet(Deltas(d)', Movement)
  <2>1. PICK A, L, G, B : /\ A = movement[m].units \cap UnitsOf(d)
                          /\ L = item[i].open \cap UnitsOf(d)
                          /\ G = units \cap UnitsOf(d)
                          /\ B = row.units \cap UnitsOf(d)
    OBVIOUS
  <2>2. /\ A \ L \in SUBSET Unit /\ L \in SUBSET A /\ A \in SUBSET Unit /\ G \in SUBSET Unit
        /\ (A \ L) \cap G = {} /\ B = (A \ L) \cup G /\ L \in SUBSET Unit
    BY <1>2, <1>4, <2>1
  <2>3. Cardinality(B) = Cardinality(A \ L) + Cardinality(G)
    <3>1. {} \in SUBSET (A \ L) /\ G \cap (A \ L) = {} /\ B = ((A \ L) \ {}) \cup G
      BY <2>2
    <3>2. Cardinality(B) = Cardinality(A \ L) + Cardinality(G) - Cardinality({})
      BY <2>2, <3>1, SwapCount
    <3>3. Cardinality({}) = 0 /\ Cardinality(A \ L) \in Nat /\ Cardinality(G) \in Nat
      BY <2>2, FS_EmptySet, UnitsAreCounted
    <3> QED
      BY <3>2, <3>3
  <2>4. Cardinality(A \ L) = Cardinality(A) - Cardinality(L)
    <3>1. {} \in SUBSET Unit /\ {} \cap A = {} /\ A \ L = (A \ L) \cup {}
      OBVIOUS
    <3>2. Cardinality((A \ L) \cup {}) = Cardinality(A) + Cardinality({}) - Cardinality(L)
      BY <2>2, <3>1, SwapCount
    <3>3. Cardinality({}) = 0 /\ Cardinality(A) \in Nat /\ Cardinality(L) \in Nat
      BY <2>2, FS_EmptySet, UnitsAreCounted
    <3> QED
      BY <3>1, <3>2, <3>3
  <2>5. Cardinality(A) \in Nat /\ Cardinality(L) \in Nat /\ Cardinality(G) \in Nat
    BY <2>2, UnitsAreCounted
  <2>6. LedgerDelta(d, movement[m]) = 0 - Cardinality(A)
    BY <1>2, <1>3, <2>1, DeltaOfLoan
  <2>7. LedgerDelta(d, movement'[m]) = 0 - Cardinality(B)
    BY <1>3, <1>4, <2>1, DeltaOfLoan
  <2>8. ledger'[d] = ledger[d] + Cardinality(L) - Cardinality(G)
    BY <1>2, <2>1 DEF UpdateLoan
  <2>9. ledger[d] \in Int
    BY DEF TypeOK
  <2>10. ledger'[d] = ledger[d] + LedgerDelta(d, movement'[m]) - LedgerDelta(d, movement[m])
    BY <2>3, <2>4, <2>5, <2>6, <2>7, <2>8, <2>9
  <2>11. \A x \in Movement \ {m} : LedgerDelta(d, movement'[x]) = LedgerDelta(d, movement[x])
    BY <1>3
  <2> QED
    BY <1>2, <2>10, <2>11, KardexOf, SumMoves DEF SumInv
<1>6. KardexIsTheSum'
  BY <1>5 DEF KardexIsTheSum, Deltas
<1>7. FreeRowsAreEmpty'
  BY <1>3, <1>4 DEF SumInv, FreeRowsAreEmpty, IsFree
<1> QED
  BY <1>6, <1>7 DEF SumInv

\* A reversal adds its row; the row it cancels keeps what it added.
LEMMA ReversalAddsUp ==
  ASSUME TypeOK, TypeOK', SumInv, NEW m \in Movement, NEW s \in Movement,
         IsFree(m), s # m, ~IsFree(s),
         NEW row \in MovementRow, row.type # "NONE",
         movement'[s] = Cancelled(movement[s]),
         movement'[m] = row \/ (row.units = {} /\ movement'[m] = movement[m]),
         \A x \in Movement \ {m, s} : movement'[x] = movement[x],
         ledger' = [d \in Device |-> ledger[d] + LedgerDelta(d, row)]
  PROVE  SumInv'
<1>1. ASSUME NEW d \in Device PROVE ledger'[d] = SumFunctionOnSet(Deltas(d)', Movement)
  <2>1. LedgerDelta(d, movement[m]) = 0
    BY DeltaOfNothing DEF SumInv, FreeRowsAreEmpty
  <2>2. LedgerDelta(d, row) \in Int /\ ledger[d] \in Int
    BY LedgerDeltaType DEF TypeOK
  <2>3. LedgerDelta(d, movement'[m]) = LedgerDelta(d, row)
    BY <2>1, DeltaOfNothing
  <2>4. LedgerDelta(d, movement'[s]) = LedgerDelta(d, movement[s])
    BY DeltaOfCancelled DEF TypeOK
  <2>5. \A x \in Movement \ {m} : LedgerDelta(d, movement'[x]) = LedgerDelta(d, movement[x])
    BY <2>4
  <2>6. ledger'[d] = ledger[d] + LedgerDelta(d, movement'[m]) - LedgerDelta(d, movement[m])
    BY <2>1, <2>2, <2>3
  <2> QED
    BY <2>5, <2>6, KardexOf, SumMoves DEF SumInv
<1>2. KardexIsTheSum'
  BY <1>1 DEF KardexIsTheSum, Deltas
<1>3. Cancelled(movement[s]).type = movement[s].type
  BY DEF Cancelled, TypeOK, MovementRow
<1>4. FreeRowsAreEmpty'
  BY <1>3 DEF SumInv, FreeRowsAreEmpty, IsFree
<1> QED
  BY <1>2, <1>4 DEF SumInv

\* No operation puts the kardex and its rows apart.
LEMMA SumInvNext ==
  ASSUME TypeOK, TypeOK', SumInv, NamesInv, RowOrderMatches, [Next]_vars
  PROVE  SumInv'
<1>1. ASSUME NEW m \in Movement, NEW s \in Movement, Revert(m, s)
      PROVE  SumInv'
  <2>1. PICK units, row : /\ units = movement[s].units \ BrokenOf(movement[s].units, movement[s].condition)
                          /\ row = Row("REVERSAL", movement[s].type, units, movement[s].condition)
    OBVIOUS
  <2>2. /\ IsFree(m) /\ movement[s].type \in {"MAINTENANCE_IN", "MAINTENANCE_OUT"}
        /\ movement' = [movement EXCEPT ![s] = Cancelled(movement[s]), ![m] = row]
        /\ ledger' = [d \in Device |-> ledger[d] + LedgerDelta(d, row)]
    BY <1>1, <2>1 DEF Revert
  <2>3. s # m /\ ~IsFree(s)
    BY <2>2 DEF IsFree
  <2>4. movement'[s] = Cancelled(movement[s]) /\ movement'[m] = row
        /\ \A x \in Movement \ {m, s} : movement'[x] = movement[x]
    BY <2>2, <2>3 DEF TypeOK
  <2>5. row \in MovementRow /\ row.type # "NONE"
    <3>1. row.type = "REVERSAL"
      BY <2>1 DEF Row
    <3> QED
      BY <2>4, <3>1 DEF TypeOK
  <2>6. movement'[m] = row \/ (row.units = {} /\ movement'[m] = movement[m])
    BY <2>4
  <2>7. IsFree(m) /\ ledger' = [d \in Device |-> ledger[d] + LedgerDelta(d, row)]
    BY <2>2
  <2> QED
    BY <2>3, <2>4, <2>5, <2>6, <2>7, ReversalAddsUp
<1>2. ASSUME NEW m \in Movement, NEW l \in Loan, CancelLoan(m, l)
      PROVE  SumInv'
  <2>1. PICK s, pending, row :
          /\ s = loan[l].movement
          /\ pending = UNION {item[i].open : i \in ItemsOf(l)}
          /\ row = Row("REVERSAL", "LOAN", pending, NoCondition)
    OBVIOUS
  <2>2. s \in Movement /\ movement[s].type = "LOAN"
    BY <1>2, <2>1 DEF CancelLoan, IsOpen, NamesInv, CustodyInv, LoansHaveAMovement
  <2>3. /\ IsFree(m)
        /\ movement' = [x \in Movement |-> IF x = s THEN Cancelled(movement[x])
                                           ELSE IF x = m /\ pending # {} THEN row ELSE movement[x]]
        /\ ledger' = [d \in Device |-> ledger[d] + LedgerDelta(d, row)]
    BY <1>2, <2>1 DEF CancelLoan
  <2>4. s # m /\ ~IsFree(s)
    BY <2>2, <2>3 DEF IsFree
  <2>5. pending \in SUBSET Unit
    BY <2>1 DEF TypeOK, ItemRow, ItemsOf
  <2>6. row \in MovementRow /\ row.type # "NONE" /\ row.units = pending
    BY <2>1, <2>5, RecordedRows DEF Row
  <2>7. movement'[m] = row \/ (row.units = {} /\ movement'[m] = movement[m])
    <3>1. movement'[m] = IF m = s THEN Cancelled(movement[m])
                         ELSE IF m = m /\ pending # {} THEN row ELSE movement[m]
      BY <2>3
    <3> QED
      BY <2>4, <2>6, <3>1
  <2>8. movement'[s] = Cancelled(movement[s]) /\ \A x \in Movement \ {m, s} : movement'[x] = movement[x]
    BY <2>2, <2>3
  <2> QED
    BY <2>2, <2>3, <2>4, <2>6, <2>7, <2>8, ReversalAddsUp
<1>3. ASSUME Next PROVE SumInv'
  BY <1>1, <1>2, <1>3, RecordingSteps, RecordedAddsUp, UpdateAddsUp
<1>4. ASSUME UNCHANGED vars PROVE SumInv'
  BY <1>4 DEF vars, SumInv, KardexIsTheSum, FreeRowsAreEmpty, IsFree
<1> QED
  BY <1>3, <1>4

\* Every step keeps the LOAN movements' names.
LEMMA NamesInvNext ==
  ASSUME NamesInv, RowOrderMatches, [Next]_vars
  PROVE  NamesInv'
<1>1. CustodyInv' /\ CustodyInv
  BY CustodyInvNext DEF NamesInv
<1>2. ASSUME UNCHANGED <<loan, item>>, NEW row, Recorded(row) PROVE NamesInv'
  BY <1>1, <1>2, NamesStayRecorded, NamesUntouched DEF Recorded
<1>3. ASSUME NEW m \in Movement, NEW s \in Movement, Revert(m, s)
      PROVE  NamesInv'
  <2>1. NamesStay
    <3> SUFFICES ASSUME NEW k \in Loan, loan[k].status # "NONE"
                 PROVE  movement'[loan[k].movement] = movement[loan[k].movement]
      BY DEF NamesStay
    <3>1. loan[k].movement \in Movement /\ movement[loan[k].movement].type = "LOAN"
      BY <1>1 DEF CustodyInv, LoansHaveAMovement
    <3>2. loan[k].movement # s /\ loan[k].movement # m
      BY <1>3, <3>1 DEF Revert, IsFree
    <3>3. PICK row : movement' = [movement EXCEPT ![s] = Cancelled(movement[s]), ![m] = row]
      BY <1>3 DEF Revert
    <3> QED
      BY <1>1, <3>1, <3>2, <3>3 DEF CustodyInv, LoanInv, TypeOK
  <2> QED
    BY <1>1, <1>3, <2>1, NamesUntouched DEF Revert
<1>4. ASSUME NEW m \in Movement, NEW units \in SUBSET Unit, StockIn(m, units) \/ Retire(m, units)
      PROVE  NamesInv'
  BY <1>2, <1>4, WhatIsRecorded DEF StockIn, Retire
<1>5. ASSUME NEW m \in Movement, NEW u \in Unit, RetireUnitForMaterialOutput(m, u)
      PROVE  NamesInv'
  BY <1>2, <1>5, WhatIsRecorded DEF RetireUnitForMaterialOutput
<1>6. ASSUME NEW m \in Movement, NEW units \in SUBSET Unit, NEW c \in MaintenanceInCondition,
             MaintenanceIn(m, units, c)
      PROVE  NamesInv'
  BY <1>2, <1>6, WhatIsRecorded DEF MaintenanceIn
<1>7. ASSUME NEW m \in Movement, NEW r \in Movement, NEW units \in SUBSET Unit,
             NEW condition \in [units -> ExitCondition], MaintenanceOut(m, r, units, condition)
      PROVE  NamesInv'
  BY <1>2, <1>7, WhatIsRecorded DEF MaintenanceOut
<1>8. CASE UNCHANGED vars
  BY <1>1, <1>8, NamesUntouched DEF vars, NamesStay
<1> QED
  BY <1>1, <1>3, <1>4, <1>5, <1>6, <1>7, <1>8, LendNames, ReturnNames, UpdateNames, CancelNames DEF Next

-----------------------------------------------------------------------------
(* The workshop: entries, exits and reversals balance.                     *)

\* What came out of the workshop broken was retired with it.
BrokenExitsAreRetired ==
  \A m \in Movement, u \in Unit :
    movement[m].type = "MAINTENANCE_OUT" /\ u \in movement[m].units
      /\ movement[m].condition[u] = "BROKEN" => status[u] = "RETIRED"

\* The entries to the workshop and the exits that stand.
EntriesOf(u) == StillActive("MAINTENANCE_IN", u)
ExitsOf(u) == StillActive("MAINTENANCE_OUT", u)

\* The balance of one unit.
Balanced(u) ==
  status[u] # "RETIRED" =>
    Cardinality(EntriesOf(u)) = Cardinality(ExitsOf(u)) + (IF status[u] = "IN_MAINTENANCE" THEN 1 ELSE 0)

\* Balances, unit by unit.
LEMMA BalancedByUnit == MaintenanceIsBalanced <=> \A u \in Unit : Balanced(u)
BY DEF MaintenanceIsBalanced, Balanced, EntriesOf, ExitsOf

\* The rows of maintenance are finitely many.
LEMMA RowsAreCounted ==
  ASSUME NEW S \in SUBSET Movement
  PROVE  /\ IsFiniteSet(S) /\ Cardinality(S) \in Nat
         /\ \A m \in Movement \ S : Cardinality(S \cup {m}) = Cardinality(S) + 1
         /\ \A m \in S : Cardinality(S \ {m}) = Cardinality(S) - 1
<1>1. IsFiniteSet(S)
  BY ConstantsAssumption, FS_Subset
<1> QED
  BY <1>1, FS_CardinalityType, FS_AddElement, FS_RemoveElement

\* A unit whose rows stay keeps its balance, unless it enters or leaves.
LEMMA BalanceStays ==
  ASSUME NEW u \in Unit, Balanced(u), EntriesOf(u)' = EntriesOf(u), ExitsOf(u)' = ExitsOf(u),
         \/ status'[u] = "RETIRED"
         \/ /\ status[u] # "RETIRED"
            /\ status'[u] = "IN_MAINTENANCE" <=> status[u] = "IN_MAINTENANCE"
  PROVE  Balanced(u)'
BY DEF Balanced

\* One more row of maintenance, and the unit on the other side.
LEMMA BalanceMoves ==
  ASSUME NEW u \in Unit, Balanced(u), NEW m \in Movement,
         \/ /\ status[u] \notin {"RETIRED", "IN_MAINTENANCE"} /\ status'[u] = "IN_MAINTENANCE"
            /\ \/ m \notin EntriesOf(u) /\ EntriesOf(u)' = EntriesOf(u) \cup {m} /\ ExitsOf(u)' = ExitsOf(u)
               \/ m \in ExitsOf(u) /\ ExitsOf(u)' = ExitsOf(u) \ {m} /\ EntriesOf(u)' = EntriesOf(u)
         \/ /\ status[u] = "IN_MAINTENANCE" /\ status'[u] # "IN_MAINTENANCE"
            /\ \/ m \notin ExitsOf(u) /\ ExitsOf(u)' = ExitsOf(u) \cup {m} /\ EntriesOf(u)' = EntriesOf(u)
               \/ m \in EntriesOf(u) /\ EntriesOf(u)' = EntriesOf(u) \ {m} /\ ExitsOf(u)' = ExitsOf(u)
  PROVE  Balanced(u)'
<1>1. PICK in, out, in2, out2 : /\ in = EntriesOf(u) /\ in2 = EntriesOf(u)'
                                /\ out = ExitsOf(u) /\ out2 = ExitsOf(u)'
  OBVIOUS
<1>2. in \in SUBSET Movement /\ out \in SUBSET Movement
  BY <1>1 DEF EntriesOf, ExitsOf, StillActive
<1>3. /\ Cardinality(in) \in Nat /\ Cardinality(out) \in Nat
      /\ m \notin in => Cardinality(in \cup {m}) = Cardinality(in) + 1
      /\ m \notin out => Cardinality(out \cup {m}) = Cardinality(out) + 1
      /\ m \in in => Cardinality(in \ {m}) = Cardinality(in) - 1
      /\ m \in out => Cardinality(out \ {m}) = Cardinality(out) - 1
  BY <1>2, RowsAreCounted
<1>4. Cardinality(in) = Cardinality(out) + (IF status[u] = "IN_MAINTENANCE" THEN 1 ELSE 0)
  BY <1>1 DEF Balanced
<1>5. Cardinality(in2) - Cardinality(out2) = (IF status'[u] = "IN_MAINTENANCE" THEN 1 ELSE 0)
  <2>1. CASE /\ status[u] # "IN_MAINTENANCE" /\ status'[u] = "IN_MAINTENANCE"
             /\ m \notin in /\ in2 = in \cup {m} /\ out2 = out
    BY <1>3, <1>4, <2>1
  <2>2. CASE /\ status[u] # "IN_MAINTENANCE" /\ status'[u] = "IN_MAINTENANCE"
             /\ m \in out /\ out2 = out \ {m} /\ in2 = in
    BY <1>3, <1>4, <2>2
  <2>3. CASE /\ status[u] = "IN_MAINTENANCE" /\ status'[u] # "IN_MAINTENANCE"
             /\ m \notin out /\ out2 = out \cup {m} /\ in2 = in
    BY <1>3, <1>4, <2>3
  <2>4. CASE /\ status[u] = "IN_MAINTENANCE" /\ status'[u] # "IN_MAINTENANCE"
             /\ m \in in /\ in2 = in \ {m} /\ out2 = out
    BY <1>3, <1>4, <2>4
  <2> QED
    BY <1>1, <2>1, <2>2, <2>3, <2>4
<1>6. in2 \in SUBSET Movement /\ out2 \in SUBSET Movement
  BY <1>1 DEF EntriesOf, ExitsOf, StillActive
<1>7. Cardinality(in2) \in Nat /\ Cardinality(out2) \in Nat
  BY <1>6, RowsAreCounted
<1>8. Cardinality(in2) = Cardinality(out2) + (IF status'[u] = "IN_MAINTENANCE" THEN 1 ELSE 0)
  BY <1>5, <1>7
<1> QED
  BY <1>1, <1>8 DEF Balanced

\* What recording a row adds to the entries and exits of a unit.
LEMMA RecordedRowsOf ==
  ASSUME TypeOK, NEW m \in Movement, NEW row, Record(m, row), row.status = "ACTIVE", NEW u \in Unit
  PROVE  /\ m \notin EntriesOf(u) /\ m \notin ExitsOf(u)
         /\ EntriesOf(u)' = IF row.type = "MAINTENANCE_IN" /\ u \in row.units
                            THEN EntriesOf(u) \cup {m} ELSE EntriesOf(u)
         /\ ExitsOf(u)' = IF row.type = "MAINTENANCE_OUT" /\ u \in row.units
                          THEN ExitsOf(u) \cup {m} ELSE ExitsOf(u)
<1>1. /\ movement[m].type = "NONE" /\ movement'[m] = row
      /\ \A x \in Movement \ {m} : movement'[x] = movement[x]
  BY DEF Record, IsFree, TypeOK
<1>2. m \notin EntriesOf(u) /\ m \notin ExitsOf(u)
  BY <1>1 DEF EntriesOf, ExitsOf, StillActive
<1>3. EntriesOf(u)' = IF row.type = "MAINTENANCE_IN" /\ u \in row.units
                      THEN EntriesOf(u) \cup {m} ELSE EntriesOf(u)
  BY <1>1 DEF EntriesOf, StillActive
<1>4. ExitsOf(u)' = IF row.type = "MAINTENANCE_OUT" /\ u \in row.units
                    THEN ExitsOf(u) \cup {m} ELSE ExitsOf(u)
  BY <1>1 DEF ExitsOf, StillActive
<1> QED
  BY <1>2, <1>3, <1>4

\* The automatic retirement adds neither.
LEMMA RecordedWithRetirementRowsOf ==
  ASSUME TypeOK, NEW m \in Movement, NEW r \in Movement, NEW row, RecordWithRetirement(m, r, row),
         row.status = "ACTIVE", NEW u \in Unit
  PROVE  /\ m \notin EntriesOf(u) /\ m \notin ExitsOf(u)
         /\ EntriesOf(u)' = IF row.type = "MAINTENANCE_IN" /\ u \in row.units
                            THEN EntriesOf(u) \cup {m} ELSE EntriesOf(u)
         /\ ExitsOf(u)' = IF row.type = "MAINTENANCE_OUT" /\ u \in row.units
                          THEN ExitsOf(u) \cup {m} ELSE ExitsOf(u)
<1>1. CASE BrokenOf(row.units, row.condition) = {}
  <2>1. Record(m, row)
    BY <1>1 DEF RecordWithRetirement
  <2> QED
    BY <2>1, RecordedRowsOf
<1>2. CASE BrokenOf(row.units, row.condition) # {}
  <2>1. PICK second : second = AutomaticRetirementRow(BrokenOf(row.units, row.condition))
    OBVIOUS
  <2>2. /\ m # r /\ movement[m].type = "NONE" /\ movement[r].type = "NONE"
        /\ movement' = [movement EXCEPT ![m] = row, ![r] = second]
    BY <1>2, <2>1 DEF RecordWithRetirement, IsFree
  <2>3. second.type = "RETIREMENT"
    BY <2>1 DEF AutomaticRetirementRow, Row
  <2>4. /\ movement'[m] = row /\ movement'[r] = second
        /\ \A x \in Movement \ {m, r} : movement'[x] = movement[x]
    BY <2>2 DEF TypeOK
  <2>5. m \notin EntriesOf(u) /\ m \notin ExitsOf(u)
    BY <2>2 DEF EntriesOf, ExitsOf, StillActive
  <2>6. EntriesOf(u)' = IF row.type = "MAINTENANCE_IN" /\ u \in row.units
                        THEN EntriesOf(u) \cup {m} ELSE EntriesOf(u)
    BY ZenonT(30), <2>2, <2>3, <2>4 DEF EntriesOf, StillActive
  <2>7. ExitsOf(u)' = IF row.type = "MAINTENANCE_OUT" /\ u \in row.units
                      THEN ExitsOf(u) \cup {m} ELSE ExitsOf(u)
    BY ZenonT(30), <2>2, <2>3, <2>4 DEF ExitsOf, StillActive
  <2> QED
    BY <2>5, <2>6, <2>7
<1> QED
  BY <1>1, <1>2

\* A retired unit stays retired.
LEMMA RetiredStays ==
  ASSUME CustodyInv, Next, NEW u \in Unit, status[u] = "RETIRED"
  PROVE  status'[u] = "RETIRED"
<1>1. CASE PremisesStep
  <2>1. status'[u] = status[u] \/ <<status[u], status'[u]>> \in Legs
    BY <1>1 DEF PremisesStep
  <2> QED
    BY <2>1 DEF Legs, Abstract!Leg
<1>2. ASSUME NEW l \in Loan, NEW m \in Movement, NEW S \in SUBSET LoanItem, LendStep(m, l, S)
      PROVE  status'[u] = "RETIRED"
  BY <1>2 DEF LendStep
<1>3. ASSUME NEW i \in LoanItem, u \in item[i].open PROVE FALSE
  BY <1>3 DEF CustodyInv, LoanInv, LentUnitsHaveOneLoan
<1>4. ASSUME NEW l \in Loan, NEW units \in SUBSET Unit, ReturnStep(l, units)
      PROVE  status'[u] = "RETIRED"
  BY <1>3, <1>4 DEF ReturnStep, ItemsOf
<1>5. ASSUME NEW l \in Loan, NEW i \in LoanItem, NEW units \in SUBSET Unit, UpdateStep(l, i, units)
      PROVE  status'[u] = "RETIRED"
  BY <1>3, <1>5 DEF UpdateStep
<1>6. ASSUME NEW l \in Loan, CancelStep(l)
      PROVE  status'[u] = "RETIRED"
  BY <1>3, <1>6 DEF CancelStep, ItemsOf
<1> QED
  BY <1>1, <1>2, <1>4, <1>5, <1>6, StepKinds

\* The rows of exits stay as they are.
ExitRowsStay ==
  \A x \in Movement : movement'[x].type = "MAINTENANCE_OUT" =>
    /\ movement[x].type = "MAINTENANCE_OUT" /\ movement'[x].units = movement[x].units
    /\ movement'[x].condition = movement[x].condition

\* So what they brought out broken stays retired.
LEMMA BrokenStay ==
  ASSUME CustodyInv, Next, BrokenExitsAreRetired, ExitRowsStay
  PROVE  BrokenExitsAreRetired'
BY RetiredStays DEF BrokenExitsAreRetired, ExitRowsStay

\* The workshop, and what its balance rests on.
BalanceInv == CustodyInv /\ BrokenExitsAreRetired /\ MaintenanceIsBalanced

\* No operation but maintenance and its reversal moves a unit into the
\* workshop or out of it.
Aside ==
  \A u \in Unit : status'[u] # status[u] =>
    status[u] # "RETIRED" /\ status[u] # "IN_MAINTENANCE" /\ status'[u] # "IN_MAINTENANCE"

\* A step aside that touches no row of maintenance keeps the balance.
LEMMA AsideKeeps ==
  ASSUME BalanceInv, CustodyInv', Next, Aside,
         \A u \in Unit : EntriesOf(u)' = EntriesOf(u) /\ ExitsOf(u)' = ExitsOf(u),
         ExitRowsStay
  PROVE  BalanceInv'
<1>1. ASSUME NEW u \in Unit PROVE Balanced(u)'
  <2>1. Balanced(u)
    BY BalancedByUnit DEF BalanceInv
  <2> QED
    BY <2>1, BalanceStays DEF Aside
<1>2. MaintenanceIsBalanced'
  BY <1>1 DEF MaintenanceIsBalanced, Balanced, EntriesOf, ExitsOf
<1> QED
  BY <1>2, BrokenStay DEF BalanceInv

\* A row that is no maintenance leaves the exits alone.
LEMMA ExitRowsRecorded ==
  ASSUME TypeOK, NEW m \in Movement, NEW r \in Movement, NEW row, row.type # "MAINTENANCE_OUT",
         Record(m, row) \/ RecordWithRetirement(m, r, row)
  PROVE  ExitRowsStay
<1>1. ASSUME Record(m, row) PROVE ExitRowsStay
  BY <1>1 DEF Record, TypeOK, ExitRowsStay
<1>2. CASE RecordWithRetirement(m, r, row) /\ BrokenOf(row.units, row.condition) = {}
  BY <1>1, <1>2 DEF RecordWithRetirement
<1>3. CASE RecordWithRetirement(m, r, row) /\ BrokenOf(row.units, row.condition) # {}
  <2>1. PICK second : second = AutomaticRetirementRow(BrokenOf(row.units, row.condition))
    OBVIOUS
  <2>2. movement' = [movement EXCEPT ![m] = row, ![r] = second]
    BY <1>3, <2>1 DEF RecordWithRetirement
  <2>3. second.type = "RETIREMENT"
    BY <2>1 DEF AutomaticRetirementRow, Row
  <2> QED
    BY <2>2, <2>3 DEF TypeOK, ExitRowsStay
<1> QED
  BY <1>1, <1>2, <1>3

\* Recording another row beside the workshop keeps its balance.
LEMMA RecordAside ==
  ASSUME BalanceInv, CustodyInv', Next, Aside, NEW row, row.status = "ACTIVE",
         row.type \notin {"MAINTENANCE_IN", "MAINTENANCE_OUT"}, Recorded(row)
  PROVE  BalanceInv'
<1>0. TypeOK
  BY DEF BalanceInv, CustodyInv, LoanInv
<1>1. PICK m \in Movement, r \in Movement : Record(m, row) \/ RecordWithRetirement(m, r, row)
  BY DEF Recorded
<1>2. \A u \in Unit : EntriesOf(u)' = EntriesOf(u) /\ ExitsOf(u)' = ExitsOf(u)
  BY <1>0, <1>1, RecordedRowsOf, RecordedWithRetirementRowsOf
<1>3. ExitRowsStay
  BY <1>0, <1>1, ExitRowsRecorded
<1> QED
  BY <1>2, <1>3, AsideKeeps

\* The operations beside the workshop.
LEMMA OthersKeepBalance ==
  ASSUME BalanceInv, CustodyInv', Next
  PROVE  /\ \A m \in Movement, units \in SUBSET Unit :
              StockIn(m, units) \/ Retire(m, units) => BalanceInv'
         /\ \A m \in Movement, u \in Unit : RetireUnitForMaterialOutput(m, u) => BalanceInv'
         /\ \A m \in Movement, l \in Loan, lines \in Lines : Lend(m, l, lines) => BalanceInv'
         /\ \A m, r \in Movement, l \in Loan, units \in SUBSET Unit :
              \A condition \in [units -> ReturnCondition] :
                ReturnLoan(m, r, l, units, condition) => BalanceInv'
<1>0. /\ TypeOK
      /\ \A type, source, units, condition : /\ Row(type, source, units, condition).status = "ACTIVE"
                                             /\ Row(type, source, units, condition).type = type
  BY DEF BalanceInv, CustodyInv, LoanInv, Row
<1>1. ASSUME NEW m \in Movement, NEW units \in SUBSET Unit, StockIn(m, units) \/ Retire(m, units)
      PROVE  BalanceInv'
  <2>1. Aside
    BY <1>1 DEF StockIn, Retire, TransitionUnits, Constantly, Aside
  <2>2. PICK row : Recorded(row) /\ row.status = "ACTIVE" /\ row.type \in {"STOCK_IN", "RETIREMENT"}
    BY <1>0, <1>1, WhatIsRecorded
  <2> QED
    BY <2>1, <2>2, RecordAside
<1>2. ASSUME NEW m \in Movement, NEW u \in Unit, RetireUnitForMaterialOutput(m, u)
      PROVE  BalanceInv'
  <2>1. Aside
    BY <1>2 DEF RetireUnitForMaterialOutput, TransitionUnits, Constantly, Aside
  <2>2. PICK c \in Condition : Recorded(Row("RETIREMENT", "NONE", {u}, Constantly(c)))
    BY <1>2, WhatIsRecorded
  <2>3. PICK row : Recorded(row) /\ row.status = "ACTIVE" /\ row.type = "RETIREMENT"
    BY <1>0, <2>2
  <2> QED
    BY <2>1, <2>3, RecordAside
<1>3. ASSUME NEW m \in Movement, NEW l \in Loan, NEW lines \in Lines, Lend(m, l, lines)
      PROVE  BalanceInv'
  <2>1. PICK units : units = UNION {lines[i] : i \in DOMAIN lines}
    OBVIOUS
  <2>2. TransitionUnits(units, "AVAILABLE", Constantly("ON_LOAN"))
    BY <1>3, <2>1 DEF Lend
  <2>3. Aside
    BY <2>2 DEF TransitionUnits, Constantly, Aside
  <2>4. PICK lent \in SUBSET Unit : Recorded(Row("LOAN", "NONE", lent, NoCondition))
    BY <1>3, WhatIsRecorded
  <2>5. PICK row : Recorded(row) /\ row.status = "ACTIVE" /\ row.type = "LOAN"
    BY <1>0, <2>4
  <2> QED
    BY <2>3, <2>5, RecordAside
<1>4. ASSUME NEW m \in Movement, NEW r \in Movement, NEW l \in Loan, NEW units \in SUBSET Unit,
             NEW condition \in [units -> ReturnCondition], ReturnLoan(m, r, l, units, condition)
      PROVE  BalanceInv'
  <2>1. \A u \in units : ConditionToStatus(condition[u]) # "IN_MAINTENANCE"
    BY ConditionToStatusType, ConstantsAssumption DEF ReturnCondition
  <2>2. Aside
    BY <1>4, <2>1 DEF ReturnLoan, TransitionUnits, Aside
  <2>3. PICK row : Recorded(row) /\ row.status = "ACTIVE" /\ row.type = "RETURN"
    BY <1>0, <1>4, WhatIsRecorded
  <2> QED
    BY <2>2, <2>3, RecordAside
<1> QED
  BY <1>1, <1>2, <1>3, <1>4

\* The operations that rewrite the row of a loan.
LEMMA LoansKeepBalance ==
  ASSUME BalanceInv, CustodyInv', Next
  PROVE  /\ \A l \in Loan, i, j \in LoanItem, units \in SUBSET Unit :
              UpdateLoan(l, i, j, units) => BalanceInv'
         /\ \A m \in Movement, l \in Loan : CancelLoan(m, l) => BalanceInv'
<1>0. CustodyInv /\ TypeOK
  BY DEF BalanceInv, CustodyInv, LoanInv
<1>1. ASSUME NEW l \in Loan, NEW i \in LoanItem, NEW j \in LoanItem, NEW units \in SUBSET Unit,
             UpdateLoan(l, i, j, units)
      PROVE  BalanceInv'
  <2>1. Aside
    BY <1>1 DEF UpdateLoan, Aside
  <2>2. PICK s, row : s = loan[l].movement /\ row = Rewritten(movement[s], item[j].open, units)
    OBVIOUS
  <2>3. s \in Movement /\ movement[s].type = "LOAN" /\ movement' = [movement EXCEPT ![s] = row]
    BY <1>0, <1>1, <2>2 DEF UpdateLoan, IsOpen, CustodyInv, LoansHaveAMovement
  <2>4. row.type = "LOAN"
    BY <1>0, <2>2, <2>3 DEF Rewritten, TypeOK, MovementRow
  <2>5. movement'[s] = row /\ \A x \in Movement \ {s} : movement'[x] = movement[x]
    BY <1>0, <2>3 DEF TypeOK
  <2>6. \A u \in Unit : EntriesOf(u)' = EntriesOf(u) /\ ExitsOf(u)' = ExitsOf(u)
    BY <2>3, <2>4, <2>5 DEF EntriesOf, ExitsOf, StillActive
  <2>7. ExitRowsStay
    BY <2>4, <2>5 DEF ExitRowsStay
  <2> QED
    BY <2>1, <2>6, <2>7, AsideKeeps
<1>2. ASSUME NEW m \in Movement, NEW l \in Loan, CancelLoan(m, l)
      PROVE  BalanceInv'
  <2>1. PICK pending, row : /\ pending = UNION {item[i].open : i \in ItemsOf(l)}
                            /\ row = Row("REVERSAL", "LOAN", pending, NoCondition)
    OBVIOUS
  <2>2. TransitionUnits(pending, "ON_LOAN", Constantly("AVAILABLE"))
    BY <1>2, <2>1 DEF CancelLoan
  <2>3. Aside
    BY <2>2 DEF TransitionUnits, Constantly, Aside
  <2>4. PICK s : s = loan[l].movement
    OBVIOUS
  <2>5. s \in Movement /\ movement[s].type = "LOAN" /\ movement[m].type = "NONE"
    BY <1>0, <1>2, <2>4 DEF CancelLoan, IsOpen, IsFree, CustodyInv, LoansHaveAMovement
  <2>6. \A x \in Movement : movement'[x] = IF x = s THEN Cancelled(movement[x])
                                           ELSE IF x = m /\ pending # {} THEN row ELSE movement[x]
    BY <1>2, <2>1, <2>4 DEF CancelLoan
  <2>7. Cancelled(movement[s]).type = "LOAN" /\ row.type = "REVERSAL"
    BY <1>0, <2>1, <2>5 DEF Cancelled, TypeOK, MovementRow, Row
  <2>8. \A x \in Movement :
          \/ movement'[x] = movement[x]
          \/ /\ movement[x].type \in {"LOAN", "NONE"}
             /\ movement'[x].type \in {"LOAN", "REVERSAL"}
    BY <2>5, <2>6, <2>7
  <2>9. \A u \in Unit : EntriesOf(u)' = EntriesOf(u) /\ ExitsOf(u)' = ExitsOf(u)
    BY <2>8 DEF EntriesOf, ExitsOf, StillActive
  <2>10. ExitRowsStay
    BY <2>8 DEF ExitRowsStay
  <2> QED
    BY <2>3, <2>9, <2>10, AsideKeeps
<1> QED
  BY <1>1, <1>2

\* A unit that enters the workshop is one entry more.
LEMMA MaintenanceInBalances ==
  ASSUME BalanceInv, CustodyInv', Next, NEW m \in Movement, NEW units \in SUBSET Unit,
         NEW c \in MaintenanceInCondition, MaintenanceIn(m, units, c)
  PROVE  BalanceInv'
<1>0. TypeOK
  BY DEF BalanceInv, CustodyInv, LoanInv
<1>1. PICK row : row = Row("MAINTENANCE_IN", "NONE", units, Constantly(c))
  OBVIOUS
<1>2. Record(m, row) /\ row.type = "MAINTENANCE_IN" /\ row.status = "ACTIVE" /\ row.units = units
  BY <1>1 DEF MaintenanceIn, Row
<1>3. ExitRowsStay
  BY <1>0, <1>2, ExitRowsRecorded
<1>4. ASSUME NEW u \in Unit PROVE Balanced(u)'
  <2>1. Balanced(u)
    BY BalancedByUnit DEF BalanceInv
  <2>2. /\ m \notin EntriesOf(u) /\ ExitsOf(u)' = ExitsOf(u)
        /\ EntriesOf(u)' = IF u \in units THEN EntriesOf(u) \cup {m} ELSE EntriesOf(u)
    BY <1>0, <1>2, RecordedRowsOf
  <2>3. CASE u \in units
    <3>1. status[u] = "AVAILABLE" /\ status'[u] = "IN_MAINTENANCE"
      BY <2>3 DEF MaintenanceIn, TransitionUnits, Constantly
    <3> QED
      BY <2>1, <2>2, <2>3, <3>1, BalanceMoves
  <2>4. CASE u \notin units
    <3>1. status'[u] = status[u]
      BY <2>4 DEF MaintenanceIn, TransitionUnits
    <3> QED
      BY <2>1, <2>2, <2>4, <3>1, BalanceStays
  <2> QED
    BY <2>3, <2>4
<1>5. MaintenanceIsBalanced'
  BY <1>4 DEF MaintenanceIsBalanced, Balanced, EntriesOf, ExitsOf
<1> QED
  BY <1>3, <1>5, BrokenStay DEF BalanceInv

\* A unit that leaves is one exit more, and is retired if it leaves broken.
LEMMA MaintenanceOutBalances ==
  ASSUME BalanceInv, CustodyInv', Next, NEW m \in Movement, NEW r \in Movement,
         NEW units \in SUBSET Unit, NEW condition \in [units -> ExitCondition],
         MaintenanceOut(m, r, units, condition)
  PROVE  BalanceInv'
<1>0. TypeOK /\ CustodyInv
  BY DEF BalanceInv, CustodyInv, LoanInv
<1>1. PICK row : row = Row("MAINTENANCE_OUT", "NONE", units, condition)
  OBVIOUS
<1>2. /\ RecordWithRetirement(m, r, row) /\ row.type = "MAINTENANCE_OUT" /\ row.status = "ACTIVE"
      /\ row.units = units /\ \A u \in units : row.condition[u] = condition[u]
  BY <1>1 DEF MaintenanceOut, Row
<1>3. /\ \A u \in units : status[u] = "IN_MAINTENANCE" /\ status'[u] = ConditionToStatus(condition[u])
      /\ \A u \in Unit \ units : status'[u] = status[u]
  BY DEF MaintenanceOut, TransitionUnits
<1>4. \A u \in units : ConditionToStatus(condition[u]) # "IN_MAINTENANCE"
  BY ConditionToStatusType, ConstantsAssumption
<1>5. ASSUME NEW u \in Unit PROVE Balanced(u)'
  <2>1. Balanced(u)
    BY BalancedByUnit DEF BalanceInv
  <2>2. /\ m \notin ExitsOf(u) /\ EntriesOf(u)' = EntriesOf(u)
        /\ ExitsOf(u)' = IF u \in units THEN ExitsOf(u) \cup {m} ELSE ExitsOf(u)
    BY <1>0, <1>2, RecordedWithRetirementRowsOf
  <2>3. CASE u \in units
    BY <1>3, <1>4, <2>1, <2>2, <2>3, BalanceMoves
  <2>4. CASE u \notin units
    BY <1>3, <2>1, <2>2, <2>4, BalanceStays
  <2> QED
    BY <2>3, <2>4
<1>6. MaintenanceIsBalanced'
  BY <1>5 DEF MaintenanceIsBalanced, Balanced, EntriesOf, ExitsOf
<1>7. \A x \in Movement \ {m} : movement'[x] = movement[x] \/ movement'[x].type = "RETIREMENT"
  <2>1. CASE BrokenOf(row.units, row.condition) = {}
    BY <1>0, <1>2, <2>1 DEF RecordWithRetirement, Record, TypeOK
  <2>2. CASE BrokenOf(row.units, row.condition) # {}
    <3>1. PICK second : second = AutomaticRetirementRow(BrokenOf(row.units, row.condition))
      OBVIOUS
    <3>2. movement' = [movement EXCEPT ![m] = row, ![r] = second]
      BY <1>2, <2>2, <3>1 DEF RecordWithRetirement
    <3>3. second.type = "RETIREMENT"
      BY <3>1 DEF AutomaticRetirementRow, Row
    <3> QED
      BY <1>0, <3>2, <3>3 DEF TypeOK
  <2> QED
    BY <2>1, <2>2
<1>8. movement'[m] = row
  <2>1. CASE BrokenOf(row.units, row.condition) = {}
    BY <1>0, <1>2, <2>1 DEF RecordWithRetirement, Record, TypeOK
  <2>2. CASE BrokenOf(row.units, row.condition) # {}
    <3>1. PICK second : second = AutomaticRetirementRow(BrokenOf(row.units, row.condition))
      OBVIOUS
    <3>2. m # r /\ movement' = [movement EXCEPT ![m] = row, ![r] = second]
      BY <1>2, <2>2, <3>1 DEF RecordWithRetirement
    <3> QED
      BY <1>0, <3>2 DEF TypeOK
  <2> QED
    BY <2>1, <2>2
<1>9. ASSUME NEW x \in Movement, NEW u \in Unit, movement'[x].type = "MAINTENANCE_OUT",
             u \in movement'[x].units, movement'[x].condition[u] = "BROKEN"
      PROVE  status'[u] = "RETIRED"
  <2>1. CASE x = m
    BY <1>2, <1>3, <1>8, <1>9, <2>1 DEF ConditionToStatus
  <2>2. CASE x # m
    <3>1. movement'[x] = movement[x]
      BY <1>7, <1>9, <2>2
    <3>2. status[u] = "RETIRED"
      BY <1>9, <3>1 DEF BalanceInv, BrokenExitsAreRetired
    <3> QED
      BY <1>0, <3>2, RetiredStays
  <2> QED
    BY <2>1, <2>2
<1>10. BrokenExitsAreRetired'
  BY <1>9 DEF BrokenExitsAreRetired
<1> QED
  BY <1>6, <1>10 DEF BalanceInv

\* A reversal takes back one entry or one exit of each unit it moves.
LEMMA RevertBalances ==
  ASSUME BalanceInv, CustodyInv', Next, NEW m \in Movement, NEW s \in Movement, Revert(m, s)
  PROVE  BalanceInv'
<1>0. TypeOK /\ movement[s] \in MovementRow
  BY DEF BalanceInv, CustodyInv, LoanInv, TypeOK
<1>1. PICK row, kept, reversal, cancelled :
        /\ row = movement[s] /\ kept = row.units \ BrokenOf(row.units, row.condition)
        /\ reversal = Row("REVERSAL", row.type, kept, row.condition)
        /\ cancelled = Cancelled(row)
  OBVIOUS
<1>2. /\ row.type \in {"MAINTENANCE_IN", "MAINTENANCE_OUT"} /\ row.status = "ACTIVE"
      /\ movement[m].type = "NONE" /\ movement' = [movement EXCEPT ![s] = cancelled, ![m] = reversal]
      /\ \A u \in RevertedUnits(row) : status[u] = LeftAs(row, u)
      /\ \A u \in Unit : status'[u] = IF u \in RevertedUnits(row) THEN BeforeIt(row) ELSE status[u]
  BY <1>1 DEF Revert, IsFree
<1>3. /\ reversal.type = "REVERSAL" /\ cancelled.status = "CANCELLED" /\ cancelled.type = row.type
      /\ cancelled.units = row.units /\ cancelled.condition = row.condition
  BY <1>0, <1>1 DEF Row, Cancelled, MovementRow
<1>4. /\ m # s /\ movement'[s] = cancelled /\ movement'[m] = reversal
      /\ \A x \in Movement \ {m, s} : movement'[x] = movement[x]
  BY <1>0, <1>1, <1>2 DEF TypeOK
<1>5. ExitRowsStay
  BY ZenonT(30), <1>1, <1>2, <1>3, <1>4 DEF ExitRowsStay
<1>6. ASSUME NEW u \in Unit
      PROVE  /\ EntriesOf(u)' = EntriesOf(u) \ {s} /\ ExitsOf(u)' = ExitsOf(u) \ {s}
             /\ s \in EntriesOf(u) <=> row.type = "MAINTENANCE_IN" /\ u \in row.units
             /\ s \in ExitsOf(u) <=> row.type = "MAINTENANCE_OUT" /\ u \in row.units
  <2>1. \A type \in {"MAINTENANCE_IN", "MAINTENANCE_OUT"} :
          /\ StillActive(type, u)' = StillActive(type, u) \ {s}
          /\ s \in StillActive(type, u) <=> row.type = type /\ u \in row.units
    <3> SUFFICES ASSUME NEW type \in {"MAINTENANCE_IN", "MAINTENANCE_OUT"}
                 PROVE  /\ StillActive(type, u)' = StillActive(type, u) \ {s}
                        /\ s \in StillActive(type, u) <=> row.type = type /\ u \in row.units
      OBVIOUS
    <3>a. m \notin StillActive(type, u) /\ m \notin StillActive(type, u)'
      BY <1>2, <1>3, <1>4 DEF StillActive
    <3>1. s \notin StillActive(type, u)'
      BY <1>3, <1>4 DEF StillActive
    <3>4. \A x \in Movement \ {m, s} : x \in StillActive(type, u)' <=> x \in StillActive(type, u)
      BY <1>4 DEF StillActive
    <3>2. StillActive(type, u) \subseteq Movement /\ StillActive(type, u)' \subseteq Movement
      BY DEF StillActive
    <3>3. s \in StillActive(type, u) <=> row.type = type /\ u \in row.units
      BY <1>1, <1>2 DEF StillActive
    <3>5. \A x \in Movement : x \in StillActive(type, u)' <=> x \in StillActive(type, u) /\ x # s
      BY <3>a, <3>1, <3>4
    <3> QED
      BY <3>2, <3>3, <3>5
  <2> QED
    BY <2>1 DEF EntriesOf, ExitsOf
<1>7. ASSUME NEW u \in Unit PROVE Balanced(u)'
  <2>1. Balanced(u)
    BY BalancedByUnit DEF BalanceInv
  <2>2. CASE u \notin row.units
    <3>1. status'[u] = status[u]
      BY <1>2, <2>2 DEF RevertedUnits, BrokenOf
    <3>2. EntriesOf(u)' = EntriesOf(u) /\ ExitsOf(u)' = ExitsOf(u)
      BY <1>6, <2>2
    <3> QED
      BY <2>1, <3>1, <3>2, BalanceStays
  <2>3. CASE u \in row.units /\ row.type = "MAINTENANCE_IN"
    <3>1. status[u] = "IN_MAINTENANCE" /\ status'[u] = "AVAILABLE"
      BY <1>2, <2>3 DEF RevertedUnits, LeftAs, BeforeIt
    <3>2. s \in EntriesOf(u) /\ EntriesOf(u)' = EntriesOf(u) \ {s} /\ ExitsOf(u)' = ExitsOf(u)
      BY <1>6, <2>3
    <3> QED
      BY <2>1, <3>1, <3>2, BalanceMoves
  <2>4. CASE u \in row.units /\ row.type = "MAINTENANCE_OUT" /\ row.condition[u] # "BROKEN"
    <3>1. row.condition[u] \in Condition
      BY <1>0, <1>1 DEF MovementRow
    <3>2. status[u] \in {"AVAILABLE", "DAMAGED"} /\ status'[u] = "IN_MAINTENANCE"
      BY <1>2, <2>4, <3>1 DEF RevertedUnits, BrokenOf, LeftAs, BeforeIt, ConditionToStatus
    <3>3. s \in ExitsOf(u) /\ ExitsOf(u)' = ExitsOf(u) \ {s} /\ EntriesOf(u)' = EntriesOf(u)
      BY <1>6, <2>4
    <3> QED
      BY <2>1, <3>2, <3>3, BalanceMoves
  <2>5. CASE u \in row.units /\ row.type = "MAINTENANCE_OUT" /\ row.condition[u] = "BROKEN"
    <3>1. status[u] = "RETIRED"
      BY <1>1, <2>5 DEF BalanceInv, BrokenExitsAreRetired
    <3>2. status'[u] = "RETIRED"
      BY <3>1, RetiredStays DEF BalanceInv
    <3> QED
      BY <3>2 DEF Balanced
  <2> QED
    BY <1>2, <2>2, <2>3, <2>4, <2>5
<1>8. MaintenanceIsBalanced'
  BY <1>7 DEF MaintenanceIsBalanced, Balanced, EntriesOf, ExitsOf
<1> QED
  BY <1>5, <1>8, BrokenStay DEF BalanceInv

\* Every step keeps the workshop balanced.
LEMMA BalanceInvNext == BalanceInv /\ [Next]_vars => BalanceInv'
<1> SUFFICES ASSUME BalanceInv, [Next]_vars PROVE BalanceInv'
  OBVIOUS
<1>1. CustodyInv'
  BY CustodyInvNext DEF BalanceInv
<1>2. CASE Next
  BY <1>1, <1>2, OthersKeepBalance, LoansKeepBalance, MaintenanceInBalances,
     MaintenanceOutBalances, RevertBalances DEF Next
<1>3. CASE UNCHANGED vars
  BY <1>1, <1>3 DEF vars, BalanceInv, BrokenExitsAreRetired, MaintenanceIsBalanced, StillActive
<1> QED
  BY <1>2, <1>3

\* The books of the inventory agree at first.
LEMMA BooksInit == Init => SumInv /\ NamesInv /\ BalanceInv
<1> SUFFICES ASSUME Init PROVE SumInv /\ NamesInv /\ BalanceInv
  OBVIOUS
<1>1. CustodyInv /\ TypeOK
  BY CustodyInvInit DEF CustodyInv, LoanInv
<1>2. \A m \in Movement : /\ movement[m].units = {} /\ movement[m].type = "NONE"
  BY DEF Init, FreeMovement
<1>3. SumInv
  <2>1. ASSUME NEW d \in Device PROVE ledger[d] = SumFunctionOnSet(Deltas(d), Movement)
    <3>1. PICK f : f = Deltas(d)
      OBVIOUS
    <3>2. \A m \in Movement : f[m] = 0 /\ f[m] \in Int
      BY <1>2, <3>1, DeltaOfNothing DEF Deltas
    <3>3. {} \in SUBSET Movement /\ IsFiniteSet(Movement)
      BY ConstantsAssumption
    <3>4. SumFunctionOnSet(f, Movement) = SumFunctionOnSet(f, {})
      BY <3>2, <3>3, SumOfSupport
    <3>5. SumFunctionOnSet(f, Movement) = 0
      BY <3>4, SumOfNone
    <3> QED
      BY <3>1, <3>5 DEF Init
  <2> QED
    BY <1>2, <2>1, KardexOf DEF SumInv, FreeRowsAreEmpty
<1>4. NamesInv
  BY <1>1 DEF Init, FreeItem, FreeLoan, NamesInv, NothingIsBack, LoanMovementNamesItsUnits
<1>5. MaintenanceIsBalanced
  <2>1. ASSUME NEW u \in Unit PROVE Balanced(u)
    <3>1. EntriesOf(u) = {} /\ ExitsOf(u) = {}
      BY <1>2 DEF EntriesOf, ExitsOf, StillActive
    <3>2. Cardinality({}) = 0 /\ status[u] = "ABSENT"
      BY FS_EmptySet DEF Init
    <3> QED
      BY <3>1, <3>2 DEF Balanced
  <2> QED
    BY <2>1, BalancedByUnit
<1>6. BrokenExitsAreRetired
  BY <1>2 DEF BrokenExitsAreRetired
<1> QED
  BY <1>1, <1>3, <1>4, <1>5, <1>6 DEF BalanceInv

\* However entries, exits and reversals interleave, a unit in use is in the
\* workshop exactly when one more entry than exits of it stands: whatever the
\* order of updateLoan's queries.
THEOREM WorkshopIsBalanced == Spec => []MaintenanceIsBalanced
<1>1. BalanceInv => MaintenanceIsBalanced
  BY DEF BalanceInv
<1> QED
  BY <1>1, BooksInit, BalanceInvNext, PTL DEF Spec

\* When updateLoan's two queries return rows of the same line, all the books of
\* the inventory agree in every history: the kardex is the sum of its rows, a
\* loan and its counters follow its lines, its LOAN movement names exactly what
\* they lent, and maintenance balances.
THEOREM AllBooksAgree == RowOrderMatches => (Spec => []BooksAgree)
<1> SUFFICES ASSUME RowOrderMatches PROVE Spec => []BooksAgree
  OBVIOUS
<1> DEFINE BooksInv == SumInv /\ NamesInv /\ BalanceInv
<1>1. Init => BooksInv
  BY BooksInit
<1>2. BooksInv /\ [Next]_vars => BooksInv'
  <2> SUFFICES ASSUME SumInv, NamesInv, BalanceInv, [Next]_vars
               PROVE  SumInv' /\ NamesInv' /\ BalanceInv'
    OBVIOUS
  <2>1. TypeOK
    BY DEF NamesInv, CustodyInv, LoanInv
  <2> QED
    BY <2>1, TypeNext, SumInvNext, NamesInvNext, BalanceInvNext
<1>3. BooksInv => BooksAgree
  BY DEF SumInv, NamesInv, BalanceInv, CustodyInv, BooksAgree
<1> QED
  BY <1>1, <1>2, <1>3, PTL DEF Spec
=============================================================================
