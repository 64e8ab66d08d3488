-------------------------- MODULE MaterialOutputs ---------------------------
(***************************************************************************)
(* Material outputs and the units they dispose of.  An output that names a *)
(* unit retires it through InventoryService, inside its own transaction,   *)
(* which runs Read Committed.  update() reads the output before its        *)
(* transaction starts, so other requests run in between.                   *)
(*                                                                         *)
(* Of the inventory only what competes for the same units is here: lending, *)
(* taking back in any condition and retiring.  No movement brings a retired *)
(* unit back: movementReversion refuses everything but maintenance.         *)
(***************************************************************************)
EXTENDS Naturals, FiniteSets

CONSTANTS
  Output, Unit, OutputRequest,
  NoUnit,         \* deviceUnitId = NULL
  Untouched,      \* an update() that does not mention deviceUnitId
  MaxInFlight     \* bound on update() requests that run at the same time

ASSUME OutputsAssumption ==
  /\ IsFiniteSet(OutputRequest)
  /\ NoUnit \notin Unit /\ Untouched \notin Unit \cup {NoUnit}
  /\ {"absent", "removed"} \cap (Unit \cup {NoUnit}) = {} /\ "absent" \notin Output
  /\ MaxInFlight \in Nat \ {0}

VARIABLES
  output,        \* material_outputs: the unit of a row, or absent, or removed
  status,        \* device_units.status
  retirements,   \* ACTIVE movements of type RETIREMENT per unit
  outputRequest        \* update() requests between their read and their transaction

outputVars == <<output, status, retirements, outputRequest>>

UnitStatus == {"AVAILABLE", "DAMAGED", "ON_LOAN", "IN_MAINTENANCE", "RETIRED"}

Absent == "absent"

Removed == "removed"

OutputExists(o) == output[o] \notin {Absent, Removed}

Gone == [o \in Output |-> Absent]

OutputIdle == [output |-> Absent, seen |-> NoUnit, unit |-> NoUnit]

OutputRequestState ==
  [output: Output \cup {Absent}, seen: Unit \cup {NoUnit}, unit: Unit \cup {NoUnit, Untouched}]

OutputsInit ==
  /\ output = Gone
  /\ status \in [Unit -> {"AVAILABLE", "DAMAGED"}]
  /\ retirements = [u \in Unit |-> 0]
  /\ outputRequest = [r \in OutputRequest |-> OutputIdle]

-----------------------------------------------------------------------------

\* retireUnitForMaterialOutput() throws for a unit in any other status.
Disposable(u) == status[u] \in {"AVAILABLE", "DAMAGED", "RETIRED"}

\* Mutant: a second retirement of what is retired already.
RetirementOfRetired(u) == retirements[u] + 1

\* Nothing happens to a unit that is retired already.
RetirementCount(u) == IF status[u] = "RETIRED" THEN retirements[u] ELSE retirements[u] + 1

RetireUnits(units) ==
  /\ \A u \in units : Disposable(u)
  /\ status' = [u \in Unit |-> IF u \in units THEN "RETIRED" ELSE status[u]]
  /\ retirements' = [u \in Unit |-> IF u \in units THEN RetirementCount(u) ELSE retirements[u]]

\* create() and createBatch(): the outputs and the retirements commit together;
\* two rows of a batch may name the same unit, which is retired once.
Create(batch) ==
  /\ \A o \in DOMAIN batch : output[o] = Absent
  /\ output' = [o \in Output |-> IF o \in DOMAIN batch THEN batch[o] ELSE output[o]]
  /\ RetireUnits({batch[o] : o \in DOMAIN batch} \ {NoUnit})
  /\ UNCHANGED outputRequest

\* A linked unit may not be replaced.
NotLocked(seen, unit) == seen = NoUnit \/ unit \in {Untouched, seen}

UpdateRead(r, o, unit) ==
  /\ outputRequest[r] = OutputIdle
  /\ Cardinality({s \in OutputRequest : outputRequest[s] # OutputIdle}) < MaxInFlight
  /\ OutputExists(o)
  /\ NotLocked(output[o], unit)
  /\ outputRequest' = [outputRequest EXCEPT ![r] = [output |-> o, seen |-> output[o], unit |-> unit]]
  /\ UNCHANGED <<output, status, retirements>>

\* deviceUnitId after the write: Prisma leaves alone what is undefined.
Linked(r) == IF outputRequest[r].unit = Untouched THEN output[outputRequest[r].output] ELSE outputRequest[r].unit

\* A unit is retired if the output had none when it was read.
Retires(r) == Linked(r) # NoUnit /\ outputRequest[r].seen = NoUnit

\* The transaction of update(): the row is written as the request says and its
\* unit may be retired.
UpdateWrite(r) ==
  LET o == outputRequest[r].output
  IN  /\ outputRequest[r] # OutputIdle
      /\ OutputExists(o)
      /\ output' = [output EXCEPT ![o] = Linked(r)]
      /\ IF Retires(r) THEN RetireUnits({Linked(r)}) ELSE UNCHANGED <<status, retirements>>
      /\ outputRequest' = [outputRequest EXCEPT ![r] = OutputIdle]

\* Its output is gone, its unit cannot be retired, or the request dies.
UpdateFails(r) ==
  /\ outputRequest[r] # OutputIdle
  /\ outputRequest' = [outputRequest EXCEPT ![r] = OutputIdle]
  /\ UNCHANGED <<output, status, retirements>>

\* remove(): the unit stays retired.
Remove(o) ==
  /\ OutputExists(o)
  /\ output' = [output EXCEPT ![o] = Removed]
  /\ UNCHANGED <<status, retirements, outputRequest>>

-----------------------------------------------------------------------------

\* The inventory lends a unit or sends it to maintenance, takes it back, good
\* or damaged, and reverts what maintenance did.
InventoryMoves(u, to) ==
  /\ <<status[u], to>> \in
       ({"AVAILABLE"} \X {"ON_LOAN", "IN_MAINTENANCE"})
         \cup ({"ON_LOAN", "IN_MAINTENANCE"} \X {"AVAILABLE", "DAMAGED"})
         \cup {<<"DAMAGED", "IN_MAINTENANCE">>}
  /\ status' = [status EXCEPT ![u] = to]
  /\ UNCHANGED <<output, retirements, outputRequest>>

\* A RETIREMENT of the inventory, or the automatic one of what comes back broken.
InventoryRetires(u) ==
  /\ status[u] \in {"AVAILABLE", "ON_LOAN", "IN_MAINTENANCE"}
  /\ status' = [status EXCEPT ![u] = "RETIRED"]
  /\ retirements' = [retirements EXCEPT ![u] = @ + 1]
  /\ UNCHANGED <<output, outputRequest>>

Batches == UNION {[os -> Unit \cup {NoUnit}] : os \in SUBSET Output \ {{}}}

OutputsNext ==
  \/ \E batch \in Batches : Create(batch)
  \/ \E r \in OutputRequest, o \in Output, unit \in Unit \cup {NoUnit, Untouched} : UpdateRead(r, o, unit)
  \/ \E r \in OutputRequest : UpdateWrite(r) \/ UpdateFails(r)
  \/ \E o \in Output : Remove(o)
  \/ \E u \in Unit, to \in UnitStatus : InventoryMoves(u, to)
  \/ \E u \in Unit : InventoryRetires(u)

OutputsSpec == OutputsInit /\ [][OutputsNext]_outputVars

-----------------------------------------------------------------------------

\* Every row has its declared shape.
OutputsTypeOK ==
  /\ output \in [Output -> Unit \cup {NoUnit, Absent, Removed}]
  /\ status \in [Unit -> UnitStatus]
  /\ retirements \in [Unit -> Nat]
  /\ outputRequest \in [OutputRequest -> OutputRequestState]

\* A unit is retired exactly when one retirement of it is in force, whichever
\* outputs name it and however their requests interleave.
RetiredByOneMovement ==
  \A u \in Unit : retirements[u] = IF status[u] = "RETIRED" THEN 1 ELSE 0

\* "Esa unidad pasa a BAJA": what an output says was disposed of is not lent,
\* repaired or on the shelf, not even when two updates link one output.
DisposedUnitsAreRetired ==
  \A o \in Output : output[o] \in Unit => status[output[o]] = "RETIRED"

\* "Cambiarla dejaria la anterior dada de baja sin salida que la explique": an
\* output keeps the unit it disposed of, unless an update() that read the output
\* before it had that unit is still to write.
UnitIsLocked ==
  [][\A o \in Output :
       /\ output[o] \in Unit
       /\ \A r \in OutputRequest : outputRequest[r].output = o => outputRequest[r].seen = output[o]
       => output'[o] \in {output[o], Removed}]_outputVars

\* create(), update(), remove(): a unit that an output names was disposed of, by
\* one movement, and stays with that output.
OutputsDisposeOnce == [](RetiredByOneMovement /\ DisposedUnitsAreRetired) /\ UnitIsLocked
=============================================================================
