----------------------------- MODULE HotelStock -----------------------------
(***************************************************************************)
(* The hotel store: stock per position, the movements that explain it and  *)
(* the physical counts that correct it.                                    *)
(*                                                                         *)
(* HotelMovementService applies a movement in one Serializable transaction *)
(* and so do most steps of a count.  Rejecting a pending adjustment and    *)
(* cancelling a count run Read Committed and write by id alone: they read, *)
(* others commit, they overwrite.                                          *)
(*                                                                         *)
(* A position is a product at a location of a warehouse.  Products and     *)
(* locations stay active, reasons exist, and somebody with the permission  *)
(* for each step is there (who closed a count and who approves it is not   *)
(* told apart).  Of the two approval limits only the quantity is here.     *)
(***************************************************************************)
EXTENDS Integers, FiniteSets, Functions

CONSTANTS
  Warehouse, Position,
  WarehouseOf,    \* the warehouse a position belongs to
  HotelMovement, Count, \* row identifiers: bounds on what is recorded
  PostType,       \* the types of movement that clients and tasks post
  NoPosition,     \* a side of a line that its type does not have
  MaxPieces,      \* bound on the quantity of a line
  MaxStock,       \* bound on the stock of a position
  Threshold       \* adjustments above it wait for approval

HotelMovementType == {"INITIAL_LOAD", "INBOUND", "TRANSFER", "ROOM_CONSUMPTION",
                      "LINEN_EXCHANGE", "ADJUST_IN", "ADJUST_OUT", "WRITE_OFF"}

ASSUME HotelAssumption ==
  /\ IsFiniteSet(Position) /\ IsFiniteSet(HotelMovement)
  /\ WarehouseOf \in [Position -> Warehouse]
  /\ NoPosition \notin Position
  /\ HotelMovement \cap Count = {} /\ "NONE" \notin Count    \* keys of two tables, and NULL
  /\ PostType \subseteq HotelMovementType
  /\ {MaxPieces, MaxStock, Threshold} \subseteq Nat

VARIABLES
  stock,         \* hotel_stock.quantity
  hotelMovement, \* hotel_movements with their lines
  count,         \* hotel_stocktakes with their lines
  reading,       \* Read Committed transactions that have read and not written
  overtaken      \* history: rows that were approved between such a read and its write

hotelVars == <<stock, hotelMovement, count, reading, overtaken>>

Uncounted == -1

None == [p \in Position |-> 0]

\* `out' and `in' are what its lines take from and bring to each position.
MovementStatus == {"FREE", "OPEN", "PENDING_APPROVAL", "ACTIVE", "CANCELLED"}

HotelMovementRow == [type: HotelMovementType \cup {"NONE"}, status: MovementStatus,
                     out: [Position -> Nat], in: [Position -> Nat], count: Count \cup {"NONE"}]

\* `photo' is what snapshotAt separates: FREE are the movements whose createdAt is
\* later; of the others it keeps the status they had.
CountRow == [status: {"FREE", "DRAFT", "COUNTING", "PENDING_APPROVAL", "APPLIED", "CANCELLED"},
             warehouse: Warehouse \cup {"NONE"}, lines: SUBSET Position,
             system: [Position -> Nat], counted: [Position -> Nat \cup {Uncounted}],
             photo: [HotelMovement -> MovementStatus]]

FreeMovement == [type |-> "NONE", status |-> "FREE", out |-> None, in |-> None,
                 count |-> "NONE"]

FreeCount == [status |-> "FREE", warehouse |-> "NONE", lines |-> {}, system |-> None,
              counted |-> [p \in Position |-> Uncounted],
              photo |-> [m \in HotelMovement |-> "FREE"]]

HotelInit ==
  /\ stock = None
  /\ hotelMovement = [m \in HotelMovement |-> FreeMovement]
  /\ count = [c \in Count |-> FreeCount]
  /\ reading = {}
  /\ overtaken = {}

-----------------------------------------------------------------------------
(* Movements.                                                              *)

HasSource(type) ==
  type \in {"TRANSFER", "LINEN_EXCHANGE", "ROOM_CONSUMPTION", "ADJUST_OUT", "WRITE_OFF"}

HasTarget(type) ==
  type \in {"INITIAL_LOAD", "INBOUND", "ADJUST_IN", "TRANSFER", "LINEN_EXCHANGE"}

IsAdjustment(type) == type \in {"ADJUST_IN", "ADJUST_OUT"}

\* What tasks consumed is not cancelled directly.
IsCancellable(type) == type \notin {"ROOM_CONSUMPTION", "LINEN_EXCHANGE"}

Sufficient(out) == \A p \in Position : out[p] <= stock[p]

Moved(out, in) == [p \in Position |-> stock[p] - out[p] + in[p]]

Bounded == \A p \in Position : stock'[p] <= MaxStock

At(p, quantity) == [q \in Position |-> IF q = p THEN quantity ELSE 0]

\* The transaction of a movement begins: its createdAt is taken.
BeginCall(m) ==
  /\ hotelMovement[m].status = "FREE"
  /\ hotelMovement' = [hotelMovement EXCEPT ![m].status = "OPEN"]
  /\ UNCHANGED <<stock, count, reading, overtaken>>

\* assertMovementShape: each side exactly when the type has it; a transfer may
\* stay in its warehouse and then needs two locations.
Shaped(type, from, to) ==
  /\ HasSource(type) <=> from # NoPosition
  /\ HasTarget(type) <=> to # NoPosition
  /\ type = "TRANSFER" => from # to

StatusOf(type, quantity) ==
  IF IsAdjustment(type) /\ quantity > Threshold THEN "PENDING_APPROVAL" ELSE "ACTIVE"

\* post(), or applyInTransaction() of a task that finishes.
Post(m, type, from, to, quantity) ==
  LET status == StatusOf(type, quantity)
      row == [type |-> type, status |-> status, out |-> At(from, quantity),
              in |-> At(to, quantity), count |-> "NONE"]
  IN  /\ hotelMovement[m].status = "OPEN"
      /\ Shaped(type, from, to)
      /\ IF status = "ACTIVE"
         THEN Sufficient(row.out) /\ stock' = Moved(row.out, row.in)
         ELSE UNCHANGED stock
      /\ hotelMovement' = [hotelMovement EXCEPT ![m] = row]
      /\ Bounded
      /\ UNCHANGED <<count, reading, overtaken>>

\* Mutant: only what came in is taken out again.
UndoHalf(m) == [out |-> hotelMovement[m].in, in |-> None]

\* invertDeltas
Undo(m) == [out |-> hotelMovement[m].in, in |-> hotelMovement[m].out]

\* cancel(): the opposite signs, which the stock must cover.
CancelMovement(m) ==
  /\ hotelMovement[m].status = "ACTIVE"
  /\ IsCancellable(hotelMovement[m].type)
  /\ Sufficient(Undo(m).out)
  /\ stock' = Moved(Undo(m).out, Undo(m).in)
  /\ hotelMovement' = [hotelMovement EXCEPT ![m].status = "CANCELLED"]
  /\ Bounded
  /\ UNCHANGED <<count, reading, overtaken>>

\* approve(): a pending adjustment is applied like a direct one.
Approve(m) ==
  /\ hotelMovement[m].status = "PENDING_APPROVAL"
  /\ Sufficient(hotelMovement[m].out)
  /\ stock' = Moved(hotelMovement[m].out, hotelMovement[m].in)
  /\ hotelMovement' = [hotelMovement EXCEPT ![m].status = "ACTIVE"]
  /\ Bounded
  /\ overtaken' = overtaken \cup ({m} \cap reading)
  /\ UNCHANGED <<count, reading>>

\* reject(): the read, in a Read Committed transaction.
RejectRead(m) ==
  /\ hotelMovement[m].status = "PENDING_APPROVAL"
  /\ reading' = reading \cup {m}
  /\ UNCHANGED <<stock, hotelMovement, count, overtaken>>

\* reject(): the write, by id alone.
RejectWrite(m) ==
  /\ m \in reading
  /\ hotelMovement' = [hotelMovement EXCEPT ![m].status = "CANCELLED"]
  /\ reading' = reading \ {m}
  /\ UNCHANGED <<stock, count, overtaken>>

-----------------------------------------------------------------------------
(* Counts.                                                                 *)

\* An ended count: nothing reads its lines and its photo any more.
Ended(c, status) ==
  [FreeCount EXCEPT !.status = status, !.warehouse = count[c].warehouse]

\* create(): the partial index allows one open count per warehouse.
CreateCount(c, w) ==
  /\ count[c].status = "FREE"
  /\ \A d \in Count : count[d].warehouse = w =>
       count[d].status \in {"APPLIED", "CANCELLED"}
  /\ count' = [count EXCEPT ![c].status = "DRAFT", ![c].warehouse = w]
  /\ UNCHANGED <<stock, hotelMovement, reading, overtaken>>

PositionsOf(w) == {p \in Position : WarehouseOf[p] = w}

\* start(): the photo, a line per position with stock.
Start(c) ==
  LET photo == {p \in PositionsOf(count[c].warehouse) : stock[p] > 0}
  IN  /\ count[c].status = "DRAFT"
      /\ count' = [count EXCEPT
           ![c].status = "COUNTING",
           ![c].lines = photo,
           ![c].system = [p \in Position |-> IF p \in photo THEN stock[p] ELSE 0],
           ![c].photo = [m \in HotelMovement |-> hotelMovement[m].status]]
      /\ UNCHANGED <<stock, hotelMovement, reading, overtaken>>

\* capture(): a position that the photo lacks starts at zero.
Capture(c, p, quantity) ==
  /\ count[c].status = "COUNTING"
  /\ p \in PositionsOf(count[c].warehouse)
  /\ count' = [count EXCEPT ![c].lines = @ \cup {p}, ![c].counted[p] = quantity]
  /\ UNCHANGED <<stock, hotelMovement, reading, overtaken>>

\* close(): every line is counted.
Close(c) ==
  /\ count[c].status = "COUNTING"
  /\ \A p \in count[c].lines : count[c].counted[p] # Uncounted
  /\ count' = [count EXCEPT ![c].status = "PENDING_APPROVAL"]
  /\ UNCHANGED <<stock, hotelMovement, reading, overtaken>>

Active == {m \in HotelMovement : hotelMovement[m].status = "ACTIVE"}

\* What each movement adds to a position.
Signed(p) == [m \in HotelMovement |-> hotelMovement[m].in[p] - hotelMovement[m].out[p]]

\* Mutant: what moved after the photo is left out of the difference.
MovementsSinceForgotten(c, p) == 0

\* movementsSince(): ACTIVE movements whose createdAt is after snapshotAt.
MovementsSince(c, p) ==
  SumFunctionOnSet(Signed(p), {m \in Active : count[c].photo[m] = "FREE"})

\* countDifference of a line
Difference(c, p) ==
  IF p \in count[c].lines
  THEN count[c].counted[p] - count[c].system[p] - MovementsSince(c, p) ELSE 0

Surplus(c) == [p \in Position |-> IF Difference(c, p) > 0 THEN Difference(c, p) ELSE 0]

Shortage(c) == [p \in Position |-> IF Difference(c, p) < 0 THEN -Difference(c, p) ELSE 0]

Adjustment(c, type, out, in) ==
  [type |-> type, status |-> "ACTIVE", out |-> out, in |-> in, count |-> c]

\* approve() of a count: the surplus enters, the shortage leaves and the count
\* is applied, in one transaction.
ApproveCount(c, i, o) ==
  /\ count[c].status = "PENDING_APPROVAL"
  /\ Surplus(c) # None => hotelMovement[i].status = "FREE"
  /\ Shortage(c) # None => hotelMovement[o].status = "FREE" /\ i # o
  /\ Sufficient(Shortage(c))
  /\ stock' = Moved(Shortage(c), Surplus(c))
  /\ hotelMovement' = [m \in HotelMovement |->
       IF m = i /\ Surplus(c) # None THEN Adjustment(c, "ADJUST_IN", None, Surplus(c))
       ELSE IF m = o /\ Shortage(c) # None THEN Adjustment(c, "ADJUST_OUT", Shortage(c), None)
       ELSE hotelMovement[m]]
  /\ count' = [count EXCEPT ![c] = Ended(c, "APPLIED")]
  /\ Bounded
  /\ overtaken' = overtaken \cup ({c} \cap reading)
  /\ UNCHANGED reading

CountCancellable(c) == count[c].status \in {"DRAFT", "COUNTING", "PENDING_APPROVAL"}

\* cancel() of a count: the read and, by id alone, the write.
CancelCountRead(c) ==
  /\ CountCancellable(c)
  /\ reading' = reading \cup {c}
  /\ UNCHANGED <<stock, hotelMovement, count, overtaken>>

CancelCountWrite(c) ==
  /\ c \in reading
  /\ count' = [count EXCEPT ![c] = Ended(c, "CANCELLED")]
  /\ reading' = reading \ {c}
  /\ UNCHANGED <<stock, hotelMovement, overtaken>>

-----------------------------------------------------------------------------

Ends == Position \cup {NoPosition}

MovementStep(m) ==
  \/ BeginCall(m)
  \/ \E type \in PostType, from, to \in Ends, quantity \in 1 .. MaxPieces :
       Post(m, type, from, to, quantity)
  \/ CancelMovement(m)
  \/ Approve(m)
  \/ RejectRead(m)

CountStep(c) ==
  \/ \E w \in Warehouse : CreateCount(c, w)
  \/ Start(c)
  \/ \E p \in Position, quantity \in 0 .. MaxStock : Capture(c, p, quantity)
  \/ Close(c)
  \/ \E i, o \in HotelMovement : ApproveCount(c, i, o)
  \/ CancelCountRead(c)

HotelNext ==
  \/ \E m \in HotelMovement : MovementStep(m) \/ RejectWrite(m)
  \/ \E c \in Count : CountStep(c) \/ CancelCountWrite(c)

HotelSpec == HotelInit /\ [][HotelNext]_hotelVars

-----------------------------------------------------------------------------

\* Every row has its declared shape; in particular no position goes below
\* zero (hotel_stock_quantity_nonnegative never fires).
HotelTypeOK ==
  /\ stock \in [Position -> Nat]
  /\ hotelMovement \in [HotelMovement -> HotelMovementRow]
  /\ count \in [Count -> CountRow]
  /\ reading \subseteq HotelMovement \cup Count
  /\ overtaken \subseteq HotelMovement \cup Count

\* No reject() has overwritten an approval that came between its read and its
\* write.
NoApprovalLost == overtaken \cap HotelMovement = {}

\* reconcile() reports nothing: as long as no reject() overwrites an approval,
\* the stock of a position is the signed sum of the active movements.
StockIsTheLedger ==
  NoApprovalLost => \A p \in Position :
    stock[p] = SumFunctionOnSet(Signed(p), Active)

Applies(c) == count[c].status = "PENDING_APPROVAL" /\ count'[c].status = "APPLIED"

\* Every movement from before the photo counts in the stock now as it did then:
\* none was cancelled, approved or committed since.
PhotoStands(c) ==
  \A m \in HotelMovement : count[c].photo[m] # "FREE" =>
    (count[c].photo[m] = "ACTIVE" <=> hotelMovement[m].status = "ACTIVE")

CountIsRight(c) == \A p \in count[c].lines : stock'[p] = count[c].counted[p]

\* What approving a count is for: each counted position ends with what was
\* counted there, whatever was posted and cancelled again since the photo.  It
\* takes that the photo stands and that no approval was lost.
ApprovedEqualsCount ==
  [][\A c \in Count :
       Applies(c) /\ PhotoStands(c) /\ NoApprovalLost => CountIsRight(c)]_hotelVars

\* "Cancel is allowed while open, not after approval": a cancelled count has
\* adjusted nothing, unless cancel() overwrote the approval.
CancelledCountAdjustsNothing ==
  \A c \in Count \ overtaken, m \in HotelMovement :
    hotelMovement[m].count = c => count[c].status = "APPLIED"

\* post(), cancel(), approve(), reject(): no position is negative, the stock is
\* the sum of its movements, and a cancelled count moved nothing.
HotelAddsUp == HotelTypeOK /\ StockIsTheLedger /\ CancelledCountAdjustsNothing
=============================================================================
