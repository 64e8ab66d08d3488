---------------------------- MODULE KitchenStock ----------------------------
(***************************************************************************)
(* The kitchen store: lots with their balance and the movements that       *)
(* change it.  Every operation runs in one Serializable transaction of     *)
(* KitchenStockService, so it is one step.                                 *)
(*                                                                         *)
(* Quantities are whole numbers (the columns hold thousandths).  Within a  *)
(* movement all lines have one sign, so its lines are the total per lot.   *)
(***************************************************************************)
EXTENDS Integers, FiniteSets, Functions

CONSTANTS
  Item, Lot, Movement,    \* row identifiers: bounds on what is recorded
  NoItem, NoLot, NoMovement,
  Perishable,             \* items with tracksExpiry
  Durable,                \* items of kind DURABLE
  MaxQuantity,            \* bound on the quantity of a line
  MaxLines,               \* bound on the lines of a request
  LastDay,                \* bound on the calendar
  ImportQuantity          \* quantities found in imported files

ASSUME KitchenAssumption ==
  /\ IsFiniteSet(Item) /\ IsFiniteSet(Lot) /\ IsFiniteSet(Movement)
  /\ Perishable \subseteq Item /\ Durable \subseteq Item
  /\ NoItem \notin Item /\ NoLot \notin Lot /\ NoMovement \notin Movement
  /\ MaxQuantity \in Nat \ {0} /\ MaxLines \in Nat \ {0} /\ LastDay \in Nat
  /\ ImportQuantity \subseteq Nat

VARIABLES
  lot,        \* kitchen_lots
  movement,   \* kitchen_movements and their lines
  active,     \* the items with active = true
  today,      \* the day in the time zone of the installation
  counted     \* history: the file, if the last operation was a SET import

kitchenVars == <<lot, movement, active, today, counted>>

(***************************************************************************)
(* First expired, first out: how a quantity is shared among the lots of an *)
(* item (allocateFefo). A lot that does not expire has an expiry day later *)
(* than every day.                                                         *)
(***************************************************************************)
\* isExpired()
IsExpired(expiry, date) == expiry < date

\* The lots allocateFefo() may use.
Usable(lots, expires, onHand, date, includeExpired) ==
  {l \in lots : onHand[l] > 0 /\ (includeExpired \/ ~IsExpired(expires[l], date))}

\* The comparison of the sort.
GoesBefore(a, b, expires, received) ==
  \/ expires[a] < expires[b]
  \/ expires[a] = expires[b] /\ received[a] < received[b]

\* The orders the sort may produce: lots that compare equal keep the order the
\* database returned them in, which is any.
Queues(lots, expires, received) ==
  {q \in [1 .. Cardinality(lots) -> lots] :
     \A i, j \in DOMAIN q : i < j => /\ q[i] # q[j]
                                     /\ ~GoesBefore(q[j], q[i], expires, received)}

\* Mutant: the lot is emptied however little is missing.
RemainingWhole(queue, onHand, quantity) ==
  LET left[i \in 0 .. Cardinality(DOMAIN queue)] ==
        IF i = 0 THEN quantity
        ELSE IF left[i - 1] = 0 THEN 0
        ELSE IF onHand[queue[i]] < left[i - 1] THEN left[i - 1] - onHand[queue[i]]
        ELSE left[i - 1]
  IN  left

\* `remaining' after each round of the loop.
Remaining(queue, onHand, quantity) ==
  LET left[i \in 0 .. Cardinality(DOMAIN queue)] ==
        IF i = 0 THEN quantity
        ELSE IF onHand[queue[i]] < left[i - 1] THEN left[i - 1] - onHand[queue[i]]
        ELSE 0
  IN  left

\* What the loop takes of each of `lots', and what it could not cover.
AllocateFefo(lots, queue, onHand, quantity) ==
  LET left == Remaining(queue, onHand, quantity)
  IN  [take |-> [l \in lots |->
                   IF \E i \in DOMAIN queue : queue[i] = l
                   THEN LET i == CHOOSE k \in DOMAIN queue : queue[k] = l
                        IN  left[i - 1] - left[i]
                   ELSE 0],
       missing |-> left[Cardinality(DOMAIN queue)]]

-----------------------------------------------------------------------------
Day == 0 .. LastDay

\* expiresAt = NULL
Never == LastDay + 1

Quantity == 1 .. MaxQuantity

MovementType == {"STOCK_IN", "CONSUMPTION", "WASTE", "ADJUSTMENT_IN", "ADJUSTMENT_OUT",
                 "REVERSAL"}

LotRow == [item: Item \cup {NoItem}, expires: 0 .. Never, received: Day, onHand: Nat]

MovementRow == [type: MovementType \cup {"NONE"}, status: {"ACTIVE", "CANCELLED"},
                reversalOf: Movement \cup {NoMovement}, lines: [Lot -> Nat]]

NoLines == [l \in Lot |-> 0]

\* No item is counted.
NoFile == [i \in {} |-> 0]

NewLot == [item |-> NoItem, expires |-> Never, received |-> 0, onHand |-> 0]

NewMovement == [type |-> "NONE", status |-> "ACTIVE", reversalOf |-> NoMovement,
                lines |-> NoLines]

KitchenInit ==
  /\ lot = [l \in Lot |-> NewLot]
  /\ movement = [m \in Movement |-> NewMovement]
  /\ active = Item
  /\ today = 0
  /\ counted = NoFile

-----------------------------------------------------------------------------

\* kitchenLedgerSign() of a type other than REVERSAL
DirectSign(type) == IF type \in {"STOCK_IN", "ADJUSTMENT_IN"} THEN 1 ELSE -1

\* Mutant: a reversal repeats its source.
ReversalRepeats(type, reversalOf) ==
  IF type = "REVERSAL" THEN DirectSign(reversalOf) ELSE DirectSign(type)

KitchenLedgerSign(type, reversalOf) ==
  IF type = "REVERSAL" THEN -DirectSign(reversalOf) ELSE DirectSign(type)

FreeLots == {l \in Lot : lot[l].item = NoItem}

FreeMovements == {m \in Movement : movement[m].type = "NONE"}

LotsOf(item) == {l \in Lot : lot[l].item = item}

OnHand == [l \in Lot |-> lot[l].onHand]
Expires == [l \in Lot |-> lot[l].expires]
Received == [l \in Lot |-> lot[l].received]

\* The conditioned update of createMovement(): onHand >= quantity.
Enough(sign, lines) == sign = -1 => \A l \in Lot : lines[l] <= lot[l].onHand

\* The balances after a movement, on lots that may just have been created.
Applied(lots, sign, lines) ==
  [l \in Lot |-> [lots[l] EXCEPT !.onHand = @ + sign * lines[l]]]

Row(type, reversalOf, lines) ==
  [type |-> type, status |-> "ACTIVE", reversalOf |-> reversalOf, lines |-> lines]

\* createMovement(): balances and movement together, or not at all.
CreateMovement(m, type, lots, lines) ==
  /\ m \in FreeMovements
  /\ Enough(DirectSign(type), lines)
  /\ lot' = Applied(lots, DirectSign(type), lines)
  /\ movement' = [movement EXCEPT ![m] = Row(type, NoMovement, lines)]

-----------------------------------------------------------------------------

\* One line of an entry: the lot it creates and how much comes in.
Entry == [item: Item, expires: 0 .. Never, received: Day, quantity: Quantity]

WithNewLots(entries) ==
  [l \in Lot |->
     IF l \in DOMAIN entries
     THEN [item |-> entries[l].item, expires |-> entries[l].expires,
           received |-> entries[l].received, onHand |-> 0]
     ELSE lot[l]]

EntryLines(entries) ==
  [l \in Lot |-> IF l \in DOMAIN entries THEN entries[l].quantity ELSE 0]

\* stockIn(): a lot per line; perishables need an expiry day, past or future.
StockIn(m, entries) ==
  /\ DOMAIN entries \subseteq FreeLots
  /\ \A l \in DOMAIN entries :
       /\ entries[l].item \in active
       /\ entries[l].item \in Perishable => entries[l].expires # Never
  /\ CreateMovement(m, "STOCK_IN", WithNewLots(entries), EntryLines(entries))
  /\ counted' = NoFile
  /\ UNCHANGED <<active, today>>

OutLine == [item: Item, lot: Lot \cup {NoLot}, quantity: Quantity]

\* The plan of a line that names its lot.
NamedLot(line, type) ==
  IF /\ lot[line.lot].item = line.item
     /\ type = "CONSUMPTION" => ~IsExpired(lot[line.lot].expires, today)
  THEN {[l \in Lot |-> IF l = line.lot THEN line.quantity ELSE 0]} ELSE {}

\* The plans by FEFO that cover a quantity of an item.
FefoPlans(item, quantity, includeExpired) ==
  LET usable == Usable(LotsOf(item), Expires, OnHand, today, includeExpired)
      plans == {AllocateFefo(Lot, q, OnHand, quantity) :
                  q \in Queues(usable, Expires, Received)}
  IN  {p.take : p \in {x \in plans : x.missing = 0}}

\* What stockOut() may plan for one line; no plan when it rejects the request.
Plans(line, type) ==
  IF line.item \notin active \/ (type = "CONSUMPTION" /\ line.item \in Durable) THEN {}
  ELSE IF line.lot = NoLot THEN FefoPlans(line.item, line.quantity, type = "WASTE")
  ELSE NamedLot(line, type)

\* What all lines take of each lot.
Total(plan) ==
  [l \in Lot |-> SumFunctionOnSet([i \in DOMAIN plan |-> plan[i][l]], DOMAIN plan)]

\* stockOut(): every line is planned on the balances before the request, also
\* when two lines are for the same item.
StockOut(m, type, request) ==
  /\ \E plan \in [DOMAIN request -> UNION {Plans(request[i], type) : i \in DOMAIN request}] :
       /\ \A i \in DOMAIN request : plan[i] \in Plans(request[i], type)
       /\ CreateMovement(m, type, lot, Total(plan))
  /\ counted' = NoFile
  /\ UNCHANGED <<active, today>>

\* adjust(): a count of existing lots, of inactive items too.
Adjust(m, type, lines) ==
  /\ lines # NoLines
  /\ \A l \in FreeLots : lines[l] = 0
  /\ CreateMovement(m, type, lot, lines)
  /\ counted' = NoFile
  /\ UNCHANGED <<active, today>>

Cancel(m) == [movement EXCEPT ![m].status = "CANCELLED"]

Reversible(source) ==
  /\ movement[source].type \notin {"NONE", "REVERSAL"}
  /\ movement[source].status = "ACTIVE"
  /\ \A m \in Movement : movement[m].reversalOf # source

\* reverse(): the opposite of the source, which is cancelled.
Reverse(m, source) ==
  LET sign == KitchenLedgerSign("REVERSAL", movement[source].type)
      lines == movement[source].lines
  IN  /\ m \in FreeMovements
      /\ Reversible(source)
      /\ Enough(sign, lines)
      /\ lot' = Applied(lot, sign, lines)
      /\ movement' = [Cancel(source) EXCEPT ![m] = Row("REVERSAL", source, lines)]
      /\ counted' = NoFile
      /\ UNCHANGED <<active, today>>

-----------------------------------------------------------------------------

Stock(item) == SumFunctionOnSet(OnHand, LotsOf(item))

\* `current' of plan()
Current(item) == Stock(item)

\* `delta' under SET: a row without quantity moves nothing.
SetDelta(item, quantity) == IF quantity = 0 THEN 0 ELSE quantity - Current(item)

\* bulkImport() with strategy SET and one row per item of the file: what is
\* missing enters as a new lot with the expiry of the row, what is too much
\* leaves by FEFO with expired lots included, and both movements commit
\* together.  Neither the item's own tracksExpiry nor its active flag is asked.
\* A second row of an item that exists is refused (DUPLICATE_CODE_SET); two rows
\* of an item the file itself creates, whose quantities are added, are left out.
ImportSet(in, out, file, lotFor, expires) ==
  LET up == {i \in DOMAIN file : SetDelta(i, file[i]) > 0}
      down == {i \in DOMAIN file : SetDelta(i, file[i]) < 0}
      entries == [l \in {lotFor[i] : i \in up} |->
                    LET i == CHOOSE k \in up : lotFor[k] = l
                    IN  [item |-> i, expires |-> expires[i], received |-> today,
                         quantity |-> SetDelta(i, file[i])]]
      Down(i) == FefoPlans(i, -SetDelta(i, file[i]), TRUE)
  IN  /\ in # out /\ {in, out} \subseteq FreeMovements
      /\ up \cup down # {}
      /\ \A i \in up : lotFor[i] \in FreeLots
      /\ \A i, k \in up : i # k => lotFor[i] # lotFor[k]
      /\ \E plan \in [down -> UNION {Down(i) : i \in down}] :
           /\ \A i \in down : plan[i] \in Down(i)
           /\ Enough(-1, Total(plan))
           /\ lot' = Applied(Applied(WithNewLots(entries), 1, EntryLines(entries)),
                             -1, Total(plan))
           /\ movement' = [m \in Movement |->
                IF m = in /\ up # {} THEN Row("STOCK_IN", NoMovement, EntryLines(entries))
                ELSE IF m = out /\ down # {}
                     THEN Row("ADJUSTMENT_OUT", NoMovement, Total(plan))
                ELSE movement[m]]
      /\ counted' = file
      /\ UNCHANGED <<active, today>>

\* bulkImport() with strategy ADD: an entry with the same omissions.
ImportAdd(m, entries) ==
  /\ DOMAIN entries \subseteq FreeLots
  /\ \A l \in DOMAIN entries : entries[l].received = today
  /\ CreateMovement(m, "STOCK_IN", WithNewLots(entries), EntryLines(entries))
  /\ counted' = NoFile
  /\ UNCHANGED <<active, today>>

\* updateItem() with `active'
SetActive(item) ==
  /\ active' = IF item \in active THEN active \ {item} ELSE active \cup {item}
  /\ UNCHANGED <<lot, movement, today, counted>>

Midnight ==
  /\ today < LastDay
  /\ today' = today + 1
  /\ UNCHANGED <<lot, movement, active, counted>>

-----------------------------------------------------------------------------

Requests == UNION {[1 .. n -> OutLine] : n \in 1 .. MaxLines}

EntrySets == UNION {[ls -> Entry] : ls \in {x \in SUBSET Lot : Cardinality(x) \in 1 .. MaxLines}}

Files == UNION {[is -> ImportQuantity] : is \in SUBSET Item \ {{}}}

Operation(m) ==
  \/ \E entries \in EntrySets : StockIn(m, entries)
  \/ \E entries \in EntrySets : ImportAdd(m, entries)
  \/ \E type \in {"CONSUMPTION", "WASTE"}, request \in Requests : StockOut(m, type, request)
  \/ \E type \in {"ADJUSTMENT_IN", "ADJUSTMENT_OUT"}, lines \in [Lot -> 0 .. MaxQuantity] :
       Adjust(m, type, lines)
  \/ \E source \in Movement : Reverse(m, source)
  \/ \E out \in FreeMovements, file \in Files :
       \E lotFor \in [DOMAIN file -> Lot], expires \in [DOMAIN file -> 0 .. Never] :
         ImportSet(m, out, file, lotFor, expires)

KitchenNext ==
  \/ \E m \in FreeMovements : Operation(m)
  \/ \E item \in Item : SetActive(item)
  \/ Midnight

KitchenSpec == KitchenInit /\ [][KitchenNext]_kitchenVars

-----------------------------------------------------------------------------

\* Every row has its declared shape; in particular no lot has a negative
\* balance (kitchen_lots_on_hand_check never fires).
KitchenTypeOK ==
  /\ lot \in [Lot -> LotRow]
  /\ movement \in [Movement -> MovementRow]
  /\ active \subseteq Item
  /\ today \in Day
  /\ counted \in Files \cup {NoFile}

\* What a movement does to its lots, said independently of kitchenLedgerSign.
Brings(type) == type \in {"STOCK_IN", "ADJUSTMENT_IN"}

Effect(m, l) ==
  LET brings == IF movement[m].type = "REVERSAL"
                THEN ~Brings(movement[movement[m].reversalOf].type)
                ELSE Brings(movement[m].type)
  IN  IF brings THEN movement[m].lines[l] ELSE -movement[m].lines[l]

\* The balance of a lot is the sum of its movements, the cancelled ones and
\* their reversals included.
OnHandIsTheKardex ==
  \A l \in Lot :
    lot[l].onHand = SumFunctionOnSet([m \in Movement |-> Effect(m, l)], Movement \ FreeMovements)

\* A movement is cancelled exactly when one reversal undoes it, line by line.
CancelledHasOneReversal ==
  \A m \in Movement \ FreeMovements :
    LET reversals == {r \in Movement : movement[r].reversalOf = m}
    IN  /\ Cardinality(reversals) = IF movement[m].status = "CANCELLED" THEN 1 ELSE 0
        /\ \A r \in reversals : movement[r].lines = movement[m].lines

Appeared(m) == movement[m].type = "NONE" /\ movement'[m].type # "NONE"

\* "Un consumo nunca toma lotes caducados ni articulos duraderos".
ConsumptionIsEdible ==
  [][\A m \in Movement : Appeared(m) /\ movement'[m].type = "CONSUMPTION" =>
       \A l \in Lot : movement'[m].lines[l] > 0 =>
         ~IsExpired(lot[l].expires, today) /\ lot[l].item \notin Durable]_kitchenVars

\* SET "deja el articulo con la cantidad EXACTA del archivo", whatever lots the
\* item had, expired ones included; the code treats a row with quantity zero as
\* one without a quantity.
SetLeavesTheCount ==
  \A i \in DOMAIN counted : counted[i] > 0 => Stock(i) = counted[i]

\* allocateFefo() is first expired, first out: whatever quantity is asked for, it
\* touches a lot only when every usable lot that expires earlier, or arrived
\* earlier among those of one day, is used up.
EarliestFirst ==
  \A item \in Item, quantity \in Quantity, includeExpired \in BOOLEAN :
    \A take \in FefoPlans(item, quantity, includeExpired) :
      \A a, b \in Usable(LotsOf(item), Expires, OnHand, today, includeExpired) :
        /\ take[b] > 0
        /\ lot[a].expires <= lot[b].expires
        /\ lot[a].expires = lot[b].expires => lot[a].received < lot[b].received
        => take[a] = lot[a].onHand

\* allocateFefo() finds a plan exactly when the usable lots hold the quantity,
\* and the plan takes that quantity, from usable lots only.
CoversExactly ==
  \A item \in Item, quantity \in Quantity, includeExpired \in BOOLEAN :
    LET usable == Usable(LotsOf(item), Expires, OnHand, today, includeExpired)
        plans == FefoPlans(item, quantity, includeExpired)
    IN  /\ plans # {} <=> quantity <= SumFunctionOnSet(OnHand, usable)
        /\ \A take \in plans :
             /\ SumFunctionOnSet(take, Lot) = quantity
             /\ \A l \in Lot : take[l] <= IF l \in usable THEN lot[l].onHand ELSE 0

\* post(), reverse(): lots and movements keep their shape, a balance never gets
\* negative, it is the sum of the kardex, and what is cancelled was undone once.
KitchenAddsUp == KitchenTypeOK /\ OnHandIsTheKardex /\ CancelledHasOneReversal

\* allocateFefo() and the SET import take and leave exactly the quantities they
\* were asked for, from the lots the rule names, and no consumption takes what
\* is expired or durable.
QuantitiesAreExact ==
  /\ [](EarliestFirst /\ CoversExactly /\ SetLeavesTheCount)
  /\ ConsumptionIsEdible
=============================================================================
