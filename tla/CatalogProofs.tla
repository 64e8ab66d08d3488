---------------------------- MODULE CatalogProofs ----------------------------
(***************************************************************************)
(* Proofs about what the stores are made of: the catalogue, supplier and   *)
(* invoices of the kitchen (KitchenSupply), and the zones, room types,     *)
(* products and kits of the hotel (HotelSetup); and about the gates and    *)
(* their reports (AccessGate).  Each invariant says what a request that    *)
(* was checked and not yet written still relies on.                        *)
(***************************************************************************)
EXTENDS KitchenSupply, HotelSetup, AccessGate, Sums

-----------------------------------------------------------------------------
(* The catalogue of the kitchen, its supplier and its invoices.            *)

SupplyItemRow == [unit : KitchenUnit \cup {"none"}, active : BOOLEAN, min : Nat, max : Nat \cup {NoMax}]
LotRow == [item : SupplyItem, order : Order \cup {NoOrder}, cost : Cost, unit : KitchenUnit \cup {"none"},
           receipt : {"ACTIVE", "CANCELLED"}]
Presentation == [factor : Nat, last : Nat, at : Nat]
Editing == [pc : {"write"}, item : SupplyItem, change : ItemChange]
InvoiceRow == [order : Order \cup {NoOrder}, lines : Lines, date : 1..2, status : {"ACTIVE", "CANCELLED"}]

\* The tables have their shape, and limits never cross.
SupplyTypes ==
  /\ item \in [SupplyItem -> SupplyItemRow]
  /\ \A i \in SupplyItem : AssertLimits(item[i].min, item[i].max)
  /\ unitActive \subseteq KitchenUnit
  /\ lots \in Seq(LotRow)
  /\ presentation \in [SupplyItem -> Presentation]
  /\ updater \in [Updater -> Editing \cup {NotEditing}]
  /\ invoices \in Seq(InvoiceRow)

\* Only an item that was created is edited or received, and such an item keeps
\* a highest stock, which NoSupplyItem has not.
Exists(i) == item[i].max # NoMax
SuppliedItemsExist ==
  /\ \A i \in SupplyItem : item[i] # NoSupplyItem => Exists(i)
  /\ \A e \in Updater : updater[e].pc = "write" => Exists(updater[e].item)
  /\ \A n \in DOMAIN lots : Exists(lots[n].item)

\* A request that is about to change the unit of an item that has lots would
\* leave the unit as it is, unless the first lot came after its count.
ChangesOfUnitAreIdle ==
  \A e \in Updater :
    (/\ updater[e].pc = "write" /\ "unit" \in DOMAIN updater[e].change
     /\ updater[e].item \notin mixed /\ HasLots(updater[e].item))
    => updater[e].change.unit = item[updater[e].item].unit

\* The lots of an item are counted in its unit.
LotsAreInTheirUnit == \A n \in DOMAIN lots : lots[n].item \notin mixed => lots[n].unit = item[lots[n].item].unit

\* A supplier with contacts has one principal contact.
OnePrincipal == contacts # <<>> => Cardinality(Principals(contacts)) = 1

SupplyInv == SupplyTypes /\ SuppliedItemsExist /\ ChangesOfUnitAreIdle /\ LotsAreInTheirUnit /\ OnePrincipal

\* An item that is edited stays one, keeps a highest stock if it had one, and
\* its unit unless the request brings one.
LEMMA EditedItem ==
  ASSUME NEW old \in SupplyItemRow, NEW change \in ItemChange
  PROVE  /\ With(old, change) \in SupplyItemRow
         /\ old.max # NoMax => With(old, change).max # NoMax
         /\ With(old, change).unit = IF "unit" \in DOMAIN change THEN change.unit ELSE old.unit
<1> DEFINE new == With(old, change)
<1>1. DOMAIN old = {"unit", "active", "min", "max"} BY DEF SupplyItemRow
<1>2. new = [x \in {"unit", "active", "min", "max"} |-> IF x \in DOMAIN change THEN change[x] ELSE old[x]]
  BY <1>1 DEF With
<1>3. new = [unit |-> new.unit, active |-> new.active, min |-> new.min, max |-> new.max] BY <1>2
<1>4. /\ new.unit = IF "unit" \in DOMAIN change THEN change.unit ELSE old.unit
      /\ new.active = IF "active" \in DOMAIN change THEN change.active ELSE old.active
      /\ new.min = IF "min" \in DOMAIN change THEN change.min ELSE old.min
      /\ new.max = IF "max" \in DOMAIN change THEN change.max ELSE old.max
  BY <1>2
<1>5. /\ "unit" \in DOMAIN change => change.unit \in KitchenUnit
      /\ "active" \in DOMAIN change => change.active \in BOOLEAN
      /\ "min" \in DOMAIN change => change.min \in Nat
      /\ "max" \in DOMAIN change => change.max \in Nat
  BY SupplyAssumption DEF ItemChange
<1>6. /\ new.unit \in KitchenUnit \cup {"none"} /\ new.active \in BOOLEAN
      /\ new.min \in Nat /\ new.max \in Nat \cup {NoMax}
  BY <1>4, <1>5 DEF SupplyItemRow
<1>7. old.max # NoMax => new.max # NoMax BY <1>4, <1>5 DEF NoMax
<1> HIDE DEF new
<1>8. new \in SupplyItemRow BY <1>3, <1>6 DEF SupplyItemRow
<1> QED BY <1>4, <1>7, <1>8 DEF new

\* What a lot is.
LEMMA ALot ==
  ASSUME SupplyTypes
  PROVE  \A n \in DOMAIN lots : n \in 1..Len(lots) /\ lots[n] \in LotRow /\ lots[n].item \in SupplyItem
<1>1. lots \in Seq(LotRow) BY DEF SupplyTypes
<1>2. \A n \in DOMAIN lots : n \in 1..Len(lots) /\ lots[n] \in LotRow BY <1>1
<1> QED BY <1>2 DEF LotRow

\* Nothing is there at first.
LEMMA SupplyInvInit == SupplyInit => SupplyInv
<1> SUFFICES ASSUME SupplyInit PROVE SupplyInv OBVIOUS
<1>1. NoSupplyItem \in SupplyItemRow BY DEF NoSupplyItem, SupplyItemRow, NoMax
<1>2. NotSold \in Presentation BY DEF NotSold, Presentation
<1>3. AssertLimits(NoSupplyItem.min, NoSupplyItem.max) BY DEF AssertLimits, NoSupplyItem, NoMax
<1>4. SupplyTypes BY <1>1, <1>2, <1>3 DEF SupplyInit, SupplyTypes
<1>5. SuppliedItemsExist /\ ChangesOfUnitAreIdle /\ LotsAreInTheirUnit /\ OnePrincipal
  BY DEF SupplyInit, SuppliedItemsExist, ChangesOfUnitAreIdle, LotsAreInTheirUnit, OnePrincipal, NotEditing
<1> QED BY <1>4, <1>5 DEF SupplyInv

\* A step that changes neither the items, the lots nor the edits keeps what
\* relates them.
LEMMA ItemsAndLotsStay ==
  ASSUME SupplyInv, UNCHANGED <<item, lots, updater, mixed>>
  PROVE  SuppliedItemsExist' /\ ChangesOfUnitAreIdle' /\ LotsAreInTheirUnit'
BY DEF SupplyInv, SuppliedItemsExist, ChangesOfUnitAreIdle, LotsAreInTheirUnit, Exists, HasLots

\* The cost of a lot changes with an invoice only.
CostsStay == \A n \in DOMAIN lots : lots'[n].cost # lots[n].cost => Len(invoices') > Len(invoices)

\* An invoice leaves one price, in the lots of its order and with the supplier.
InvoiceLeavesOnePrice ==
  Len(invoices') > Len(invoices) =>
    \A n \in DOMAIN lots :
      LET i == lots[n].item
      IN  (/\ invoices'[Len(invoices')].order = lots[n].order /\ lots[n].order # NoOrder
           /\ i \in InvoicedItems(invoices'[Len(invoices')].lines)
           /\ lots[n].receipt = "ACTIVE" /\ presentation[i] # NotSold)
          => presentation'[i].last = lots'[n].cost * presentation'[i].factor

\* The date of the last purchase changes with an invoice only.
DatesStay ==
  \A i \in SupplyItem : presentation[i] # NotSold /\ presentation'[i] # NotSold /\ Len(invoices') = Len(invoices)
                        => presentation'[i].at = presentation[i].at

PricesStep ==
  /\ CostsStay
  /\ InvoiceLeavesOnePrice
  /\ DatesStay

\* What a step keeps when it leaves lots, invoices and presentations alone.
LEMMA PricesUntouched ==
  ASSUME SupplyTypes, UNCHANGED <<lots, invoices, presentation>>
  PROVE  PricesStep
<1>1. ~(Len(invoices') > Len(invoices)) BY DEF SupplyTypes
<1> QED BY <1>1 DEF PricesStep, CostsStay, InvoiceLeavesOnePrice, DatesStay

\* createItem: the item has no lots, and nobody edits it.
LEMMA CreateItemKeeps ==
  ASSUME SupplyInv, NEW i \in SupplyItem, NEW unit \in KitchenUnit, NEW min \in StockLimit, NEW max \in StockLimit,
         CreateItem(i, unit, min, max)
  PROVE  SupplyInv' /\ PricesStep
<1>1. PICK new : new = [unit |-> unit, active |-> TRUE, min |-> min, max |-> max] OBVIOUS
<1>2. item' = [item EXCEPT ![i] = new] /\ AssertLimits(min, max) /\ item[i] = NoSupplyItem
  BY <1>1 DEF CreateItem
<1>3. UNCHANGED <<unitActive, lots, presentation, contacts, trading, invoices, updater, supplyChanges, mixed>>
  BY DEF CreateItem
<1>4. min \in Nat /\ max \in Nat BY SupplyAssumption
<1>5. new \in SupplyItemRow BY <1>1, <1>4 DEF SupplyItemRow
<1>6. new.min = min /\ new.max = max /\ new.max # NoMax BY <1>1, <1>4 DEF NoMax
<1>7. ~Exists(i) BY <1>2 DEF Exists, NoSupplyItem
<1>8. SupplyTypes' BY <1>2, <1>3, <1>5, <1>6 DEF SupplyInv, SupplyTypes
<1>9. \A x \in SupplyItem : x # i => item'[x] = item[x] BY <1>2 DEF SupplyInv, SupplyTypes
<1>10. \A n \in DOMAIN lots : lots[n].item \in SupplyItem /\ lots[n].item # i
  BY <1>7, ALot DEF SupplyInv, SuppliedItemsExist
<1>11. \A e \in Updater : updater[e].pc = "write" => updater[e].item \in SupplyItem /\ updater[e].item # i
  BY <1>7 DEF SupplyInv, SupplyTypes, Editing, NotEditing, SuppliedItemsExist
<1>12. SuppliedItemsExist'
  <2>1. item'[i] = new BY <1>2 DEF SupplyInv, SupplyTypes
  <2> QED BY <1>3, <1>6, <1>9, <1>10, <1>11, <2>1 DEF SupplyInv, SuppliedItemsExist, Exists
<1>13. ChangesOfUnitAreIdle' BY <1>3, <1>9, <1>11 DEF SupplyInv, ChangesOfUnitAreIdle, HasLots
<1>14. LotsAreInTheirUnit' BY <1>3, <1>9, <1>10 DEF SupplyInv, LotsAreInTheirUnit
<1>15. OnePrincipal' BY <1>3 DEF SupplyInv, OnePrincipal
<1>16. PricesStep BY <1>3, PricesUntouched DEF SupplyInv
<1> QED BY <1>8, <1>12, <1>13, <1>14, <1>15, <1>16 DEF SupplyInv

\* updateItem, its read: a unit that changes is one of an item without lots.
LEMMA ReadItemKeeps ==
  ASSUME SupplyInv, NEW e \in Updater, NEW i \in SupplyItem, NEW change \in ItemChange, ReadItem(e, i, change)
  PROVE  SupplyInv' /\ PricesStep
<1>1. PICK new : new = [pc |-> "write", item |-> i, change |-> change] OBVIOUS
<1>2. updater' = [updater EXCEPT ![e] = new] /\ ~UnitLocked(i, With(item[i], change).unit) /\ item[i] # NoSupplyItem
  BY <1>1 DEF ReadItem
<1>3. UNCHANGED <<item, unitActive, lots, presentation, contacts, trading, invoices, mixed>> BY DEF ReadItem
<1>4. new \in Editing /\ new.item = i /\ new.change = change /\ new.pc = "write" BY <1>1 DEF Editing
<1>5. SupplyTypes' BY <1>2, <1>3, <1>4 DEF SupplyInv, SupplyTypes
<1>6. \A x \in Updater : updater'[x] = IF x = e THEN new ELSE updater[x] BY <1>2 DEF SupplyInv, SupplyTypes
<1>7. Exists(i) BY <1>2 DEF SupplyInv, SuppliedItemsExist<1>8. SuppliedItemsExist' BY <1>3, <1>4, <1>6, <1>7 DEF SupplyInv, SuppliedItemsExist, Exists
<1>9. "unit" \in DOMAIN change /\ HasLots(i) => change.unit = item[i].unit
  <2>1. item[i] \in SupplyItemRow BY DEF SupplyInv, SupplyTypes
  <2>2. With(item[i], change).unit = IF "unit" \in DOMAIN change THEN change.unit ELSE item[i].unit
    BY <2>1, EditedItem
  <2> QED BY <1>2, <2>2 DEF UnitLocked
<1>10. ChangesOfUnitAreIdle' BY <1>3, <1>4, <1>6, <1>9 DEF SupplyInv, ChangesOfUnitAreIdle, HasLots
<1>11. LotsAreInTheirUnit' /\ OnePrincipal' BY <1>3 DEF SupplyInv, LotsAreInTheirUnit, OnePrincipal
<1>12. PricesStep BY <1>3, PricesUntouched DEF SupplyInv
<1> QED BY <1>5, <1>8, <1>10, <1>11, <1>12 DEF SupplyInv

\* updateItem, its write: the unit of an item with lots stays.
LEMMA WriteItemKeeps ==
  ASSUME SupplyInv, NEW e \in Updater, WriteItem(e)
  PROVE  SupplyInv' /\ PricesStep
<1>1. PICK i \in SupplyItem, change \in ItemChange : updater[e] = [pc |-> "write", item |-> i, change |-> change]
  BY DEF WriteItem, SupplyInv, SupplyTypes, Editing, NotEditing
<1>2. PICK new : new = With(item[i], change) OBVIOUS
<1>3. item' = IF AssertLimits(new.min, new.max) THEN [item EXCEPT ![i] = new] ELSE item
  BY <1>1, <1>2 DEF WriteItem
<1>4. updater' = [updater EXCEPT ![e] = NotEditing] BY DEF WriteItem
<1>5. UNCHANGED <<unitActive, lots, presentation, contacts, trading, invoices, supplyChanges, mixed>> BY DEF WriteItem
<1>6. item[i] \in SupplyItemRow BY DEF SupplyInv, SupplyTypes
<1>7. /\ new \in SupplyItemRow
      /\ item[i].max # NoMax => new.max # NoMax
      /\ new.unit = IF "unit" \in DOMAIN change THEN change.unit ELSE item[i].unit
  BY <1>2, <1>6, EditedItem
<1>8. Exists(i) BY <1>1 DEF SupplyInv, SuppliedItemsExist
<1>9. \A x \in Updater : updater'[x] = IF x = e THEN NotEditing ELSE updater[x] BY <1>4 DEF SupplyInv, SupplyTypes
<1>10. \A x \in SupplyItem : item'[x] = item[x] \/ (x = i /\ item'[x] = new /\ AssertLimits(new.min, new.max))
  BY <1>3 DEF SupplyInv, SupplyTypes
<1>11. SupplyTypes' BY <1>3, <1>4, <1>5, <1>7, <1>10 DEF SupplyInv, SupplyTypes
<1>12. \A x \in SupplyItem : Exists(x) => item'[x].max # NoMax BY <1>7, <1>8, <1>10 DEF Exists
<1>13. SuppliedItemsExist'
  <2>1. \A x \in SupplyItem : item'[x] # NoSupplyItem => item'[x].max # NoMax
    BY <1>8, <1>10, <1>12 DEF SupplyInv, SuppliedItemsExist
  <2>2. \A n \in DOMAIN lots' : item'[lots'[n].item].max # NoMax
    BY <1>5, <1>12, ALot DEF SupplyInv, SuppliedItemsExist
  <2>3. \A x \in Updater : updater'[x].pc = "write" => item'[updater'[x].item].max # NoMax
    <3>1. \A x \in Updater : updater[x].pc = "write" => updater[x].item \in SupplyItem
      BY DEF SupplyInv, SupplyTypes, Editing, NotEditing
    <3> QED BY <1>9, <1>12, <3>1 DEF SupplyInv, NotEditing, SuppliedItemsExist
  <2> QED BY <2>1, <2>2, <2>3 DEF SuppliedItemsExist, Exists
<1>14. \A x \in SupplyItem : x \notin mixed /\ HasLots(x) => item'[x].unit = item[x].unit
  <2>1. i \notin mixed /\ HasLots(i) => new.unit = item[i].unit
    BY <1>1, <1>7 DEF SupplyInv, ChangesOfUnitAreIdle
  <2> QED BY <1>10, <2>1
<1>15. ChangesOfUnitAreIdle'
  <2> SUFFICES ASSUME NEW x \in Updater, updater'[x].pc = "write", "unit" \in DOMAIN updater'[x].change,
                      updater'[x].item \notin mixed', HasLots(updater[x].item)
               PROVE  updater'[x].change.unit = item'[updater'[x].item].unit
    BY <1>5, <1>9 DEF ChangesOfUnitAreIdle, HasLots, NotEditing
  <2>1. updater'[x] = updater[x] BY <1>9 DEF NotEditing
  <2>2. updater[x].item \in SupplyItem BY <2>1 DEF SupplyInv, SupplyTypes, Editing, NotEditing
  <2> QED BY <1>5, <1>14, <2>1, <2>2 DEF SupplyInv, ChangesOfUnitAreIdle
<1>16. LotsAreInTheirUnit'
  <2>1. \A n \in DOMAIN lots : HasLots(lots[n].item) /\ lots[n].item \in SupplyItem
    BY ALot DEF SupplyInv, HasLots
  <2> QED BY <1>5, <1>14, <2>1 DEF SupplyInv, LotsAreInTheirUnit
<1>17. OnePrincipal' BY <1>5 DEF SupplyInv, OnePrincipal
<1>18. PricesStep BY <1>5, PricesUntouched DEF SupplyInv
<1> QED BY <1>11, <1>13, <1>15, <1>16, <1>17, <1>18 DEF SupplyInv
\* The units, and the two halves of the supplier, leave the rest alone.
LEMMA SupplierKeeps ==
  ASSUME SupplyInv,
         \/ \E unit \in KitchenUnit, active \in BOOLEAN : UpdateKitchenUnit(unit, active)
         \/ \E list \in {<<FALSE, FALSE>>, <<FALSE, TRUE>>}, active \in BOOLEAN : UpdateSupplier(list, active)
  PROVE  SupplyInv' /\ PricesStep
<1>1. UNCHANGED <<item, lots, presentation, invoices, updater, mixed>> BY DEF UpdateKitchenUnit, UpdateSupplier
<1>2. unitActive' \subseteq KitchenUnit BY DEF UpdateKitchenUnit, UpdateSupplier, SupplyInv, SupplyTypes
<1>3. SupplyTypes' BY <1>1, <1>2 DEF SupplyInv, SupplyTypes
<1>4. OnePrincipal'
  <2>1. CASE contacts' = contacts BY <2>1 DEF SupplyInv, OnePrincipal
  <2>2. ASSUME NEW list \in {<<FALSE, FALSE>>, <<FALSE, TRUE>>}, contacts' = WithPrimary(list) PROVE OnePrincipal'
    <3>1. CASE list = <<FALSE, FALSE>>
      <4>1. DOMAIN list = {1, 2} /\ ~list[1] /\ ~list[2] BY <3>1
      <4>2. Principals(list) = {} BY <4>1 DEF Principals
      <4>3. contacts' = [n \in {1, 2} |-> n = 1] BY <2>2, <4>1, <4>2 DEF WithPrimary
      <4>4. Principals(contacts') = {1} BY <4>3 DEF Principals
      <4> QED BY <4>4, FS_Singleton DEF OnePrincipal
    <3>2. CASE list = <<FALSE, TRUE>>
      <4>1. DOMAIN list = {1, 2} /\ ~list[1] /\ list[2] BY <3>2
      <4>2. Principals(list) = {2} BY <4>1 DEF Principals
      <4>3. contacts' = list BY <2>2, <4>2 DEF WithPrimary
      <4>4. Principals(contacts') = {2} BY <4>2, <4>3
      <4> QED BY <4>4, FS_Singleton DEF OnePrincipal
    <3> QED BY <3>1, <3>2
  <2> QED BY <2>1, <2>2 DEF UpdateKitchenUnit, UpdateSupplier
<1>5. SuppliedItemsExist' /\ ChangesOfUnitAreIdle' /\ LotsAreInTheirUnit' BY <1>1, ItemsAndLotsStay
<1>6. PricesStep BY <1>1, PricesUntouched DEF SupplyInv
<1> QED BY <1>3, <1>4, <1>5, <1>6 DEF SupplyInv

\* replaceItems: what stays keeps its last purchase.
LEMMA SoldItem ==
  ASSUME NEW old \in Presentation, NEW change \in [factor : Factor] \cup [factor : Factor, last : Cost]
  PROVE  With(old, change) \in Presentation /\ With(old, change).at = old.at
<1> DEFINE new == With(old, change)
<1>1. DOMAIN old = {"factor", "last", "at"} BY DEF Presentation
<1>2. new = [x \in {"factor", "last", "at"} |-> IF x \in DOMAIN change THEN change[x] ELSE old[x]] BY <1>1 DEF With
<1>3. new = [factor |-> new.factor, last |-> new.last, at |-> new.at] BY <1>2
<1>4. "at" \notin DOMAIN change OBVIOUS
<1>5. /\ "factor" \in DOMAIN change => change.factor \in Nat
      /\ "last" \in DOMAIN change => change.last \in Nat
  BY SupplyAssumption
<1>6. new.factor \in Nat /\ new.last \in Nat /\ new.at = old.at /\ new.at \in Nat BY <1>2, <1>4, <1>5 DEF Presentation
<1> HIDE DEF new
<1>7. new \in Presentation BY <1>3, <1>6 DEF Presentation
<1> QED BY <1>6, <1>7 DEF new

\* update, what it sells: dates stay.
LEMMA SupplierItemsKeep ==
  ASSUME SupplyInv, NEW sold \in Sold, UpdateSupplierItems(sold)
  PROVE  SupplyInv' /\ PricesStep
<1>1. UNCHANGED <<item, unitActive, lots, contacts, trading, invoices, updater, mixed>> BY DEF UpdateSupplierItems
<1>2. \A i \in DOMAIN sold : sold[i] \in [factor : Factor] \cup [factor : Factor, last : Cost] BY DEF Sold
<1>3. presentation' = [i \in SupplyItem |-> IF i \in DOMAIN sold THEN With(presentation[i], sold[i]) ELSE NotSold]
  BY DEF UpdateSupplierItems, ReplaceItems
<1>4. \A i \in SupplyItem : presentation[i] \in Presentation BY DEF SupplyInv, SupplyTypes
<1>5. \A i \in SupplyItem : presentation'[i] \in Presentation /\ (i \in DOMAIN sold => presentation'[i].at = presentation[i].at)
  <2>1. NotSold \in Presentation BY DEF NotSold, Presentation
  <2> QED BY <1>2, <1>3, <1>4, <2>1, SoldItem
<1>6. presentation' \in [SupplyItem -> Presentation] BY <1>3, <1>5
<1>7. SupplyTypes' BY <1>1, <1>6 DEF SupplyInv, SupplyTypes
<1>8. OnePrincipal' BY <1>1 DEF SupplyInv, OnePrincipal
<1>9. SuppliedItemsExist' /\ ChangesOfUnitAreIdle' /\ LotsAreInTheirUnit' BY <1>1, ItemsAndLotsStay
<1>10. \A i \in SupplyItem : presentation'[i] # NotSold => presentation'[i].at = presentation[i].at BY <1>3, <1>5
<1>11. ~(Len(invoices') > Len(invoices)) BY <1>1 DEF SupplyInv, SupplyTypes
<1>12. PricesStep BY <1>1, <1>10, <1>11 DEF PricesStep, CostsStay, InvoiceLeavesOnePrice, DatesStay
<1> QED BY <1>7, <1>8, <1>9, <1>12 DEF SupplyInv
\* A step that gives every lot at most another cost and receipt, and edits no
\* item, keeps what relates items and lots.
SameLots ==
  /\ lots' \in Seq(LotRow) /\ DOMAIN lots' = DOMAIN lots
  /\ \A n \in DOMAIN lots : lots'[n].item = lots[n].item /\ lots'[n].unit = lots[n].unit

\* It does.
LEMMA SameLotsKeep ==
  ASSUME SupplyInv, SameLots, UNCHANGED <<item, updater, mixed>>
  PROVE  SuppliedItemsExist' /\ ChangesOfUnitAreIdle' /\ LotsAreInTheirUnit'
<1>1. SuppliedItemsExist' BY DEF SameLots, SupplyInv, SuppliedItemsExist, Exists
<1>2. \A i \in SupplyItem : HasLots(i)' => HasLots(i)
  <2>1. lots \in Seq(LotRow) BY DEF SupplyInv, SupplyTypes
  <2>2. 1..Len(lots) = DOMAIN lots /\ 1..Len(lots') = DOMAIN lots BY <2>1 DEF SameLots
  <2> QED BY <2>2 DEF SameLots, HasLots
<1>3. \A e \in Updater : updater[e].pc = "write" => updater[e].item \in SupplyItem
  BY DEF SupplyInv, SupplyTypes, Editing, NotEditing
<1>4. ChangesOfUnitAreIdle' BY <1>2, <1>3 DEF SupplyInv, ChangesOfUnitAreIdle
<1>5. LotsAreInTheirUnit' BY DEF SameLots, SupplyInv, LotsAreInTheirUnit
<1> QED BY <1>1, <1>4, <1>5

\* A lot that arrives takes the unit of its item; when the unit is about to
\* change, the history says so.
LEMMA ReceiveKeeps ==
  ASSUME SupplyInv, NEW i \in SupplyItem, NEW o \in Order \cup {NoOrder}, NEW cost \in Cost, ReceiveLot(i, o, cost)
  PROVE  SupplyInv' /\ PricesStep
<1>1. PICK new : new = [item |-> i, order |-> o, cost |-> cost, unit |-> item[i].unit, receipt |-> "ACTIVE"] OBVIOUS
<1>2. lots' = Append(lots, new) /\ item[i].active BY <1>1 DEF ReceiveLot
<1>3. UNCHANGED <<item, unitActive, presentation, contacts, trading, invoices, updater, supplyChanges>> BY DEF ReceiveLot
<1>4. item[i] \in SupplyItemRow BY DEF SupplyInv, SupplyTypes
<1>5. new \in LotRow BY <1>1, <1>4 DEF LotRow, SupplyItemRow
<1>6. lots \in Seq(LotRow) BY DEF SupplyInv, SupplyTypes
<1>7. /\ lots' \in Seq(LotRow) /\ Len(lots') = Len(lots) + 1
      /\ DOMAIN lots' = 1..Len(lots) + 1 /\ DOMAIN lots = 1..Len(lots) /\ Len(lots) \in Nat
      /\ \A n \in 1..Len(lots) : lots'[n] = lots[n]
      /\ lots'[Len(lots) + 1] = new
  BY <1>2, <1>5, <1>6
<1>8. new.item = i /\ new.unit = item[i].unit BY <1>1
<1>9. Exists(i)
  <2>1. item[i] # NoSupplyItem BY <1>2 DEF NoSupplyItem
  <2> QED BY <2>1 DEF SupplyInv, SuppliedItemsExist
<1>10. SupplyTypes' BY <1>3, <1>7 DEF SupplyInv, SupplyTypes
<1>11. SuppliedItemsExist' BY <1>3, <1>7, <1>8, <1>9 DEF SupplyInv, SuppliedItemsExist, Exists
<1>12. mixed \subseteq mixed' /\ (\A e \in Updater : updater[e].pc = "write" /\ updater[e].item = i /\ "unit" \in DOMAIN updater[e].change => i \in mixed')
  BY DEF ReceiveLot
<1>13. \A x : HasLots(x)' => HasLots(x) \/ x = i BY <1>7, <1>8 DEF HasLots
<1>14. ChangesOfUnitAreIdle'
  <2> SUFFICES ASSUME NEW e \in Updater, updater[e].pc = "write", "unit" \in DOMAIN updater[e].change,
                      updater[e].item \notin mixed', HasLots(updater[e].item)'
               PROVE  updater[e].change.unit = item[updater[e].item].unit
    BY <1>3 DEF ChangesOfUnitAreIdle, HasLots
  <2>1. updater[e].item # i BY <1>12
  <2>2. HasLots(updater[e].item) BY <1>3, <1>7, <1>8, <2>1 DEF HasLots
  <2> QED BY <1>12, <2>2 DEF SupplyInv, ChangesOfUnitAreIdle
<1>15. LotsAreInTheirUnit' BY <1>3, <1>7, <1>8, <1>12 DEF SupplyInv, LotsAreInTheirUnit
<1>16. OnePrincipal' BY <1>3 DEF SupplyInv, OnePrincipal
<1>17. ~(Len(invoices') > Len(invoices)) BY <1>3 DEF SupplyInv, SupplyTypes
<1>18. PricesStep BY <1>3, <1>7, <1>17 DEF PricesStep, CostsStay, InvoiceLeavesOnePrice, DatesStay
<1> QED BY <1>10, <1>11, <1>14, <1>15, <1>16, <1>18 DEF SupplyInv

\* The reversal of a receipt, and the cancellation of an invoice, change no
\* cost, no unit and no date.
LEMMA ReversalsKeep ==
  ASSUME SupplyInv, (\E n \in DOMAIN lots : ReverseReceipt(n)) \/ (\E n \in DOMAIN invoices : CancelInvoice(n))
  PROVE  SupplyInv' /\ PricesStep
<1>1. UNCHANGED <<item, unitActive, presentation, contacts, trading, updater, mixed>> BY DEF ReverseReceipt, CancelInvoice
<1>2. SameLots /\ \A n \in DOMAIN lots : lots'[n].cost = lots[n].cost
  <2>1. CASE lots' = lots BY <2>1, ALot DEF SameLots, SupplyInv, SupplyTypes
  <2>2. ASSUME NEW n \in DOMAIN lots, lots' = [lots EXCEPT ![n].receipt = "CANCELLED"]
        PROVE  SameLots /\ \A k \in DOMAIN lots : lots'[k].cost = lots[k].cost
    <3>1. PICK new : new = [lots[n] EXCEPT !.receipt = "CANCELLED"] OBVIOUS
    <3>2. lots[n] \in LotRow /\ lots \in Seq(LotRow) BY ALot DEF SupplyInv, SupplyTypes
    <3>3. new \in LotRow /\ new.item = lots[n].item /\ new.unit = lots[n].unit /\ new.cost = lots[n].cost
      BY <3>1, <3>2 DEF LotRow
    <3>4. lots' = [lots EXCEPT ![n] = new] BY <2>2, <3>1
    <3>5. lots' \in Seq(LotRow) /\ DOMAIN lots' = DOMAIN lots BY <3>2, <3>3, <3>4
    <3>6. \A k \in DOMAIN lots : lots'[k] = IF k = n THEN new ELSE lots[k] BY <3>4
    <3> QED BY <3>3, <3>5, <3>6 DEF SameLots
  <2> QED BY <2>1, <2>2 DEF ReverseReceipt, CancelInvoice
<1>3. invoices' \in Seq(InvoiceRow)
      /\ Len(invoices') = Len(invoices)
  <2>1. invoices \in Seq(InvoiceRow) BY DEF SupplyInv, SupplyTypes
  <2>2. CASE invoices' = invoices BY <2>1, <2>2
  <2>3. ASSUME NEW n \in DOMAIN invoices, invoices' = [invoices EXCEPT ![n].status = "CANCELLED"]
        PROVE  invoices' \in Seq(InvoiceRow) /\ Len(invoices') = Len(invoices)
    <3>1. PICK new : new = [invoices[n] EXCEPT !.status = "CANCELLED"] OBVIOUS
    <3>2. invoices[n] \in InvoiceRow BY <2>1
    <3>3. new \in InvoiceRow BY <3>1, <3>2 DEF InvoiceRow
    <3>4. invoices' = [invoices EXCEPT ![n] = new] BY <2>3, <3>1
    <3> QED BY <2>1, <3>3, <3>4
  <2> QED BY <2>2, <2>3 DEF ReverseReceipt, CancelInvoice
<1>4. SupplyTypes' BY <1>1, <1>2, <1>3 DEF SupplyInv, SupplyTypes, SameLots
<1>5. SuppliedItemsExist' /\ ChangesOfUnitAreIdle' /\ LotsAreInTheirUnit' BY <1>1, <1>2, SameLotsKeep
<1>6. OnePrincipal' BY <1>1 DEF SupplyInv, OnePrincipal
<1>7. ~(Len(invoices') > Len(invoices)) BY <1>3 DEF SupplyInv, SupplyTypes
<1>8. PricesStep BY <1>1, <1>2, <1>7 DEF PricesStep, CostsStay, InvoiceLeavesOnePrice, DatesStay
<1> QED BY <1>4, <1>5, <1>6, <1>8 DEF SupplyInv
\* The lines of an invoice are one, or two of the same item; so an item of the
\* invoice has a last line.
LEMMA LastLineOfItem ==
  ASSUME NEW lines \in Lines, NEW i \in InvoicedItems(lines)
  PROVE  LastLine(lines, i) \in DOMAIN lines /\ lines[LastLine(lines, i)].cost \in Cost
<1> DEFINE IsLast(n) == lines[n].item = i /\ \A k \in DOMAIN lines : lines[k].item = i => k <= n
<1>1. (\A n \in DOMAIN lines : lines[n] \in Line) /\ \E n \in DOMAIN lines : IsLast(n)
  <2>1. CASE \E a \in Line : lines = <<a>>
    <3>1. PICK a \in Line : lines = <<a>> BY <2>1
    <3>2. DOMAIN lines = {1} /\ lines[1] = a BY <3>1
    <3>3. IsLast(1) BY <3>2 DEF InvoicedItems
    <3> QED BY <3>2, <3>3
  <2>2. CASE lines \in Line \X Line /\ lines[1].item = lines[2].item
    <3>1. DOMAIN lines = {1, 2} /\ lines[1] \in Line /\ lines[2] \in Line BY <2>2
    <3>2. lines[2].item = i BY <2>2, <3>1 DEF InvoicedItems
    <3>3. IsLast(2) BY <3>1, <3>2
    <3> QED BY <3>1, <3>3
  <2> QED BY <2>1, <2>2 DEF Lines
<1>2. LastLine(lines, i) \in DOMAIN lines BY <1>1 DEF LastLine
<1> QED BY <1>1, <1>2 DEF Line

\* register: the cost of the last line reaches the lots of the order and, by
\* the unit of purchase, the supplier's presentation.
LEMMA InvoiceKeeps ==
  ASSUME SupplyInv, NEW o \in Order \cup {NoOrder}, NEW lines \in Lines, NEW date \in 1..2,
         RegisterInvoice(o, lines, date)
  PROVE  SupplyInv' /\ PricesStep
<1>1. UNCHANGED <<item, unitActive, contacts, trading, updater, supplyChanges, mixed>> BY DEF RegisterInvoice
<1>2. PICK invoice : invoice = [order |-> o, lines |-> lines, date |-> date, status |-> "ACTIVE"] OBVIOUS
<1>3. invoices' = Append(invoices, invoice) BY <1>2 DEF RegisterInvoice
<1>4. invoice \in InvoiceRow /\ invoice.order = o /\ invoice.lines = lines BY <1>2 DEF InvoiceRow
<1>5. invoices \in Seq(InvoiceRow) BY DEF SupplyInv, SupplyTypes
<1>6. /\ invoices' \in Seq(InvoiceRow) /\ Len(invoices') = Len(invoices) + 1 /\ Len(invoices) \in Nat
      /\ invoices'[Len(invoices')] = invoice
  BY <1>3, <1>4, <1>5
<1> DEFINE Reaches(n) == /\ o # NoOrder /\ lots[n].order = o /\ lots[n].receipt = "ACTIVE"
                         /\ lots[n].item \in InvoicedItems(lines)
           Price(i) == lines[LastLine(lines, i)].cost
           Priced(n) == [lots[n] EXCEPT !.cost = Price(lots[n].item)]
           Sells(i) == presentation[i] # NotSold /\ i \in InvoicedItems(lines)
           Bought(i) == [presentation[i] EXCEPT !.last = Price(i) * presentation[i].factor, !.at = date]
<1>7. lots' = [n \in DOMAIN lots |-> IF Reaches(n) THEN Priced(n) ELSE lots[n]]
  BY DEF RegisterInvoice, LotsInvoiced
<1>8. presentation' = [i \in SupplyItem |-> IF Sells(i) THEN Bought(i) ELSE presentation[i]]
  BY DEF RegisterInvoice, LastPrices
<1>9. \A i \in InvoicedItems(lines) : Price(i) \in Cost /\ Price(i) \in Nat BY LastLineOfItem, SupplyAssumption
<1>10. \A n \in DOMAIN lots : Reaches(n) =>
         /\ Priced(n) \in LotRow /\ Priced(n).item = lots[n].item /\ Priced(n).unit = lots[n].unit
         /\ Priced(n).cost = Price(lots[n].item)
  <2> SUFFICES ASSUME NEW n \in DOMAIN lots, Reaches(n)
               PROVE  /\ Priced(n) \in LotRow /\ Priced(n).item = lots[n].item /\ Priced(n).unit = lots[n].unit
                      /\ Priced(n).cost = Price(lots[n].item)
    OBVIOUS
  <2>1. lots[n] \in LotRow BY ALot DEF SupplyInv
  <2>2. PICK price : price = Price(lots[n].item) OBVIOUS
  <2>3. price \in Cost BY <1>9, <2>2
  <2>4. Priced(n) = [lots[n] EXCEPT !.cost = price] BY <2>2
  <2> HIDE DEF Priced, Price
  <2> QED BY <2>1, <2>2, <2>3, <2>4 DEF LotRow
<1>11. \A i \in SupplyItem : Sells(i) =>
         Bought(i) \in Presentation /\ Bought(i).last = Price(i) * Bought(i).factor
  <2> SUFFICES ASSUME NEW i \in SupplyItem, Sells(i)
               PROVE  Bought(i) \in Presentation /\ Bought(i).last = Price(i) * Bought(i).factor
    OBVIOUS
  <2>1. presentation[i] \in Presentation BY DEF SupplyInv, SupplyTypes
  <2>2. PICK amount : amount = Price(i) * presentation[i].factor OBVIOUS
  <2>3. Price(i) \in Nat BY <1>9
  <2>4. presentation[i].factor \in Nat BY <2>1 DEF Presentation
  <2>5. amount \in Nat
    <3> HIDE DEF Price
    <3> QED BY <2>2, <2>3, <2>4
  <2>6. Bought(i) = [presentation[i] EXCEPT !.last = amount, !.at = date] BY <2>2
  <2>7. Bought(i) \in Presentation /\ Bought(i).last = amount /\ Bought(i).factor = presentation[i].factor
    <3>1. date \in Nat OBVIOUS
    <3> HIDE DEF Bought
    <3> QED BY <2>1, <2>5, <2>6, <3>1 DEF Presentation
  <2> QED BY <2>2, <2>7
<1> HIDE DEF Reaches, Price, Priced, Sells, Bought
<1>12. SameLots
  <2>1. \A n \in DOMAIN lots : lots'[n] \in LotRow /\ lots'[n].item = lots[n].item /\ lots'[n].unit = lots[n].unit
    BY <1>7, <1>10, ALot DEF SupplyInv
  <2>2. DOMAIN lots' = DOMAIN lots BY <1>7
  <2>3. lots \in Seq(LotRow) BY DEF SupplyInv, SupplyTypes
  <2>4. DOMAIN lots = 1..Len(lots) /\ Len(lots) \in Nat BY <2>3
  <2>5. lots' = [n \in 1..Len(lots) |-> lots'[n]] BY <1>7, <2>4
  <2>6. \A n \in 1..Len(lots) : lots'[n] \in LotRow BY <2>1, <2>4
  <2>7. lots' \in Seq(LotRow) BY <2>4, <2>5, <2>6
  <2> QED BY <2>1, <2>2, <2>7 DEF SameLots
<1>13. presentation' \in [SupplyItem -> Presentation]
  <2>1. \A i \in SupplyItem : presentation[i] \in Presentation BY DEF SupplyInv, SupplyTypes
  <2> QED BY <1>8, <1>11, <2>1
<1>14. SupplyTypes' BY <1>1, <1>6, <1>12, <1>13 DEF SupplyInv, SupplyTypes, SameLots
<1>15. SuppliedItemsExist' /\ ChangesOfUnitAreIdle' /\ LotsAreInTheirUnit' BY <1>1, <1>12, SameLotsKeep
<1>16. OnePrincipal' BY <1>1 DEF SupplyInv, OnePrincipal
<1>17. CostsStay BY <1>6 DEF CostsStay
<1>18. DatesStay BY <1>6 DEF DatesStay
<1>19. InvoiceLeavesOnePrice
  <2> SUFFICES ASSUME NEW n \in DOMAIN lots, NEW i, i = lots[n].item,
                      o = lots[n].order, lots[n].order # NoOrder, i \in InvoicedItems(lines),
                      lots[n].receipt = "ACTIVE", presentation[i] # NotSold
               PROVE  presentation'[i].last = lots'[n].cost * presentation'[i].factor
    BY <1>4, <1>6 DEF InvoiceLeavesOnePrice
  <2>1. i \in SupplyItem BY ALot DEF SupplyInv
  <2>2. Reaches(n) /\ Sells(i) BY DEF Reaches, Sells
  <2>3. lots'[n].cost = Price(i) BY <1>7, <1>10, <2>2
  <2>4. presentation'[i] = Bought(i) BY <1>8, <2>1, <2>2
  <2> QED BY <1>11, <2>1, <2>2, <2>3, <2>4
<1>20. PricesStep BY <1>17, <1>18, <1>19 DEF PricesStep
<1> QED BY <1>14, <1>15, <1>16, <1>20 DEF SupplyInv

\* The invariant is inductive, and every step agrees on prices.
LEMMA SupplyKeeps ==
  ASSUME SupplyInv, [SupplyNext]_supplyVars
  PROVE  SupplyInv' /\ [PricesStep]_supplyVars
<1>1. ASSUME NEW e \in Updater, WriteItem(e) PROVE SupplyInv' /\ PricesStep BY <1>1, WriteItemKeeps
<1>2. ASSUME NEW e \in Updater, NEW i \in SupplyItem, NEW change \in ItemChange, ReadItem(e, i, change)
      PROVE  SupplyInv' /\ PricesStep
  BY <1>2, ReadItemKeeps
<1>3. ASSUME NEW i \in SupplyItem, NEW unit \in KitchenUnit, NEW min \in StockLimit, NEW max \in StockLimit,
             CreateItem(i, unit, min, max)
      PROVE  SupplyInv' /\ PricesStep
  BY <1>3, CreateItemKeeps
<1>4. CASE \/ \E unit \in KitchenUnit, active \in BOOLEAN : UpdateKitchenUnit(unit, active)
           \/ \E list \in {<<FALSE, FALSE>>, <<FALSE, TRUE>>}, active \in BOOLEAN : UpdateSupplier(list, active)
  BY <1>4, SupplierKeeps
<1>5. ASSUME NEW sold \in Sold, UpdateSupplierItems(sold) PROVE SupplyInv' /\ PricesStep BY <1>5, SupplierItemsKeep
<1>6. ASSUME NEW i \in SupplyItem, NEW o \in Order \cup {NoOrder}, NEW cost \in Cost, ReceiveLot(i, o, cost)
      PROVE  SupplyInv' /\ PricesStep
  BY <1>6, ReceiveKeeps
<1>7. CASE (\E n \in DOMAIN lots : ReverseReceipt(n)) \/ (\E n \in DOMAIN invoices : CancelInvoice(n))
  BY <1>7, ReversalsKeep
<1>8. ASSUME NEW o \in Order \cup {NoOrder}, NEW lines \in Lines, NEW date \in 1..2, RegisterInvoice(o, lines, date)
      PROVE  SupplyInv' /\ PricesStep
  BY <1>8, InvoiceKeeps
<1>9. CASE UNCHANGED supplyVars
  <2>1. SupplyTypes' /\ OnePrincipal' BY <1>9 DEF SupplyInv, SupplyTypes, OnePrincipal, supplyVars
  <2>2. SuppliedItemsExist' /\ ChangesOfUnitAreIdle' /\ LotsAreInTheirUnit'
    BY <1>9, ItemsAndLotsStay DEF supplyVars
  <2> QED BY <1>9, <2>1, <2>2 DEF SupplyInv
<1> QED BY <1>1, <1>2, <1>3, <1>4, <1>5, <1>6, <1>7, <1>8, <1>9 DEF SupplyNext

\* What the catalogue, the supplier and the invoices hold together is
\* meaningful (updateItem, createItem, withPrimary), and a registered invoice
\* leaves one price everywhere (register, replaceItems).
THEOREM SupplyStaysSound == SupplySpec => SupplyIsSound
<1>1. SupplyInv => CatalogStaysMeaningful
  BY DEF SupplyInv, SupplyTypes, LotsAreInTheirUnit, OnePrincipal, CatalogStaysMeaningful
<1>2. SupplySpec => []SupplyInv BY SupplyInvInit, SupplyKeeps, PTL DEF SupplySpec
<1>3. SupplySpec => [][PricesStep]_supplyVars BY SupplyInvInit, SupplyKeeps, PTL DEF SupplySpec
<1>4. SupplySpec => []CatalogStaysMeaningful BY <1>1, <1>2, PTL
<1>5. SupplySpec => PricesAgree
  BY <1>3 DEF PricesAgree, PricesStep, CostsStay, InvoiceLeavesOnePrice, DatesStay
<1> QED BY <1>4, <1>5 DEF SupplyIsSound

-----------------------------------------------------------------------------
(* Zones, room types and kits.  A request that was checked waits until it  *)
(* is written.  What it was checked against can only change by a request   *)
(* that overlapped with it, and then the history of overlaps says so.      *)

ZoneRow == [kind : {"none", "BUILDING", "FLOOR", "AREA"}, parent : Zone \cup {NoOne},
            active : BOOLEAN, inspection : BOOLEAN]
TypeRow == [kit : Kit \cup {NoOne}, active : BOOLEAN, inspection : BOOLEAN]
UnitRow == [whole : BOOLEAN, active : BOOLEAN]
ProductRow == [unit : MeasureUnit, kind : {"CONSUMABLE", "LINEN", "EQUIPMENT"}, active : BOOLEAN]
KitRow == [active : BOOLEAN, lines : [Product -> Nat]]

\* The tables and the requests have their shape.
SetupTypes ==
  /\ DOMAIN row = Table
  /\ row.zone \in [Zone -> ZoneRow]
  /\ row.type \in [RoomType -> TypeRow]
  /\ row.unit \in [MeasureUnit -> UnitRow]
  /\ row.product \in [Product -> ProductRow]
  /\ row.kit \in [Kit -> KitRow]
  /\ focus \subseteq Table
  /\ editor = [e \in Editor |-> editor[e]]
  /\ \A e \in Busy : /\ editor[e].table \in Table
                     /\ editor[e].id \in Id(editor[e].table)
                     /\ editor[e].data \in Data(editor[e].table)

\* Two requests in flight together have overlapped.
OverlapsAreKnown ==
  \A a, b \in Busy : a # b => {editor[a].table, editor[b].table} \in crossed

Waits(table) == {e \in Busy : editor[e].table = table}
Afterwards(e) == Changed(row[editor[e].table][editor[e].id], editor[e].data)

\* No set of zones is closed under going up.
NoCircle == \A set \in SUBSET Zone : set # {} => \E z \in set : row.zone[z].parent \notin set

\* Only floors have a parent, and the zone a request asks for fits.
ZonesInv ==
  {"zone"} \notin crossed =>
    /\ NoCircle
    /\ \A z \in Zone : row.zone[z].kind # "FLOOR" => row.zone[z].parent = NoOne
    /\ \A e \in Waits("zone") :
         Asks(editor[e].data, "kind") \/ Asks(editor[e].data, "parent") =>
           IF Afterwards(e).kind = "FLOOR"
           THEN /\ Afterwards(e).parent \in Zone \ {editor[e].id}
                /\ row.zone[Afterwards(e).parent].kind = "BUILDING"
           ELSE Afterwards(e).parent = NoOne

\* An active type has an active kit, and will after what waits.
HasKit(type) == type.active => type.kit # NoOne /\ row.kit[type.kit].active
TypesInv ==
  crossed \cap {{"type"}, {"type", "kit"}} = {} =>
    /\ \A t \in RoomType : HasKit(row.type[t])
    /\ \A e \in Waits("type") : HasKit(Afterwards(e))
    /\ \A e \in Waits("kit") : Deactivates(editor[e].data) =>
         \A t \in RoomType : row.type[t].kit = editor[e].id => ~row.type[t].active

\* A kit has no equipment and no part of a whole unit.
LinesFit(lines) ==
  \A p \in Product : lines[p] > 0 => row.product[p].kind # "EQUIPMENT" /\ Fits(lines[p], row.product[p].unit)
\* What waits with a unit, a product or a kit will leave every kit usable.
UnitWaits(b) ==
  Asks(editor[b].data, "whole") /\ editor[b].data.whole =>
    \A p \in Product : row.product[p].unit = editor[b].id => \A k \in Kit : row.kit[k].lines[p] % 2 = 0
ProductWaits(b) ==
  /\ Asks(editor[b].data, "kind") /\ editor[b].data.kind = "EQUIPMENT" => LinesOf(editor[b].id) = {}
  /\ Asks(editor[b].data, "unit") =>
       \A k \in LinesOf(editor[b].id) : Fits(row.kit[k].lines[editor[b].id], editor[b].data.unit)
KitWaits(b) == Asks(editor[b].data, "lines") => LinesFit(editor[b].data.lines)

\* The overlaps that may leave a kit with what does not fit.
KitsCrossed == crossed \cap {{"product"}, {"kit", "product"}, {"kit", "unit"}, {"product", "unit"}} # {}

KitsInv ==
  ~KitsCrossed =>
    /\ \A k \in Kit : LinesFit(row.kit[k].lines)
    /\ \A b \in Waits("unit") : UnitWaits(b)
    /\ \A b \in Waits("product") : ProductWaits(b)
    /\ \A b \in Waits("kit") : KitWaits(b)

SetupInv == SetupTypes /\ OverlapsAreKnown /\ ZonesInv /\ TypesInv /\ KitsInv
\* The row of a zone, after a request on it.
LEMMA ZoneAfter ==
  ASSUME NEW old \in ZoneRow, NEW data \in Data("zone")
  PROVE  /\ Changed(old, data) \in ZoneRow
         /\ Changed(old, data).kind = IF Asks(data, "kind") THEN data.kind ELSE old.kind
         /\ Changed(old, data).parent = IF Asks(data, "parent") THEN data.parent ELSE old.parent
         /\ Asks(data, "parent") => Asks(data, "kind")
<1> DEFINE new == Changed(old, data)
<1>1. /\ Asks(data, "kind") => data.kind \in {"BUILDING", "FLOOR", "AREA"}
      /\ Asks(data, "parent") => data.parent \in Zone \cup {NoOne}
      /\ Asks(data, "active") => data.active \in BOOLEAN
      /\ Asks(data, "inspection") => data.inspection \in BOOLEAN
      /\ DOMAIN data \subseteq {"kind", "parent", "active", "inspection"}
      /\ Asks(data, "parent") => Asks(data, "kind")
  BY DEF Data, Asks
<1>2. DOMAIN old = {"kind", "parent", "active", "inspection"} BY DEF ZoneRow
<1>4. new = [c \in {"kind", "parent", "active", "inspection"} |-> IF Asks(data, c) THEN data[c] ELSE old[c]]
  BY <1>2 DEF Changed
<1>5. \A c \in {"kind", "parent", "active", "inspection"} : new[c] = IF Asks(data, c) THEN data[c] ELSE old[c]
  BY <1>4
<1> HIDE DEF new
<1>6. new = [kind |-> new.kind, parent |-> new.parent, active |-> new.active, inspection |-> new.inspection] BY <1>4
<1>7. /\ new.kind \in {"none", "BUILDING", "FLOOR", "AREA"} /\ new.parent \in Zone \cup {NoOne}
      /\ new.active \in BOOLEAN /\ new.inspection \in BOOLEAN
  BY <1>1, <1>5 DEF ZoneRow
<1>8. new \in ZoneRow BY <1>6, <1>7 DEF ZoneRow
<1> QED BY <1>1, <1>5, <1>8 DEF new
\* What the write of a request does.
LEMMA WriteEffect ==
  ASSUME SetupTypes, NEW e \in Editor, Write(e)
  PROVE  /\ e \in Busy /\ Busy' = Busy \ {e}
         /\ \A b \in Busy \ {e} : editor'[b] = editor[b]
         /\ editor' = [b \in Editor |-> editor'[b]]
         /\ DOMAIN row' = Table
         /\ \A x \in Table : x # editor[e].table => row'[x] = row[x]
         /\ editor[e].table # "warehouse" =>
              row'[editor[e].table] = [row[editor[e].table] EXCEPT ![editor[e].id] = Afterwards(e)]
         /\ \A x \in Table : DOMAIN row'[x] = DOMAIN row[x]
         /\ UNCHANGED <<focus, supervises, crossed>>
<1>1. e \in Busy BY DEF Write, Busy
<1>2. editor' = [editor EXCEPT ![e] = NoRequest] BY DEF Write
<1>3. editor' = [b \in Editor |-> IF b = e THEN NoRequest ELSE editor[b]] BY <1>2 DEF SetupTypes
<1>4. Busy' = Busy \ {e} BY <1>3 DEF Busy
<1>5. editor' = [b \in Editor |-> editor'[b]] BY <1>3
<1>6. DOMAIN row = Table /\ editor[e].table \in Table BY <1>1 DEF SetupTypes
<1>7. CASE row' = row /\ editor[e].table = "warehouse"
  BY <1>1, <1>3, <1>4, <1>5, <1>6, <1>7 DEF Write, Busy
<1>8. CASE row' = [row EXCEPT ![editor[e].table] = [row[editor[e].table] EXCEPT ![editor[e].id] = Afterwards(e)]]
  <2> HIDE DEF Afterwards
  <2>1. DOMAIN row' = Table BY <1>6, <1>8
  <2>2. \A x \in Table : x # editor[e].table => row'[x] = row[x] BY <1>6, <1>8
  <2>3. row'[editor[e].table] = [row[editor[e].table] EXCEPT ![editor[e].id] = Afterwards(e)] BY <1>6, <1>8
  <2>4. DOMAIN row'[editor[e].table] = DOMAIN row[editor[e].table] BY <2>3
  <2> QED BY <1>1, <1>3, <1>4, <1>5, <2>1, <2>2, <2>3, <2>4 DEF Write, Busy
<1> QED BY <1>7, <1>8 DEF Write, Afterwards

\* What a request that was checked does.
LEMMA RequestEffect ==
  ASSUME SetupTypes, OverlapsAreKnown,
         NEW e \in Editor, NEW caller, NEW table \in focus, NEW id \in Id(table), NEW data \in Data(table),
         EditRequest(e, caller, table, id, data)
  PROVE  /\ e \notin Busy /\ Busy' = Busy \cup {e}
         /\ \A b \in Busy : editor'[b] = editor[b]
         /\ editor'[e] = [table |-> table, id |-> id, data |-> data]
         /\ UNCHANGED <<focus, row, supervises>>
         /\ crossed \subseteq crossed'
         /\ \A b \in Busy : {table, editor[b].table} \in crossed'
         /\ Checked(table, id, data)
         /\ SetupTypes' /\ OverlapsAreKnown'
<1> DEFINE request == [table |-> table, id |-> id, data |-> data]
<1>1. editor[e] = NoRequest /\ UNCHANGED <<focus, row, supervises>> /\ Checked(table, id, data) BY DEF EditRequest
<1>2. editor' = [editor EXCEPT ![e] = request] BY DEF EditRequest
<1>3. crossed' = crossed \cup {{table, editor[b].table} : b \in Busy} BY DEF EditRequest
<1>4. editor' = [b \in Editor |-> IF b = e THEN request ELSE editor[b]] BY <1>2 DEF SetupTypes
<1>5. table \in Table BY DEF SetupTypes
<1>6. request # NoRequest
  <2>1. request.table = table /\ NoRequest.table = "none" BY DEF NoRequest
  <2>2. table # "none" BY <1>5 DEF Table
  <2> QED BY <2>1, <2>2
<1>7. request.table = table /\ request.id = id /\ request.data = data OBVIOUS
<1> HIDE DEF request
<1>8. e \notin Busy /\ Busy' = Busy \cup {e} BY <1>1, <1>4, <1>6 DEF Busy
<1>9. \A b \in Busy : editor'[b] = editor[b] BY <1>4, <1>8 DEF Busy
<1>10. editor'[e] = request BY <1>4
<1>11. SetupTypes'
  <2>1. editor' = [b \in Editor |-> editor'[b]] BY <1>4
  <2>2. \A b \in Busy' : /\ editor'[b].table \in Table
                         /\ editor'[b].id \in DOMAIN row[editor'[b].table]
                         /\ editor'[b].data \in Data(editor'[b].table)
    <3>1. \A b \in Busy : /\ editor[b].table \in Table
                          /\ editor[b].id \in DOMAIN row[editor[b].table]
                          /\ editor[b].data \in Data(editor[b].table)
      BY DEF SetupTypes, Id
    <3>2. id \in DOMAIN row[table] BY DEF Id
    <3> QED BY <1>5, <1>7, <1>8, <1>9, <1>10, <3>1, <3>2
  <2> QED BY <1>1, <2>1, <2>2 DEF SetupTypes, Id
<1>12. OverlapsAreKnown'
  <2> SUFFICES ASSUME NEW a \in Busy', NEW b \in Busy', a # b
               PROVE  {editor'[a].table, editor'[b].table} \in crossed'
    BY DEF OverlapsAreKnown
  <2>1. CASE a \in Busy /\ b \in Busy BY <1>3, <1>9, <2>1 DEF OverlapsAreKnown
  <2>2. CASE a = e
    <3>1. b \in Busy BY <1>8, <2>2
    <3> QED BY <1>3, <1>7, <1>9, <1>10, <2>2, <3>1
  <2>3. CASE b = e
    <3>1. a \in Busy BY <1>8, <2>3
    <3>2. {editor'[a].table, editor'[b].table} = {table, editor[a].table} BY <1>7, <1>9, <1>10, <2>3, <3>1
    <3> QED BY <1>3, <3>1, <3>2
  <2> QED BY <1>8, <2>1, <2>2, <2>3
<1> QED BY <1>1, <1>3, <1>8, <1>9, <1>10, <1>11, <1>12 DEF request

-----------------------------------------------------------------------------
(* Zones.                                                                  *)

\* A request on a zone changes the zone as it asks; what its parent is, and
\* what the parent was, decide that no circle closes.
LEMMA ZoneWrites ==
  ASSUME SetupInv, NEW e \in Editor, Write(e), {"zone"} \notin crossed, editor[e].table = "zone"
  PROVE  /\ row'.zone \in [Zone -> ZoneRow]
         /\ \A z \in Zone : row'.zone[z].kind # "FLOOR" => row'.zone[z].parent = NoOne
         /\ NoCircle'
         /\ Waits("zone")' = {}
<1> DEFINE id == editor[e].id
           new == Afterwards(e)
<1>1. /\ e \in Busy /\ Busy' = Busy \ {e} /\ \A b \in Busy \ {e} : editor'[b] = editor[b]
  BY WriteEffect DEF SetupInv
<1>2. row'["zone"] = [row["zone"] EXCEPT ![id] = new]
  <2> HIDE DEF new
  <2> QED BY WriteEffect DEF SetupInv, new
<1>3. id \in Zone /\ editor[e].data \in Data("zone")
  BY <1>1 DEF SetupInv, SetupTypes, Id
<1>4. row.zone \in [Zone -> ZoneRow] BY DEF SetupInv, SetupTypes
<1>5. /\ new \in ZoneRow
      /\ new.kind = IF Asks(editor[e].data, "kind") THEN editor[e].data.kind ELSE row.zone[id].kind
      /\ new.parent = IF Asks(editor[e].data, "parent") THEN editor[e].data.parent ELSE row.zone[id].parent
      /\ Asks(editor[e].data, "parent") => Asks(editor[e].data, "kind")
  <2>1. new = Changed(row.zone[id], editor[e].data) BY DEF Afterwards
  <2>2. row.zone[id] \in ZoneRow BY <1>3, <1>4
  <2> HIDE DEF new
  <2> QED BY <1>3, <2>1, <2>2, ZoneAfter
<1>6. e \in Waits("zone") BY <1>1 DEF Waits
<1>7. /\ NoCircle
      /\ \A z \in Zone : row.zone[z].kind # "FLOOR" => row.zone[z].parent = NoOne
      /\ Asks(editor[e].data, "kind") =>
           IF new.kind = "FLOOR" THEN new.parent \in Zone \ {id} /\ row.zone[new.parent].kind = "BUILDING"
           ELSE new.parent = NoOne
  BY <1>6 DEF SetupInv, ZonesInv
<1> HIDE DEF new, id
<1>8. row'.zone \in [Zone -> ZoneRow] BY <1>2, <1>3, <1>4, <1>5
<1>9. \A z \in Zone : row'.zone[z] = IF z = id THEN new ELSE row.zone[z] BY <1>2, <1>3, <1>4
<1>10. \A z \in Zone : row'.zone[z].kind # "FLOOR" => row'.zone[z].parent = NoOne
  BY <1>3, <1>5, <1>7, <1>9
<1>11. NoCircle'
  <2> SUFFICES ASSUME NEW set \in SUBSET Zone, set # {}
               PROVE  \E z \in set : row'.zone[z].parent \notin set
    BY DEF NoCircle
  <2>1. PICK z \in set : row.zone[z].parent \notin set BY <1>7 DEF NoCircle
  <2>2. CASE z # id BY <1>9, <2>1, <2>2
  <2>3. CASE z = id /\ new.parent \notin set BY <1>9, <2>3
  <2>4. CASE z = id /\ new.parent \in set
    <3>1. new.parent \in Zone /\ new.parent # NoOne BY <2>4, SetupAssumption
    <3>2. new.parent # row.zone[id].parent BY <2>1, <2>4
    <3>3. new.parent # id /\ row.zone[new.parent].kind = "BUILDING" BY <1>5, <1>7, <3>1, <3>2
    <3>4. row.zone[new.parent].parent = NoOne BY <1>7, <3>1, <3>3
    <3>5. row'.zone[new.parent].parent = NoOne BY <1>9, <3>1, <3>3, <3>4
    <3>6. NoOne \notin set BY SetupAssumption
    <3> QED BY <2>4, <3>5, <3>6
  <2> QED BY <2>2, <2>3, <2>4
<1>12. Waits("zone")' = {}
  <2> SUFFICES ASSUME NEW b \in Busy \ {e}, editor[b].table = "zone" PROVE FALSE
    BY <1>1 DEF Waits
  <2>1. {editor[b].table, editor[e].table} \in crossed BY <1>1 DEF SetupInv, OverlapsAreKnown
  <2> QED BY <2>1
<1> QED BY <1>8, <1>10, <1>11, <1>12
\* A step that leaves the zones alone, and brings no request on them that was
\* not checked, keeps the tree.
LEMMA ZonesStay ==
  ASSUME SetupInv, row'.zone = row.zone, crossed \subseteq crossed',
         \A b \in Waits("zone")' : b \in Waits("zone") /\ editor'[b] = editor[b]
  PROVE  ZonesInv'
<1>1. \A b \in Waits("zone") : editor[b].table = "zone" BY DEF Waits
<1>2. \A b \in Waits("zone")' : Afterwards(b)' = Afterwards(b) BY <1>1 DEF Afterwards
<1>3. NoCircle => NoCircle' BY DEF NoCircle
<1> QED BY <1>2, <1>3 DEF SetupInv, ZonesInv
\* A write keeps the tree.
LEMMA WriteKeepsZones == ASSUME SetupInv, NEW e \in Editor, Write(e) PROVE ZonesInv'
<1>1. /\ e \in Busy /\ Busy' = Busy \ {e} /\ \A b \in Busy \ {e} : editor'[b] = editor[b]
      /\ crossed' = crossed
      /\ \A x \in Table : x # editor[e].table => row'[x] = row[x]
  BY WriteEffect DEF SetupInv
<1>2. CASE editor[e].table = "zone"
  <2> SUFFICES ASSUME {"zone"} \notin crossed PROVE ZonesInv' BY <1>1 DEF ZonesInv
  <2> QED BY <1>2, ZoneWrites DEF ZonesInv
<1>3. CASE editor[e].table # "zone"
  <2>1. row'["zone"] = row["zone"] BY <1>1, <1>3 DEF Table
  <2>2. \A b \in Waits("zone")' : b \in Waits("zone") /\ editor'[b] = editor[b] BY <1>1 DEF Waits
  <2> QED BY <1>1, <2>1, <2>2, ZonesStay
<1> QED BY <1>2, <1>3

\* So does a request: nobody waits with a zone, or the overlap is known.
LEMMA RequestKeepsZones ==
  ASSUME SetupInv,
         NEW e \in Editor, NEW caller, NEW table \in focus, NEW id \in Id(table), NEW data \in Data(table),
         EditRequest(e, caller, table, id, data)
  PROVE  ZonesInv'
<1>1. /\ e \notin Busy /\ Busy' = Busy \cup {e}
      /\ \A b \in Busy : editor'[b] = editor[b]
      /\ editor'[e] = [table |-> table, id |-> id, data |-> data]
      /\ row' = row
      /\ crossed \subseteq crossed'
      /\ \A b \in Busy : {table, editor[b].table} \in crossed'
      /\ Checked(table, id, data)
  BY RequestEffect DEF SetupInv
<1>2. editor'[e].table = table /\ editor'[e].id = id /\ editor'[e].data = data BY <1>1
<1>3. CASE table # "zone"
  <2>1. \A b \in Waits("zone")' : b \in Waits("zone") /\ editor'[b] = editor[b] BY <1>1, <1>2, <1>3 DEF Waits
  <2> QED BY <1>1, <2>1, ZonesStay
<1>4. CASE table = "zone" /\ {"zone"} \notin crossed'
  <2>1. {"zone"} \notin crossed BY <1>1, <1>4
  <2>2. NoCircle' /\ \A z \in Zone : row'.zone[z].kind # "FLOOR" => row'.zone[z].parent = NoOne
    BY <1>1, <2>1 DEF SetupInv, ZonesInv, NoCircle
  <2>3. \A b \in Waits("zone")' : b = e
    <3> SUFFICES ASSUME NEW b \in Busy, editor[b].table = "zone" PROVE FALSE
      BY <1>1, <1>2 DEF Waits
    <3>1. {table, editor[b].table} = {"zone"} BY <1>4
    <3> QED BY <1>1, <1>4, <3>1
  <2> DEFINE new == Changed(row.zone[id], data)
  <2>4. Afterwards(e)' = new BY <1>1, <1>2, <1>4 DEF Afterwards
  <2>5. id \in Zone /\ row.zone \in [Zone -> ZoneRow] BY <1>4 DEF SetupInv, SetupTypes, Id
  <2>6. new \in ZoneRow BY <1>4, <2>5, ZoneAfter
  <2>7. Asks(data, "kind") \/ Asks(data, "parent") => new.parent # id /\ ParentFits(new.kind, new.parent)
    BY <1>1, <1>4 DEF Checked, UpdateZone
  <2> HIDE DEF new
  <2>8. Asks(data, "kind") \/ Asks(data, "parent") =>
          IF new.kind = "FLOOR" THEN new.parent \in Zone \ {id} /\ row.zone[new.parent].kind = "BUILDING"
          ELSE new.parent = NoOne
    BY <2>6, <2>7 DEF ParentFits, ZoneRow
  <2> QED BY <1>1, <1>2, <2>2, <2>3, <2>4, <2>8 DEF ZonesInv
<1>5. CASE {"zone"} \in crossed' BY <1>5 DEF ZonesInv
<1> QED BY <1>3, <1>4, <1>5

-----------------------------------------------------------------------------
(* Room types and their kits.                                              *)

\* The row of a room type, after a request on it.
LEMMA TypeAfter ==
  ASSUME NEW old \in TypeRow, NEW data \in Data("type")
  PROVE  /\ Changed(old, data) \in TypeRow
         /\ Changed(old, data).active = IF Asks(data, "active") THEN data.active ELSE old.active
<1> DEFINE new == Changed(old, data)
<1>1. /\ Asks(data, "kit") => data.kit \in Kit \cup {NoOne}
      /\ Asks(data, "active") => data.active \in BOOLEAN
      /\ Asks(data, "inspection") => data.inspection \in BOOLEAN
  BY DEF Data, Asks
<1>2. DOMAIN old = {"kit", "active", "inspection"} BY DEF TypeRow
<1>3. new = [c \in {"kit", "active", "inspection"} |-> IF Asks(data, c) THEN data[c] ELSE old[c]]
  BY <1>2 DEF Changed
<1>4. \A c \in {"kit", "active", "inspection"} : new[c] = IF Asks(data, c) THEN data[c] ELSE old[c] BY <1>3
<1> HIDE DEF new
<1>5. new = [kit |-> new.kit, active |-> new.active, inspection |-> new.inspection] BY <1>3
<1>6. new.kit \in Kit \cup {NoOne} /\ new.active \in BOOLEAN /\ new.inspection \in BOOLEAN
  BY <1>1, <1>4 DEF TypeRow
<1>7. new \in TypeRow BY <1>5, <1>6 DEF TypeRow
<1> QED BY <1>4, <1>7 DEF new

\* The row of a kit, after a request on it.
LEMMA KitAfter ==
  ASSUME NEW old \in KitRow, NEW data \in Data("kit")
  PROVE  /\ Changed(old, data) \in KitRow
         /\ Changed(old, data).active = IF Asks(data, "active") THEN data.active ELSE old.active
         /\ Changed(old, data).lines = IF Asks(data, "lines") THEN data.lines ELSE old.lines
<1> DEFINE new == Changed(old, data)
<1>1. /\ Asks(data, "active") => data.active \in BOOLEAN
      /\ Asks(data, "lines") => data.lines \in [Product -> Nat]
  BY DEF Data, Asks
<1>2. DOMAIN old = {"active", "lines"} BY DEF KitRow
<1>3. new = [c \in {"active", "lines"} |-> IF Asks(data, c) THEN data[c] ELSE old[c]] BY <1>2 DEF Changed
<1>4. \A c \in {"active", "lines"} : new[c] = IF Asks(data, c) THEN data[c] ELSE old[c] BY <1>3
<1> HIDE DEF new
<1>5. new = [active |-> new.active, lines |-> new.lines] BY <1>3
<1>6. new.active \in BOOLEAN /\ new.lines \in [Product -> Nat] BY <1>1, <1>4 DEF KitRow
<1>7. new \in KitRow BY <1>5, <1>6 DEF KitRow
<1> QED BY <1>4, <1>7 DEF new
\* The row of a unit of measure, after a request on it.
LEMMA UnitAfter ==
  ASSUME NEW old \in UnitRow, NEW data \in Data("unit")
  PROVE  /\ Changed(old, data) \in UnitRow
         /\ Changed(old, data).whole = IF Asks(data, "whole") THEN data.whole ELSE old.whole
<1> DEFINE new == Changed(old, data)
<1>1. /\ Asks(data, "active") => data.active \in BOOLEAN
      /\ Asks(data, "whole") => data.whole \in BOOLEAN
  BY DEF Data, Asks
<1>2. DOMAIN old = {"whole", "active"} BY DEF UnitRow
<1>3. new = [c \in {"whole", "active"} |-> IF Asks(data, c) THEN data[c] ELSE old[c]] BY <1>2 DEF Changed
<1>4. \A c \in {"whole", "active"} : new[c] = IF Asks(data, c) THEN data[c] ELSE old[c] BY <1>3
<1> HIDE DEF new
<1>5. new = [whole |-> new.whole, active |-> new.active] BY <1>3
<1>6. new.whole \in BOOLEAN /\ new.active \in BOOLEAN BY <1>1, <1>4 DEF UnitRow
<1>7. new \in UnitRow BY <1>5, <1>6 DEF UnitRow
<1> QED BY <1>4, <1>7 DEF new

\* The row of a product, after a request on it.
LEMMA ProductAfter ==
  ASSUME NEW old \in ProductRow, NEW data \in Data("product")
  PROVE  /\ Changed(old, data) \in ProductRow
         /\ Changed(old, data).kind = IF Asks(data, "kind") THEN data.kind ELSE old.kind
         /\ Changed(old, data).unit = IF Asks(data, "unit") THEN data.unit ELSE old.unit
         /\ Asks(data, "unit") => data.unit \in MeasureUnit
<1> DEFINE new == Changed(old, data)
<1>1. /\ Asks(data, "unit") => data.unit \in MeasureUnit
      /\ Asks(data, "kind") => data.kind \in {"CONSUMABLE", "LINEN", "EQUIPMENT"}
      /\ Asks(data, "active") => data.active \in BOOLEAN
  BY DEF Data, Asks
<1>2. DOMAIN old = {"unit", "kind", "active"} BY DEF ProductRow
<1>3. new = [c \in {"unit", "kind", "active"} |-> IF Asks(data, c) THEN data[c] ELSE old[c]] BY <1>2 DEF Changed
<1>4. \A c \in {"unit", "kind", "active"} : new[c] = IF Asks(data, c) THEN data[c] ELSE old[c] BY <1>3
<1> HIDE DEF new
<1>5. new = [unit |-> new.unit, kind |-> new.kind, active |-> new.active] BY <1>3
<1>6. new.unit \in MeasureUnit /\ new.kind \in {"CONSUMABLE", "LINEN", "EQUIPMENT"} /\ new.active \in BOOLEAN
  BY <1>1, <1>4 DEF ProductRow
<1>7. new \in ProductRow BY <1>5, <1>6 DEF ProductRow
<1> QED BY <1>1, <1>4, <1>7 DEF new

\* A write keeps the shape of the tables.
LEMMA WriteKeepsTypes == ASSUME SetupInv, NEW e \in Editor, Write(e) PROVE SetupTypes' /\ OverlapsAreKnown'
<1> DEFINE table == editor[e].table
           id == editor[e].id
           new == Afterwards(e)
<1>1. /\ e \in Busy /\ Busy' = Busy \ {e} /\ \A b \in Busy \ {e} : editor'[b] = editor[b]
      /\ editor' = [b \in Editor |-> editor'[b]]
      /\ DOMAIN row' = Table
      /\ \A x \in Table : x # table => row'[x] = row[x]
      /\ \A x \in Table : DOMAIN row'[x] = DOMAIN row[x]
      /\ UNCHANGED <<focus, supervises, crossed>>
  <2> HIDE DEF new
  <2> QED BY WriteEffect DEF SetupInv
<1>2. table # "warehouse" => row'[table] = [row[table] EXCEPT ![id] = new]
  <2> HIDE DEF new
  <2> QED BY WriteEffect DEF SetupInv, new
<1>3. table \in Table /\ id \in DOMAIN row[table] /\ editor[e].data \in Data(table)
  BY <1>1 DEF SetupInv, SetupTypes, Id
<1>4. new = Changed(row[table][id], editor[e].data) BY DEF Afterwards
<1>5. /\ row.zone \in [Zone -> ZoneRow] /\ row.type \in [RoomType -> TypeRow] /\ row.unit \in [MeasureUnit -> UnitRow]
      /\ row.product \in [Product -> ProductRow] /\ row.kit \in [Kit -> KitRow]
  BY DEF SetupInv, SetupTypes
<1> HIDE DEF new, table, id
<1>6. row'.zone \in [Zone -> ZoneRow]
  <2>1. CASE table = "zone"
    <3>1. new \in ZoneRow BY <1>3, <1>4, <1>5, <2>1, ZoneAfter
    <3> QED BY <1>2, <1>3, <1>5, <2>1, <3>1
  <2> QED BY <1>1, <1>5, <2>1 DEF Table
<1>7. row'.type \in [RoomType -> TypeRow]
  <2>1. CASE table = "type"
    <3>1. new \in TypeRow BY <1>3, <1>4, <1>5, <2>1, TypeAfter
    <3> QED BY <1>2, <1>3, <1>5, <2>1, <3>1
  <2> QED BY <1>1, <1>5, <2>1 DEF Table
<1>8. row'.unit \in [MeasureUnit -> UnitRow]
  <2>1. CASE table = "unit"
    <3>1. new \in UnitRow BY <1>3, <1>4, <1>5, <2>1, UnitAfter
    <3> QED BY <1>2, <1>3, <1>5, <2>1, <3>1
  <2> QED BY <1>1, <1>5, <2>1 DEF Table
<1>9. row'.product \in [Product -> ProductRow]
  <2>1. CASE table = "product"
    <3>1. new \in ProductRow BY <1>3, <1>4, <1>5, <2>1, ProductAfter
    <3> QED BY <1>2, <1>3, <1>5, <2>1, <3>1
  <2> QED BY <1>1, <1>5, <2>1 DEF Table
<1>10. row'.kit \in [Kit -> KitRow]
  <2>1. CASE table = "kit"
    <3>1. new \in KitRow BY <1>3, <1>4, <1>5, <2>1, KitAfter
    <3> QED BY <1>2, <1>3, <1>5, <2>1, <3>1
  <2> QED BY <1>1, <1>5, <2>1 DEF Table
<1>11. \A b \in Busy' : /\ editor'[b].table \in Table
                        /\ editor'[b].id \in DOMAIN row'[editor'[b].table]
                        /\ editor'[b].data \in Data(editor'[b].table)
  BY <1>1 DEF SetupInv, SetupTypes, Id
<1>12. focus' \subseteq Table BY <1>1 DEF SetupInv, SetupTypes
<1>13. SetupTypes' BY <1>1, <1>6, <1>7, <1>8, <1>9, <1>10, <1>11, <1>12 DEF SetupTypes, Id
<1>14. OverlapsAreKnown' BY <1>1 DEF SetupInv, OverlapsAreKnown
<1> QED BY <1>13, <1>14

\* A step that leaves types and kits alone, and brings no request on them that
\* was not checked, keeps what relates them.
LEMMA TypesStay ==
  ASSUME SetupInv, row'.type = row.type, row'.kit = row.kit, crossed \subseteq crossed',
         \A b \in Waits("type")' : b \in Waits("type") /\ editor'[b] = editor[b],
         \A b \in Waits("kit")' : b \in Waits("kit") /\ editor'[b] = editor[b]
  PROVE  TypesInv'
<1>1. \A b \in Waits("type") : editor[b].table = "type" BY DEF Waits
<1>2. \A b \in Waits("type")' : Afterwards(b)' = Afterwards(b) BY <1>1 DEF Afterwards
<1> QED BY <1>2 DEF SetupInv, TypesInv, HasKit

\* A write keeps active types with active kits.
LEMMA WriteKeepsKits == ASSUME SetupInv, NEW e \in Editor, Write(e) PROVE TypesInv'
<1> DEFINE table == editor[e].table
           id == editor[e].id
           data == editor[e].data
           new == Afterwards(e)
<1>1. /\ e \in Busy /\ Busy' = Busy \ {e} /\ \A b \in Busy \ {e} : editor'[b] = editor[b]
      /\ crossed' = crossed
      /\ \A x \in Table : x # table => row'[x] = row[x]
  <2> HIDE DEF new
  <2> QED BY WriteEffect DEF SetupInv
<1>2. table # "warehouse" => row'[table] = [row[table] EXCEPT ![id] = new]
  <2> HIDE DEF new
  <2> QED BY WriteEffect DEF SetupInv, new
<1>3. table \in Table /\ id \in DOMAIN row[table] /\ data \in Data(table)
  BY <1>1 DEF SetupInv, SetupTypes, Id
<1>4. new = Changed(row[table][id], data) BY DEF Afterwards
<1>5. \A x \in {"type", "kit"} : \A b \in Waits(x)' : b \in Waits(x) /\ editor'[b] = editor[b] /\ b # e /\ editor[b].table = x
  BY <1>1 DEF Waits
<1>6. \A b \in Busy : b # e => {editor[b].table, table} \in crossed BY <1>1 DEF SetupInv, OverlapsAreKnown
<1> HIDE DEF new, table, id, data
<1>7. CASE table \notin {"type", "kit"}
  <2>1. row'["type"] = row["type"] /\ row'["kit"] = row["kit"] BY <1>1, <1>7 DEF Table
  <2> QED BY <1>1, <1>5, <2>1, TypesStay
<1>8. CASE crossed \cap {{"type"}, {"type", "kit"}} # {} BY <1>1, <1>8 DEF TypesInv
<1>9. CASE table = "type" /\ crossed \cap {{"type"}, {"type", "kit"}} = {}
  <2>1. \A x \in {"type", "kit"} : Waits(x)' = {}
    <3> SUFFICES ASSUME NEW x \in {"type", "kit"}, NEW b \in Waits(x)' PROVE FALSE OBVIOUS
    <3>1. b \in Busy /\ b # e /\ editor[b].table = x BY <1>5 DEF Waits
    <3>2. {x, "type"} \in crossed BY <1>6, <1>9, <3>1
    <3> QED BY <1>9, <3>2
  <2>2. e \in Waits("type") BY <1>1, <1>9 DEF Waits, table
  <2>3. HasKit(new) BY <1>9, <2>2 DEF SetupInv, TypesInv, new
  <2>4. row'["kit"] = row["kit"] BY <1>1, <1>9 DEF Table
  <2>5. row'["type"] = [row["type"] EXCEPT ![id] = new] BY <1>2, <1>9
  <2>6. row.type \in [RoomType -> TypeRow] BY DEF SetupInv, SetupTypes
  <2>7. \A t \in RoomType : row'.type[t] = new \/ row'.type[t] = row.type[t] BY <2>5, <2>6
  <2>8. \A t \in RoomType : HasKit(row.type[t]) BY <1>9 DEF SetupInv, TypesInv
  <2>9. \A t \in RoomType : HasKit(row.type[t])' BY <2>3, <2>4, <2>7, <2>8 DEF HasKit
  <2> QED BY <2>1, <2>9 DEF TypesInv
<1>10. CASE table = "kit" /\ crossed \cap {{"type"}, {"type", "kit"}} = {}
  <2>1. Waits("type")' = {}
    <3> SUFFICES ASSUME NEW b \in Waits("type")' PROVE FALSE OBVIOUS
    <3>1. b \in Busy /\ b # e /\ editor[b].table = "type" BY <1>5 DEF Waits
    <3>2. {"type", "kit"} \in crossed BY <1>6, <1>10, <3>1
    <3> QED BY <1>10, <3>2
  <2>2. e \in Waits("kit") BY <1>1, <1>10 DEF Waits, table
  <2>3. Deactivates(data) => \A t \in RoomType : row.type[t].kit = id => ~row.type[t].active
    BY <1>10, <2>2 DEF SetupInv, TypesInv, data, id
  <2>4. row'["type"] = row["type"] BY <1>1, <1>10 DEF Table
  <2>5. row'["kit"] = [row["kit"] EXCEPT ![id] = new] BY <1>2, <1>10
  <2>6. row.type \in [RoomType -> TypeRow] /\ row.kit \in [Kit -> KitRow] BY DEF SetupInv, SetupTypes
  <2>7. id \in Kit /\ row.kit[id] \in KitRow BY <1>3, <1>10, <2>6
  <2>8. new.active = IF Asks(data, "active") THEN data.active ELSE row.kit[id].active
    BY <1>3, <1>4, <1>10, <2>7, KitAfter
  <2>9. \A k \in Kit : row'.kit[k] = IF k = id THEN new ELSE row.kit[k] BY <2>5, <2>6
  <2>10. \A t \in RoomType : HasKit(row.type[t])'
    <3> SUFFICES ASSUME NEW t \in RoomType, row.type[t].active
                 PROVE  row.type[t].kit # NoOne /\ row'.kit[row.type[t].kit].active
      BY <2>4 DEF HasKit
    <3>1. row.type[t].kit # NoOne /\ row.kit[row.type[t].kit].active
      BY <1>10 DEF SetupInv, TypesInv, HasKit
    <3>2. row.type[t].kit \in Kit
      <4>1. row.type[t] \in TypeRow BY <2>6
      <4> QED BY <3>1, <4>1 DEF TypeRow
    <3>3. CASE row.type[t].kit = id
      <4>1. ~Deactivates(data) BY <2>3, <3>3
      <4>2. new.active BY <2>8, <3>1, <3>3, <4>1 DEF Deactivates
      <4> QED BY <2>9, <3>1, <3>2, <3>3, <4>2
    <3>4. CASE row.type[t].kit # id BY <2>9, <3>1, <3>2, <3>4
    <3> QED BY <3>3, <3>4
  <2>11. \A b \in Waits("kit")' : Deactivates(editor'[b].data) =>
           \A t \in RoomType : row'.type[t].kit = editor'[b].id => ~row'.type[t].active
    BY <1>5, <1>10, <2>4 DEF SetupInv, TypesInv
  <2> QED BY <2>1, <2>10, <2>11 DEF TypesInv
<1> QED BY <1>7, <1>8, <1>9, <1>10
\* So does a request: who checks a type sees its kit, who checks a kit sees
\* its types, and nobody waits with the other, or the overlap is known.
LEMMA RequestKeepsKits ==
  ASSUME SetupInv,
         NEW e \in Editor, NEW caller, NEW table \in focus, NEW id \in Id(table), NEW data \in Data(table),
         EditRequest(e, caller, table, id, data)
  PROVE  TypesInv'
<1>1. /\ e \notin Busy /\ Busy' = Busy \cup {e}
      /\ \A b \in Busy : editor'[b] = editor[b]
      /\ editor'[e] = [table |-> table, id |-> id, data |-> data]
      /\ row' = row
      /\ crossed \subseteq crossed'
      /\ \A b \in Busy : {table, editor[b].table} \in crossed'
      /\ Checked(table, id, data)
  BY RequestEffect DEF SetupInv
<1>2. editor'[e].table = table /\ editor'[e].id = id /\ editor'[e].data = data BY <1>1
<1>3. \A x \in {"type", "kit"} : \A b \in Waits(x)' :
        \/ b \in Waits(x) /\ editor'[b] = editor[b] /\ {table, x} \in crossed'
        \/ b = e /\ table = x
  BY <1>1, <1>2 DEF Waits
<1>4. CASE table \notin {"type", "kit"} BY <1>1, <1>3, <1>4, TypesStay
<1>5. CASE crossed' \cap {{"type"}, {"type", "kit"}} # {} BY <1>5 DEF TypesInv
<1>6. CASE table = "type" /\ crossed' \cap {{"type"}, {"type", "kit"}} = {}
  <2>1. crossed \cap {{"type"}, {"type", "kit"}} = {} BY <1>1, <1>6
  <2>2. Waits("kit")' = {} /\ \A b \in Waits("type")' : b = e BY <1>3, <1>6
  <2>3. Afterwards(e)' = Changed(row.type[id], data) BY <1>1, <1>2, <1>6 DEF Afterwards
  <2>4. HasKit(Changed(row.type[id], data))
    <3>1. CASE UpdateRoomType(id, data) BY <3>1 DEF UpdateRoomType, HasKit
    <3>2. CASE RemoveRoomType(id, data)
      <4>1. row.type[id] \in TypeRow BY <1>6 DEF SetupInv, SetupTypes, Id
      <4>2. Changed(row.type[id], data).active = FALSE BY <1>6, <3>2, <4>1, TypeAfter DEF RemoveRoomType, Asks
      <4> QED BY <4>2 DEF HasKit
    <3> QED BY <1>1, <1>6, <3>1, <3>2 DEF Checked
  <2>5. \A t \in RoomType : HasKit(row.type[t]) BY <2>1 DEF SetupInv, TypesInv
  <2> QED BY <1>1, <2>2, <2>3, <2>4, <2>5 DEF TypesInv, HasKit
<1>7. CASE table = "kit" /\ crossed' \cap {{"type"}, {"type", "kit"}} = {}
  <2>1. crossed \cap {{"type"}, {"type", "kit"}} = {} BY <1>1, <1>7
  <2>2. Waits("type")' = {}
    <3> SUFFICES ASSUME NEW b \in Waits("type")' PROVE FALSE OBVIOUS
    <3>1. {"kit", "type"} \in crossed' BY <1>3, <1>7
    <3> QED BY <1>7, <3>1
  <2>3. \A t \in RoomType : HasKit(row.type[t]) BY <2>1 DEF SetupInv, TypesInv
  <2>4. Deactivates(data) => \A t \in RoomType : row.type[t].kit = id => ~row.type[t].active
    <3>1. CASE UpdateKit(id, data) BY <3>1 DEF UpdateKit
    <3>2. CASE SetKitLines(id, data) BY <3>2 DEF SetKitLines, Deactivates, Asks
    <3> QED BY <1>1, <1>7, <3>1, <3>2 DEF Checked
  <2>5. \A b \in Waits("kit")' : Deactivates(editor'[b].data) =>
          \A t \in RoomType : row'.type[t].kit = editor'[b].id => ~row'.type[t].active
    <3> SUFFICES ASSUME NEW b \in Waits("kit")', Deactivates(editor'[b].data)
                 PROVE  \A t \in RoomType : row.type[t].kit = editor'[b].id => ~row.type[t].active
      BY <1>1
    <3>1. CASE b \in Waits("kit") /\ editor'[b] = editor[b] BY <2>1, <3>1 DEF SetupInv, TypesInv
    <3>2. CASE b = e BY <1>2, <2>4, <3>2
    <3> QED BY <1>3, <3>1, <3>2
  <2> QED BY <1>1, <2>2, <2>3, <2>5 DEF TypesInv, HasKit
<1> QED BY <1>4, <1>5, <1>6, <1>7

-----------------------------------------------------------------------------
(* What a kit has in it.                                                   *)

\* A step that leaves units, products and kits alone, and brings no request on
\* them that was not checked, keeps kits usable.
LEMMA LinesStay ==
  ASSUME SetupInv, row'.unit = row.unit, row'.product = row.product, row'.kit = row.kit, crossed \subseteq crossed',
         \A x \in {"unit", "product", "kit"} : \A b \in Waits(x)' : b \in Waits(x) /\ editor'[b] = editor[b]
  PROVE  KitsInv'
<1>1. KitsCrossed => KitsCrossed' BY DEF KitsCrossed
<1>2. \A b \in Waits("unit")' : UnitWaits(b) => UnitWaits(b)' BY DEF UnitWaits
<1>3. \A b \in Waits("product")' : ProductWaits(b) => ProductWaits(b)' BY DEF ProductWaits, LinesOf, Fits
<1>4. \A b \in Waits("kit")' : KitWaits(b) => KitWaits(b)' BY DEF KitWaits, LinesFit, Fits
<1>5. (\A k \in Kit : LinesFit(row.kit[k].lines)) => \A k \in Kit : LinesFit(row.kit[k].lines)'
  BY DEF LinesFit, Fits
<1> QED BY <1>1, <1>2, <1>3, <1>4, <1>5 DEF SetupInv, KitsInv

\* What the write of a request on a unit, a product or a kit meets: the tables
\* it does not write, and nobody who waits with them.
LEMMA LinesMeet ==
  ASSUME SetupInv, NEW e \in Editor, Write(e), ~KitsCrossed, editor[e].table \in {"unit", "product", "kit"}
  PROVE  /\ ~KitsCrossed'
         /\ e \in Waits(editor[e].table)
         /\ \A x \in {"unit", "product", "kit"} : x # editor[e].table => row'[x] = row[x] /\ Waits(x)' = {}
         /\ \A x \in {"unit", "product", "kit"} : \A b \in Waits(x)' :
              b \in Waits(x) /\ editor'[b] = editor[b] /\ x # "product"
         /\ row'[editor[e].table] = [row[editor[e].table] EXCEPT ![editor[e].id] = Afterwards(e)]
<1>1. /\ e \in Busy /\ Busy' = Busy \ {e} /\ \A b \in Busy \ {e} : editor'[b] = editor[b]
      /\ crossed' = crossed
      /\ \A x \in Table : x # editor[e].table => row'[x] = row[x]
  BY WriteEffect DEF SetupInv
<1>2. row'[editor[e].table] = [row[editor[e].table] EXCEPT ![editor[e].id] = Afterwards(e)]
  BY WriteEffect DEF SetupInv
<1> DEFINE table == editor[e].table
<1>3. \A b \in Busy : b # e => {editor[b].table, table} \in crossed BY <1>1 DEF SetupInv, OverlapsAreKnown
<1>4. \A x : \A b \in Waits(x)' : b \in Waits(x) /\ editor'[b] = editor[b] /\ {x, table} \in crossed
  BY <1>1, <1>3 DEF Waits
<1>5. \A x \in {"unit", "product", "kit"} : x # table => {x, table} \notin crossed
  BY DEF KitsCrossed
<1>6. {"product"} \notin crossed BY DEF KitsCrossed
<1>7. \A x \in {"unit", "product", "kit"} : x # table => row'[x] = row[x] /\ Waits(x)' = {}
  BY <1>1, <1>4, <1>5 DEF Table
<1>8. \A x \in {"unit", "product", "kit"} : \A b \in Waits(x)' :
        b \in Waits(x) /\ editor'[b] = editor[b] /\ x # "product"
  <2> SUFFICES ASSUME NEW b \in Waits("product")' PROVE FALSE BY <1>4
  <2>1. {"product", table} \in crossed BY <1>4
  <2>2. CASE table = "product" BY <1>6, <2>1, <2>2
  <2>3. CASE table # "product" BY <1>5, <2>1, <2>3
  <2> QED BY <2>2, <2>3
<1>9. ~KitsCrossed' BY <1>1 DEF KitsCrossed
<1> QED BY <1>1, <1>2, <1>7, <1>8, <1>9 DEF Waits

\* A write keeps kits usable.
LEMMA WriteKeepsLines == ASSUME SetupInv, NEW e \in Editor, Write(e) PROVE KitsInv'
<1> DEFINE table == editor[e].table
           id == editor[e].id
           data == editor[e].data
           new == Afterwards(e)
<1>1. CASE table \notin {"unit", "product", "kit"}
  <2>1. /\ Busy' = Busy \ {e} /\ \A b \in Busy \ {e} : editor'[b] = editor[b]
        /\ crossed' = crossed
        /\ \A x \in Table : x # table => row'[x] = row[x]
    <3> HIDE DEF new
    <3> QED BY WriteEffect DEF SetupInv
  <2>2. row'["unit"] = row["unit"] /\ row'["product"] = row["product"] /\ row'["kit"] = row["kit"]
    BY <1>1, <2>1 DEF Table
  <2>3. \A x \in {"unit", "product", "kit"} : \A b \in Waits(x)' : b \in Waits(x) /\ editor'[b] = editor[b]
    BY <2>1 DEF Waits
  <2> QED BY <2>1, <2>2, <2>3, LinesStay
<1>2. CASE KitsCrossed
  <2>1. crossed' = crossed BY DEF Write
  <2> QED BY <1>2, <2>1 DEF KitsInv, KitsCrossed
<1>3. CASE table \in {"unit", "product", "kit"} /\ ~KitsCrossed
  <2>1. /\ ~KitsCrossed' /\ e \in Waits(table)
        /\ \A x \in {"unit", "product", "kit"} : x # table => row'[x] = row[x] /\ Waits(x)' = {}
        /\ \A x \in {"unit", "product", "kit"} : \A b \in Waits(x)' :
             b \in Waits(x) /\ editor'[b] = editor[b] /\ x # "product"
    <3> HIDE DEF new
    <3> QED BY <1>3, LinesMeet
  <2>2. row'[table] = [row[table] EXCEPT ![id] = new]
    <3> HIDE DEF new
    <3> QED BY <1>3, LinesMeet DEF new
  <2>3. id \in DOMAIN row[table] /\ data \in Data(table)
    BY <2>1 DEF Waits, SetupInv, SetupTypes, Id
  <2>4. new = Changed(row[table][id], data) BY DEF Afterwards
  <2>5. /\ row.unit \in [MeasureUnit -> UnitRow] /\ row.product \in [Product -> ProductRow]
        /\ row.kit \in [Kit -> KitRow]
    BY DEF SetupInv, SetupTypes
  <2>6. /\ \A k \in Kit : LinesFit(row.kit[k].lines)
        /\ \A b \in Waits("unit") : UnitWaits(b)
        /\ \A b \in Waits("product") : ProductWaits(b)
        /\ \A b \in Waits("kit") : KitWaits(b)
    BY <1>3 DEF SetupInv, KitsInv
  <2>7. \A p \in Product, k \in Kit :
          row.kit[k].lines[p] > 0 => /\ row.product[p].kind # "EQUIPMENT"
                                     /\ row.unit[row.product[p].unit].whole => row.kit[k].lines[p] % 2 = 0
    BY <2>6 DEF LinesFit, Fits
  <2> HIDE DEF new
  <2>8. CASE table = "unit"
    <3>1. row'["product"] = row["product"] /\ row'["kit"] = row["kit"] /\ Waits("product")' = {} /\ Waits("kit")' = {}
      BY <2>1, <2>8
    <3>2. UnitWaits(e) BY <2>1, <2>6, <2>8
    <3>3. id \in MeasureUnit /\ row.unit[id] \in UnitRow BY <2>3, <2>5, <2>8
    <3>4. new.whole = IF Asks(data, "whole") THEN data.whole ELSE row.unit[id].whole
      BY <2>3, <2>4, <2>8, <3>3, UnitAfter
    <3>5. \A u \in MeasureUnit : row'.unit[u] = IF u = id THEN new ELSE row.unit[u] BY <2>2, <2>5, <2>8
    <3>6. \A p \in Product, k \in Kit : row.kit[k].lines[p] > 0 /\ row'.unit[row.product[p].unit].whole =>
            row.kit[k].lines[p] % 2 = 0
      <4> SUFFICES ASSUME NEW p \in Product, NEW k \in Kit,
                          row.kit[k].lines[p] > 0, row'.unit[row.product[p].unit].whole
                   PROVE  row.kit[k].lines[p] % 2 = 0
        OBVIOUS
      <4>1. row.product[p].unit \in MeasureUnit
        <5>1. row.product[p] \in ProductRow BY <2>5
        <5> QED BY <5>1 DEF ProductRow
      <4>2. CASE row.product[p].unit = id /\ Asks(data, "whole")
        <5>1. data.whole BY <3>4, <3>5, <4>1, <4>2
        <5> QED BY <3>2, <4>2, <5>1 DEF UnitWaits
      <4>3. CASE row.product[p].unit = id /\ ~Asks(data, "whole")
        <5>1. row.unit[id].whole BY <3>4, <3>5, <4>1, <4>3
        <5> QED BY <2>7, <4>3, <5>1
      <4>4. CASE row.product[p].unit # id BY <2>7, <3>5, <4>1, <4>4
      <4> QED BY <4>2, <4>3, <4>4
    <3>7. \A k \in Kit : LinesFit(row.kit[k].lines)' BY <2>7, <3>1, <3>6 DEF LinesFit, Fits
    <3>8. \A b \in Waits("unit")' : UnitWaits(b)' BY <2>1, <2>6, <2>8, <3>1 DEF UnitWaits
    <3> QED BY <3>1, <3>7, <3>8 DEF KitsInv
  <2>9. CASE table = "product"
    <3>1. /\ row'["unit"] = row["unit"] /\ row'["kit"] = row["kit"] /\ Waits("unit")' = {} /\ Waits("kit")' = {}
          /\ Waits("product")' = {}
      BY <2>1, <2>9
    <3>2. ProductWaits(e) BY <2>1, <2>6, <2>9
    <3>3. id \in Product /\ row.product[id] \in ProductRow BY <2>3, <2>5, <2>9
    <3>4. /\ new.kind = IF Asks(data, "kind") THEN data.kind ELSE row.product[id].kind
          /\ new.unit = IF Asks(data, "unit") THEN data.unit ELSE row.product[id].unit
      BY <2>3, <2>4, <2>9, <3>3, ProductAfter
    <3>5. \A p \in Product : row'.product[p] = IF p = id THEN new ELSE row.product[p] BY <2>2, <2>5, <2>9
    <3>6. \A p \in Product, k \in Kit : row.kit[k].lines[p] > 0 =>
            row'.product[p].kind # "EQUIPMENT" /\ Fits(row.kit[k].lines[p], row'.product[p].unit)
      <4> SUFFICES ASSUME NEW p \in Product, NEW k \in Kit, row.kit[k].lines[p] > 0
                   PROVE  row'.product[p].kind # "EQUIPMENT" /\ Fits(row.kit[k].lines[p], row'.product[p].unit)
        OBVIOUS
      <4>1. CASE p # id BY <2>7, <3>5, <4>1 DEF Fits
      <4>2. CASE p = id
        <5>1. k \in LinesOf(id) BY <4>2 DEF LinesOf
        <5>2. new.kind # "EQUIPMENT" BY <2>7, <3>2, <3>4, <4>2, <5>1 DEF ProductWaits
        <5>3. Fits(row.kit[k].lines[id], new.unit) BY <2>7, <3>2, <3>4, <4>2, <5>1 DEF ProductWaits, Fits
        <5> QED BY <3>5, <4>2, <5>2, <5>3
      <4> QED BY <4>1, <4>2
    <3>7. \A k \in Kit : LinesFit(row.kit[k].lines)' BY <3>1, <3>6 DEF LinesFit, Fits
    <3> QED BY <3>1, <3>7 DEF KitsInv
  <2>10. CASE table = "kit"
    <3>1. /\ row'["unit"] = row["unit"] /\ row'["product"] = row["product"]
          /\ Waits("unit")' = {} /\ Waits("product")' = {}
      BY <2>1, <2>10
    <3>2. KitWaits(e) BY <2>1, <2>6, <2>10
    <3>3. id \in Kit /\ row.kit[id] \in KitRow BY <2>3, <2>5, <2>10
    <3>4. new.lines = IF Asks(data, "lines") THEN data.lines ELSE row.kit[id].lines
      BY <2>3, <2>4, <2>10, <3>3, KitAfter
    <3>5. LinesFit(new.lines) BY <2>6, <3>2, <3>3, <3>4 DEF KitWaits
    <3>6. \A k \in Kit : row'.kit[k] = IF k = id THEN new ELSE row.kit[k] BY <2>2, <2>5, <2>10
    <3>7. \A k \in Kit : LinesFit(row.kit[k].lines)' BY <2>6, <3>1, <3>5, <3>6 DEF LinesFit, Fits
    <3>8. \A b \in Waits("kit")' : KitWaits(b)' BY <2>1, <2>6, <2>10, <3>1 DEF KitWaits, LinesFit, Fits
    <3> QED BY <3>1, <3>7, <3>8 DEF KitsInv
  <2> QED BY <1>3, <2>8, <2>9, <2>10
<1> QED BY <1>1, <1>2, <1>3
\* What a request checks about units, products and kits holds of every kit,
\* whether it changes anything or not.
LEMMA LinesChecked ==
  ASSUME SetupTypes, \A k \in Kit : LinesFit(row.kit[k].lines),
         NEW table \in {"unit", "product", "kit"}, NEW id \in Id(table), NEW data \in Data(table),
         Checked(table, id, data)
  PROVE  /\ table = "unit" => (Asks(data, "whole") /\ data.whole =>
              \A p \in Product : row.product[p].unit = id => \A k \in Kit : row.kit[k].lines[p] % 2 = 0)
         /\ table = "product" =>
              /\ Asks(data, "kind") /\ data.kind = "EQUIPMENT" => LinesOf(id) = {}
              /\ Asks(data, "unit") => \A k \in LinesOf(id) : Fits(row.kit[k].lines[id], data.unit)
         /\ table = "kit" => (Asks(data, "lines") => LinesFit(data.lines))
<1>1. /\ row.unit \in [MeasureUnit -> UnitRow] /\ row.product \in [Product -> ProductRow]
      /\ row.kit \in [Kit -> KitRow]
  BY DEF SetupTypes
<1>2. ASSUME table = "unit", Asks(data, "whole"), data.whole,
             NEW p \in Product, row.product[p].unit = id, NEW k \in Kit
      PROVE  row.kit[k].lines[p] % 2 = 0
  <2>1. UpdateUnit(id, data) BY <1>2 DEF Checked
  <2>2. CASE ~row.unit[id].whole BY <1>2, <2>1, <2>2 DEF UpdateUnit
  <2>3. CASE row.unit[id].whole /\ row.kit[k].lines[p] > 0 BY <1>2, <2>3 DEF LinesFit, Fits
  <2>4. CASE ~(row.kit[k].lines[p] > 0)
    <3>1. row.kit[k].lines[p] \in Nat
      <4>1. row.kit[k] \in KitRow BY <1>1
      <4> QED BY <4>1 DEF KitRow
    <3>2. row.kit[k].lines[p] = 0 BY <2>4, <3>1
    <3> QED BY <3>2
  <2> QED BY <2>2, <2>3, <2>4
<1>3. ASSUME table = "product"
      PROVE  /\ Asks(data, "kind") /\ data.kind = "EQUIPMENT" => LinesOf(id) = {}
             /\ Asks(data, "unit") => \A k \in LinesOf(id) : Fits(row.kit[k].lines[id], data.unit)
  <2>1. id \in Product BY <1>1, <1>3 DEF Id
  <2>2. \A k \in LinesOf(id) : row.product[id].kind # "EQUIPMENT" /\ Fits(row.kit[k].lines[id], row.product[id].unit)
    BY <2>1 DEF LinesOf, LinesFit
  <2>3. CASE UpdateProduct(id, data) BY <2>2, <2>3 DEF UpdateProduct
  <2>4. CASE RemoveProduct(id, data) BY <2>4 DEF RemoveProduct, Asks
  <2> QED BY <1>3, <2>3, <2>4 DEF Checked
<1>4. ASSUME table = "kit", Asks(data, "lines") PROVE LinesFit(data.lines)
  <2>1. CASE UpdateKit(id, data) BY <1>4, <2>1 DEF UpdateKit, Asks
  <2>2. CASE SetKitLines(id, data) BY <2>2 DEF SetKitLines, LinesFit
  <2> QED BY <1>4, <2>1, <2>2 DEF Checked
<1> QED BY <1>2, <1>3, <1>4

\* A request keeps kits usable.
LEMMA RequestKeepsLines ==
  ASSUME SetupInv,
         NEW e \in Editor, NEW caller, NEW table \in focus, NEW id \in Id(table), NEW data \in Data(table),
         EditRequest(e, caller, table, id, data)
  PROVE  KitsInv'
<1>1. /\ e \notin Busy /\ Busy' = Busy \cup {e}
      /\ \A b \in Busy : editor'[b] = editor[b]
      /\ editor'[e] = [table |-> table, id |-> id, data |-> data]
      /\ row' = row
      /\ crossed \subseteq crossed'
      /\ Checked(table, id, data)
  BY RequestEffect DEF SetupInv
<1>2. editor'[e].table = table /\ editor'[e].id = id /\ editor'[e].data = data BY <1>1
<1>3. \A x : \A b \in Waits(x)' : (b \in Waits(x) /\ editor'[b] = editor[b]) \/ (b = e /\ table = x)
  BY <1>1, <1>2 DEF Waits
<1>4. CASE table \notin {"unit", "product", "kit"} BY <1>1, <1>3, <1>4, LinesStay
<1>5. CASE KitsCrossed' BY <1>5 DEF KitsInv
<1>6. CASE table \in {"unit", "product", "kit"} /\ ~KitsCrossed'
  <2>1. ~KitsCrossed BY <1>1, <1>6 DEF KitsCrossed
  <2>2. /\ \A k \in Kit : LinesFit(row.kit[k].lines)
        /\ \A b \in Waits("unit") : UnitWaits(b)
        /\ \A b \in Waits("product") : ProductWaits(b)
        /\ \A b \in Waits("kit") : KitWaits(b)
    BY <2>1 DEF SetupInv, KitsInv
  <2>3. /\ table = "unit" => (Asks(data, "whole") /\ data.whole =>
             \A p \in Product : row.product[p].unit = id => \A k \in Kit : row.kit[k].lines[p] % 2 = 0)
        /\ table = "product" =>
             /\ Asks(data, "kind") /\ data.kind = "EQUIPMENT" => LinesOf(id) = {}
             /\ Asks(data, "unit") => \A k \in LinesOf(id) : Fits(row.kit[k].lines[id], data.unit)
        /\ table = "kit" => (Asks(data, "lines") => LinesFit(data.lines))
    BY <1>1, <1>6, <2>2, LinesChecked DEF SetupInv
  <2>4. \A k \in Kit : LinesFit(row.kit[k].lines)' BY <1>1, <2>2 DEF LinesFit, Fits
  <2>5. \A b \in Waits("unit")' : UnitWaits(b)'
    <3> SUFFICES ASSUME NEW b \in Waits("unit")' PROVE UnitWaits(b)' OBVIOUS
    <3>1. CASE b \in Waits("unit") /\ editor'[b] = editor[b] BY <1>1, <2>2, <3>1 DEF UnitWaits
    <3>2. CASE b = e /\ table = "unit" BY <1>1, <1>2, <2>3, <3>2 DEF UnitWaits
    <3> QED BY <1>3, <3>1, <3>2
  <2>6. \A b \in Waits("product")' : ProductWaits(b)'
    <3> SUFFICES ASSUME NEW b \in Waits("product")' PROVE ProductWaits(b)' OBVIOUS
    <3>1. CASE b \in Waits("product") /\ editor'[b] = editor[b]
      BY <1>1, <2>2, <3>1 DEF ProductWaits, LinesOf, Fits
    <3>2. CASE b = e /\ table = "product" BY <1>1, <1>2, <2>3, <3>2 DEF ProductWaits, LinesOf, Fits
    <3> QED BY <1>3, <3>1, <3>2
  <2>7. \A b \in Waits("kit")' : KitWaits(b)'
    <3> SUFFICES ASSUME NEW b \in Waits("kit")' PROVE KitWaits(b)' OBVIOUS
    <3>1. CASE b \in Waits("kit") /\ editor'[b] = editor[b] BY <1>1, <2>2, <3>1 DEF KitWaits, LinesFit, Fits
    <3>2. CASE b = e /\ table = "kit" BY <1>1, <1>2, <2>3, <3>2 DEF KitWaits, LinesFit, Fits
    <3> QED BY <1>3, <3>1, <3>2
  <2> QED BY <2>4, <2>5, <2>6, <2>7 DEF KitsInv
<1> QED BY <1>4, <1>5, <1>6

-----------------------------------------------------------------------------
(* The hotel as a whole.                                                   *)

\* At first there is one floor in one building, one type with its kit, and
\* kits are empty.
LEMMA SetupInvInit == SetupInit => SetupInv
<1> SUFFICES ASSUME SetupInit PROVE SetupInv OBVIOUS
<1>1. Busy = {} BY DEF SetupInit, Busy
<1>2. \A x : Waits(x) = {} BY <1>1 DEF Waits
<1>3. row.zone = [z \in Zone |-> [kind |-> IF z = FirstFloor THEN "FLOOR" ELSE IF z = FirstBuilding THEN "BUILDING" ELSE "none",
                                  parent |-> IF z = FirstFloor THEN FirstBuilding ELSE NoOne,
                                  active |-> TRUE, inspection |-> FALSE]]
  BY DEF SetupInit
<1>4. row.type = [t \in RoomType |-> [kit |-> IF t = FirstType THEN FirstKit ELSE NoOne, active |-> t = FirstType,
                                      inspection |-> FALSE]]
  BY DEF SetupInit
<1>5. row.unit = [u \in MeasureUnit |-> [whole |-> u = FirstUnit, active |-> TRUE]] BY DEF SetupInit
<1>6. row.product = [p \in Product |-> [unit |-> FirstUnit, kind |-> "CONSUMABLE", active |-> TRUE]] BY DEF SetupInit
<1>7. row.kit = [k \in Kit |-> [active |-> TRUE, lines |-> [p \in Product |-> 0]]] BY DEF SetupInit
<1>8. DOMAIN row = Table BY DEF SetupInit, Table
<1>9. editor = [e \in Editor |-> editor[e]] /\ focus \subseteq Table BY SetupAssumption DEF SetupInit
<1>10. row.zone \in [Zone -> ZoneRow] BY <1>3, FirstAssumption DEF ZoneRow
<1>11. row.type \in [RoomType -> TypeRow] BY <1>4, FirstAssumption DEF TypeRow
<1>12. row.unit \in [MeasureUnit -> UnitRow] BY <1>5 DEF UnitRow
<1>13. row.product \in [Product -> ProductRow] BY <1>6, FirstAssumption DEF ProductRow
<1>14. row.kit \in [Kit -> KitRow] BY <1>7 DEF KitRow
<1>15. SetupTypes BY <1>1, <1>8, <1>9, <1>10, <1>11, <1>12, <1>13, <1>14 DEF SetupTypes
<1>16. OverlapsAreKnown BY <1>1 DEF OverlapsAreKnown
<1>17. \A z \in Zone : /\ row.zone[z].parent = IF z = FirstFloor THEN FirstBuilding ELSE NoOne
                       /\ row.zone[z].kind # "FLOOR" => z # FirstFloor
  BY <1>3
<1>18. NoCircle
  <2> SUFFICES ASSUME NEW set \in SUBSET Zone, set # {} PROVE \E z \in set : row.zone[z].parent \notin set
    BY DEF NoCircle
  <2>1. CASE \E z \in set : z # FirstFloor
    <3>1. PICK z \in set : z # FirstFloor BY <2>1
    <3> QED BY <1>17, <3>1, SetupAssumption
  <2>2. CASE set = {FirstFloor} BY <1>17, <2>2, FirstAssumption
  <2> QED BY <2>1, <2>2
<1>19. ZonesInv BY <1>2, <1>17, <1>18 DEF ZonesInv
<1>20. TypesInv
  <2>1. \A t \in RoomType : HasKit(row.type[t])
    <3>1. ASSUME NEW t \in RoomType PROVE row.type[t].active => row.type[t].kit = FirstKit
      <4>1. CASE t = FirstType BY <1>4, <4>1
      <4>2. CASE t # FirstType
        <5>1. row.type[t] = [kit |-> IF t = FirstType THEN FirstKit ELSE NoOne, active |-> t = FirstType, inspection |-> FALSE]
          BY <1>4, Zenon
        <5>2. (t = FirstType) = FALSE BY <4>2
        <5>3. row.type[t] = [kit |-> IF t = FirstType THEN FirstKit ELSE NoOne, active |-> FALSE, inspection |-> FALSE]
          BY <5>1, <5>2, Zenon
        <5> QED BY <5>3
      <4> QED BY <4>1, <4>2
    <3>2. FirstKit # NoOne /\ row.kit[FirstKit].active BY <1>7, FirstAssumption, SetupAssumption
    <3> QED BY <3>1, <3>2 DEF HasKit
  <2> QED BY <1>2, <2>1 DEF TypesInv
<1>21. KitsInv
  <2>1. \A k \in Kit, p \in Product : row.kit[k].lines[p] = 0 BY <1>7
  <2>2. \A k \in Kit : LinesFit(row.kit[k].lines) BY <2>1 DEF LinesFit
  <2> QED BY <1>2, <2>2 DEF KitsInv
<1> QED BY <1>15, <1>16, <1>19, <1>20, <1>21 DEF SetupInv

\* The invariant is inductive.
LEMMA SetupInvNext == SetupInv /\ [SetupNext]_setupVars => SetupInv'
<1> SUFFICES ASSUME SetupInv, [SetupNext]_setupVars PROVE SetupInv' OBVIOUS
<1>1. ASSUME NEW e \in Editor, Write(e) PROVE SetupInv'
  BY <1>1, WriteKeepsTypes, WriteKeepsZones, WriteKeepsKits, WriteKeepsLines DEF SetupInv
<1>2. ASSUME NEW e \in Editor, NEW table \in focus, NEW id \in Id(table), NEW data \in Data(table),
             NEW caller \in Supervisor \cup {Admin}, EditRequest(e, caller, table, id, data)
      PROVE  SetupInv'
  <2>1. SetupTypes' /\ OverlapsAreKnown' BY <1>2, RequestEffect DEF SetupInv
  <2> QED BY <1>2, <2>1, RequestKeepsZones, RequestKeepsKits, RequestKeepsLines DEF SetupInv
<1>3. CASE UNCHANGED <<focus, row, editor, crossed>>
  <2>1. SetupTypes' /\ OverlapsAreKnown'
    BY <1>3 DEF SetupInv, SetupTypes, OverlapsAreKnown, Busy, Id
  <2>2. \A x : Waits(x)' = Waits(x) BY <1>3 DEF Waits, Busy
  <2>3. ZonesInv' BY <1>3, <2>2, ZonesStay
  <2>4. TypesInv' BY <1>3, <2>2, TypesStay
  <2>5. KitsInv' BY <1>3, <2>2, LinesStay
  <2> QED BY <2>1, <2>3, <2>4, <2>5 DEF SetupInv
<1> QED BY <1>1, <1>2, <1>3 DEF SetupNext, SetZoneSupervisors, setupVars

-----------------------------------------------------------------------------
(* The walks of VisibleZoneIds and AncestorZones, whose recursive functions *)
(* exist because a step can be repeated.                                   *)

\* A step repeated from a first value makes one sequence of values.
LEMMA Iteration ==
  ASSUME NEW S, NEW x0 \in S, NEW step \in [S -> S]
  PROVE  \E f \in [Nat -> S] : f[0] = x0 /\ \A n \in Nat : f[n + 1] = step[f[n]]
<1> DEFINE Runs(n) == {g \in [0..n -> S] : g[0] = x0 /\ \A k \in 0..(n - 1) : g[k + 1] = step[g[k]]}
<1>1. \A n \in Nat : Runs(n) # {}
  <2> SUFFICES ASSUME {n \in Nat : Runs(n) = {}} # {} PROVE FALSE OBVIOUS
  <2>1. PICK n \in Nat : Runs(n) = {} /\ \A m \in Nat : Runs(m) = {} => n <= m
    <3> DEFINE Bad == {n \in Nat : Runs(n) = {}}
    <3>1. PICK n \in Bad : \A m \in Bad : n <= m
      <4>1. Bad \in SUBSET Nat /\ Bad # {} OBVIOUS
      <4> HIDE DEF Bad
      <4> QED BY <4>1, LeastNumber
    <3> QED BY <3>1
  <2>2. n # 0
    <3>1. [k \in 0..0 |-> x0] \in Runs(0) OBVIOUS
    <3> QED BY <2>1, <3>1
  <2>3. n - 1 \in Nat /\ Runs(n - 1) # {}
    <3>1. n - 1 \in Nat /\ ~(n <= n - 1) BY <2>2
    <3> QED BY <2>1, <3>1
  <2>4. PICK g \in [0..(n - 1) -> S] : g[0] = x0 /\ \A k \in 0..(n - 2) : g[k + 1] = step[g[k]]
    <3>1. (n - 1) - 1 = n - 2 OBVIOUS
    <3> QED BY <2>3, <3>1
  <2> DEFINE h == [k \in 0..n |-> IF k = n THEN step[g[n - 1]] ELSE g[k]]
  <2>5. h \in [0..n -> S]
    <3>1. n - 1 \in 0..(n - 1) BY <2>3
    <3>2. step[g[n - 1]] \in S BY <3>1
    <3>3. \A k \in 0..n : k # n => k \in 0..(n - 1) OBVIOUS
    <3> QED BY <3>2, <3>3
  <2>6. h[0] = x0 BY <2>2, <2>4
  <2>7. ASSUME NEW k \in 0..(n - 1) PROVE h[k + 1] = step[h[k]]
    <3>1. CASE k = n - 1 BY <3>1, <2>3
    <3>2. CASE k # n - 1
      <4>1. k \in 0..(n - 2) /\ k + 1 \in 0..n /\ k + 1 # n /\ k # n /\ k \in 0..n BY <3>2, <2>3
      <4> QED BY <4>1, <2>4
    <3> QED BY <3>1, <3>2
  <2>8. h \in Runs(n) BY <2>5, <2>6, <2>7
  <2> QED BY <2>1, <2>8
<1>2. ASSUME NEW m \in Nat, NEW n \in Nat, NEW g \in Runs(m), NEW h \in Runs(n), m <= n PROVE \A k \in 0..m : g[k] = h[k]
  <2> DEFINE Bad == {k \in 0..m : g[k] # h[k]}
  <2> SUFFICES ASSUME Bad # {} PROVE FALSE OBVIOUS
  <2>1. PICK k \in Bad : \A j \in Bad : k <= j
    <3>1. Bad \in SUBSET Nat OBVIOUS
    <3> HIDE DEF Bad
    <3> QED BY <3>1, LeastNumber
  <2>2. k # 0 OBVIOUS
  <2>3. k - 1 \in 0..m /\ k - 1 \notin Bad /\ k - 1 \in 0..(m - 1) /\ k - 1 \in 0..(n - 1)
    <3>1. k \in 0..m OBVIOUS
    <3> HIDE DEF Bad
    <3>2. k - 1 \in 0..m /\ ~(k <= k - 1) /\ k - 1 \in 0..(m - 1) /\ k - 1 \in 0..(n - 1) BY <1>2, <2>2, <3>1
    <3> QED BY <2>1, <3>2
  <2>4. g[k - 1] = h[k - 1] BY <2>3
  <2>5. g[(k - 1) + 1] = step[g[k - 1]] /\ h[(k - 1) + 1] = step[h[k - 1]] BY <2>3
  <2> QED BY <2>4, <2>5
<1> DEFINE run == [n \in Nat |-> CHOOSE g \in Runs(n) : TRUE]
           f == [n \in Nat |-> run[n][n]]
<1>3. \A n \in Nat : run[n] \in Runs(n)
  <2> HIDE DEF Runs
  <2> QED BY <1>1
<1>4. \A n \in Nat : f[n] = run[n][n] OBVIOUS
<1>5. \A n \in Nat : f[n] \in S /\ run[n][n] \in S
  <2> HIDE DEF run
  <2> SUFFICES ASSUME NEW n \in Nat PROVE run[n][n] \in S BY <1>4
  <2>1. n \in 0..n OBVIOUS
  <2> QED BY <1>3, <2>1
<1>6. f \in [Nat -> S]
  <2>1. f = [n \in Nat |-> f[n]] OBVIOUS
  <2> HIDE DEF f
  <2> QED BY <1>5, <2>1
<1>7. f[0] = x0
  <2> HIDE DEF run, f
  <2>1. run[0] \in Runs(0) BY <1>3
  <2> QED BY <2>1, <1>4
<1>8. ASSUME NEW n \in Nat PROVE f[n + 1] = step[f[n]]
  <2> HIDE DEF run, f
  <2>1. n + 1 \in Nat /\ n <= n + 1 /\ n \in 0..n /\ n \in 0..((n + 1) - 1) OBVIOUS
  <2>2. run[n] \in Runs(n) /\ run[n + 1] \in Runs(n + 1) BY <1>3, <2>1
  <2>3. run[n][n] = run[n + 1][n]
    <3> HIDE DEF Runs
    <3> QED BY <1>2, <2>1, <2>2
  <2>4. run[n + 1][n + 1] = step[run[n + 1][n]] BY <2>1, <2>2
  <2> QED BY <1>4, <2>1, <2>3, <2>4
<1> HIDE DEF f
<1> QED BY <1>6, <1>7, <1>8

\* The zones below those of a supervisor, one level after another.
LEMMA BelowUnfolds ==
  /\ Below \in [Nat -> [Supervisor -> SUBSET Zone]]
  /\ \A s \in Supervisor : /\ Below[0][s] = {z \in Zone : s \in supervises[z]}
                           /\ \A n \in Nat : Below[n + 1][s] = Below[n][s] \cup Children(Below[n][s])
<1> DEFINE S == [Supervisor -> SUBSET Zone]
           x0 == [s \in Supervisor |-> {z \in Zone : s \in supervises[z]}]
           Up(x) == [s \in Supervisor |-> x[s] \cup Children(x[s])]
           step == [x \in S |-> Up(x)]
           G(f) == [n \in Nat |-> IF n = 0 THEN x0 ELSE Up(f[n - 1])]
<1>1. x0 \in S OBVIOUS
<1>2. ASSUME NEW x \in S PROVE Up(x) \in S BY DEF Children
<1>3. step \in [S -> S] BY <1>2
<1>4. \E f \in [Nat -> S] : f[0] = x0 /\ \A n \in Nat : f[n + 1] = step[f[n]]
  <2>1. \A T : \A y \in T : \A next \in [T -> T] :
          \E f \in [Nat -> T] : f[0] = y /\ \A n \in Nat : f[n + 1] = next[f[n]]
    BY Iteration
  <2> HIDE DEF S, x0, step, Up, G
  <2> QED BY <1>1, <1>3, <2>1
<1>5. PICK f \in [Nat -> S] : f[0] = x0 /\ \A n \in Nat : f[n + 1] = Up(f[n])
  <2>1. \A x \in S : step[x] = Up(x) OBVIOUS
  <2> HIDE DEF S, x0, step, Up
  <2> QED BY <1>4, <2>1
<1>6. f = G(f)
  <2> HIDE DEF S, x0, Up
  <2>1. \A n \in Nat : f[n] = IF n = 0 THEN x0 ELSE Up(f[n - 1])
    <3> SUFFICES ASSUME NEW n \in Nat, n # 0 PROVE f[n] = Up(f[n - 1]) BY <1>5
    <3>1. n - 1 \in Nat /\ (n - 1) + 1 = n OBVIOUS
    <3> QED BY <1>5, <3>1
  <2> QED BY <2>1
<1>7. Below = CHOOSE b : b = G(b) BY DEF Below
<1>8. Below = G(Below)
  <2> HIDE DEF G
  <2> QED BY <1>6, <1>7
<1>9. \A n \in Nat : Below[n] = IF n = 0 THEN x0 ELSE Up(Below[n - 1])
  <2> HIDE DEF x0, Up
  <2> QED BY <1>8
<1>10. \A n \in Nat : Below[n] \in S
  <2> HIDE DEF S, x0, Up, G
  <2> DEFINE Bad == {n \in Nat : Below[n] \notin S}
  <2> SUFFICES ASSUME Bad # {} PROVE FALSE OBVIOUS
  <2>1. PICK n \in Bad : \A m \in Bad : n <= m
    <3>1. Bad \in SUBSET Nat OBVIOUS
    <3> HIDE DEF Bad
    <3> QED BY <3>1, LeastNumber
  <2>2. n # 0 BY <1>1, <1>9
  <2>3. n - 1 \in Nat /\ n - 1 \notin Bad BY <2>1, <2>2
  <2> QED BY <1>2, <1>9, <2>2, <2>3
<1>11. Below \in [Nat -> S]
  <2>1. Below = [n \in Nat |-> Below[n]] BY <1>8
  <2> HIDE DEF S, G
  <2> QED BY <1>10, <2>1
<1>12. \A s \in Supervisor : Below[0][s] = {z \in Zone : s \in supervises[z]} BY <1>9
<1>13. ASSUME NEW n \in Nat, NEW s \in Supervisor PROVE Below[n + 1][s] = Below[n][s] \cup Children(Below[n][s])
  <2>1. n + 1 \in Nat /\ n + 1 # 0 /\ (n + 1) - 1 = n OBVIOUS
  <2>2. Below[n + 1] = Up(Below[n])
    <3> HIDE DEF Up, x0
    <3> QED BY <1>9, <2>1
  <2> QED BY <2>2
<1> QED BY <1>11, <1>12, <1>13

\* The zones above a zone, as far as a number of steps goes.
LEMMA AboveUnfolds ==
  ASSUME row.zone \in [Zone -> ZoneRow]
  PROVE  /\ Above \in [Nat -> [Zone \cup {NoOne} -> SUBSET (Zone \cup {NoOne})]]
         /\ \A n \in Nat : Above[n][NoOne] = {NoOne}
         /\ \A z \in Zone : /\ Above[0][z] = {z}
                            /\ \A n \in Nat : Above[n + 1][z] = {z} \cup Above[n][row.zone[z].parent]
<1> DEFINE W == Zone \cup {NoOne}
           S == [W -> SUBSET W]
           x0 == [z \in W |-> {z}]
           Up(x) == [z \in W |-> IF z = NoOne THEN {z} ELSE {z} \cup x[row.zone[z].parent]]
           step == [x \in S |-> Up(x)]
           G(f) == [n \in Nat |-> [z \in W |-> IF n = 0 \/ z = NoOne THEN {z} ELSE {z} \cup f[n - 1][row.zone[z].parent]]]
<1>0. \A z \in Zone : row.zone[z].parent \in W BY DEF ZoneRow
<1>1. x0 \in S OBVIOUS
<1>2. ASSUME NEW x \in S PROVE Up(x) \in S
  <2>1. ASSUME NEW z \in W PROVE Up(x)[z] \in SUBSET W BY <1>0
  <2> QED BY <2>1
<1>3. step \in [S -> S]
  <2> HIDE DEF S, Up
  <2> QED BY <1>2
<1>4. \E f \in [Nat -> S] : f[0] = x0 /\ \A n \in Nat : f[n + 1] = step[f[n]]
  <2>1. \A T : \A y \in T : \A next \in [T -> T] :
          \E f \in [Nat -> T] : f[0] = y /\ \A n \in Nat : f[n + 1] = next[f[n]]
    BY Iteration
  <2> HIDE DEF S, x0, step, Up, G
  <2> QED BY SMTT(30), <1>1, <1>3, <2>1
<1>5. PICK f \in [Nat -> S] : f[0] = x0 /\ \A n \in Nat : f[n + 1] = Up(f[n])
  <2>1. \A x \in S : step[x] = Up(x) OBVIOUS
  <2> HIDE DEF S, x0, step, Up
  <2> QED BY <1>4, <2>1
<1>6. \A n \in Nat : f[n] = IF n = 0 THEN x0 ELSE Up(f[n - 1])
  <2> HIDE DEF S, x0, Up
  <2> SUFFICES ASSUME NEW n \in Nat, n # 0 PROVE f[n] = Up(f[n - 1]) BY <1>5
  <2>1. n - 1 \in Nat /\ (n - 1) + 1 = n OBVIOUS
  <2> QED BY <1>5, <2>1
<1>7. f = G(f)
  <2>1. \A n \in Nat : f[n] = G(f)[n]
    <3> SUFFICES ASSUME NEW n \in Nat PROVE f[n] = G(f)[n] OBVIOUS
    <3>1. CASE n = 0
      <4>1. f[n] = x0 BY <1>6, <3>1
      <4> QED BY <3>1, <4>1
    <3>2. CASE n # 0
      <4>1. f[n] = Up(f[n - 1]) BY <1>6, <3>2
      <4> QED BY <3>2, <4>1
    <3> QED BY <3>1, <3>2
  <2> HIDE DEF S
  <2>2. DOMAIN f = Nat OBVIOUS
  <2> QED BY <2>1, <2>2
<1>8. Above = CHOOSE a : a = G(a) BY DEF Above
<1>9. Above = G(Above)
  <2> HIDE DEF G
  <2> QED BY <1>7, <1>8
<1>10. ASSUME NEW n \in Nat, NEW z \in W
       PROVE  Above[n][z] = IF n = 0 \/ z = NoOne THEN {z} ELSE {z} \cup Above[n - 1][row.zone[z].parent]
  <2>1. Above[n] = [y \in W |-> IF n = 0 \/ y = NoOne THEN {y} ELSE {y} \cup Above[n - 1][row.zone[y].parent]] BY <1>9
  <2> QED BY <2>1
<1>11. Above[0] = x0 BY <1>9
<1>12. \A n \in Nat : n # 0 => Above[n] = Up(Above[n - 1])
  <2> SUFFICES ASSUME NEW n \in Nat, n # 0 PROVE Above[n] = Up(Above[n - 1]) OBVIOUS
  <2>1. Above[n] = G(Above)[n] BY <1>9
  <2> QED BY <2>1
<1>13. \A n \in Nat : Above[n] \in S
  <2> HIDE DEF S, x0, Up, G
  <2> DEFINE Bad == {n \in Nat : Above[n] \notin S}
  <2> SUFFICES ASSUME Bad # {} PROVE FALSE OBVIOUS
  <2>1. PICK n \in Bad : \A m \in Bad : n <= m
    <3>1. Bad \in SUBSET Nat OBVIOUS
    <3> HIDE DEF Bad
    <3> QED BY <3>1, LeastNumber
  <2>2. n # 0 BY <1>1, <1>11
  <2>3. n - 1 \in Nat /\ n - 1 \notin Bad BY <2>1, <2>2
  <2> QED BY <1>2, <1>12, <2>2, <2>3
<1>14. Above \in [Nat -> S]
  <2>1. Above = [n \in Nat |-> Above[n]] BY <1>9
  <2> HIDE DEF S, G
  <2> QED BY <1>13, <2>1
<1>15. \A n \in Nat : Above[n][NoOne] = {NoOne} BY <1>10
<1>16. ASSUME NEW z \in Zone PROVE Above[0][z] = {z} BY <1>10
<1>17. ASSUME NEW z \in Zone, NEW n \in Nat PROVE Above[n + 1][z] = {z} \cup Above[n][row.zone[z].parent]
  <2>1. n + 1 \in Nat /\ n + 1 # 0 /\ (n + 1) - 1 = n /\ z # NoOne BY SetupAssumption
  <2>2. Above[n + 1][z] = IF n + 1 = 0 \/ z = NoOne THEN {z} ELSE {z} \cup Above[(n + 1) - 1][row.zone[z].parent]
    <3> HIDE DEF G
    <3> QED BY <1>10, <2>1
  <2> QED BY <2>1, <2>2
<1> QED BY <1>14, <1>15, <1>16, <1>17

\* Going further up finds the same zones and perhaps more, the zone itself first.
LEMMA AboveGrows ==
  ASSUME row.zone \in [Zone -> ZoneRow], NEW n \in Nat, NEW z \in Zone \cup {NoOne}
  PROVE  z \in Above[n][z] /\ Above[n][z] \subseteq Above[n + 1][z]
<1> DEFINE W == Zone \cup {NoOne}
           Grows(m) == \A y \in W : y \in Above[m][y] /\ Above[m][y] \subseteq Above[m + 1][y]
           Bad == {m \in Nat : ~Grows(m)}
<1> SUFFICES ASSUME Bad # {} PROVE FALSE
  <2>1. Bad = {} => Grows(n) OBVIOUS
  <2> QED BY <2>1
<1>0. /\ \A m \in Nat : Above[m][NoOne] = {NoOne}
      /\ \A y \in Zone : Above[0][y] = {y}
      /\ \A y \in Zone, m \in Nat : Above[m + 1][y] = {y} \cup Above[m][row.zone[y].parent]
      /\ \A y \in Zone : row.zone[y].parent \in W
  <2>1. \A y \in Zone : row.zone[y].parent \in W BY DEF ZoneRow
  <2> QED BY <2>1, AboveUnfolds DEF ZoneRow
<1>1. PICK m \in Bad : \A k \in Bad : m <= k
  <2>1. Bad \in SUBSET Nat OBVIOUS
  <2> HIDE DEF Bad
  <2> QED BY <2>1, LeastNumber
<1>2. PICK y \in W : ~(y \in Above[m][y] /\ Above[m][y] \subseteq Above[m + 1][y]) BY <1>1
<1>3. m \in Nat /\ y # NoOne /\ y \in Zone
  <2>1. m \in Nat /\ m + 1 \in Nat OBVIOUS
  <2> QED BY <1>0, <1>2, <2>1
<1>4. m # 0
  <2> SUFFICES ASSUME m = 0 PROVE FALSE OBVIOUS
  <2>1. Above[0][y] = {y} /\ Above[0 + 1][y] = {y} \cup Above[0][row.zone[y].parent] BY <1>0, <1>3
  <2> HIDE DEF Bad
  <2> QED BY <1>2, <2>1
<1>5. m - 1 \in Nat /\ (m - 1) + 1 = m /\ ~(m <= m - 1) BY <1>3, <1>4
<1>6. Grows(m - 1)
  <2>1. m - 1 \notin Bad
    <3> HIDE DEF Bad
    <3> QED BY <1>1, <1>5
  <2> QED BY <1>5, <2>1
<1> HIDE DEF Bad
<1>7. Above[m][y] = {y} \cup Above[m - 1][row.zone[y].parent]
  <2>1. Above[(m - 1) + 1][y] = {y} \cup Above[m - 1][row.zone[y].parent] BY <1>0, <1>3, <1>5
  <2> QED BY <1>5, <2>1
<1>8. Above[m + 1][y] = {y} \cup Above[m][row.zone[y].parent] BY <1>0, <1>3
<1>9. Above[m - 1][row.zone[y].parent] \subseteq Above[m][row.zone[y].parent] BY <1>0, <1>3, <1>5, <1>6
<1> QED BY <1>2, <1>7, <1>8, <1>9

\* Without a circle every walk up ends: each level finds the end of one more.
LEMMA WalksEnd ==
  ASSUME row.zone \in [Zone -> ZoneRow], NoCircle
  PROVE  \A z \in Zone : WalkEnds(z)
<1> DEFINE Done(n) == {z \in Zone : NoOne \in Above[n][z]}
           Enough(n) == Done(n) = Zone \/ Cardinality(Done(n)) >= n
           Bad == {n \in Nat : ~Enough(n)}
<1>1. \A set \in SUBSET Zone : IsFiniteSet(set) /\ Cardinality(set) \in Nat
  BY SetupAssumption, FS_Subset, FS_CardinalityType
<1>2. \A n \in Nat : Done(n) \in SUBSET Zone /\ Done(n) \subseteq Done(n + 1)
  <2> SUFFICES ASSUME NEW n \in Nat PROVE Done(n) \subseteq Done(n + 1) OBVIOUS
  <2>1. \A z \in Zone : Above[n][z] \subseteq Above[n + 1][z] BY AboveGrows
  <2> QED BY <2>1
<1>3. ASSUME NEW n \in Nat, Done(n) # Zone PROVE \E z \in Done(n + 1) : z \notin Done(n)
  <2>1. PICK z \in Zone \ Done(n) : row.zone[z].parent \notin Zone \ Done(n)
    <3>1. Zone \ Done(n) \in SUBSET Zone /\ Zone \ Done(n) # {} BY <1>3
    <3> HIDE DEF Done
    <3> QED BY <3>1 DEF NoCircle
  <2>2. row.zone[z].parent \in Zone \cup {NoOne} BY DEF ZoneRow
  <2>3. /\ Above[n][NoOne] = {NoOne}
        /\ Above[n + 1][z] = {z} \cup Above[n][row.zone[z].parent]
    BY AboveUnfolds DEF ZoneRow
  <2>4. NoOne \in Above[n][row.zone[z].parent] BY <2>1, <2>2, <2>3
  <2> QED BY <2>1, <2>3, <2>4
<1> HIDE DEF Done
<1>4. Bad = {}
  <2> SUFFICES ASSUME Bad # {} PROVE FALSE OBVIOUS
  <2>1. PICK n \in Bad : \A k \in Bad : n <= k
    <3>1. Bad \in SUBSET Nat OBVIOUS
    <3> HIDE DEF Bad
    <3> QED BY <3>1, LeastNumber
  <2>2. n \in Nat /\ Done(n) # Zone /\ ~(Cardinality(Done(n)) >= n) OBVIOUS
  <2>3. Cardinality(Done(n)) \in Nat BY <1>1, <1>2, <2>2
  <2>4. n # 0 BY <2>2, <2>3
  <2>5. n - 1 \in Nat /\ (n - 1) + 1 = n /\ ~(n <= n - 1) BY <2>2, <2>4
  <2>6. Enough(n - 1)
    <3>1. n - 1 \notin Bad
      <4> HIDE DEF Bad
      <4> QED BY <2>1, <2>5
    <3> QED BY <2>5, <3>1
  <2> HIDE DEF Bad
  <2>7. Done(n - 1) \subseteq Done(n) /\ Done(n - 1) \in SUBSET Zone /\ Done(n) \in SUBSET Zone BY <1>2, <2>2, <2>5
  <2>8. Done(n - 1) # Zone BY <2>2, <2>7
  <2>9. PICK z \in Done(n) : z \notin Done(n - 1) BY <1>3, <2>5, <2>8
  <2>10. Cardinality(Done(n - 1)) < Cardinality(Done(n))
    <3>1. IsFiniteSet(Done(n)) /\ Cardinality(Done(n - 1)) \in Nat BY <1>1, <2>7
    <3>2. /\ Cardinality(Done(n - 1)) <= Cardinality(Done(n))
          /\ Cardinality(Done(n)) = Cardinality(Done(n - 1)) => Done(n - 1) = Done(n)
      BY <2>7, <3>1, FS_Subset
    <3> QED BY <2>3, <2>9, <3>1, <3>2
  <2>11. Cardinality(Done(n - 1)) >= n - 1 BY <2>6, <2>8
  <2>12. Cardinality(Done(n - 1)) \in Nat BY <1>1, <2>7
  <2> QED BY <2>2, <2>3, <2>10, <2>11, <2>12
<1> DEFINE size == Cardinality(Zone)
<1>5. size \in Nat BY SetupAssumption, FS_CardinalityType
<1>6. Done(size) = Zone
  <2>1. Enough(size) BY <1>4, <1>5
  <2>2. Done(size) \in SUBSET Zone BY <1>2, <1>5
  <2>3. /\ Cardinality(Done(size)) <= Cardinality(Zone)
        /\ Cardinality(Zone) = Cardinality(Done(size)) => Done(size) = Zone
    BY <2>2, SetupAssumption, FS_Subset
  <2>4. Cardinality(Done(size)) \in Nat BY <1>1, <2>2
  <2> QED BY <1>5, <2>1, <2>3, <2>4
<1> QED BY <1>6 DEF Done, WalkEnds

\* A supervisor sees the zones that have one of the supervisor's above them.
LEMMA SeenFromAbove ==
  ASSUME row.zone \in [Zone -> ZoneRow], NEW n \in Nat, NEW s \in Supervisor
  PROVE  Below[n][s] = {z \in Zone : \E a \in Above[n][z] \ {NoOne} : s \in supervises[a]}
<1> DEFINE Seen(m) == \A z \in Zone : z \in Below[m][s] <=> \E a \in Above[m][z] \ {NoOne} : s \in supervises[a]
           Bad == {m \in Nat : ~Seen(m)}
<1>1. /\ \A m \in Nat : Below[m][s] \in SUBSET Zone
      /\ Below[0][s] = {z \in Zone : s \in supervises[z]}
      /\ \A m \in Nat : Below[m + 1][s] = Below[m][s] \cup {z \in Zone : row.zone[z].parent \in Below[m][s]}
  <2>1. \A m \in Nat : Below[m] \in [Supervisor -> SUBSET Zone] BY BelowUnfolds
  <2> QED BY <2>1, BelowUnfolds DEF Children
<1>2. /\ \A m \in Nat : Above[m][NoOne] = {NoOne}
      /\ \A z \in Zone : Above[0][z] = {z}
      /\ \A z \in Zone, m \in Nat : Above[m + 1][z] = {z} \cup Above[m][row.zone[z].parent]
      /\ \A z \in Zone : row.zone[z].parent \in Zone \cup {NoOne}
  <2>1. \A z \in Zone : row.zone[z].parent \in Zone \cup {NoOne} BY DEF ZoneRow
  <2> QED BY <2>1, AboveUnfolds DEF ZoneRow
<1>3. NoOne \notin Zone BY SetupAssumption
<1>4. Bad = {}
  <2> SUFFICES ASSUME Bad # {} PROVE FALSE OBVIOUS
  <2>1. PICK m \in Bad : \A k \in Bad : m <= k
    <3>1. Bad \in SUBSET Nat OBVIOUS
    <3> HIDE DEF Bad
    <3> QED BY <3>1, LeastNumber
  <2>2. m \in Nat /\ ~Seen(m) OBVIOUS
  <2> HIDE DEF Bad
  <2>3. Seen(0) BY <1>1, <1>2, <1>3
  <2>4. m # 0 BY <2>2, <2>3
  <2>5. m - 1 \in Nat /\ (m - 1) + 1 = m /\ ~(m <= m - 1) BY <2>2, <2>4
  <2>6. Seen(m - 1)
    <3>1. m - 1 \notin Bad BY <2>1, <2>5
    <3> QED BY <2>5, <3>1 DEF Bad
  <2>7. PICK z \in Zone : ~(z \in Below[m][s] <=> \E a \in Above[m][z] \ {NoOne} : s \in supervises[a]) BY <2>2
  <2>8. Below[m][s] = Below[m - 1][s] \cup {y \in Zone : row.zone[y].parent \in Below[m - 1][s]}
    <3>1. Below[(m - 1) + 1][s] = Below[m - 1][s] \cup {y \in Zone : row.zone[y].parent \in Below[m - 1][s]}
      BY <1>1, <2>5
    <3> QED BY <2>5, <3>1
  <2>9. Above[m][z] = {z} \cup Above[m - 1][row.zone[z].parent]
    <3>1. Above[(m - 1) + 1][z] = {z} \cup Above[m - 1][row.zone[z].parent] BY <1>2, <2>5
    <3> QED BY <2>5, <3>1
  <2>10. z \in Above[m - 1][z] /\ Above[m - 1][z] \subseteq Above[m][z]
    <3>1. z \in Above[m - 1][z] /\ Above[m - 1][z] \subseteq Above[(m - 1) + 1][z] BY <2>5, AboveGrows
    <3> QED BY <2>5, <3>1
  <2>11. ASSUME z \in Below[m][s] PROVE \E a \in Above[m][z] \ {NoOne} : s \in supervises[a]
    <3>1. CASE z \in Below[m - 1][s] BY <2>6, <2>10, <3>1
    <3>2. CASE row.zone[z].parent \in Below[m - 1][s]
      <4>1. row.zone[z].parent \in Zone BY <1>1, <2>5, <3>2
      <4> QED BY <2>6, <2>9, <3>2, <4>1
    <3> QED BY <2>8, <2>11, <3>1, <3>2
  <2>12. ASSUME NEW a \in Above[m][z] \ {NoOne}, s \in supervises[a] PROVE z \in Below[m][s]
    <3>1. CASE a = z BY <2>6, <2>8, <2>10, <2>12, <3>1
    <3>2. CASE a \in Above[m - 1][row.zone[z].parent]
      <4>1. row.zone[z].parent \in Zone
        <5>1. Above[m - 1][NoOne] = {NoOne} /\ row.zone[z].parent \in Zone \cup {NoOne} BY <1>2, <2>5
        <5> QED BY <3>2, <5>1
      <4>2. row.zone[z].parent \in Below[m - 1][s] BY <2>6, <2>12, <3>2, <4>1
      <4> QED BY <2>8, <4>2
    <3> QED BY <2>9, <3>1, <3>2
  <2> QED BY <2>7, <2>11, <2>12
<1>5. Seen(n) BY <1>4
<1> QED BY <1>1, <1>5

\* The walks of inspectionRequired end and agree with visibleZoneIds unless
\* two edits of zones overlapped, and the rooms, types and kits fit together
\* (ZonesAreATree, KitsAreUsable): for any hotel, requests and supervisors.
THEOREM HotelStaysTogether == SetupSpec => []HotelFitsTogether
<1>1. SetupInit => SetupInv BY SetupInvInit
<1>2. SetupInv /\ [SetupNext]_setupVars => SetupInv' BY SetupInvNext
<1>3. SetupInv => HotelFitsTogether
  <2> SUFFICES ASSUME SetupInv PROVE HotelFitsTogether OBVIOUS
  <2>1. row.zone \in [Zone -> ZoneRow] BY DEF SetupInv, SetupTypes
  <2>2. ASSUME {"zone"} \notin crossed PROVE \A z \in Zone : WalkEnds(z)
    <3>1. NoCircle BY <2>2 DEF SetupInv, ZonesInv
    <3> QED BY <2>1, <3>1, WalksEnd
  <2>3. ASSUME NEW s \in Supervisor
        PROVE  VisibleZoneIds(s) = {z \in Zone : \E a \in AncestorZones(z) : s \in supervises[a]}
    <3>1. Cardinality(Zone) \in Nat BY SetupAssumption, FS_CardinalityType
    <3>2. VisibleZoneIds(s) = Below[Cardinality(Zone)][s] BY SetupAssumption DEF VisibleZoneIds
    <3>3. Below[Cardinality(Zone)][s] = {z \in Zone : \E a \in Above[Cardinality(Zone)][z] \ {NoOne} : s \in supervises[a]}
      BY <2>1, <3>1, SeenFromAbove
    <3> QED BY <3>2, <3>3 DEF AncestorZones
  <2>4. ZonesAreATree BY <2>2, <2>3 DEF ZonesAreATree
  <2>5. ASSUME crossed \cap {{"type"}, {"type", "kit"}} = {}
        PROVE  \A t \in RoomType : row.type[t].active => row.type[t].kit # NoOne /\ row.kit[row.type[t].kit].active
    BY <2>5 DEF SetupInv, TypesInv, HasKit
  <2>6. ASSUME crossed \cap {{"product"}, {"kit", "product"}, {"kit", "unit"}, {"product", "unit"}} = {}
        PROVE  \A k \in Kit, p \in Product : row.kit[k].lines[p] > 0 =>
                 row.product[p].kind # "EQUIPMENT" /\ Fits(row.kit[k].lines[p], row.product[p].unit)
    <3>1. ~KitsCrossed BY <2>6 DEF KitsCrossed
    <3>2. \A k \in Kit : LinesFit(row.kit[k].lines) BY <3>1 DEF SetupInv, KitsInv
    <3> QED BY <3>2 DEF LinesFit
  <2>7. KitsAreUsable BY <2>5, <2>6 DEF KitsAreUsable
  <2> QED BY <2>4, <2>7 DEF HotelFitsTogether
<1> QED BY <1>1, <1>2, <1>3, PTL DEF SetupSpec

-----------------------------------------------------------------------------
(* The gates and their reports (access.service.ts,                         *)
(* access-report.service.ts).                                              *)

GateRow == [key : EventKey, employee : Visitor, type : AccessEventType, at : Nat, voided : BOOLEAN]
ScanRow == [pc : {"insert"}, key : EventKey, employee : Visitor, type : AccessEventType]

\* The tables of the gate have their shape, and nothing happened later than now.
GateTypes ==
  /\ accessEvents \in Seq(GateRow)
  /\ now \in 0..MaxGateTime
  /\ \A i \in DOMAIN accessEvents : accessEvents[i].at <= now
  /\ employed \in SUBSET Visitor
  /\ scan \in [Scan -> ScanRow \cup {NoScan}]

\* Events are in the order of their times.
GateOrdered == \A i, j \in DOMAIN accessEvents : i <= j => accessEvents[i].at <= accessEvents[j].at

\* One request at a time waits to insert, unless the history says otherwise,
\* and what it inserts is still what comes next.
ScansContinue ==
  \A r \in Scan, e \in Visitor \ (overlapped \cup tampered) : scan[r] # NoScan /\ scan[r].employee = e =>
    /\ scan[r].type = SuggestedType(e)
    /\ \A q \in Scan : scan[q] # NoScan /\ scan[q].employee = e => q = r

GateIsSound == GateTypes /\ GateOrdered /\ ScansContinue /\ GateAlternates

\* What GateAlternates says of one employee.
AlternatesFor(e) ==
  \A i \in ValidAt(e) :
    accessEvents[i].type = IF Earlier(ValidAt(e), i) = {} \/ accessEvents[Max(Earlier(ValidAt(e), i))].type = "EXIT"
                           THEN "ENTRY" ELSE "EXIT"

(* A set of positions has a greatest and a least one.                      *)
LEMMA OuterPositions ==
  ASSUME NEW n \in Nat, NEW S \in SUBSET (1..n), S # {}
  PROVE  /\ Max(S) \in S /\ \A j \in S : j <= Max(S)
         /\ Min(S) \in S /\ \A j \in S : j >= Min(S)
<1>1. \E x \in S : \A y \in S : x >= y
  <2> DEFINE T == {n - k : k \in S}
  <2>0. \A k \in S : n - k \in Nat OBVIOUS
  <2>1. T \in SUBSET Nat /\ T # {} BY <2>0
  <2>2. PICK m \in T : \A k \in T : m <= k
    <3> HIDE DEF T
    <3> QED BY <2>1, LeastNumber
  <2>3. PICK x \in S : m = n - x OBVIOUS
  <2>4. ASSUME NEW y \in S PROVE x >= y
    <3>1. n - x <= n - y BY <2>2, <2>3
    <3>2. x \in Int /\ y \in Int OBVIOUS
    <3> QED BY <3>1, <3>2
  <2> HIDE DEF T
  <2> QED BY <2>4
<1>2. Max(S) \in S /\ \A y \in S : Max(S) >= y BY <1>1 DEF Max
<1>3. S \in SUBSET Nat OBVIOUS
<1>4. \E x \in S : \A y \in S : x <= y BY <1>3, LeastNumber
<1>5. Min(S) \in S /\ \A y \in S : Min(S) <= y BY <1>4 DEF Min
<1>6. \A x \in S : x \in Int OBVIOUS
<1> QED BY <1>2, <1>5, <1>6

(* The events of an employee are some of the rows.                         *)
LEMMA EventsOfEmployee ==
  ASSUME GateTypes, NEW e
  PROVE  /\ Len(accessEvents) \in Nat /\ DOMAIN accessEvents = 1..Len(accessEvents)
         /\ ValidAt(e) \in SUBSET (1..Len(accessEvents)) /\ IsFiniteSet(DOMAIN accessEvents)
         /\ \A i \in DOMAIN accessEvents : accessEvents[i] \in GateRow
<1>1. accessEvents \in Seq(GateRow) BY DEF GateTypes
<1>2. Len(accessEvents) \in Nat /\ DOMAIN accessEvents = 1..Len(accessEvents) BY <1>1
<1>3. ValidAt(e) \in SUBSET (1..Len(accessEvents)) BY <1>2 DEF ValidAt
<1>4. IsFiniteSet(DOMAIN accessEvents)
  <2>1. PICK n \in Nat : n = Len(accessEvents) BY <1>2
  <2>2. IsFiniteSet(1..n) BY FS_Interval
  <2> QED BY <1>2, <2>1, <2>2
<1> QED BY <1>1, <1>2, <1>3, <1>4

(* The last event of an employee, and what comes next.                     *)
LEMMA NextEvent ==
  ASSUME GateTypes, NEW e
  PROVE  /\ ValidAt(e) = {} => SuggestedType(e) = "ENTRY"
         /\ ValidAt(e) # {} =>
              /\ Max(ValidAt(e)) \in ValidAt(e) /\ \A j \in ValidAt(e) : j <= Max(ValidAt(e))
              /\ SuggestedType(e) = IF accessEvents[Max(ValidAt(e))].type = "EXIT" THEN "ENTRY" ELSE "EXIT"
<1>1. ASSUME ValidAt(e) = {} PROVE SuggestedType(e) = "ENTRY"
  BY <1>1 DEF SuggestedType, HasOpenEntry, LastEventFor, None
<1>2. ASSUME ValidAt(e) # {}
      PROVE  /\ Max(ValidAt(e)) \in ValidAt(e) /\ \A j \in ValidAt(e) : j <= Max(ValidAt(e))
             /\ SuggestedType(e) = IF accessEvents[Max(ValidAt(e))].type = "EXIT" THEN "ENTRY" ELSE "EXIT"
  <2>1. Max(ValidAt(e)) \in ValidAt(e) /\ \A j \in ValidAt(e) : j <= Max(ValidAt(e))
    BY <1>2, EventsOfEmployee, OuterPositions
  <2>2. accessEvents[Max(ValidAt(e))] \in GateRow BY <2>1, EventsOfEmployee
  <2>3. accessEvents[Max(ValidAt(e))].type \in {"ENTRY", "EXIT"} BY <2>2 DEF GateRow, AccessEventType
  <2> QED BY <1>2, <2>1, <2>3 DEF SuggestedType, HasOpenEntry, LastEventFor
<1> QED BY <1>1, <1>2

(* Nothing changes for an employee whose events stay.                      *)
LEMMA EmployeeUntouched ==
  ASSUME GateTypes, NEW e, ValidAt(e)' = ValidAt(e),
         \A i \in ValidAt(e) : accessEvents'[i].type = accessEvents[i].type
  PROVE  /\ AlternatesFor(e) => AlternatesFor(e)'
         /\ SuggestedType(e)' = SuggestedType(e)
<1>1. ValidAt(e) # {} => Max(ValidAt(e)) \in ValidAt(e) BY NextEvent
<1>2. SuggestedType(e)' = SuggestedType(e) BY <1>1 DEF SuggestedType, HasOpenEntry, LastEventFor
<1>3. \A i \in ValidAt(e) : Earlier(ValidAt(e), i) # {} => Max(Earlier(ValidAt(e), i)) \in ValidAt(e)
  <2> SUFFICES ASSUME NEW i \in ValidAt(e), Earlier(ValidAt(e), i) # {}
               PROVE  Max(Earlier(ValidAt(e), i)) \in ValidAt(e)
    OBVIOUS
  <2>1. Earlier(ValidAt(e), i) \in SUBSET ValidAt(e) BY DEF Earlier
  <2>2. Earlier(ValidAt(e), i) \in SUBSET (1..Len(accessEvents)) /\ Len(accessEvents) \in Nat
    BY <2>1, EventsOfEmployee
  <2> QED BY <2>1, <2>2, OuterPositions
<1>4. AlternatesFor(e) => AlternatesFor(e)' BY <1>3 DEF AlternatesFor
<1> QED BY <1>2, <1>4

(* An event of the type that comes next continues the sequence.            *)
LEMMA EmployeeContinues ==
  ASSUME GateTypes, NEW e, NEW event \in GateRow, event.employee = e, ~event.voided, event.type = SuggestedType(e),
         accessEvents' = Append(accessEvents, event), AlternatesFor(e)
  PROVE  AlternatesFor(e)'
<1> DEFINE n == Len(accessEvents) + 1
           V == ValidAt(e)
<1>1. accessEvents \in Seq(GateRow) /\ Len(accessEvents) \in Nat BY EventsOfEmployee DEF GateTypes
<1>2. /\ DOMAIN accessEvents' = 1..n /\ accessEvents'[n] = event
      /\ \A i \in 1..Len(accessEvents) : accessEvents'[i] = accessEvents[i]
      /\ DOMAIN accessEvents = 1..Len(accessEvents)
  BY <1>1
<1>3. ValidAt(e)' = V \cup {n} BY <1>1, <1>2 DEF ValidAt
<1>4. V \in SUBSET (1..Len(accessEvents)) BY EventsOfEmployee
<1>5. Earlier(V \cup {n}, n) = V BY <1>1, <1>4 DEF Earlier
<1>6. \A i \in V : Earlier(V \cup {n}, i) = Earlier(V, i) BY <1>1, <1>4 DEF Earlier
<1>7. ASSUME NEW i \in V
      PROVE  accessEvents'[i].type = IF \/ Earlier(V \cup {n}, i) = {}
                                        \/ accessEvents'[Max(Earlier(V \cup {n}, i))].type = "EXIT"
                                     THEN "ENTRY" ELSE "EXIT"
  <2>1. accessEvents[i].type = IF Earlier(V, i) = {} \/ accessEvents[Max(Earlier(V, i))].type = "EXIT"
                               THEN "ENTRY" ELSE "EXIT"
    BY DEF AlternatesFor
  <2>2. Earlier(V, i) \in SUBSET (1..Len(accessEvents)) BY <1>4 DEF Earlier
  <2>3. Earlier(V, i) # {} => Max(Earlier(V, i)) \in 1..Len(accessEvents)
    BY <1>1, <2>2, OuterPositions
  <2>4. accessEvents'[i] = accessEvents[i] BY <1>2, <1>4
  <2>5. Earlier(V, i) # {} => accessEvents'[Max(Earlier(V, i))] = accessEvents[Max(Earlier(V, i))] BY <1>2, <2>3
  <2> HIDE DEF V, n
  <2> QED BY <1>6, <2>1, <2>4, <2>5
<1>8. accessEvents'[n].type = IF Earlier(V \cup {n}, n) = {} \/ accessEvents'[Max(Earlier(V \cup {n}, n))].type = "EXIT"
                              THEN "ENTRY" ELSE "EXIT"
  <2>1. CASE V = {}
    <3>1. SuggestedType(e) = "ENTRY" BY <2>1, NextEvent
    <3> QED BY <1>2, <1>5, <2>1, <3>1
  <2>2. CASE V # {}
    <3>1. /\ Max(V) \in V
          /\ SuggestedType(e) = IF accessEvents[Max(V)].type = "EXIT" THEN "ENTRY" ELSE "EXIT"
      BY <2>2, NextEvent
    <3>2. accessEvents'[Max(V)] = accessEvents[Max(V)] BY <1>2, <1>4, <3>1
    <3> HIDE DEF V, n
    <3> QED BY <1>2, <1>5, <2>2, <3>1, <3>2
  <2> QED BY <2>1, <2>2
<1> HIDE DEF V, n
<1> QED BY ZenonT(30), <1>3, <1>7, <1>8 DEF AlternatesFor

(* createEvent, check: the request that waits holds what comes next.       *)
LEMMA CheckIsSound ==
  ASSUME GateAssumption, GateIsSound,
         NEW r \in Scan, NEW key \in EventKey, NEW e \in Visitor, NEW type \in AccessEventType, NEW site \in Site,
         CheckEvent(r, key, e, type, site)
  PROVE  GateIsSound'
<1>1. PICK event \in ScanRow : /\ event = [pc |-> "insert", key |-> key, employee |-> e, type |-> type]
                               /\ scan' = [scan EXCEPT ![r] = event]
  BY DEF CheckEvent, ScanRow
<1>2. /\ accessEvents' = accessEvents /\ now' = now /\ employed' = employed /\ tampered' = tampered
      /\ scan[r] = NoScan /\ event.employee = e /\ event.type = type
  BY <1>1 DEF CheckEvent
<1>3. /\ scan \in [Scan -> ScanRow \cup {NoScan}]
      /\ scan' \in [Scan -> ScanRow \cup {NoScan}]
      /\ scan'[r] = event /\ \A q \in Scan \ {r} : scan'[q] = scan[q]
  BY <1>1, Zenon DEF GateIsSound, GateTypes
<1>4. \A v \in Visitor : /\ ValidAt(v)' = ValidAt(v) /\ SuggestedType(v)' = SuggestedType(v)
                          /\ AlternatesFor(v)' = AlternatesFor(v)
  BY <1>2 DEF ValidAt, SuggestedType, HasOpenEntry, LastEventFor, AlternatesFor
<1>5. GateTypes' /\ GateOrdered' BY <1>2, <1>3 DEF GateIsSound, GateTypes, GateOrdered
<1>6. overlapped \subseteq overlapped' BY DEF CheckEvent
<1>7. GateAlternates'
  <2>1. \A v \in Visitor \ (overlapped \cup tampered) : AlternatesFor(v)
    BY DEF GateIsSound, GateAlternates, AlternatesFor
  <2>2. \A v \in Visitor \ (overlapped' \cup tampered') : AlternatesFor(v)' BY <1>2, <1>4, <1>6, <2>1
  <2> QED BY <2>2 DEF GateAlternates, AlternatesFor
<1>8. ScansContinue'
  <2> SUFFICES ASSUME NEW q \in Scan, NEW v \in Visitor \ (overlapped' \cup tampered'),
                      scan'[q] # NoScan, scan'[q].employee = v
               PROVE  /\ scan'[q].type = SuggestedType(v)'
                      /\ \A p \in Scan : scan'[p] # NoScan /\ scan'[p].employee = v => p = q
    BY DEF ScansContinue
  <2>1. CASE q = r
    <3>1. \A p \in Scan : scan[p] # NoScan => scan[p].employee # e
      <4> SUFFICES ASSUME NEW p \in Scan, scan[p] # NoScan, scan[p].employee = e PROVE FALSE OBVIOUS
      <4>1. e \in overlapped' BY DEF CheckEvent
      <4> QED BY <1>2, <1>3, <2>1, <4>1
    <3>2. type = SuggestedType(e) BY DEF CheckEvent, InSequence
    <3> QED BY <1>2, <1>3, <1>4, <2>1, <3>1, <3>2
  <2>2. CASE q # r
    <3>1. scan'[q] = scan[q] BY <1>3, <2>2
    <3>2. v \notin overlapped \cup tampered BY <1>2, <1>6
    <3>3. /\ scan[q].type = SuggestedType(v)
          /\ \A p \in Scan : scan[p] # NoScan /\ scan[p].employee = v => p = q
      BY <3>1, <3>2 DEF GateIsSound, ScansContinue
    <3>4. ASSUME v = e PROVE FALSE
      <4>1. e \in overlapped' BY <3>1, <3>4 DEF CheckEvent
      <4> QED BY <3>1, <3>4, <4>1
    <3> QED BY <1>2, <1>3, <1>4, <3>1, <3>3, <3>4
  <2> QED BY <2>1, <2>2
<1> QED BY <1>5, <1>7, <1>8 DEF GateIsSound

(* createEvent, insert: the event continues the sequence, or its key has   *)
(* one.                                                                    *)
LEMMA InsertIsSound ==
  ASSUME GateAssumption, GateIsSound, NEW r \in Scan, InsertEvent(r)
  PROVE  GateIsSound'
<1>1. /\ scan' = [scan EXCEPT ![r] = NoScan] /\ scan[r].pc = "insert"
      /\ now' = now /\ employed' = employed /\ tampered' = tampered /\ overlapped' = overlapped
  BY DEF InsertEvent
<1>2. /\ scan \in [Scan -> ScanRow \cup {NoScan}]
      /\ scan' \in [Scan -> ScanRow \cup {NoScan}]
      /\ scan'[r] = NoScan /\ \A q \in Scan \ {r} : scan'[q] = scan[q]
  BY <1>1, Zenon DEF GateIsSound, GateTypes
<1>3. scan[r] # NoScan /\ scan[r] \in ScanRow BY <1>1, <1>2 DEF NoScan
<1>a. PICK s : s = scan[r] OBVIOUS
<1>4. s.employee \in Visitor /\ s.key \in EventKey /\ s.type \in AccessEventType BY <1>3, <1>a DEF ScanRow
<1>5. CASE Registered(s.key)
  <2>1. accessEvents' = accessEvents BY <1>5, <1>a DEF InsertEvent
  <2>2. \A v \in Visitor : SuggestedType(v)' = SuggestedType(v)
    BY <2>1 DEF ValidAt, SuggestedType, HasOpenEntry, LastEventFor
  <2>3. GateTypes' /\ GateOrdered' BY <1>1, <1>2, <2>1 DEF GateIsSound, GateTypes, GateOrdered
  <2>4. GateAlternates'
    <3>1. \A v \in Visitor : ValidAt(v)' = ValidAt(v) BY <2>1 DEF ValidAt
    <3> QED BY <1>1, <2>1, <3>1 DEF GateIsSound, GateAlternates
  <2>5. ScansContinue'
    <3> SUFFICES ASSUME NEW q \in Scan, NEW v \in Visitor \ (overlapped \cup tampered),
                        scan'[q] # NoScan, scan'[q].employee = v
                 PROVE  /\ scan'[q].type = SuggestedType(v)'
                        /\ \A p \in Scan : scan'[p] # NoScan /\ scan'[p].employee = v => p = q
      BY <1>1 DEF ScansContinue
    <3>1. q # r /\ scan'[q] = scan[q] BY <1>2
    <3>2. /\ scan[q].type = SuggestedType(v)
          /\ \A p \in Scan : scan[p] # NoScan /\ scan[p].employee = v => p = q
      BY <3>1 DEF GateIsSound, ScansContinue
    <3> QED BY <1>2, <2>2, <3>1, <3>2
  <2> QED BY <2>3, <2>4, <2>5 DEF GateIsSound
<1>6. CASE ~Registered(s.key)
  <2>0. now \in Nat BY DEF GateIsSound, GateTypes
  <2>1. PICK event \in GateRow : /\ accessEvents' = Append(accessEvents, event)
                                 /\ event.employee = s.employee /\ event.type = s.type /\ ~event.voided /\ event.at = now
    <3>1. [key |-> s.key, employee |-> s.employee, type |-> s.type, at |-> now, voided |-> FALSE] \in GateRow
      BY <1>4, <2>0 DEF GateRow
    <3>2. accessEvents' = Append(accessEvents, [key |-> s.key, employee |-> s.employee, type |-> s.type,
                                                at |-> now, voided |-> FALSE])
      BY <1>6, <1>a DEF InsertEvent
    <3> QED BY <3>1, <3>2
  <2> DEFINE n == Len(accessEvents) + 1
  <2>2. /\ accessEvents \in Seq(GateRow) /\ Len(accessEvents) \in Nat /\ DOMAIN accessEvents = 1..Len(accessEvents)
        /\ \A i \in DOMAIN accessEvents : accessEvents[i].at \in Nat /\ accessEvents[i].at <= now
    BY EventsOfEmployee DEF GateIsSound, GateTypes, GateRow
  <2>3. /\ accessEvents' \in Seq(GateRow)
        /\ DOMAIN accessEvents' = 1..n /\ accessEvents'[n] = event
        /\ \A i \in 1..Len(accessEvents) : accessEvents'[i] = accessEvents[i]
    BY <2>1, <2>2
  <2>4. ASSUME NEW i \in 1..n PROVE accessEvents'[i].at \in Nat /\ accessEvents'[i].at <= now
    BY <2>0, <2>1, <2>2, <2>3
  <2>5. GateTypes' BY <1>1, <1>2, <2>3, <2>4 DEF GateIsSound, GateTypes
  <2>6. GateOrdered'
    <3> SUFFICES ASSUME NEW i \in 1..n, NEW j \in 1..n, i <= j PROVE accessEvents'[i].at <= accessEvents'[j].at
      BY <2>3 DEF GateOrdered
    <3>1. CASE j = n BY <2>1, <2>3, <2>4, <3>1
    <3>2. CASE j # n
      <4>1. i \in 1..Len(accessEvents) /\ j \in 1..Len(accessEvents) BY <2>2, <3>2
      <4> QED BY <2>2, <2>3, <4>1 DEF GateIsSound, GateOrdered
    <3> QED BY <3>1, <3>2
  <2>7. ASSUME NEW v \in Visitor, v # s.employee
        PROVE  (AlternatesFor(v) => AlternatesFor(v)') /\ SuggestedType(v)' = SuggestedType(v)
    <3>1. ValidAt(v)' = ValidAt(v)
      <4> HIDE DEF n
      <4>1. n = Len(accessEvents) + 1 BY DEF n
      <4> QED BY <2>1, <2>2, <2>3, <2>7, <4>1 DEF ValidAt
    <3>2. \A i \in ValidAt(v) : accessEvents'[i].type = accessEvents[i].type BY <2>2, <2>3 DEF ValidAt
    <3> QED BY <3>1, <3>2, EmployeeUntouched DEF GateIsSound
  <2>8. ASSUME s.employee \notin overlapped \cup tampered
        PROVE  AlternatesFor(s.employee)' /\ \A q \in Scan : scan[q] # NoScan /\ scan[q].employee = s.employee => q = r
    <3>1. /\ s.type = SuggestedType(s.employee)
          /\ \A q \in Scan : scan[q] # NoScan /\ scan[q].employee = s.employee => q = r
      BY <1>3, <1>4, <1>a, <2>8 DEF GateIsSound, ScansContinue
    <3>2. AlternatesFor(s.employee) BY <1>4, <2>8 DEF GateIsSound, GateAlternates, AlternatesFor
    <3> QED BY <2>1, <3>1, <3>2, EmployeeContinues DEF GateIsSound
  <2>9. GateAlternates'
    <3>1. \A v \in Visitor \ (overlapped \cup tampered) : AlternatesFor(v)
      BY DEF GateIsSound, GateAlternates, AlternatesFor
    <3>2. \A v \in Visitor \ (overlapped \cup tampered) : AlternatesFor(v)' BY <2>7, <2>8, <3>1
    <3> QED BY <1>1, <3>2 DEF GateAlternates, AlternatesFor
  <2>10. ScansContinue'
    <3> SUFFICES ASSUME NEW q \in Scan, NEW v \in Visitor \ (overlapped \cup tampered),
                        scan'[q] # NoScan, scan'[q].employee = v
                 PROVE  /\ scan'[q].type = SuggestedType(v)'
                        /\ \A p \in Scan : scan'[p] # NoScan /\ scan'[p].employee = v => p = q
      BY <1>1 DEF ScansContinue
    <3>1. q # r /\ scan'[q] = scan[q] BY <1>2
    <3>2. /\ scan[q].type = SuggestedType(v)
          /\ \A p \in Scan : scan[p] # NoScan /\ scan[p].employee = v => p = q
      BY <3>1 DEF GateIsSound, ScansContinue
    <3>3. v # s.employee BY <1>3, <1>a, <3>1, <3>2
    <3> QED BY <1>2, <2>7, <3>1, <3>2, <3>3
  <2> QED BY <2>5, <2>6, <2>9, <2>10 DEF GateIsSound
<1> QED BY <1>5, <1>6

(* voidEvent: only the employee of the event is no longer told to          *)
(* alternate.                                                              *)
LEMMA VoidIsSound ==
  ASSUME GateAssumption, GateIsSound, NEW k \in DOMAIN accessEvents, VoidEvent(k)
  PROVE  GateIsSound'
<1>1. /\ now' = now /\ employed' = employed /\ scan' = scan /\ overlapped' = overlapped
      /\ tampered' = tampered \cup {accessEvents[k].employee}
      /\ accessEvents' = [accessEvents EXCEPT ![k].voided = TRUE]
  BY DEF VoidEvent
<1>2. accessEvents \in Seq(GateRow) /\ Len(accessEvents) \in Nat /\ DOMAIN accessEvents = 1..Len(accessEvents)
  BY EventsOfEmployee DEF GateIsSound, GateTypes
<1>3. PICK event : event = [accessEvents[k] EXCEPT !.voided = TRUE] OBVIOUS
<1>4. accessEvents[k] \in GateRow BY <1>2
<1>5. /\ event \in GateRow /\ event.at = accessEvents[k].at
      /\ event.type = accessEvents[k].type /\ event.employee = accessEvents[k].employee
  BY <1>3, <1>4 DEF GateRow
<1>6. accessEvents' = [accessEvents EXCEPT ![k] = event] BY <1>1, <1>3
<1>7. /\ accessEvents' \in Seq(GateRow) /\ DOMAIN accessEvents' = DOMAIN accessEvents
      /\ accessEvents'[k] = event /\ \A i \in DOMAIN accessEvents \ {k} : accessEvents'[i] = accessEvents[i]
  BY <1>2, <1>5, <1>6
<1>8. \A i \in DOMAIN accessEvents : /\ accessEvents'[i].at = accessEvents[i].at
                                     /\ accessEvents'[i].type = accessEvents[i].type
  BY <1>5, <1>7
<1>9. GateTypes' /\ GateOrdered' BY <1>1, <1>7, <1>8 DEF GateIsSound, GateTypes, GateOrdered
<1>10. ASSUME NEW v \in Visitor, v \notin tampered'
       PROVE  (AlternatesFor(v) => AlternatesFor(v)') /\ SuggestedType(v)' = SuggestedType(v)
  <2>1. v # accessEvents[k].employee BY <1>1, <1>10
  <2>2. ValidAt(v)' = ValidAt(v) BY <1>5, <1>7, <2>1 DEF ValidAt
  <2>3. \A i \in ValidAt(v) : accessEvents'[i].type = accessEvents[i].type BY <1>8 DEF ValidAt
  <2> QED BY <2>2, <2>3, EmployeeUntouched DEF GateIsSound
<1>11. GateAlternates'
  <2>1. \A v \in Visitor \ (overlapped \cup tampered) : AlternatesFor(v)
    BY DEF GateIsSound, GateAlternates, AlternatesFor
  <2>2. \A v \in Visitor \ (overlapped' \cup tampered') : AlternatesFor(v)' BY <1>1, <1>10, <2>1
  <2> QED BY <2>2 DEF GateAlternates, AlternatesFor
<1>12. ScansContinue'
  <2> SUFFICES ASSUME NEW q \in Scan, NEW v \in Visitor \ (overlapped \cup tampered'),
                      scan[q] # NoScan, scan[q].employee = v
               PROVE  /\ scan[q].type = SuggestedType(v)'
                      /\ \A p \in Scan : scan[p] # NoScan /\ scan[p].employee = v => p = q
    BY <1>1 DEF ScansContinue
  <2>1. /\ scan[q].type = SuggestedType(v)
        /\ \A p \in Scan : scan[p] # NoScan /\ scan[p].employee = v => p = q
    BY <1>1 DEF GateIsSound, ScansContinue
  <2> QED BY <1>10, <2>1
<1> QED BY <1>9, <1>11, <1>12 DEF GateIsSound

(* The steps of the office, and time.                                      *)
LEMMA RestOfGateIsSound ==
  ASSUME GateAssumption, GateIsSound,
         \/ \E site \in Site : UpdateSite(site)
         \/ \E e \in Visitor : SetEmployed(e)
         \/ TimePasses
         \/ UNCHANGED gateVars
  PROVE  GateIsSound'
<1>1. /\ accessEvents' = accessEvents /\ scan' = scan /\ overlapped' = overlapped /\ tampered' = tampered
      /\ employed' \in SUBSET Visitor /\ now' \in 0..MaxGateTime /\ now <= now'
  <2>1. employed \in SUBSET Visitor /\ now \in 0..MaxGateTime /\ MaxGateTime \in Nat
    BY DEF GateIsSound, GateTypes, GateAssumption
  <2>2. CASE \E site \in Site : UpdateSite(site) BY <2>1, <2>2 DEF UpdateSite
  <2>3. CASE \E e \in Visitor : SetEmployed(e) BY <2>1, <2>3 DEF SetEmployed
  <2>4. CASE TimePasses BY <2>1, <2>4 DEF TimePasses
  <2>5. CASE UNCHANGED gateVars BY <2>1, <2>5 DEF gateVars
  <2> QED BY <2>2, <2>3, <2>4, <2>5
<1>2. \A i \in DOMAIN accessEvents : accessEvents[i].at \in Nat /\ accessEvents[i].at <= now /\ now \in Nat
  <2>1. GateTypes BY DEF GateIsSound
  <2>2. \A i \in DOMAIN accessEvents : accessEvents[i] \in GateRow BY <2>1, EventsOfEmployee
  <2> QED BY <2>1, <2>2 DEF GateTypes, GateRow
<1>3. \A i \in DOMAIN accessEvents : accessEvents[i].at <= now' BY <1>1, <1>2
<1>4. GateTypes' BY <1>1, <1>3 DEF GateIsSound, GateTypes
<1>5. \A v \in Visitor : ValidAt(v)' = ValidAt(v) /\ SuggestedType(v)' = SuggestedType(v)
  BY <1>1 DEF ValidAt, SuggestedType, HasOpenEntry, LastEventFor
<1>6. GateOrdered' BY <1>1 DEF GateIsSound, GateOrdered
<1>7. ScansContinue' BY <1>1, <1>5 DEF GateIsSound, ScansContinue
<1>8. GateAlternates' BY <1>1, <1>5 DEF GateIsSound, GateAlternates
<1> QED BY <1>4, <1>6, <1>7, <1>8 DEF GateIsSound

(* The invariant holds from the start and is kept.                         *)
LEMMA GateStaysSound ==
  ASSUME GateAssumption
  PROVE  GateSpec => []GateIsSound
<1>1. GateInit => GateIsSound
  <2> SUFFICES ASSUME GateInit PROVE GateIsSound OBVIOUS
  <2>1. accessEvents = <<>> /\ now = 0 /\ employed \in SUBSET Visitor /\ scan = [r \in Scan |-> NoScan] BY DEF GateInit
  <2>2. DOMAIN accessEvents = {} /\ accessEvents \in Seq(GateRow) BY <2>1
  <2>3. GateTypes BY <2>1, <2>2 DEF GateTypes, GateAssumption
  <2>4. GateOrdered BY <2>2 DEF GateOrdered
  <2>5. ScansContinue BY <2>1 DEF ScansContinue
  <2>6. GateAlternates BY <2>2 DEF GateAlternates, ValidAt
  <2> QED BY <2>3, <2>4, <2>5, <2>6 DEF GateIsSound
<1>2. GateIsSound /\ [GateNext]_gateVars => GateIsSound'
  <2> SUFFICES ASSUME GateIsSound, [GateNext]_gateVars PROVE GateIsSound' OBVIOUS
  <2> USE GateAssumption
  <2>1. ASSUME NEW r \in Scan, InsertEvent(r) PROVE GateIsSound' BY <2>1, InsertIsSound
  <2>2. ASSUME NEW r \in Scan, NEW key \in EventKey, NEW e \in Visitor, NEW type \in AccessEventType, NEW site \in Site,
               CheckEvent(r, key, e, type, site)
        PROVE  GateIsSound'
    BY <2>2, CheckIsSound
  <2>3. ASSUME NEW i \in DOMAIN accessEvents, VoidEvent(i) PROVE GateIsSound' BY <2>3, VoidIsSound
  <2>4. ASSUME NEW site \in Site, UpdateSite(site) PROVE GateIsSound' BY <2>4, RestOfGateIsSound
  <2>5. ASSUME NEW e \in Visitor, SetEmployed(e) PROVE GateIsSound' BY <2>5, RestOfGateIsSound
  <2>6. CASE TimePasses BY <2>6, RestOfGateIsSound
  <2>7. CASE UNCHANGED gateVars BY <2>7, RestOfGateIsSound
  <2> QED BY <2>1, <2>2, <2>3, <2>4, <2>5, <2>6, <2>7 DEF GateNext
<1> QED BY <1>1, <1>2, PTL DEF GateSpec

(* A time is in the period of a day exactly when it divides to that day,   *)
(* and the days around it are loaded with it.                              *)
LEMMA DayOfTime ==
  ASSUME GateAssumption, NEW a \in Nat, NEW d \in Nat
  PROVE  LET range == Period(d, 1)
         IN  /\ a \div GATE_DAY \in Nat
             /\ InRange(a, range) <=> a \div GATE_DAY = d
             /\ a \div GATE_DAY \in {d - 1, d, d + 1} =>
                  a >= range.start - LOOKBACK_DAYS * GATE_DAY /\ a < range.end + GATE_DAY
<1>1. PICK G \in Nat \ {0} : G = GATE_DAY BY DEF GateAssumption
<1>2. PICK L \in Nat \ {0} : L = LOOKBACK_DAYS BY DEF GateAssumption
<1>3. PICK q \in Nat : q = a \div G BY SMT
<1>4. q * G <= a /\ a < q * G + G BY <1>3, SMT
<1>5. PICK s \in Nat : s = d * G BY SMT
<1>6. (d + 1) * G = s + G BY <1>5, SMT
<1>7. Period(d, 1).start = s /\ Period(d, 1).end = s + G BY <1>1, <1>5, <1>6 DEF Period
<1>8. InRange(a, Period(d, 1)) <=> a >= s /\ a < s + G BY <1>7 DEF InRange
<1>9. q = d => a >= s /\ a < s + G BY <1>4, <1>5, SMT
<1>10. q < d => a < s
  <2> SUFFICES ASSUME q < d PROVE a < s OBVIOUS
  <2>1. q + 1 <= d OBVIOUS
  <2>2. (q + 1) * G <= d * G BY <2>1, SMT
  <2>3. (q + 1) * G = q * G + G BY SMT
  <2> QED BY <1>4, <1>5, <2>2, <2>3, SMT
<1>11. q > d => a >= s + G
  <2> SUFFICES ASSUME q > d PROVE a >= s + G OBVIOUS
  <2>1. (d + 1) * G <= q * G BY SMT
  <2> QED BY <1>4, <1>6, <2>1, SMT
<1>12. L * G >= G /\ L * G \in Nat BY SMT
<1>13. q = d - 1 => a >= s - G
  <2> SUFFICES ASSUME q = d - 1 PROVE a >= s - G OBVIOUS
  <2>1. d * G = (d - 1) * G + G BY SMT
  <2> QED BY <1>4, <1>5, <2>1, SMT
<1>14. q = d + 1 => a < s + G + G
  <2> SUFFICES ASSUME q = d + 1 PROVE a < s + G + G OBVIOUS
  <2> QED BY <1>4, <1>6, SMT
<1>15. q \in {d - 1, d, d + 1} => a >= s - L * G /\ a < s + G + G
  <2>1. L * G \in Int /\ s \in Int /\ G \in Int /\ a \in Int BY <1>12
  <2>2. CASE q = d - 1
    <3>1. q < d BY <2>2
    <3>2. a < s BY <1>10, <3>1
    <3> QED BY <1>12, <1>13, <2>1, <2>2, <3>2
  <2>3. CASE q = d BY <1>9, <1>12, <2>1, <2>3
  <2>4. CASE q = d + 1
    <3>1. a >= s + G BY <1>11, <2>4
    <3> QED BY <1>12, <1>14, <2>1, <2>4, <3>1
  <2> QED BY <2>2, <2>3, <2>4
<1>16. InRange(a, Period(d, 1)) <=> q = d
  <2>1. s \in Int /\ G \in Int /\ a \in Int /\ q \in Int /\ d \in Int OBVIOUS
  <2> QED BY <1>8, <1>9, <1>10, <1>11, <2>1
<1> QED BY <1>1, <1>2, <1>3, <1>7, <1>15, <1>16

\* The report of everything, and the events that begin its sessions.
Everything == Period(0, Days)
Begins(e) == {i \in ValidAt(e) : ~Closes(ValidAt(e), i)}
\* The session that an event begins.
Whole(i) == SessionFrom(ValidAt(accessEvents[i].employee), i, Everything)
\* What a report shows of a session.
Shows(s, t) == s.entry = t.entry /\ s.exit = t.exit /\ s.worked = t.worked

(* The sessions in the window of a report.                                 *)
LEMMA WindowIs ==
  ASSUME NEW e, NEW range
  PROVE  LET loaded == LoadEvents(e, range)
         IN  InWindow(e, range) = [i \in {j \in loaded : ~Closes(loaded, j) /\ InRange(accessEvents[j].at, range)} |->
                                     SessionFrom(loaded, i, range)]
<1> DEFINE loaded == LoadEvents(e, range)
           open == {j \in loaded : ~Closes(loaded, j)}
           window == {j \in loaded : ~Closes(loaded, j) /\ InRange(accessEvents[j].at, range)}
<1>1. PICK sessions : sessions = [i \in open |-> SessionFrom(loaded, i, range)] OBVIOUS
<1>2. Pair(e, range) = sessions BY <1>1 DEF Pair
<1>3. InWindow(e, range) = [i \in {j \in DOMAIN sessions : InRange(accessEvents[j].at, range)} |-> sessions[i]]
  BY <1>2 DEF InWindow, Restrict
<1>4. {j \in DOMAIN sessions : InRange(accessEvents[j].at, range)} = window BY <1>1
<1>5. \A i \in window : sessions[i] = SessionFrom(loaded, i, range) BY <1>1
<1> HIDE DEF window, loaded
<1>6. InWindow(e, range) = [i \in window |-> SessionFrom(loaded, i, range)] BY <1>3, <1>4, <1>5
<1> QED BY <1>6 DEF window, loaded

(* A row of the table.                                                     *)
LEMMA RowsAreTyped ==
  ASSUME GateTypes, NEW i \in DOMAIN accessEvents
  PROVE  /\ accessEvents[i].at \in Nat /\ accessEvents[i].at <= now /\ accessEvents[i].employee \in Visitor
         /\ accessEvents[i].type \in {"ENTRY", "EXIT"}
<1>1. accessEvents[i] \in GateRow BY EventsOfEmployee
<1> QED BY <1>1 DEF GateTypes, GateRow, AccessEventType

(* The report of everything loads everything.                              *)
LEMMA EverythingIsLoaded ==
  ASSUME GateAssumption, GateTypes, NEW e
  PROVE  /\ LoadEvents(e, Everything) = ValidAt(e)
         /\ \A i \in DOMAIN accessEvents : InRange(accessEvents[i].at, Everything)
         /\ \A i \in DOMAIN accessEvents : GateDay(i) \in 0..(Days - 1)
         /\ Days \in Nat \ {0}
<1>1. PICK G \in Nat \ {0} : G = GATE_DAY BY DEF GateAssumption
<1>2. PICK L \in Nat \ {0} : L = LOOKBACK_DAYS BY DEF GateAssumption
<1>3. PICK m \in Nat : m = MaxGateTime BY DEF GateAssumption
<1>4. PICK q \in Nat : q = m \div G BY SMT
<1>5. m < q * G + G /\ q * G <= m BY <1>4, SMT
<1>6. Days = q + 1 BY <1>1, <1>3, <1>4 DEF Days
<1>7. Everything.start = 0 /\ Everything.end = (q + 1) * G BY <1>1, <1>6 DEF Everything, Period
<1>8. (q + 1) * G = q * G + G /\ L * G \in Nat /\ q * G \in Nat BY SMT
<1>9. ASSUME NEW i \in DOMAIN accessEvents
      PROVE  /\ accessEvents[i].at \in Nat /\ accessEvents[i].at < (q + 1) * G
             /\ GateDay(i) \in 0..q
  <2>1. PICK a \in Nat : a = accessEvents[i].at BY RowsAreTyped
  <2>2. a <= now /\ now \in 0..m BY <1>3, <2>1, RowsAreTyped DEF GateTypes
  <2>3. a <= m BY <2>2
  <2>4. PICK d \in Nat : d = a \div G BY SMT
  <2>5. d * G <= a BY <2>4, SMT
  <2>6. d <= q
    <3> SUFFICES ASSUME d > q PROVE FALSE BY SMT
    <3>1. (q + 1) * G <= d * G BY SMT
    <3> QED BY <1>5, <1>8, <2>3, <2>5, <3>1, SMT
  <2>7. a < (q + 1) * G BY <1>5, <1>8, <2>3, SMT
  <2> QED BY <1>1, <2>1, <2>4, <2>6, <2>7 DEF GateDay
<1>10. ASSUME NEW i \in DOMAIN accessEvents PROVE InRange(accessEvents[i].at, Everything)
  BY <1>7, <1>9 DEF InRange
<1>11. LoadEvents(e, Everything) = ValidAt(e)
  <2> SUFFICES ASSUME NEW i \in ValidAt(e)
               PROVE  /\ accessEvents[i].at >= Everything.start - LOOKBACK_DAYS * GATE_DAY
                      /\ accessEvents[i].at < Everything.end + GATE_DAY
    BY DEF LoadEvents
  <2>1. i \in DOMAIN accessEvents BY DEF ValidAt
  <2>2. PICK a \in Nat : a = accessEvents[i].at BY <1>9, <2>1
  <2>3. PICK z \in Nat : z = (q + 1) * G BY <1>8
  <2>4. a < z BY <1>9, <2>1, <2>2, <2>3
  <2>5. PICK y \in Nat : y = L * G BY <1>8
  <2>6. a >= 0 - y /\ a < z + G BY <2>4
  <2> QED BY <1>1, <1>2, <1>7, <2>2, <2>3, <2>5, <2>6
<1>12. Days - 1 = q /\ Days \in Nat \ {0} BY <1>6
<1> QED BY <1>9, <1>10, <1>11, <1>12

(* What a report loads is one stretch of the events.                       *)
LEMMA LoadedBetween ==
  ASSUME GateAssumption, GateTypes, NEW e, NEW d \in Nat,
         NEW i \in LoadEvents(e, Period(d, 1)), NEW k \in LoadEvents(e, Period(d, 1)), NEW j \in ValidAt(e),
         accessEvents[i].at <= accessEvents[j].at, accessEvents[j].at <= accessEvents[k].at
  PROVE  j \in LoadEvents(e, Period(d, 1))
<1>1. PICK from \in Int : from = Period(d, 1).start - LOOKBACK_DAYS * GATE_DAY BY DEF Period, GateAssumption
<1>2. PICK to \in Int : to = Period(d, 1).end + GATE_DAY BY DEF Period, GateAssumption
<1>3. i \in ValidAt(e) /\ k \in ValidAt(e) BY DEF LoadEvents
<1>4. accessEvents[i].at \in Nat /\ accessEvents[j].at \in Nat /\ accessEvents[k].at \in Nat
  BY <1>3, RowsAreTyped DEF ValidAt
<1>5. accessEvents[i].at >= from /\ accessEvents[k].at < to BY <1>1, <1>2 DEF LoadEvents
<1>6. accessEvents[j].at >= from /\ accessEvents[j].at < to BY <1>4, <1>5
<1> QED BY <1>1, <1>2, <1>6 DEF LoadEvents

(* The event right before another, and right after, among the events of an *)
(* employee and among those that a report of a day loads.                  *)
LEMMA DayNeighbours ==
  ASSUME GateAssumption, GateTypes, GateOrdered, NEW e, NEW d \in Nat, NEW i \in ValidAt(e), GateDay(i) = d
  PROVE  LET V == ValidAt(e)
             D == LoadEvents(e, Period(d, 1))
         IN  /\ i \in D
             /\ Earlier(V, i) # {} =>
                  /\ Max(Earlier(V, i)) \in V /\ GateDay(Max(Earlier(V, i))) <= d
                  /\ GateDay(Max(Earlier(V, i))) >= d - 1 =>
                       Earlier(D, i) # {} /\ Max(Earlier(D, i)) = Max(Earlier(V, i))
                  /\ Earlier(D, i) = {} \/ Max(Earlier(D, i)) = Max(Earlier(V, i))
             /\ Earlier(V, i) = {} => Earlier(D, i) = {}
             /\ Later(V, i) # {} =>
                  /\ Min(Later(V, i)) \in V /\ GateDay(Min(Later(V, i))) >= d
                  /\ GateDay(Min(Later(V, i))) <= d + 1 =>
                       Later(D, i) # {} /\ Min(Later(D, i)) = Min(Later(V, i))
                  /\ Later(D, i) = {} \/ Min(Later(D, i)) = Min(Later(V, i))
             /\ Later(V, i) = {} => Later(D, i) = {}
<1> DEFINE V == ValidAt(e)
           D == LoadEvents(e, Period(d, 1))
           n == Len(accessEvents)
<1>1. n \in Nat /\ DOMAIN accessEvents = 1..n /\ V \in SUBSET (1..n) BY EventsOfEmployee
<1>2. D \in SUBSET V BY DEF LoadEvents
<1>3. ASSUME NEW j \in V, GateDay(j) \in {d - 1, d, d + 1} PROVE j \in D
  <2>1. accessEvents[j].at \in Nat BY <1>1, RowsAreTyped
  <2> QED BY <1>3, <2>1, DayOfTime DEF GateDay, LoadEvents
<1>4. ASSUME NEW j \in V, NEW k \in V, j <= k PROVE GateDay(j) <= GateDay(k) /\ GateDay(j) \in Nat
  <2>1. PICK a \in Nat : a = accessEvents[j].at BY <1>1, RowsAreTyped
  <2>2. PICK b \in Nat : b = accessEvents[k].at BY <1>1, RowsAreTyped
  <2>3. a <= b BY <1>1, <1>4, <2>1, <2>2 DEF GateOrdered
  <2>4. PICK G \in Nat \ {0} : G = GATE_DAY BY DEF GateAssumption
  <2>5. a \div G <= b \div G /\ a \div G \in Nat BY <2>3, SMT
  <2> QED BY <2>1, <2>2, <2>4, <2>5 DEF GateDay
<1>5. i \in D BY <1>3
<1>6. \A j \in V, k \in V : j \in Int /\ k \in Int BY <1>1
<1>7. ASSUME Earlier(V, i) # {}
      PROVE  /\ Max(Earlier(V, i)) \in V /\ Max(Earlier(V, i)) < i /\ GateDay(Max(Earlier(V, i))) <= d
             /\ \A j \in Earlier(V, i) : j <= Max(Earlier(V, i))
             /\ GateDay(Max(Earlier(V, i))) \in Nat
  <2>1. Earlier(V, i) \in SUBSET V BY DEF Earlier
  <2>2. Earlier(V, i) \in SUBSET (1..n) BY <1>1, <2>1
  <2>3. Max(Earlier(V, i)) \in Earlier(V, i) /\ \A j \in Earlier(V, i) : j <= Max(Earlier(V, i))
    BY <1>1, <1>7, <2>2, OuterPositions
  <2>4. Max(Earlier(V, i)) \in V /\ Max(Earlier(V, i)) < i BY <2>3 DEF Earlier
  <2>5. Max(Earlier(V, i)) <= i BY <1>6, <2>4
  <2>6. GateDay(Max(Earlier(V, i))) <= d /\ GateDay(Max(Earlier(V, i))) \in Nat BY <1>4, <2>4, <2>5
  <2> QED BY <2>3, <2>4, <2>6
<1>8. ASSUME Later(V, i) # {}
      PROVE  /\ Min(Later(V, i)) \in V /\ Min(Later(V, i)) > i /\ GateDay(Min(Later(V, i))) >= d
             /\ \A j \in Later(V, i) : j >= Min(Later(V, i))
             /\ GateDay(Min(Later(V, i))) \in Nat
  <2>1. Later(V, i) \in SUBSET V BY DEF Later
  <2>2. Later(V, i) \in SUBSET (1..n) BY <1>1, <2>1
  <2>3. Min(Later(V, i)) \in Later(V, i) /\ \A j \in Later(V, i) : j >= Min(Later(V, i))
    BY <1>1, <1>8, <2>2, OuterPositions
  <2>4. Min(Later(V, i)) \in V /\ Min(Later(V, i)) > i BY <2>3 DEF Later
  <2>5. i <= Min(Later(V, i)) BY <1>6, <2>4
  <2>6. GateDay(i) <= GateDay(Min(Later(V, i))) /\ GateDay(i) \in Nat BY <1>4, <2>4, <2>5
  <2>7. GateDay(Min(Later(V, i))) \in Nat BY <1>4, <1>6, <2>4
  <2> QED BY <2>3, <2>4, <2>6, <2>7
<1>9. ASSUME Earlier(D, i) # {}
      PROVE  /\ Max(Earlier(D, i)) \in Earlier(D, i) /\ \A j \in Earlier(D, i) : j <= Max(Earlier(D, i))
             /\ Earlier(D, i) \subseteq Earlier(V, i)
  <2>1. Earlier(D, i) \in SUBSET D /\ Earlier(D, i) \subseteq Earlier(V, i) BY <1>2 DEF Earlier
  <2>2. Earlier(D, i) \in SUBSET (1..n) BY <1>1, <1>2, <2>1
  <2> QED BY <1>1, <1>9, <2>1, <2>2, OuterPositions
<1>10. ASSUME Later(D, i) # {}
       PROVE  /\ Min(Later(D, i)) \in Later(D, i) /\ \A j \in Later(D, i) : j >= Min(Later(D, i))
              /\ Later(D, i) \subseteq Later(V, i)
  <2>1. Later(D, i) \in SUBSET D /\ Later(D, i) \subseteq Later(V, i) BY <1>2 DEF Later
  <2>2. Later(D, i) \in SUBSET (1..n) BY <1>1, <1>2, <2>1
  <2> QED BY <1>1, <1>10, <2>1, <2>2, OuterPositions
<1>11. ASSUME Earlier(V, i) # {}, Max(Earlier(V, i)) \in D
       PROVE  Earlier(D, i) # {} /\ Max(Earlier(D, i)) = Max(Earlier(V, i))
  <2>1. Max(Earlier(V, i)) \in Earlier(D, i) BY <1>7, <1>11 DEF Earlier
  <2>2. Max(Earlier(V, i)) <= Max(Earlier(D, i)) /\ Max(Earlier(D, i)) <= Max(Earlier(V, i))
    BY <1>7, <1>9, <1>11, <2>1
  <2>3. Max(Earlier(D, i)) \in V BY <1>2, <1>9, <2>1 DEF Earlier
  <2> QED BY <1>6, <1>7, <1>11, <2>1, <2>2, <2>3
<1>12. ASSUME Later(V, i) # {}, Min(Later(V, i)) \in D
       PROVE  Later(D, i) # {} /\ Min(Later(D, i)) = Min(Later(V, i))
  <2>1. Min(Later(V, i)) \in Later(D, i) BY <1>8, <1>12 DEF Later
  <2>2. Min(Later(V, i)) >= Min(Later(D, i)) /\ Min(Later(D, i)) >= Min(Later(V, i))
    BY <1>8, <1>10, <1>12, <2>1
  <2>3. Min(Later(D, i)) \in V BY <1>2, <1>10, <2>1 DEF Later
  <2> QED BY <1>6, <1>8, <1>12, <2>1, <2>2, <2>3
<1>13. ASSUME Earlier(V, i) # {}, Earlier(D, i) # {} PROVE Max(Earlier(V, i)) \in D
  <2>1. PICK k \in Earlier(D, i) : TRUE BY <1>13
  <2>2. k \in V /\ k \in D /\ k <= Max(Earlier(V, i)) BY <1>2, <1>7, <1>13, <2>1 DEF Earlier
  <2>3. accessEvents[k].at <= accessEvents[Max(Earlier(V, i))].at BY <1>1, <1>7, <1>13, <2>2 DEF GateOrdered
  <2>4. accessEvents[Max(Earlier(V, i))].at <= accessEvents[i].at
    <3>1. Max(Earlier(V, i)) <= i BY <1>6, <1>7, <1>13
    <3> QED BY <1>1, <1>7, <1>13, <3>1 DEF GateOrdered
  <2> QED BY <1>1, <1>5, <1>7, <1>13, <2>2, <2>3, <2>4, LoadedBetween
<1>14. ASSUME Later(V, i) # {}, Later(D, i) # {} PROVE Min(Later(V, i)) \in D
  <2>1. PICK k \in Later(D, i) : TRUE BY <1>14
  <2>2. k \in V /\ k \in D /\ k >= Min(Later(V, i)) BY <1>2, <1>8, <1>14, <2>1 DEF Later
  <2>3. accessEvents[Min(Later(V, i))].at <= accessEvents[k].at
    <3>1. Min(Later(V, i)) <= k BY <1>6, <1>8, <1>14, <2>2
    <3> QED BY <1>1, <1>8, <1>14, <2>2, <3>1 DEF GateOrdered
  <2>4. accessEvents[i].at <= accessEvents[Min(Later(V, i))].at
    <3>1. i <= Min(Later(V, i)) BY <1>6, <1>8, <1>14
    <3> QED BY <1>1, <1>8, <1>14, <3>1 DEF GateOrdered
  <2> QED BY <1>1, <1>5, <1>8, <1>14, <2>2, <2>3, <2>4, LoadedBetween
<1>15. Earlier(D, i) \subseteq Earlier(V, i) /\ Later(D, i) \subseteq Later(V, i) BY <1>2 DEF Earlier, Later
<1>16. ASSUME Earlier(V, i) # {}, GateDay(Max(Earlier(V, i))) >= d - 1 PROVE Max(Earlier(V, i)) \in D
  <2>1. GateDay(Max(Earlier(V, i))) \in {d - 1, d} BY <1>7, <1>16
  <2> QED BY <1>3, <1>7, <1>16, <2>1
<1>17. ASSUME Later(V, i) # {}, GateDay(Min(Later(V, i))) <= d + 1 PROVE Min(Later(V, i)) \in D
  <2>1. GateDay(Min(Later(V, i))) \in {d, d + 1} BY <1>8, <1>17
  <2> QED BY <1>3, <1>8, <1>17, <2>1
<1> HIDE DEF V, D, n
<1>18. /\ Earlier(V, i) # {} =>
            /\ Max(Earlier(V, i)) \in V /\ GateDay(Max(Earlier(V, i))) <= d
            /\ GateDay(Max(Earlier(V, i))) >= d - 1 =>
                 Earlier(D, i) # {} /\ Max(Earlier(D, i)) = Max(Earlier(V, i))
            /\ Earlier(D, i) = {} \/ Max(Earlier(D, i)) = Max(Earlier(V, i))
  BY <1>7, <1>11, <1>13, <1>16
<1>19. /\ Later(V, i) # {} =>
            /\ Min(Later(V, i)) \in V /\ GateDay(Min(Later(V, i))) >= d
            /\ GateDay(Min(Later(V, i))) <= d + 1 =>
                 Later(D, i) # {} /\ Min(Later(D, i)) = Min(Later(V, i))
            /\ Later(D, i) = {} \/ Min(Later(D, i)) = Min(Later(V, i))
  BY <1>8, <1>12, <1>14, <1>17
<1>20. (Earlier(V, i) = {} => Earlier(D, i) = {}) /\ (Later(V, i) = {} => Later(D, i) = {}) BY <1>15
<1> QED BY <1>5, <1>18, <1>19, <1>20 DEF V, D

(* An event begins a session of the report of its day exactly when it      *)
(* begins one of the report of everything, and both show the same of it.   *)
LEMMA DaySession ==
  ASSUME GateAssumption, GateTypes, GateOrdered, NEW e, Nightly(e), NEW d \in Nat,
         NEW i \in ValidAt(e), GateDay(i) = d
  PROVE  LET D == LoadEvents(e, Period(d, 1))
         IN  /\ Closes(D, i) <=> Closes(ValidAt(e), i)
             /\ Shows(SessionFrom(D, i, Period(d, 1)), SessionFrom(ValidAt(e), i, Everything))
<1> DEFINE V == ValidAt(e)
           D == LoadEvents(e, Period(d, 1))
           before == Max(Earlier(V, i))
           next == Min(Later(V, i))
<1>1. /\ Earlier(V, i) # {} =>
            /\ before \in V /\ GateDay(before) <= d
            /\ GateDay(before) >= d - 1 => Earlier(D, i) # {} /\ Max(Earlier(D, i)) = before
            /\ Earlier(D, i) = {} \/ Max(Earlier(D, i)) = before
      /\ Earlier(V, i) = {} => Earlier(D, i) = {}
      /\ Later(V, i) # {} =>
            /\ next \in V /\ GateDay(next) >= d
            /\ GateDay(next) <= d + 1 => Later(D, i) # {} /\ Min(Later(D, i)) = next
            /\ Later(D, i) = {} \/ Min(Later(D, i)) = next
      /\ Later(V, i) = {} => Later(D, i) = {}
  BY DayNeighbours
<1>2. /\ Len(accessEvents) \in Nat /\ V \in SUBSET (1..Len(accessEvents)) /\ DOMAIN accessEvents = 1..Len(accessEvents)
  BY EventsOfEmployee
<1>3. \A j \in V : accessEvents[j].at \in Nat /\ accessEvents[j].type \in {"ENTRY", "EXIT"} BY <1>2, RowsAreTyped
<1>4. \A j \in V : GateDay(j) \in Nat
  <2> SUFFICES ASSUME NEW j \in V PROVE GateDay(j) \in Nat OBVIOUS
  <2> QED BY <1>3, DayOfTime DEF GateDay
<1>5. ASSUME accessEvents[i].type = "EXIT", Earlier(V, i) # {} PROVE GateDay(before) >= d - 1
  <2>1. GateDay(i) <= GateDay(before) + 1 BY <1>5 DEF Nightly
  <2> QED BY <1>1, <1>4, <1>5, <2>1
<1>6. Closes(D, i) <=> Closes(V, i)
  <2> HIDE DEF V, D, before
  <2>1. before = Max(Earlier(V, i)) BY DEF before
  <2> QED BY <1>1, <1>5, <2>1 DEF Closes
<1>7. ASSUME Later(V, i) # {}, accessEvents[next].type = "EXIT" PROVE GateDay(next) <= d + 1
  <2>1. next \in Later(V, i) /\ \A j \in Later(V, i) : j >= next
    <3>1. Later(V, i) \in SUBSET (1..Len(accessEvents)) BY <1>2 DEF Later
    <3> QED BY <1>2, <1>7, <3>1, OuterPositions
  <2>2. next \in V /\ i < next /\ next \in Nat /\ i \in Nat BY <1>2, <2>1 DEF Later
  <2>3. i \in Earlier(V, next) BY <2>2 DEF Earlier
  <2>4. Earlier(V, next) \in SUBSET (1..Len(accessEvents)) BY <1>2 DEF Earlier
  <2>5. Max(Earlier(V, next)) \in Earlier(V, next) /\ \A j \in Earlier(V, next) : j <= Max(Earlier(V, next))
    BY <1>2, <2>3, <2>4, OuterPositions
  <2>6. PICK m \in V : m = Max(Earlier(V, next)) BY <2>5 DEF Earlier
  <2>7. m < next /\ i <= m /\ m \in Nat BY <1>2, <2>3, <2>5, <2>6 DEF Earlier
  <2>8. ~(m > i)
    <3> SUFFICES ASSUME m > i PROVE FALSE OBVIOUS
    <3>1. m \in Later(V, i) BY <2>6 DEF Later
    <3> QED BY <2>1, <2>2, <2>7, <3>1
  <2>9. m = i BY <2>2, <2>7, <2>8
  <2>10. GateDay(next) <= GateDay(m) + 1 BY <1>7, <2>2, <2>3, <2>6 DEF Nightly
  <2> QED BY <2>9, <2>10
<1>8. Shows(SessionFrom(D, i, Period(d, 1)), SessionFrom(V, i, Everything))
  <2>0. PICK a \in Nat : a = accessEvents[i].at BY <1>3
  <2>1. \A x, y : Shows(Session(a, -1, x), Session(a, -1, y)) /\ Shows(Session(-1, a, x), Session(-1, a, y))
    BY DEF Shows, Session
  <2>2. CASE accessEvents[i].type = "EXIT" BY <2>0, <2>1, <2>2 DEF SessionFrom
  <2>3. CASE accessEvents[i].type # "EXIT" /\ Later(V, i) = {}
    <3>1. Later(D, i) = {} BY <1>1, <2>3
    <3> HIDE DEF V, D
    <3> QED BY <2>0, <2>1, <2>3, <3>1 DEF SessionFrom
  <2>4. CASE accessEvents[i].type # "EXIT" /\ Later(V, i) # {} /\ accessEvents[next].type = "EXIT"
    <3>1. Later(D, i) # {} /\ Min(Later(D, i)) = next BY <1>1, <1>7, <2>4
    <3>2. next = Min(Later(V, i)) OBVIOUS
    <3> HIDE DEF V, D, next
    <3>3. SessionFrom(D, i, Period(d, 1)) = Session(accessEvents[i].at, accessEvents[next].at, None)
      BY <2>4, <3>1 DEF SessionFrom
    <3>4. SessionFrom(V, i, Everything) = Session(accessEvents[i].at, accessEvents[next].at, None)
      BY <2>4, <3>2 DEF SessionFrom
    <3> QED BY <3>3, <3>4 DEF Shows
  <2>5. CASE accessEvents[i].type # "EXIT" /\ Later(V, i) # {} /\ accessEvents[next].type # "EXIT"
    <3>1. Later(D, i) = {} \/ Min(Later(D, i)) = next BY <1>1, <2>5
    <3>2. next = Min(Later(V, i)) OBVIOUS
    <3> HIDE DEF V, D, next
    <3>3. SessionFrom(V, i, Everything) = Session(a, -1, "ENTRY_WITHOUT_EXIT") BY <2>0, <2>5, <3>2 DEF SessionFrom
    <3>4. \E x : SessionFrom(D, i, Period(d, 1)) = Session(a, -1, x)
      <4>1. CASE Later(D, i) = {} BY <2>0, <2>5, <4>1 DEF SessionFrom
      <4>2. CASE Later(D, i) # {} BY <2>0, <2>5, <3>1, <4>2 DEF SessionFrom
      <4> QED BY <4>1, <4>2
    <3> QED BY <2>1, <3>3, <3>4
  <2> QED BY <2>2, <2>3, <2>4, <2>5
<1> QED BY <1>6, <1>8

(* The sessions of the report of a day.                                    *)
LEMMA DayWindow ==
  ASSUME GateAssumption, GateTypes, GateOrdered, NEW e, Nightly(e), NEW d \in Nat
  PROVE  /\ DOMAIN InWindow(e, Period(d, 1)) = {i \in Begins(e) : GateDay(i) = d}
         /\ \A i \in DOMAIN InWindow(e, Period(d, 1)) : Shows(InWindow(e, Period(d, 1))[i], Whole(i))
<1> DEFINE D == LoadEvents(e, Period(d, 1))
           window == {j \in D : ~Closes(D, j) /\ InRange(accessEvents[j].at, Period(d, 1))}
<1>1. InWindow(e, Period(d, 1)) = [i \in window |-> SessionFrom(D, i, Period(d, 1))] BY WindowIs
<1>2. D \in SUBSET ValidAt(e) BY DEF LoadEvents
<1>3. \A j \in ValidAt(e) : InRange(accessEvents[j].at, Period(d, 1)) <=> GateDay(j) = d
  <2> SUFFICES ASSUME NEW j \in ValidAt(e) PROVE InRange(accessEvents[j].at, Period(d, 1)) <=> GateDay(j) = d OBVIOUS
  <2>1. accessEvents[j].at \in Nat BY RowsAreTyped DEF ValidAt
  <2> QED BY <2>1, DayOfTime DEF GateDay
<1>4. ASSUME NEW i \in ValidAt(e), GateDay(i) = d
      PROVE  /\ i \in D /\ (Closes(D, i) <=> Closes(ValidAt(e), i))
             /\ Shows(SessionFrom(D, i, Period(d, 1)), SessionFrom(ValidAt(e), i, Everything))
  <2>1. i \in D BY <1>4, DayNeighbours
  <2> QED BY <1>4, <2>1, DaySession
<1>5. window = {i \in Begins(e) : GateDay(i) = d}
  <2>1. ASSUME NEW i \in window PROVE i \in Begins(e) /\ GateDay(i) = d
    <3>1. i \in ValidAt(e) /\ GateDay(i) = d /\ ~Closes(D, i) BY <1>2, <1>3
    <3> HIDE DEF D
    <3> QED BY <1>4, <3>1 DEF Begins
  <2>2. ASSUME NEW i \in Begins(e), GateDay(i) = d PROVE i \in window
    <3>1. i \in ValidAt(e) /\ ~Closes(ValidAt(e), i) BY DEF Begins
    <3>2. i \in D /\ ~Closes(D, i)
      <4> HIDE DEF D
      <4> QED BY <1>4, <2>2, <3>1
    <3> QED BY <1>3, <2>2, <3>1, <3>2
  <2> HIDE DEF window
  <2> QED BY <2>1, <2>2
<1>6. ASSUME NEW i \in window PROVE Shows(InWindow(e, Period(d, 1))[i], Whole(i))
  <2>1. i \in ValidAt(e) /\ GateDay(i) = d BY <1>2, <1>3
  <2>2. accessEvents[i].employee = e BY <2>1 DEF ValidAt
  <2>3. InWindow(e, Period(d, 1))[i] = SessionFrom(D, i, Period(d, 1)) BY <1>1
  <2> HIDE DEF D, window
  <2> QED BY <1>4, <2>1, <2>2, <2>3 DEF Whole
<1>7. DOMAIN InWindow(e, Period(d, 1)) = window BY <1>1
<1> HIDE DEF window, D
<1> QED BY <1>5, <1>6, <1>7

(* The sessions of the report of everything.                               *)
LEMMA WholeWindow ==
  ASSUME GateAssumption, GateTypes, NEW e
  PROVE  /\ DOMAIN InWindow(e, Everything) = Begins(e)
         /\ \A i \in Begins(e) : InWindow(e, Everything)[i] = Whole(i)
<1> DEFINE V == ValidAt(e)
<1>1. LoadEvents(e, Everything) = V BY EverythingIsLoaded
<1>2. \A i \in V : InRange(accessEvents[i].at, Everything) BY EverythingIsLoaded DEF ValidAt
<1>3. {j \in V : ~Closes(V, j) /\ InRange(accessEvents[j].at, Everything)} = Begins(e) BY <1>2 DEF Begins
<1>4. InWindow(e, Everything) = [i \in Begins(e) |-> SessionFrom(V, i, Everything)]
  <2> HIDE DEF V
  <2>1. InWindow(e, Everything) = [i \in {j \in V : ~Closes(V, j) /\ InRange(accessEvents[j].at, Everything)} |->
                                     SessionFrom(V, i, Everything)]
    BY <1>1, WindowIs
  <2> QED BY <1>3, <2>1
<1>5. \A i \in Begins(e) : accessEvents[i].employee = e BY DEF Begins, ValidAt
<1> QED BY <1>4, <1>5 DEF Whole

(* A session counts a number of minutes.                                   *)
LEMMA WorkedIsNumber ==
  ASSUME GateTypes, NEW i \in DOMAIN accessEvents
  PROVE  Whole(i).worked \in Int
<1> DEFINE V == ValidAt(accessEvents[i].employee)
<1>1. \A x, y, z : x \in Int /\ y \in Int => Session(x, y, z).worked \in Int BY DEF Session
<1>2. accessEvents[i].at \in Int /\ -1 \in Int BY RowsAreTyped
<1>3. Later(V, i) # {} => accessEvents[Min(Later(V, i))].at \in Int
  <2> SUFFICES ASSUME Later(V, i) # {} PROVE accessEvents[Min(Later(V, i))].at \in Int OBVIOUS
  <2>1. Later(V, i) \in SUBSET (1..Len(accessEvents)) BY EventsOfEmployee DEF Later
  <2>2. Min(Later(V, i)) \in DOMAIN accessEvents BY <2>1, EventsOfEmployee, OuterPositions
  <2> QED BY <2>2, RowsAreTyped
<1> HIDE DEF V
<1>4. SessionFrom(V, i, Everything).worked \in Int
  <2>1. CASE accessEvents[i].type = "EXIT" BY <1>1, <1>2, <2>1 DEF SessionFrom
  <2>2. CASE accessEvents[i].type # "EXIT" /\ Later(V, i) = {}
    <3>1. \E z : SessionFrom(V, i, Everything) = Session(accessEvents[i].at, -1, z) BY <2>2 DEF SessionFrom
    <3> QED BY <1>1, <1>2, <3>1
  <2>3. CASE accessEvents[i].type # "EXIT" /\ Later(V, i) # {}
    <3>1. \/ SessionFrom(V, i, Everything) = Session(accessEvents[i].at, accessEvents[Min(Later(V, i))].at, None)
          \/ SessionFrom(V, i, Everything) = Session(accessEvents[i].at, -1, "ENTRY_WITHOUT_EXIT")
      BY <2>3 DEF SessionFrom
    <3> QED BY <1>1, <1>2, <1>3, <2>3, <3>1
  <2> QED BY <2>1, <2>2, <2>3
<1> QED BY <1>4 DEF Whole, V

\* The sessions of a report are those that some events begin.
Covers(range, Q) ==
  /\ \A e \in Visitor :
       /\ DOMAIN InWindow(e, range) = {i \in Q : accessEvents[i].employee = e}
       /\ \A i \in DOMAIN InWindow(e, range) : Shows(InWindow(e, range)[i], Whole(i))
  /\ \A i \in Q : accessEvents[i].employee \in BuildUniverse(range)
Worked == [i \in DOMAIN accessEvents |-> Whole(i).worked]

(* What a report totals and lists, by the events that begin its sessions.  *)
LEMMA ReportIs ==
  ASSUME GateAssumption, GateTypes, NEW range, NEW Q \in SUBSET (DOMAIN accessEvents),
         Covers(range, Q)
  PROVE  /\ BuildSummary(range).totalWorkedMinutes = SumFunctionOnSet(Worked, Q)
         /\ BuildSessionRows(range) =
              {[employee |-> accessEvents[i].employee, entry |-> Whole(i).entry, exit |-> Whole(i).exit] : i \in Q}
<1> DEFINE U == BuildUniverse(range)
           Of(e) == {i \in Q : accessEvents[i].employee = e}
           shown(i) == [employee |-> accessEvents[i].employee, entry |-> Whole(i).entry, exit |-> Whole(i).exit]
<1>0. PICK worked : worked = Worked OBVIOUS
<1>1. U \in SUBSET Visitor /\ IsFiniteSet(U)
  <2>1. U \in SUBSET Visitor BY DEF BuildUniverse, GateTypes
  <2> QED BY <2>1, FS_Subset DEF GateAssumption
<1>2. IsFiniteSet(Q) /\ \A i \in Q : worked[i] \in Int /\ i \in DOMAIN accessEvents
  <2>2. IsFiniteSet(DOMAIN accessEvents) BY EventsOfEmployee
  <2> QED BY <1>0, <2>2, FS_Subset, WorkedIsNumber DEF Worked
<1>3. ASSUME NEW e \in U PROVE Aggregate(e, range).workedMinutes = SumFunctionOnSet(worked, Of(e))
  <2>1. PICK rows : rows = InWindow(e, range) OBVIOUS
  <2>2. DOMAIN rows = Of(e) /\ \A i \in Of(e) : Shows(rows[i], Whole(i)) BY <1>1, <2>1 DEF Covers
  <2>3. PICK f : f = [i \in Of(e) |-> rows[i].worked] OBVIOUS
  <2>4. IsFiniteSet(Of(e)) BY <1>2, FS_Subset
  <2>5. \A i \in Of(e) : f[i] = worked[i] BY <1>0, <1>2, <2>2, <2>3 DEF Shows, Worked
  <2>6. SumFunctionOnSet(f, Of(e)) = SumFunctionOnSet(worked, Of(e))
    <3> HIDE DEF Of
    <3> QED BY <2>4, <2>5, SumOfEquals
  <2>7. SumFunction(f) = SumFunctionOnSet(f, Of(e)) BY <2>3 DEF SumFunction
  <2>8. Aggregate(e, range).workedMinutes = SumFunction([i \in DOMAIN rows |-> rows[i].worked]) BY <2>1 DEF Aggregate
  <2> HIDE DEF Of
  <2> QED BY <2>2, <2>3, <2>6, <2>7, <2>8
<1>4. BuildSummary(range).totalWorkedMinutes = SumFunctionOnSet(worked, Q)
  <2>1. PICK g : g = [e \in U |-> SumFunctionOnSet(worked, Of(e))] OBVIOUS
  <2>2. BuildSummary(range).totalWorkedMinutes = SumFunction([e \in U |-> Aggregate(e, range).workedMinutes])
    BY DEF BuildSummary
  <2>3. [e \in U |-> Aggregate(e, range).workedMinutes] = g
    <3> HIDE DEF U, Of
    <3> QED BY <1>3, <2>1
  <2>4. SumFunction(g) = SumFunctionOnSet(g, U) BY <2>1 DEF SumFunction
  <2>5. PICK key : key = [i \in Q |-> accessEvents[i].employee] OBVIOUS
  <2>6. key \in [Q -> U] BY <2>5 DEF Covers
  <2>7. SumFunctionOnSet([e \in U |-> SumFunctionOnSet(worked, {i \in Q : key[i] = e})], U) = SumFunctionOnSet(worked, Q)
    <3>1. \A i \in Q : worked[i] \in Int BY <1>2
    <3>2. IsFiniteSet(U) /\ IsFiniteSet(Q) BY <1>1, <1>2
    <3> HIDE DEF U
    <3> QED BY <2>6, <3>1, <3>2, SumByKey
  <2>8. \A e \in U : {i \in Q : key[i] = e} = Of(e) BY <2>5
  <2>9. [e \in U |-> SumFunctionOnSet(worked, {i \in Q : key[i] = e})] = g
    <3> HIDE DEF U, Of
    <3> QED BY <2>1, <2>8
  <2> QED BY <2>2, <2>3, <2>4, <2>7, <2>9
<1>5. BuildSessionRows(range) = {shown(i) : i \in Q}
  <2>1. ASSUME NEW e \in U
        PROVE  {[employee |-> e, entry |-> s.entry, exit |-> s.exit] : s \in Range(InWindow(e, range))} = {shown(i) : i \in Of(e)}
    <3>1. PICK rows : rows = InWindow(e, range) OBVIOUS
    <3>2. DOMAIN rows = Of(e) /\ \A i \in Of(e) : Shows(rows[i], Whole(i)) BY <1>1, <3>1 DEF Covers
    <3>3. Range(rows) = {rows[i] : i \in Of(e)} BY <3>2 DEF Range
    <3>4. \A i \in Of(e) : [employee |-> e, entry |-> rows[i].entry, exit |-> rows[i].exit] = shown(i) BY <3>2 DEF Shows
    <3>5. {[employee |-> e, entry |-> s.entry, exit |-> s.exit] : s \in Range(rows)}
            = {[employee |-> e, entry |-> rows[i].entry, exit |-> rows[i].exit] : i \in Of(e)}
      <4> HIDE DEF Of
      <4> QED BY <3>3
    <3> HIDE DEF Of, shown
    <3> QED BY <3>1, <3>4, <3>5
  <2>2. BuildSessionRows(range) = UNION {{shown(i) : i \in Of(e)} : e \in U}
    <3>1. BuildSessionRows(range) =
            UNION {{[employee |-> e, entry |-> s.entry, exit |-> s.exit] : s \in Range(InWindow(e, range))} : e \in U}
      BY DEF BuildSessionRows
    <3> HIDE DEF U, Of, shown
    <3> QED BY <2>1, <3>1
  <2>3. \A i \in Q : \E e \in U : i \in Of(e) BY DEF Covers
  <2>4. \A e \in U : Of(e) \subseteq Q OBVIOUS
  <2> HIDE DEF U, Of, shown
  <2> QED BY <2>2, <2>3, <2>4
<1> QED BY <1>0, <1>4, <1>5

(* The reports of the days add up to the report of everything.             *)
LEMMA DaysAddUp ==
  ASSUME GateAssumption, GateTypes, GateOrdered, \A e \in Visitor : Nightly(e)
  PROVE  /\ BuildSessionRows(Everything) = UNION {BuildSessionRows(Period(d, 1)) : d \in 0..(Days - 1)}
         /\ BuildSummary(Everything).totalWorkedMinutes
              = SumFunction([d \in 0..(Days - 1) |-> BuildSummary(Period(d, 1)).totalWorkedMinutes])
<1> DEFINE Q == {i \in DOMAIN accessEvents : i \in Begins(accessEvents[i].employee)}
           On(d) == {i \in Q : GateDay(i) = d}
           All == 0..(Days - 1)
           shown(i) == [employee |-> accessEvents[i].employee, entry |-> Whole(i).entry, exit |-> Whole(i).exit]
<1>1. PICK worked : worked = Worked OBVIOUS
<1>2. \A e : \A i \in Begins(e) : i \in DOMAIN accessEvents /\ accessEvents[i].employee = e BY DEF Begins, ValidAt
<1>3. \A e : Begins(e) = {i \in Q : accessEvents[i].employee = e} BY <1>2
<1>4. \A i \in Q : i \in ValidAt(accessEvents[i].employee) /\ accessEvents[i].employee \in Visitor
  BY RowsAreTyped DEF Begins
<1>5. /\ BuildSummary(Everything).totalWorkedMinutes = SumFunctionOnSet(worked, Q)
      /\ BuildSessionRows(Everything) = {shown(i) : i \in Q}
  <2>1. \A e \in Visitor :
           /\ DOMAIN InWindow(e, Everything) = {i \in Q : accessEvents[i].employee = e}
           /\ \A i \in DOMAIN InWindow(e, Everything) : Shows(InWindow(e, Everything)[i], Whole(i))
    <3> HIDE DEF Q
    <3> QED BY <1>3, WholeWindow DEF Shows
  <2>2. ASSUME NEW i \in Q PROVE accessEvents[i].employee \in BuildUniverse(Everything)
    BY <1>4, EverythingIsLoaded DEF BuildUniverse
  <2>3. Q \in SUBSET (DOMAIN accessEvents) OBVIOUS
  <2> HIDE DEF Q
  <2>4. Covers(Everything, Q) BY <2>1, <2>2 DEF Covers
  <2> QED BY <1>1, <2>3, <2>4, ReportIs
<1>6. ASSUME NEW d \in All
      PROVE  /\ BuildSummary(Period(d, 1)).totalWorkedMinutes = SumFunctionOnSet(worked, On(d))
             /\ BuildSessionRows(Period(d, 1)) = {shown(i) : i \in On(d)}
  <2>1. d \in Nat BY EverythingIsLoaded
  <2>2. ASSUME NEW e \in Visitor
        PROVE  /\ DOMAIN InWindow(e, Period(d, 1)) = {i \in On(d) : accessEvents[i].employee = e}
               /\ \A i \in DOMAIN InWindow(e, Period(d, 1)) : Shows(InWindow(e, Period(d, 1))[i], Whole(i))
    <3>1. Nightly(e) OBVIOUS
    <3>2. /\ DOMAIN InWindow(e, Period(d, 1)) = {i \in Begins(e) : GateDay(i) = d}
          /\ \A i \in DOMAIN InWindow(e, Period(d, 1)) : Shows(InWindow(e, Period(d, 1))[i], Whole(i))
      BY <2>1, <3>1, DayWindow
    <3>3. {i \in Begins(e) : GateDay(i) = d} = {i \in On(d) : accessEvents[i].employee = e}
      <4>1. Begins(e) = {i \in Q : accessEvents[i].employee = e} BY <1>3
      <4> HIDE DEF Q
      <4> QED BY <4>1
    <3> QED BY <3>2, <3>3
  <2>3. ASSUME NEW i \in On(d) PROVE accessEvents[i].employee \in BuildUniverse(Period(d, 1))
    <3>1. i \in ValidAt(accessEvents[i].employee) /\ accessEvents[i].employee \in Visitor BY <1>4
    <3>2. accessEvents[i].at \in Nat /\ accessEvents[i].at \div GATE_DAY = d BY <3>1, RowsAreTyped DEF GateDay, ValidAt
    <3>3. InRange(accessEvents[i].at, Period(d, 1)) BY <2>1, <3>2, DayOfTime
    <3> QED BY <3>1, <3>3 DEF BuildUniverse
  <2>4. On(d) \in SUBSET (DOMAIN accessEvents) OBVIOUS
  <2> HIDE DEF On
  <2>5. Covers(Period(d, 1), On(d)) BY <2>2, <2>3 DEF Covers
  <2> QED BY <1>1, <2>4, <2>5, ReportIs
<1>7. IsFiniteSet(Q) /\ \A i \in Q : worked[i] \in Int
  <2>2. IsFiniteSet(DOMAIN accessEvents) BY EventsOfEmployee
  <2> QED BY <1>1, <2>2, FS_Subset, WorkedIsNumber DEF Worked
<1>8. IsFiniteSet(All) /\ \A i \in Q : GateDay(i) \in All
  <2>1. Days \in Nat \ {0} /\ \A i \in DOMAIN accessEvents : GateDay(i) \in 0..(Days - 1) BY EverythingIsLoaded
  <2>2. IsFiniteSet(All) BY <2>1, FS_Interval
  <2> QED BY <2>1, <2>2
<1>9. BuildSessionRows(Everything) = UNION {BuildSessionRows(Period(d, 1)) : d \in All}
  <2>1. UNION {BuildSessionRows(Period(d, 1)) : d \in All} = UNION {{shown(i) : i \in On(d)} : d \in All}
    <3> HIDE DEF On, shown, All
    <3> QED BY <1>6
  <2>2. \A i \in Q : i \in On(GateDay(i)) /\ GateDay(i) \in All BY <1>8
  <2>3. \A d \in All : On(d) \subseteq Q OBVIOUS
  <2>4. {shown(i) : i \in Q} = UNION {{shown(i) : i \in On(d)} : d \in All}
    <3> HIDE DEF On, shown, All, Q
    <3> QED BY <2>2, <2>3
  <2> QED BY <1>5, <2>1, <2>4
<1>10. BuildSummary(Everything).totalWorkedMinutes
         = SumFunction([d \in All |-> BuildSummary(Period(d, 1)).totalWorkedMinutes])
  <2>1. PICK g : g = [d \in All |-> SumFunctionOnSet(worked, On(d))] OBVIOUS
  <2>2. [d \in All |-> BuildSummary(Period(d, 1)).totalWorkedMinutes] = g
    <3> HIDE DEF On, All
    <3> QED BY <1>6, <2>1
  <2>3. SumFunction(g) = SumFunctionOnSet(g, All) BY <2>1 DEF SumFunction
  <2>4. PICK key : key = [i \in Q |-> GateDay(i)] OBVIOUS
  <2>5. key \in [Q -> All] BY <1>8, <2>4
  <2>6. SumFunctionOnSet([d \in All |-> SumFunctionOnSet(worked, {i \in Q : key[i] = d})], All) = SumFunctionOnSet(worked, Q)
    <3> HIDE DEF Q, All
    <3> QED BY <1>7, <1>8, <2>5, SumByKey
  <2>7. \A d \in All : {i \in Q : key[i] = d} = On(d) BY <2>4
  <2>8. [d \in All |-> SumFunctionOnSet(worked, {i \in Q : key[i] = d})] = g
    <3> HIDE DEF On, All, Q
    <3> QED BY <2>1, <2>7
  <2> QED BY <1>5, <2>2, <2>3, <2>6, <2>8
<1> QED BY <1>9, <1>10

(* The report of today counts inside whoever the status shows inside since *)
(* a time of today.                                                        *)
LEMMA InsideAgrees ==
  ASSUME GateAssumption, GateTypes, GateOrdered
  PROVE  LET today == Period(now \div GATE_DAY, 1)
         IN  {e \in BuildUniverse(today) : "OPEN_ENTRY" \in Aggregate(e, today).incidents}
               = {e \in Visitor : HasOpenEntry(e) /\ InRange(accessEvents[Max(ValidAt(e))].at, today)}
<1>1. PICK today : today = Period(now \div GATE_DAY, 1) OBVIOUS
<1>2. PICK d \in Nat : d = now \div GATE_DAY
  <2>1. now \in Nat BY DEF GateTypes
  <2> QED BY <2>1, DayOfTime
<1>3. InRange(now, today)
  <2>1. now \in Nat BY DEF GateTypes
  <2> QED BY <1>1, <1>2, <2>1, DayOfTime
<1>4. now < today.end BY <1>3 DEF InRange
<1>5. today.end \in Int /\ today.start \in Int /\ today.start - LOOKBACK_DAYS * GATE_DAY <= today.start
      /\ today.end <= today.end + GATE_DAY
  <2>1. PICK G \in Nat : G = GATE_DAY BY DEF GateAssumption
  <2>2. PICK L \in Nat : L = LOOKBACK_DAYS BY DEF GateAssumption
  <2>3. PICK s \in Nat : s = d * G BY SMT
  <2>4. PICK t \in Nat : t = (d + 1) * G BY SMT
  <2>5. PICK y \in Nat : y = L * G BY SMT
  <2>6. today.start = s /\ today.end = t BY <1>1, <1>2, <2>1, <2>3, <2>4 DEF Period
  <2>7. s - y <= s /\ t <= t + G OBVIOUS
  <2> QED BY <2>1, <2>2, <2>5, <2>6, <2>7
<1>6. ASSUME NEW e \in Visitor, NEW i \in ValidAt(e), InRange(accessEvents[i].at, today)
      PROVE  i \in LoadEvents(e, today)
  <2>1. accessEvents[i].at \in Nat BY RowsAreTyped DEF ValidAt
  <2>2. GATE_DAY \in Int /\ LOOKBACK_DAYS * GATE_DAY \in Int BY DEF GateAssumption
  <2> QED BY <1>5, <1>6, <2>1, <2>2 DEF InRange, LoadEvents
<1>7. ASSUME NEW e \in Visitor, HasOpenEntry(e), InRange(accessEvents[Max(ValidAt(e))].at, today)
      PROVE  e \in BuildUniverse(today) /\ "OPEN_ENTRY" \in Aggregate(e, today).incidents
  <2> DEFINE loaded == LoadEvents(e, today)
             i == Max(ValidAt(e))
  <2>1. ValidAt(e) # {} /\ accessEvents[i].type = "ENTRY" BY <1>7 DEF HasOpenEntry, LastEventFor, None
  <2>2. i \in ValidAt(e) /\ \A j \in ValidAt(e) : j <= i BY <2>1, NextEvent
  <2>3. i \in loaded /\ loaded \in SUBSET ValidAt(e) BY <1>6, <1>7, <2>2 DEF LoadEvents
  <2>4. \A j \in ValidAt(e) : j \in Nat BY EventsOfEmployee
  <2>5. Later(loaded, i) = {} BY <2>2, <2>3, <2>4 DEF Later
  <2>6. ~Closes(loaded, i) BY <2>1 DEF Closes
  <2>7. SessionFrom(loaded, i, today) = Session(accessEvents[i].at, -1, "OPEN_ENTRY")
    <3> HIDE DEF loaded, i
    <3>1. today.end > now
      <4>1. now \in Int BY DEF GateTypes
      <4> QED BY <1>4, <1>5, <4>1
    <3> QED BY <1>7, <2>1, <2>5, <3>1 DEF SessionFrom, i
  <2>8. InWindow(e, today) = [k \in {j \in loaded : ~Closes(loaded, j) /\ InRange(accessEvents[j].at, today)} |->
                                SessionFrom(loaded, k, today)]
    BY WindowIs
  <2>9. i \in DOMAIN InWindow(e, today) /\ InWindow(e, today)[i].incident = "OPEN_ENTRY"
    <3>1. i \in {j \in loaded : ~Closes(loaded, j) /\ InRange(accessEvents[j].at, today)} BY <1>7, <2>3, <2>6
    <3> HIDE DEF loaded, i
    <3> QED BY <2>7, <2>8, <3>1 DEF Session
  <2>10. "OPEN_ENTRY" \in Aggregate(e, today).incidents
    <3>1. PICK rows : rows = InWindow(e, today) OBVIOUS
    <3>2. i \in DOMAIN rows /\ rows[i].incident = "OPEN_ENTRY" BY <2>9, <3>1
    <3>3. Aggregate(e, today).incidents = {rows[k].incident : k \in DOMAIN rows} \ {None} BY <3>1 DEF Aggregate
    <3> QED BY <3>2, <3>3 DEF None
  <2> QED BY <1>7, <2>2, <2>10 DEF BuildUniverse
<1>8. ASSUME NEW e \in BuildUniverse(today), "OPEN_ENTRY" \in Aggregate(e, today).incidents
      PROVE  e \in Visitor /\ HasOpenEntry(e) /\ InRange(accessEvents[Max(ValidAt(e))].at, today)
  <2> DEFINE loaded == LoadEvents(e, today)
  <2>1. e \in Visitor BY DEF BuildUniverse, GateTypes
  <2>2. PICK rows : rows = InWindow(e, today) OBVIOUS
  <2>3. Aggregate(e, today).incidents = {rows[k].incident : k \in DOMAIN rows} \ {None} BY <2>2 DEF Aggregate
  <2>4. PICK i \in DOMAIN rows : rows[i].incident = "OPEN_ENTRY" BY <1>8, <2>3
  <2>5. rows = [k \in {j \in loaded : ~Closes(loaded, j) /\ InRange(accessEvents[j].at, today)} |->
                  SessionFrom(loaded, k, today)]
    BY <2>2, WindowIs
  <2>6. i \in loaded /\ InRange(accessEvents[i].at, today) /\ SessionFrom(loaded, i, today).incident = "OPEN_ENTRY"
    <3> HIDE DEF loaded
    <3> QED BY <2>4, <2>5
  <2>7. accessEvents[i].type # "EXIT" /\ Later(loaded, i) = {}
    <3> HIDE DEF loaded
    <3>1. \A x, y, z : Session(x, y, z).incident = z BY DEF Session
    <3>2. accessEvents[i].type # "EXIT"
      <4> SUFFICES ASSUME accessEvents[i].type = "EXIT" PROVE FALSE OBVIOUS
      <4>1. SessionFrom(loaded, i, today) = Session(-1, accessEvents[i].at, "EXIT_WITHOUT_ENTRY") BY DEF SessionFrom
      <4>2. SessionFrom(loaded, i, today).incident = "EXIT_WITHOUT_ENTRY" BY <3>1, <4>1
      <4> QED BY <2>6, <4>2
    <3>3. Later(loaded, i) = {}
      <4> SUFFICES ASSUME Later(loaded, i) # {} PROVE FALSE OBVIOUS
      <4>1. \/ SessionFrom(loaded, i, today) = Session(accessEvents[i].at, accessEvents[Min(Later(loaded, i))].at, None)
            \/ SessionFrom(loaded, i, today) = Session(accessEvents[i].at, -1, "ENTRY_WITHOUT_EXIT")
        BY <3>2 DEF SessionFrom
      <4>2. SessionFrom(loaded, i, today).incident \in {None, "ENTRY_WITHOUT_EXIT"} BY <3>1, <4>1
      <4> QED BY <2>6, <4>2 DEF None
    <3> QED BY <3>2, <3>3
  <2>8. i \in ValidAt(e) BY <2>6 DEF LoadEvents
  <2>9. ASSUME NEW j \in ValidAt(e) PROVE j <= i
    <3>1. i \in DOMAIN accessEvents /\ j \in DOMAIN accessEvents /\ i \in Nat /\ j \in Nat BY <2>8, EventsOfEmployee
    <3> SUFFICES ASSUME j > i PROVE FALSE BY <3>1
    <3>2. i <= j BY <3>1
    <3>3. accessEvents[i].at <= accessEvents[j].at BY <3>1, <3>2 DEF GateOrdered
    <3>4. /\ accessEvents[i].at \in Nat /\ accessEvents[j].at \in Nat /\ accessEvents[j].at <= now /\ now \in Nat
      BY <3>1, RowsAreTyped DEF GateTypes
    <3>5. InRange(accessEvents[j].at, today) BY <1>4, <1>5, <2>6, <3>3, <3>4 DEF InRange
    <3>6. j \in loaded BY <1>6, <2>1, <3>5
    <3>7. j \in Later(loaded, i) BY <3>6 DEF Later
    <3> QED BY <2>7, <3>7
  <2>10. Max(ValidAt(e)) = i
    <3>1. Max(ValidAt(e)) \in ValidAt(e) /\ i <= Max(ValidAt(e)) BY <2>8, NextEvent
    <3>2. i \in Nat /\ Max(ValidAt(e)) \in Nat BY <2>8, <3>1, EventsOfEmployee
    <3> QED BY <2>9, <3>1, <3>2
  <2>11. accessEvents[i].type = "ENTRY" BY <2>7, <2>8, RowsAreTyped DEF ValidAt
  <2>12. HasOpenEntry(e) BY <2>8, <2>10, <2>11 DEF HasOpenEntry, LastEventFor
  <2> QED BY <2>1, <2>6, <2>10, <2>12
<1>9. \A e : e \in BuildUniverse(today) => e \in Visitor BY DEF BuildUniverse, GateTypes
<1>10. {e \in BuildUniverse(today) : "OPEN_ENTRY" \in Aggregate(e, today).incidents}
         = {e \in Visitor : HasOpenEntry(e) /\ InRange(accessEvents[Max(ValidAt(e))].at, today)}
  BY <1>7, <1>8
<1> QED BY <1>1, <1>10

(* createEvent, report, status: entries and exits of an employee           *)
(* alternate, whoever the status shows inside since today is the one the   *)
(* report counts inside, and the reports of the days add up to the report  *)
(* of all of them, for any visitors, sites, keys, requests and times.      *)
THEOREM GateAndReportsAgree == GateSpec => []GateAddsUp
<1> USE GateAssumption
<1>1. GateSpec => []GateIsSound BY GateStaysSound
<1>2. GateIsSound => GateAddsUp
  <2> SUFFICES ASSUME GateIsSound PROVE GateAlternates /\ ReportsAgree BY DEF GateAddsUp
  <2>1. GateTypes /\ GateOrdered /\ GateAlternates BY DEF GateIsSound
  <2>2. BuildSummary(Period(now \div GATE_DAY, 1)).peopleInside
          = Cardinality({e \in Visitor : HasOpenEntry(e)
                           /\ InRange(accessEvents[Max(ValidAt(e))].at, Period(now \div GATE_DAY, 1))})
    <3>1. \A range : BuildSummary(range).peopleInside
                       = Cardinality({e \in BuildUniverse(range) : "OPEN_ENTRY" \in Aggregate(e, range).incidents})
      BY DEF BuildSummary
    <3> QED BY <2>1, <3>1, InsideAgrees
  <2>3. (\A e \in Visitor : Nightly(e)) =>
          /\ BuildSessionRows(Period(0, Days)) = UNION {BuildSessionRows(Period(d, 1)) : d \in 0..(Days - 1)}
          /\ BuildSummary(Period(0, Days)).totalWorkedMinutes
               = SumFunction([d \in 0..(Days - 1) |-> BuildSummary(Period(d, 1)).totalWorkedMinutes])
    BY <2>1, DaysAddUp DEF Everything
  <2>4. ReportsAgree BY <2>2, <2>3 DEF ReportsAgree
  <2> QED BY <2>1, <2>4
<1> QED BY <1>1, <1>2, PTL
=============================================================================
