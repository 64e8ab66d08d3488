------------------------- MODULE KitchenSupply -------------------------
(***************************************************************************)
(* The catalogue of the kitchen, a supplier with what it sells, and its    *)
(* invoices, whose costs reach the lots that were received for the order.  *)
(* Receipts come from the purchase orders. updateItem reads the item and   *)
(* counts its lots before it writes; everything else is one step.          *)
(***************************************************************************)
EXTENDS Integers, Sequences, FiniteSets

CONSTANTS
    SupplyItem, Order, KitchenUnit,
    Cost, Factor, StockLimit,    \* sets of numbers
    Updater,                      \* updateItem requests in flight together
    MaxLots, MaxInvoices, MaxSupplyChanges

ASSUME SupplyAssumption ==
    /\ Cost \cup Factor \cup StockLimit \subseteq Nat
    /\ {MaxLots, MaxInvoices, MaxSupplyChanges} \subseteq Nat

VARIABLES
    item,          \* item -> [unit, active, min, max] or NoSupplyItem
    unitActive,    \* the units of measure that are active
    lots,          \* kitchen_lots, in order of creation
    presentation,  \* supplier_items: item -> [factor, last, at] or NotSold
    contacts,      \* supplier_contacts: is each one the principal
    trading,       \* supplier.active
    invoices,
    updater,        \* request -> what it read and will write
    supplyChanges,
    mixed          \* history: items whose first lot arrived between count and write

supplyVars == <<item, unitActive, lots, presentation, contacts, trading, invoices, updater, supplyChanges, mixed>>

NoOrder == "none"
NoMax == -1
NoSupplyItem == [unit |-> "none", active |-> FALSE, min |-> 0, max |-> NoMax]
NotSold == [factor |-> 0, last |-> 0, at |-> 0]
NotEditing == [pc |-> "idle"]
HasLots(i) == \E l \in 1..Len(lots) : lots[l].item = i
With(row, change) == [x \in DOMAIN row |-> IF x \in DOMAIN change THEN change[x] ELSE row[x]]
Change == supplyChanges < MaxSupplyChanges /\ supplyChanges' = supplyChanges + 1

(***************************************************************************)
(* Items                                                                   *)
(***************************************************************************)
AssertLimits(min, max) == min >= 0 /\ (max # NoMax => max >= min)

UnitLocked(i, unit) == unit # item[i].unit /\ HasLots(i)

CreateItem(i, unit, min, max) ==
    /\ item[i] = NoSupplyItem /\ unit \in unitActive /\ AssertLimits(min, max)
    /\ item' = [item EXCEPT ![i] = [unit |-> unit, active |-> TRUE, min |-> min, max |-> max]]
    /\ UNCHANGED <<unitActive, lots, presentation, contacts, trading, invoices, updater, supplyChanges, mixed>>

UpdateKitchenUnit(unit, active) ==
    /\ Change
    /\ unitActive' = IF active THEN unitActive \cup {unit} ELSE unitActive \ {unit}
    /\ UNCHANGED <<item, lots, presentation, contacts, trading, invoices, updater, mixed>>

(* updateItem: a field that does not come keeps the value that was read.   *)
ReadItem(e, i, change) ==
    /\ updater[e] = NotEditing /\ item[i] # NoSupplyItem /\ Change
    /\ LET next == With(item[i], change)
       IN  /\ AssertLimits(next.min, next.max) /\ ~UnitLocked(i, next.unit)
           /\ next.unit \in unitActive \cup {item[i].unit}
    /\ updater' = [updater EXCEPT ![e] = [pc |-> "write", item |-> i, change |-> change]]
    /\ UNCHANGED <<item, unitActive, lots, presentation, contacts, trading, invoices, mixed>>

(* Only what came is written; the CHECK of the table refuses limits that   *)
(* cross, which two updates may do that saw each other's old values.       *)
WriteItem(e) ==
    /\ updater[e].pc = "write"
    /\ LET i == updater[e].item
           next == With(item[i], updater[e].change)
       IN  /\ item' = IF AssertLimits(next.min, next.max) THEN [item EXCEPT ![i] = next] ELSE item
           /\ updater' = [updater EXCEPT ![e] = NotEditing]
    /\ UNCHANGED <<unitActive, lots, presentation, contacts, trading, invoices, supplyChanges, mixed>>

(***************************************************************************)
(* The supplier                                                            *)
(***************************************************************************)
(* withPrimary: no more than one principal contact, else the first.        *)
Principals(list) == {n \in DOMAIN list : list[n]}
WithPrimary(list) ==
    IF Principals(list) = {} THEN [n \in DOMAIN list |-> n = 1] ELSE list

(* replaceItems: what stays keeps its last purchase; its last cost too,    *)
(* unless one is given.                                                    *)
ReplaceItems(sold) ==
    [i \in SupplyItem |-> IF i \in DOMAIN sold THEN With(presentation[i], sold[i]) ELSE NotSold]

(* create, update: contacts and items that do not come stay.               *)
UpdateSupplier(list, active) ==
    /\ Change /\ Cardinality(Principals(list)) <= 1
    /\ contacts' = WithPrimary(list) /\ trading' = active
    /\ UNCHANGED <<item, unitActive, lots, presentation, invoices, updater, mixed>>

(* Its other half: checkItems and replaceItems.                            *)
UpdateSupplierItems(sold) ==
    /\ Change
    /\ \A i \in DOMAIN sold : item[i] # NoSupplyItem /\ (item[i].active \/ presentation[i] # NotSold)
    /\ presentation' = ReplaceItems(sold)
    /\ UNCHANGED <<item, unitActive, lots, contacts, trading, invoices, updater, mixed>>

(***************************************************************************)
(* Receipts and invoices                                                   *)
(***************************************************************************)
ReceiveLot(i, o, cost) ==
    /\ Len(lots) < MaxLots /\ item[i].active
    /\ lots' = Append(lots, [item |-> i, order |-> o, cost |-> cost, unit |-> item[i].unit,
                             receipt |-> "ACTIVE"])
    /\ mixed' = mixed \cup {x \in {i} : \E e \in Updater : /\ updater[e].pc = "write" /\ updater[e].item = i
                                                        /\ "unit" \in DOMAIN updater[e].change}
    /\ UNCHANGED <<item, unitActive, presentation, contacts, trading, invoices, updater, supplyChanges>>

ReverseReceipt(n) ==
    /\ Change /\ n \in DOMAIN lots /\ lots[n].receipt = "ACTIVE"
    /\ lots' = [lots EXCEPT ![n].receipt = "CANCELLED"]
    /\ UNCHANGED <<item, unitActive, presentation, contacts, trading, invoices, updater, mixed>>

LastLine(lines, i) == CHOOSE n \in DOMAIN lines : lines[n].item = i /\ \A k \in DOMAIN lines : lines[k].item = i => k <= n
FirstLine(lines, i) == CHOOSE n \in DOMAIN lines : lines[n].item = i /\ \A k \in DOMAIN lines : lines[k].item = i => n <= k
InvoicedItems(lines) == {lines[n].item : n \in DOMAIN lines}

(* The loop over the lines leaves the cost of the last line of the item in *)
(* every lot that is still received for the order.                         *)
LotsInvoiced(o, lines) ==
    [n \in DOMAIN lots |->
       IF o # NoOrder /\ lots[n].order = o /\ lots[n].receipt = "ACTIVE" /\ lots[n].item \in InvoicedItems(lines)
       THEN [lots[n] EXCEPT !.cost = lines[LastLine(lines, lots[n].item)].cost] ELSE lots[n]]

(* Mutant: the first line of the item.                                     *)
LastPricesFirst(lines, date) ==
    [i \in SupplyItem |-> IF presentation[i] = NotSold \/ i \notin InvoicedItems(lines) THEN presentation[i]
                    ELSE [presentation[i] EXCEPT !.last = lines[FirstLine(lines, i)].cost * presentation[i].factor,
                                                 !.at = date]]
LastPrices(lines, date) ==
    [i \in SupplyItem |-> IF presentation[i] = NotSold \/ i \notin InvoicedItems(lines) THEN presentation[i]
                    ELSE [presentation[i] EXCEPT !.last = lines[LastLine(lines, i)].cost * presentation[i].factor,
                                                 !.at = date]]

RegisterInvoice(o, lines, date) ==
    /\ Len(invoices) < MaxInvoices /\ trading
    /\ \A i \in InvoicedItems(lines) : item[i].active
    /\ invoices' = Append(invoices, [order |-> o, lines |-> lines, date |-> date, status |-> "ACTIVE"])
    /\ lots' = LotsInvoiced(o, lines)
    /\ presentation' = LastPrices(lines, date)
    /\ UNCHANGED <<item, unitActive, contacts, trading, updater, supplyChanges, mixed>>

(* cancel: costs and last prices stay.                                     *)
CancelInvoice(n) ==
    /\ Change /\ n \in DOMAIN invoices /\ invoices[n].status = "ACTIVE"
    /\ invoices' = [invoices EXCEPT ![n].status = "CANCELLED"]
    /\ UNCHANGED <<item, unitActive, lots, presentation, contacts, trading, updater, mixed>>

(***************************************************************************)
(* The specification                                                       *)
(***************************************************************************)
SupplyInit ==
    /\ item = [i \in SupplyItem |-> NoSupplyItem] /\ unitActive = KitchenUnit
    /\ lots = <<>> /\ invoices = <<>> /\ contacts = <<>> /\ trading = TRUE
    /\ presentation = [i \in SupplyItem |-> NotSold]
    /\ updater = [e \in Updater |-> NotEditing] /\ supplyChanges = 0 /\ mixed = {}

Line == [item : SupplyItem, cost : Cost]
Lines == {<<a>> : a \in Line} \cup {x \in Line \X Line : x[1].item = x[2].item}
Sold == UNION {[s -> [factor : Factor] \cup [factor : Factor, last : Cost]] : s \in SUBSET SupplyItem}
ItemChange == [unit : KitchenUnit] \cup [min : StockLimit] \cup [max : StockLimit] \cup [active : {FALSE}]

SupplyNext ==
    \/ \E e \in Updater : WriteItem(e) \/ \E i \in SupplyItem, change \in ItemChange : ReadItem(e, i, change)
    \/ \E i \in SupplyItem, unit \in KitchenUnit, min, max \in StockLimit : CreateItem(i, unit, min, max)
    \/ \E unit \in KitchenUnit, active \in BOOLEAN : UpdateKitchenUnit(unit, active)
    \/ \E list \in {<<FALSE, FALSE>>, <<FALSE, TRUE>>}, active \in BOOLEAN : UpdateSupplier(list, active)
    \/ \E sold \in Sold : UpdateSupplierItems(sold)
    \/ \E i \in SupplyItem, o \in Order \cup {NoOrder}, cost \in Cost : ReceiveLot(i, o, cost)
    \/ \E n \in DOMAIN lots : ReverseReceipt(n)
    \/ \E o \in Order \cup {NoOrder}, lines \in Lines, date \in 1..2 : RegisterInvoice(o, lines, date)
    \/ \E n \in DOMAIN invoices : CancelInvoice(n)

SupplySpec == SupplyInit /\ [][SupplyNext]_supplyVars

(***************************************************************************)
(* Properties                                                              *)
(***************************************************************************)
(* updateItem, createItem, withPrimary: the lots of an item are all        *)
(* counted in the unit the item has (unless its first lot came while the   *)
(* unit was being changed), its limits never cross, whatever updates       *)
(* overlap, and a supplier with contacts has one principal contact.        *)
CatalogStaysMeaningful ==
    /\ \A n \in DOMAIN lots : lots[n].item \notin mixed => lots[n].unit = item[lots[n].item].unit
    /\ \A i \in SupplyItem : AssertLimits(item[i].min, item[i].max)
    /\ contacts # <<>> => Cardinality(Principals(contacts)) = 1

(* register, replaceItems: a registered invoice leaves one price, in every *)
(* lot of its order and, by the unit of purchase, with the supplier; what  *)
(* the supplier goes on selling keeps the date of its last purchase; and   *)
(* no other request changes the cost of a lot.                             *)
PricesAgree ==
    [][/\ \A n \in DOMAIN lots : lots'[n].cost # lots[n].cost => Len(invoices') > Len(invoices)
       /\ Len(invoices') > Len(invoices) =>
            \A n \in DOMAIN lots :
              LET i == lots[n].item
              IN  (/\ invoices'[Len(invoices')].order = lots[n].order /\ lots[n].order # NoOrder
                   /\ i \in InvoicedItems(invoices'[Len(invoices')].lines)
                   /\ lots[n].receipt = "ACTIVE" /\ presentation[i] # NotSold)
                  => presentation'[i].last = lots'[n].cost * presentation'[i].factor
       /\ \A i \in SupplyItem : presentation[i] # NotSold /\ presentation'[i] # NotSold /\ Len(invoices') = Len(invoices)
                          => presentation'[i].at = presentation[i].at]_supplyVars

(* The catalogue, the suppliers and their invoices: what is written is     *)
(* meaningful together, and an invoice leaves one price everywhere.        *)
SupplyIsSound == []CatalogStaysMeaningful /\ PricesAgree
=============================================================================
