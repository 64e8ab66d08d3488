------------------------------ MODULE Reconcile ------------------------------
(***************************************************************************)
(* What repairs the inventory a backup brought: the auditor with its       *)
(* resolver (inventory-audit.service.ts) and the script that reconciles    *)
(* (prisma/reconcile-inventory.ts), while loans go on. Every rule and      *)
(* every phase works device by device, so there is one device here; rows   *)
(* of these types have no condition. The script runs outside of any        *)
(* transaction: it reads the kardex, counts the shelf, and writes later.   *)
(***************************************************************************)
EXTENDS Integers, Sequences, FiniteSetsExt, SequencesExt

CONSTANTS
    UNITS,        \* the device has the units 1 .. UNITS, in order of creation
    Runner,       \* runs of the script that may overlap
    MaxRows, MaxRuns, MaxOps

ASSUME ReconcileAssumption == {UNITS, MaxRows, MaxRuns, MaxOps} \subseteq Nat

VARIABLES
    shelf,        \* the AVAILABLE units; the others are ON_LOAN
    rows,         \* movement_items by date: [type, quantity, linked, open, key]
    run,          \* runner -> the run it is in
    runs, ops,    \* bounds
    stale         \* history: the runs whose count of the shelf is not of their kardex

reconcileVars == <<shelf, rows, run, runs, ops, stale>>

TheUnits == 1..UNITS
NoRun == [pc |-> "idle"]
OldRow(type, quantity, linked, open) ==
    [type |-> type, quantity |-> quantity, linked |-> linked, open |-> open, key |-> "none"]

(***************************************************************************)
(* The auditor                                                             *)
(***************************************************************************)
Signed(type, quantity) == IF type \in {"STOCK_IN", "ADJUSTMENT_IN", "RETURN"} THEN quantity ELSE 0 - quantity
Kardex(list) == MapThenSumSet(LAMBDA n : Signed(list[n].type, list[n].quantity), DOMAIN list)

Mismatched == {n \in DOMAIN rows : rows[n].quantity # Cardinality(rows[n].linked)}

FreeUnits(n) == TheUnits \ rows[n].linked

Lacking(n) == Max({0, rows[n].quantity - Cardinality(rows[n].linked)})
LinkedAfter(n) == Cardinality(rows[n].linked) + Min({Lacking(n), Cardinality(FreeUnits(n))})

(* ledgerIfQuantity, what the screen shows before the user decides.        *)
LedgerIfQuantity(n) ==
    Kardex(rows) - Signed(rows[n].type, rows[n].quantity) + Signed(rows[n].type, LinkedAfter(n))

Oldest(units, count) == {u \in units : Cardinality({v \in units : v < u}) < count}

(* resolveMismatch; "review" writes nothing.                               *)
ResolveMismatch(n, mode) ==
    /\ ops < MaxOps /\ ops' = ops + 1
    /\ LET linked == rows[n].linked \cup Oldest(TheUnits \ rows[n].linked, rows[n].quantity - Cardinality(rows[n].linked))
       IN  rows' = [rows EXCEPT ![n].linked = linked,
                                ![n].quantity = IF mode = "quantity" THEN Cardinality(linked) ELSE @]
    /\ stale' = IF mode = "quantity" THEN stale \cup {r \in Runner : run[r].pc \in {"count", "adjust"}} ELSE stale
    /\ UNCHANGED <<shelf, run, runs>>

(***************************************************************************)
(* Loans                                                                   *)
(***************************************************************************)
Handled(list, units) ==
    /\ Len(rows) < MaxRows /\ ops < MaxOps /\ ops' = ops + 1
    /\ rows' = list /\ shelf' = units
    /\ stale' = stale \cup {r \in Runner : run[r].pc = "count"}
    /\ UNCHANGED <<run, runs>>

LendUnit(u) ==
    /\ u \in shelf
    /\ Handled(Append(rows, OldRow("LOAN", 1, {u}, {u})), shelf \ {u})

TakeBack(n, u) ==
    /\ u \in rows[n].open
    /\ Handled(Append([rows EXCEPT ![n].open = @ \ {u}], OldRow("RETURN", 1, {u}, {})), shelf \cup {u})

(***************************************************************************)
(* The script                                                              *)
(***************************************************************************)
Runs(r, next) == run' = [run EXCEPT ![r] = next]

ReadKardex(r) ==
    /\ run[r] = NoRun /\ runs < MaxRuns /\ runs' = runs + 1
    /\ Runs(r, [pc |-> "count", ledger |-> Kardex(rows)])
    /\ stale' = stale \ {r}
    /\ UNCHANGED <<shelf, rows, ops>>

CountShelf(r) ==
    /\ run[r].pc = "count"
    /\ Runs(r, [pc |-> "adjust", diff |-> Cardinality(shelf) - run[r].ledger])
    /\ UNCHANGED <<shelf, rows, runs, ops, stale>>

(* pickUnits: an old exit first, then what never moved, then the rest.     *)
Priority(u) ==
    IF \E n \in DOMAIN rows : rows[n].type = "ADJUSTMENT_OUT" /\ u \in rows[n].linked THEN 0
    ELSE IF \A n \in DOMAIN rows : u \notin rows[n].linked THEN 1 ELSE 2
PickUnits(diff) ==
    LET Before(v, u) == Priority(v) < Priority(u) \/ (Priority(v) = Priority(u) /\ v < u)
    IN  {u \in shelf : Cardinality({v \in shelf : Before(v, u)}) < diff}

(* Mutant: nobody looks for the adjustment of another run.                 *)
AlreadyNever == FALSE
Already == \E n \in DOMAIN rows : rows[n].key = "reconcile-ledger"

(* applyLedgerAdjustment; its key is unique, so the second one is none.    *)
ApplyLedgerAdjustment(r) ==
    /\ run[r].pc = "adjust"
    /\ LET diff == run[r].diff
           adjusts == diff > 0 /\ ~Already /\ Cardinality(shelf) >= diff
       IN  /\ adjusts => Len(rows) < MaxRows
           /\ rows' = IF adjusts
                      THEN Append(rows, [OldRow("ADJUSTMENT_IN", diff, PickUnits(diff), {}) EXCEPT !.key = "reconcile-ledger"])
                      ELSE rows
    /\ Runs(r, [pc |-> "entries"])
    /\ UNCHANGED <<shelf, runs, ops, stale>>

(* linkEntryUnits: one cursor goes over the units for all the entries that *)
(* lack some; an entry the rest does not cover is left as it is.           *)
Entries == SelectSeq([n \in DOMAIN rows |-> n],
             LAMBDA n : rows[n].type \in {"STOCK_IN", "ADJUSTMENT_IN"} /\ rows[n].key = "none" /\ n \in Mismatched)
Taken(plan, n) ==
    LET missing == rows[n].quantity - Cardinality(rows[n].linked)
        ahead == {u \in TheUnits : u > plan.cursor} \ rows[n].linked
        take == Oldest(ahead, missing)
    IN  IF Cardinality(ahead) < missing THEN [plan EXCEPT !.cursor = UNITS]
        ELSE [links |-> [plan.links EXCEPT ![n] = take], cursor |-> Max(take \cup {plan.cursor})]
PlanEntries(r) ==
    /\ run[r].pc = "entries"
    /\ Runs(r, [pc |-> "link",
                links |-> FoldLeft(Taken, [links |-> [n \in DOMAIN rows |-> {}], cursor |-> 0], Entries).links])
    /\ UNCHANGED <<shelf, rows, runs, ops, stale>>

LinkEntryUnits(r) ==
    /\ run[r].pc = "link"
    /\ rows' = [n \in DOMAIN rows |->
                  IF n \in DOMAIN run[r].links THEN [rows[n] EXCEPT !.linked = @ \cup run[r].links[n]] ELSE rows[n]]
    /\ Runs(r, [pc |-> "loans"])
    /\ UNCHANGED <<shelf, runs, ops, stale>>

(* linkLoanItemUnits; the report that follows writes nothing.              *)
LinkLoanItemUnits(r) ==
    /\ run[r].pc = "loans"
    /\ rows' = [n \in DOMAIN rows |->
                  IF rows[n].type = "LOAN" /\ n \in Mismatched
                  THEN [rows[n] EXCEPT !.linked = @ \cup Oldest(rows[n].open \ @, rows[n].quantity - Cardinality(@))]
                  ELSE rows[n]]
    /\ Runs(r, NoRun)
    /\ UNCHANGED <<shelf, runs, ops, stale>>

(***************************************************************************)
(* The specification                                                       *)
(***************************************************************************)
(* What a backup holds: entries that name their units or none, perhaps an  *)
(* exit whose unit is still there, or a loan whose row names no unit.      *)
RepairEntry == {OldRow("STOCK_IN", q, l, {}) : q \in 1..UNITS + 1, l \in SUBSET TheUnits}
LegacyEntry == {e \in RepairEntry : e.linked = {} \/ Cardinality(e.linked) = e.quantity}
LegacyRest ==
    {<<>>} \cup {<<OldRow("ADJUSTMENT_OUT", 1, l, {})>> : l \in {{}, {1}}}
           \cup {<<OldRow("LOAN", Cardinality(o), {}, o)>> : o \in SUBSET TheUnits \ {{}}}
           \cup {<<OldRow("LOAN", Cardinality(o) + 1, {}, o), OldRow("RETURN", 1, {}, {})>> : o \in SUBSET TheUnits \ {TheUnits}}

ReconcileInit ==
    /\ \E entries \in {<<e>> : e \in LegacyEntry} \cup (LegacyEntry \X LegacyEntry), rest \in LegacyRest :
         rows = entries \o rest
    /\ shelf = TheUnits \ UNION {rows[n].open : n \in DOMAIN rows}
    /\ run = [r \in Runner |-> NoRun] /\ runs = 0 /\ ops = 0 /\ stale = {}

ReconcileNext ==
    \/ \E r \in Runner : ReadKardex(r) \/ CountShelf(r) \/ ApplyLedgerAdjustment(r) \/ PlanEntries(r)
                         \/ LinkEntryUnits(r) \/ LinkLoanItemUnits(r)
    \/ \E n \in Mismatched, mode \in {"link", "quantity"} : ResolveMismatch(n, mode)
    \/ \E u \in TheUnits : LendUnit(u) \/ \E n \in DOMAIN rows : TakeBack(n, u)

ReconcileSpec == ReconcileInit /\ [][ReconcileNext]_reconcileVars

(***************************************************************************)
(* Properties                                                              *)
(***************************************************************************)
(* applyLedgerAdjustment ("blindar dobles corridas concurrentes") and      *)
(* resolveMismatch: whatever runs and loans overlap, an adjustment leaves  *)
(* the kardex at the units on the shelf, unless one of them was changed    *)
(* between the two reads of the run; and a quantity that is corrected      *)
(* leaves the kardex the screen announced.                                 *)
RepairsAreExact ==
    [][/\ \A r \in Runner : (/\ run[r].pc = "adjust" /\ run'[r].pc = "entries"
                             /\ rows' # rows /\ r \notin stale) => Kardex(rows') = Cardinality(shelf')
       /\ \A n \in Mismatched : rows'[n].quantity # rows[n].quantity => Kardex(rows') = LedgerIfQuantity(n)]_reconcileVars
=============================================================================
