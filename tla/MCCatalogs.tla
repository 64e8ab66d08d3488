----------------------------- MODULE MCCatalogs -----------------------------
(* What the stores are made of and what corrects them: catalogue,          *)
(* suppliers and invoices of the kitchen, devices imported from a file,    *)
(* the script that reconciles the inventory, zones, rooms, kits and        *)
(* warehouses of the hotel, and the tasks of one room.  The parts share no *)
(* state: a behaviour runs one of Parts, the others stay as they start.    *)
EXTENDS KitchenSupply, DeviceImport, Reconcile, HotelSetup, Housekeeping, TLC

CONSTANTS Parts, x1, x2, y1, y2, q1, q2

VARIABLE part

MCRow(c, t, n, m) == [code |-> c, type |-> t, name |-> n, model |-> m, quantity |-> 1]

\* One device; the same device twice, with its code and without; a type that
\* does not exist, and a model that is the placeholder.
MCFile == {<<MCRow(0, "t1", "a", "m")>>,
           <<MCRow(1, "t1", "a", "m"), MCRow(0, "t1", "a", "m")>>,
           <<MCRow(0, "?", "b", "missing"), MCRow(0, "t1", "a", "m")>>}

\* Tables that are edited together.
MCFocus == {{"zone", "room"}, {"zone", "warehouse"}, {"kit", "product", "unit"}, {"type", "kit", "room"}}

\* The requests of the catalogues, and the tasks, are the first two values;
\* who imports, runs of the script and units of the kitchen the other two.
Symmetry == Permutations({x1, x2}) \cup Permutations({y1, y2}) \cup Permutations({q1,q2})

vars == <<part, supplyVars, importVars, reconcileVars, setupVars, roomVars>>

Init ==
  /\ part \in Parts
  /\ SupplyInit /\ ImportInit /\ ReconcileInit /\ SetupInit /\ RoomsInit
  /\ part # "import" => types = {}
  /\ part # "reconcile" => Len(rows) = 1 /\ rows[1].quantity = 1 /\ rows[1].linked = {}
  /\ part # "setup" => focus = {"zone", "room"}
  /\ part # "rooms" => \A r \in Room : room[r] = "AVAILABLE" /\ kit[r]

\* Nothing is claimed of a room once a request wrote over what had changed; and
\* two requests overlap while a task is left to open.
RoomsBound ==
  /\ lapsed # Room
  /\ (\A q \in Request : request'[q] # Idle) => \E t \in Task : task'[t].room = NoRoom

Next ==
  \/ (part = "supply" /\ SupplyNext /\ UNCHANGED <<part, importVars, reconcileVars, setupVars, roomVars>>)
  \/ (part = "import" /\ ImportNext /\ UNCHANGED <<part, supplyVars, reconcileVars, setupVars, roomVars>>)
  \/ (part = "reconcile" /\ ReconcileNext /\ UNCHANGED <<part, supplyVars, importVars, setupVars, roomVars>>)
  \/ (part = "setup" /\ SetupNext /\ UNCHANGED <<part, supplyVars, importVars, reconcileVars, roomVars>>)
  \/ (part = "rooms" /\ RoomsNext /\ RoomsBound /\ UNCHANGED <<part, supplyVars, importVars, reconcileVars, setupVars>>)

Spec == Init /\ [][Next]_vars
=============================================================================
