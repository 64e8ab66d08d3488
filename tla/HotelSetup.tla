------------------------------ MODULE HotelSetup ------------------------------
(***************************************************************************)
(* What the hotel is made of: zones, rooms and room types                  *)
(* (rooms.service.ts), units, products and kits (hotel-catalog.service.ts) *)
(* and warehouses (warehouse.service.ts). None of these requests is a      *)
(* transaction: each one reads what it checks, and other requests run      *)
(* before it writes. A quantity counts halves of a unit. Names, order,     *)
(* thresholds and descriptions are left out; uniqueness is the database's. *)
(***************************************************************************)
EXTENDS Integers, FiniteSets

CONSTANTS
    Zone, SetupRoom, RoomType, Kit, Product, MeasureUnit, Store,
    Supervisor,     \* people whose scope is AREA (or OWN, for their cart)
    Editor,         \* requests in flight
    Focus,          \* the sets of tables that a behaviour may edit
    MaxEdits        \* bound on the requests

NoOne == "none"
Admin == "admin"    \* scope ALL

Table == {"zone", "type", "room", "unit", "product", "kit", "warehouse"}

ASSUME SetupAssumption == /\ MaxEdits \in Nat /\ Admin \notin Supervisor /\ Focus \subseteq SUBSET Table
                          /\ NoOne \notin Zone \cup SetupRoom \cup RoomType \cup Kit \cup Supervisor \cup Store
                          /\ IsFiniteSet(Zone)

VARIABLES
    focus,
    row,            \* table -> id -> its columns
    supervises,     \* hotel_zone_supervisors
    editor,         \* editor -> the write it is about to do
    edits,
    crossed         \* history: the pairs of tables whose requests overlapped

setupVars == <<focus, row, supervises, editor, edits, crossed>>

NoRequest == [table |-> "none"]
Busy == {e \in Editor : editor[e] # NoRequest}

(***************************************************************************)
(* Scope                                                                   *)
(***************************************************************************)
Children(set) == {z \in Zone : row.zone[z].parent \in set}

(* walk: the zones below the ones of the caller, each visited once.        *)
Below[n \in Nat] == IF n = 0 THEN [s \in Supervisor |-> {z \in Zone : s \in supervises[z]}]
                    ELSE [s \in Supervisor |-> Below[n - 1][s] \cup Children(Below[n - 1][s])]
VisibleZoneIds(caller) == IF caller = Admin THEN Zone ELSE Below[Cardinality(Zone)][caller]

InScope(caller, zone) == zone \in VisibleZoneIds(caller)

(* scope is "AREA" or "OWN" for a supervisor.                              *)
VisibleWarehouseIds(caller, scope) ==
    IF caller = Admin THEN Store
    ELSE IF scope = "OWN" THEN {w \in Store : row.warehouse[w].owner = caller}
    ELSE {w \in Store : row.warehouse[w].zone \in VisibleZoneIds(caller)}

(* The loop of inspectionRequired, stopped where only a cycle would go on. *)
Above[n \in Nat] == [z \in Zone \cup {NoOne} |->
    IF n = 0 \/ z = NoOne THEN {z} ELSE {z} \cup Above[n - 1][row.zone[z].parent]]
AncestorZones(zone) == Above[Cardinality(Zone)][zone] \ {NoOne}
WalkEnds(zone) == NoOne \in Above[Cardinality(Zone)][zone]
InspectionRequired(room) ==
    \/ row.type[row.room[room].type].inspection
    \/ \E z \in AncestorZones(row.room[room].zone) : row.zone[z].inspection

(***************************************************************************)
(* What each request checks; data has the columns the request brings       *)
(***************************************************************************)
Asks(data, column) == column \in DOMAIN data
Changed(old, data) == [column \in DOMAIN old |-> IF Asks(data, column) THEN data[column] ELSE old[column]]
Deactivates(data) == Asks(data, "active") /\ ~data.active

ParentFits(kind, parent) ==
    IF kind = "FLOOR" THEN parent # NoOne /\ row.zone[parent].kind = "BUILDING" /\ row.zone[parent].active
    ELSE parent = NoOne

ActiveRooms(column, id) == {r \in SetupRoom : row.room[r].active /\ row.room[r][column] = id}

(* Mutant: the parent is checked only when the request brings one.         *)
UpdateZoneByParent(id, data) ==
    LET new == Changed(row.zone[id], data)
    IN  /\ new.kind # "none"
        /\ Asks(data, "parent") => new.parent # id /\ ParentFits(new.kind, new.parent)
        /\ Deactivates(data) => ActiveRooms("zone", id) = {} /\ {z \in Children({id}) : row.zone[z].active} = {}

(* createZone (a zone without a kind is not there yet), updateZone and     *)
(* removeZone                                                              *)
UpdateZone(id, data) ==
    LET new == Changed(row.zone[id], data)
    IN  /\ new.kind # "none"
        /\ Asks(data, "kind") \/ Asks(data, "parent") => new.parent # id /\ ParentFits(new.kind, new.parent)
        /\ Deactivates(data) => ActiveRooms("zone", id) = {} /\ {z \in Children({id}) : row.zone[z].active} = {}

(* assertKitForType: an active type has an active kit.                     *)
UpdateRoomType(id, data) ==
    LET new == Changed(row.type[id], data)
    IN  /\ new.active => new.kit # NoOne /\ row.kit[new.kit].active
        /\ ~new.active => ActiveRooms("type", id) = {}

(* removeRoomType checks no kit.                                           *)
RemoveRoomType(id, data) == data = [active |-> FALSE] /\ ActiveRooms("type", id) = {}

RowOfRoom(id, data) == Changed(row.room[id], data)
CreateRoom(id, data) ==
    /\ row.room[id].zone = NoOne /\ DOMAIN data = {"zone", "type", "active"} /\ data.active
    /\ row.zone[data.zone].active /\ row.zone[data.zone].kind = "FLOOR"
    /\ row.type[data.type].active

(* updateRoom and removeRoom: an active room may lie in a zone that is not.*)
UpdateRoom(id, data) ==
    /\ row.room[id].zone # NoOne /\ ~Asks(data, "zone")
    /\ Asks(data, "type") => row.type[data.type].active

Fits(quantity, unit) == row.unit[unit].whole => quantity % 2 = 0
LinesOf(product) == {k \in Kit : row.kit[k].lines[product] > 0}

UpdateUnit(id, data) ==
    (Asks(data, "whole") /\ data.whole /\ ~row.unit[id].whole) =>
      \A p \in Product : row.product[p].unit = id => \A k \in Kit : row.kit[k].lines[p] % 2 = 0

UpdateProduct(id, data) ==
    /\ (Asks(data, "kind") /\ data.kind = "EQUIPMENT" /\ row.product[id].kind # "EQUIPMENT") => LinesOf(id) = {}
    /\ (Asks(data, "unit") /\ data.unit # row.product[id].unit) =>
         row.unit[data.unit].active /\ \A k \in LinesOf(id) : Fits(row.kit[k].lines[id], data.unit)

RemoveProduct(id, data) == data = [active |-> FALSE] /\ \A k \in LinesOf(id) : ~row.kit[k].active

(* assertKitNotInUse                                                       *)
UpdateKit(id, data) ==
    /\ DOMAIN data = {"active"}
    /\ Deactivates(data) => \A t \in RoomType : row.type[t].kit = id => ~row.type[t].active

SetKitLines(id, data) ==
    /\ DOMAIN data = {"lines"}
    /\ \A p \in Product : data.lines[p] > 0 =>
         row.product[p].active /\ row.product[p].kind # "EQUIPMENT" /\ Fits(data.lines[p], row.product[p].unit)

(* create, update and remove: a cart has an owner, nothing else has.       *)
UpdateWarehouse(id, data) ==
    IF row.warehouse[id].kind = "none"
    THEN DOMAIN data = {"kind", "zone", "owner", "active"} /\ data.active /\ (data.kind = "CART" <=> data.owner # NoOne)
    ELSE DOMAIN data \subseteq {"zone", "active"}

(* One active cart per owner, one active laundry: partial unique indexes,  *)
(* checked by the write.                                                   *)
WarehouseIndexHolds(id, data) ==
    LET new == Changed(row.warehouse[id], data)
        others == {row.warehouse[w] : w \in Store \ {id}}
    IN  new.active => \A other \in others : other.active =>
          /\ (new.kind = "CART" /\ other.kind = "CART") => new.owner # other.owner
          /\ ~(new.kind = "LAUNDRY" /\ other.kind = "LAUNDRY")

Checked(table, id, data) ==
    \/ table = "zone" /\ UpdateZone(id, data)
    \/ table = "type" /\ (UpdateRoomType(id, data) \/ RemoveRoomType(id, data))
    \/ table = "room" /\ (CreateRoom(id, data) \/ UpdateRoom(id, data))
    \/ table = "unit" /\ UpdateUnit(id, data)
    \/ table = "product" /\ (UpdateProduct(id, data) \/ RemoveProduct(id, data))
    \/ table = "kit" /\ (UpdateKit(id, data) \/ SetKitLines(id, data))
    \/ table = "warehouse" /\ UpdateWarehouse(id, data)

(***************************************************************************)
(* Requests                                                                *)
(***************************************************************************)
Id(table) == DOMAIN row[table]

(* What the bodies may bring: one column, or the pair that decides a zone. *)
Data(table) ==
    {[active |-> b] : b \in BOOLEAN} \cup
    CASE table = "zone" -> {[kind |-> k] : k \in {"BUILDING", "FLOOR"}} \cup {[inspection |-> b] : b \in BOOLEAN}
                           \cup {[kind |-> k, parent |-> p] : k \in {"BUILDING", "FLOOR", "AREA"}, p \in Zone \cup {NoOne}}
      [] table = "type" -> {[kit |-> k] : k \in Kit \cup {NoOne}} \cup {[inspection |-> b] : b \in BOOLEAN}
      [] table = "room" -> {[type |-> t] : t \in RoomType} \cup {[zone |-> z, type |-> t, active |-> TRUE] : z \in Zone, t \in RoomType}
      [] table = "unit" -> {[whole |-> b] : b \in BOOLEAN}
      [] table = "product" -> {[kind |-> k] : k \in {"LINEN", "EQUIPMENT"}} \cup {[unit |-> u] : u \in MeasureUnit}
      [] table = "kit" -> {[lines |-> l] : l \in [Product -> 0..2]}
      [] table = "warehouse" -> {[zone |-> z] : z \in Zone}
                                \cup {[kind |-> k, zone |-> z, owner |-> o, active |-> TRUE] :
                                        k \in {"CART", "ZONE", "LAUNDRY"}, z \in Zone, o \in Supervisor \cup {NoOne}}

(* The scope of the caller, which only the requests on rooms look at.      *)
Allowed(caller, table, id, data) == table = "room" => InScope(caller, RowOfRoom(id, data).zone)

EditRequest(e, caller, table, id, data) ==
    /\ editor[e] = NoRequest /\ edits < MaxEdits /\ edits' = edits + 1
    /\ Checked(table, id, data) /\ Allowed(caller, table, id, data)
    /\ editor' = [editor EXCEPT ![e] = [table |-> table, id |-> id, data |-> data]]
    /\ crossed' = crossed \cup {{table, editor[b].table} : b \in Busy}
    /\ UNCHANGED <<focus, row, supervises>>

Write(e) ==
    /\ editor[e] # NoRequest
    /\ LET r == editor[e]
       IN  row' = IF r.table = "warehouse" /\ ~WarehouseIndexHolds(r.id, r.data) THEN row
                  ELSE [row EXCEPT ![r.table][r.id] = Changed(@, r.data)]
    /\ editor' = [editor EXCEPT ![e] = NoRequest]
    /\ UNCHANGED <<focus, supervises, edits, crossed>>

SetZoneSupervisors(zone, people) ==
    /\ edits < MaxEdits /\ edits' = edits + 1
    /\ supervises' = [supervises EXCEPT ![zone] = people]
    /\ UNCHANGED <<focus, row, editor, crossed>>

(* A hotel of one building with a floor, one type with its kit, and the    *)
(* rest still to be created.                                               *)
CONSTANTS FirstBuilding, FirstFloor, FirstType, FirstKit, FirstUnit

ASSUME FirstAssumption == /\ {FirstBuilding, FirstFloor} \subseteq Zone /\ FirstBuilding # FirstFloor
                          /\ FirstType \in RoomType /\ FirstKit \in Kit /\ FirstUnit \in MeasureUnit

SetupInit ==
    /\ focus \in Focus
    /\ row = [zone |-> [z \in Zone |-> [kind |-> IF z = FirstFloor THEN "FLOOR" ELSE IF z = FirstBuilding THEN "BUILDING" ELSE "none",
                                        parent |-> IF z = FirstFloor THEN FirstBuilding ELSE NoOne,
                                        active |-> TRUE, inspection |-> FALSE]],
              type |-> [t \in RoomType |-> [kit |-> IF t = FirstType THEN FirstKit ELSE NoOne, active |-> t = FirstType, inspection |-> FALSE]],
              room |-> [r \in SetupRoom |-> [zone |-> NoOne, type |-> FirstType, active |-> FALSE]],
              unit |-> [u \in MeasureUnit |-> [whole |-> u = FirstUnit, active |-> TRUE]],
              product |-> [p \in Product |-> [unit |-> FirstUnit, kind |-> "CONSUMABLE", active |-> TRUE]],
              kit |-> [k \in Kit |-> [active |-> TRUE, lines |-> [p \in Product |-> 0]]],
              warehouse |-> [w \in Store |-> [kind |-> "none", zone |-> NoOne, owner |-> NoOne, active |-> FALSE]]]
    /\ supervises = [z \in Zone |-> {}]
    /\ editor = [e \in Editor |-> NoRequest] /\ edits = 0 /\ crossed = {}

SetupNext ==
    \/ \E e \in Editor : \/ Write(e)
                         \/ \E table \in focus : \E id \in Id(table), data \in Data(table), caller \in Supervisor \cup {Admin} :
                              EditRequest(e, caller, table, id, data)
    \/ "zone" \in focus /\ \E zone \in Zone, people \in SUBSET Supervisor : SetZoneSupervisors(zone, people)

SetupSpec == SetupInit /\ [][SetupNext]_setupVars

(***************************************************************************)
(* Properties                                                              *)
(***************************************************************************)
(* inspectionRequired goes up the zones without looking back, so a cycle   *)
(* would hold the whole server: there is none unless two edits of zones    *)
(* overlapped, and then a room is inspected exactly when its type or a     *)
(* zone whose supervisors see the room asks for it (visibleZoneIds).       *)
ZonesAreATree ==
    {"zone"} \notin crossed =>
      /\ \A z \in Zone : WalkEnds(z)
      /\ \A s \in Supervisor : VisibleZoneIds(s) = {z \in Zone : \E a \in AncestorZones(z) : s \in supervises[a]}

(* assertKitForType and assertKitNotInUse, assertWholeQuantity and         *)
(* assertKittable, which each guard one side: an active type has an active *)
(* kit, and a kit has no equipment and no part of a whole unit, unless the *)
(* requests of the two sides overlapped.                                   *)
KitsAreUsable ==
    /\ crossed \cap {{"type"}, {"type", "kit"}} = {} => \A t \in RoomType : row.type[t].active => row.type[t].kit # NoOne /\ row.kit[row.type[t].kit].active
    /\ crossed \cap {{"product"}, {"kit", "product"}, {"kit", "unit"}, {"product", "unit"}} = {} =>
         \A k \in Kit, p \in Product : row.kit[k].lines[p] > 0 =>
           row.product[p].kind # "EQUIPMENT" /\ Fits(row.kit[k].lines[p], row.product[p].unit)

(* Both: what the hotel is made of fits together.                          *)
HotelFitsTogether == ZonesAreATree /\ KitsAreUsable
=============================================================================
