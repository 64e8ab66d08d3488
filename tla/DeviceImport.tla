----------------------------- MODULE DeviceImport -----------------------------
(***************************************************************************)
(* The catalogue of devices and the load of a spreadsheet into it          *)
(* (device-import.service.ts). A load is planned, shown and confirmed: the *)
(* confirmation looks for its request, reads types and devices, plans,     *)
(* looks for the hash of the file, and then one Serializable transaction   *)
(* resolves every planned row once more. Other people edit the catalogue   *)
(* in between. Texts are compared normalised; brand and model are one      *)
(* value, and so are code and name of a type; a code is a number and 0 is  *)
(* none; prefixes are numbered, GEN, GEN2, ... being 1, 2, ...             *)
(***************************************************************************)
EXTENDS Integers, Sequences, FiniteSetsExt, SequencesExt

CONSTANTS
    Type,           \* what a file or a form may call a type, GENERIC among it
    Name, Model,    \* MISSING is the placeholder of brand and model
    Code,           \* the codes a file or a form may bring
    Prefix,         \* the prefixes a form may bring
    File,           \* sequences of [code, type, name, model, quantity]; "" is blank
    RequestId, Importer,
    MaxImportRows, MaxImportUnits, MaxRowQuantity,
    MaxChanges      \* bound on the requests

GENERIC == "generic"
MISSING == "missing"
NoCode == 0
NoType == 0
NewCode == 100      \* generateUniqueDeviceCode: beyond what anybody types

ASSUME ImportAssumption == /\ GENERIC \in Type /\ NoCode \notin Code /\ \A c \in Code : c < NewCode
                           /\ MaxChanges \in Nat /\ "" \notin Name

VARIABLES
    types,          \* [id, name, prefix, active, counter]
    devices,        \* [id, typeId, code, name, model, tags]
    lastType, lastDevice,   \* ids given so far
    loaded,         \* the movements of loads: [file, request]
    importer,       \* importer -> the confirmation being answered
    changes,        \* requests so far
    moved           \* history: importers whose plan is older than the catalogue

importVars == <<types, devices, lastType, lastDevice, loaded, importer, changes, moved>>

NotImporting == [pc |-> "idle"]
Planning == {i \in Importer : importer[i].pc \notin {"idle", "types"}}
TypeIds(table) == {t.id : t \in table}
TypeOf(table, id) == CHOOSE t \in table : t.id = id

(***************************************************************************)
(* Where a row goes                                                        *)
(***************************************************************************)
(* resolveDevice: the code decides; then the name; then the model, when    *)
(* only one device has it.                                                 *)
ResolveDevice(table, typeId, code, name, model) ==
    LET byCode == {d \in table : code # NoCode /\ d.code = code}
        byKey == {d \in table : d.typeId = typeId /\ d.name = name /\ d.model = model}
        byModel == {d \in table : model # MISSING /\ d.model = model}
        found == IF byCode # {} THEN byCode
                 ELSE IF code # NoCode THEN {}
                 ELSE IF byKey # {} THEN byKey ELSE byModel
    IN  [error |-> \/ code # NoCode /\ byCode = {} /\ (byKey # {} \/ byModel # {})
                   \/ Cardinality(found) > 1,
         found |-> found]

(* device 0 is one to create.                                              *)
Identity(found, typeId, name, model) ==
    IF found # {} THEN LET d == CHOOSE d \in found : TRUE
                       IN  [device |-> d.id, code |-> d.code, typeId |-> NoType, name |-> "", model |-> ""]
    ELSE [device |-> 0, code |-> NoCode, typeId |-> typeId, name |-> name, model |-> model]

(* Mutant: a row that was matched keeps the code of the file.              *)
RowCodeOfFile(found, code) == code
RowCode(found, code) == IF found # {} THEN (CHOOSE d \in found : TRUE).code ELSE code

RowTypeId(found, typeId) == IF found # {} THEN (CHOOSE d \in found : TRUE).typeId ELSE typeId

Resolved(table, row) ==
    LET r == ResolveDevice(table, row.typeId, row.code, row.name, row.model)
    IN  [typeId |-> RowTypeId(r.found, row.typeId), code |-> RowCode(r.found, row.code), fileCode |-> row.code,
         name |-> row.name, model |-> row.model, quantity |-> row.quantity,
         error |-> r.error, identity |-> Identity(r.found, row.typeId, row.name, row.model)]

(* Rows of one device are one group, in the order of its first row.        *)
Groups(rows) ==
    FoldLeft(LAMBDA groups, row :
               LET at == {k \in DOMAIN groups : groups[k].identity = row.identity}
               IN  IF at = {} THEN Append(groups, [identity |-> row.identity, typeId |-> row.typeId, code |-> row.code, quantity |-> row.quantity])
                   ELSE LET k == CHOOSE k \in at : TRUE
                        IN  [groups EXCEPT ![k].quantity = @ + row.quantity,
                                           ![k].code = IF @ = NoCode THEN row.code ELSE @],
             <<>>, rows)

NewGroups(groups) == SelectSeq([k \in DOMAIN groups |-> k], LAMBDA k : groups[k].identity.device = 0)

(***************************************************************************)
(* Types and tags                                                          *)
(***************************************************************************)
Generics(table) == {t \in table : t.name = GENERIC}
FreeGenericPrefix(table) == Min((1..Cardinality(table) + 1) \ {t.prefix : t \in table})
NewGeneric(table, id) == [id |-> id, name |-> GENERIC, prefix |-> FreeGenericPrefix(table), active |-> TRUE, counter |-> 0]

(* ensureGenericDeviceType, and the catalogue it leaves.                   *)
EnsureGeneric == IF Generics(types) # {} THEN types ELSE types \cup {NewGeneric(types, lastType + 1)}

(* createUnits: the tags each group takes from the counter of its type,    *)
(* those of the groups before it having been taken.                        *)
TagsOf(table, groups, k) ==
    LET before == MapThenSumSet(LAMBDA j : groups[j].quantity, {j \in 1..k - 1 : groups[j].typeId = groups[k].typeId})
        type == TypeOf(table, groups[k].typeId)
    IN  {<<type.prefix, type.counter + before + n>> : n \in 1..groups[k].quantity}

TagIsTaken(tag) == \E d \in devices : tag \in d.tags

(***************************************************************************)
(* The plan                                                                *)
(***************************************************************************)
(* The type chosen on the screen wins; then the one of the file; then the  *)
(* generic one, which has no id yet when it is missing.                    *)
TargetType(table, chosen, name) ==
    IF chosen # NoType THEN chosen
    ELSE IF \E t \in table : t.name = name THEN (CHOOSE t \in table : t.name = name).id
    ELSE IF Generics(table) # {} THEN (CHOOSE t \in Generics(table) : TRUE).id ELSE NoType

(* Only the devices of the types that were read are seen.                  *)
Plan(table, file, chosen) ==
    [n \in DOMAIN file |->
       Resolved({d \in devices : d.typeId \in TypeIds(table)},
                [typeId |-> TargetType(table, chosen[n], file[n].type), code |-> file[n].code,
                 name |-> file[n].name, model |-> file[n].model, quantity |-> file[n].quantity])]

(* CODE_DUPLICATED_IN_FILE, CODE_CONFLICT_IN_FILE.                         *)
CodesClash(rows) ==
    \E a, b \in DOMAIN rows :
      /\ NoCode \notin {rows[a].fileCode, rows[b].fileCode}
      /\ \/ rows[a].fileCode = rows[b].fileCode /\ rows[a].identity # rows[b].identity
         \/ rows[a].identity.device = 0 /\ rows[a].identity = rows[b].identity /\ rows[a].fileCode # rows[b].fileCode

RowIsValid(row) == row.name # "" /\ row.quantity \in 1..MaxRowQuantity /\ ~row.error

PlanIsValid(rows) ==
    /\ Len(rows) \in 1..MaxImportRows /\ ~CodesClash(rows) /\ \A n \in DOMAIN rows : RowIsValid(rows[n])
    /\ MapThenSumSet(LAMBDA n : rows[n].quantity, DOMAIN rows) <= MaxImportUnits

ChoiceIsValid(table, chosen) == \A n \in DOMAIN chosen : chosen[n] # NoType => \E t \in table : t.id = chosen[n] /\ t.active

(* The tags that are shown; a generic type that is missing starts at 1.    *)
AssetTags(table, rows) ==
    LET shown == IF Generics(table) # {} THEN table ELSE table \cup {NewGeneric(table, NoType)}
    IN  [k \in DOMAIN Groups(rows) |-> TagsOf(shown, Groups(rows), k)]

(***************************************************************************)
(* confirm                                                                 *)
(***************************************************************************)
Answer(i, step) == importer' = [importer EXCEPT ![i] = step]
Refuse(i) == Answer(i, NotImporting)
CatalogueStays == UNCHANGED <<types, devices, lastType, lastDevice, loaded>>

(* movementByRequest; a request of somebody else is refused, one's own is  *)
(* answered again.                                                         *)
AlreadyDone(request) == \E m \in loaded : m.request = request

Confirm(i, file, chosen, allowRepeatFile, request) ==
    /\ importer[i] = NotImporting /\ changes < MaxChanges /\ changes' = changes + 1
    /\ ~AlreadyDone(request)
    /\ Answer(i, [pc |-> "types", file |-> file, chosen |-> chosen, allow |-> allowRepeatFile, request |-> request])
    /\ CatalogueStays /\ UNCHANGED moved

ReadTypes(i) ==
    /\ importer[i].pc = "types"
    /\ Answer(i, [pc |-> "devices", file |-> importer[i].file, chosen |-> importer[i].chosen, allow |-> importer[i].allow,
                  request |-> importer[i].request, types |-> types])
    /\ moved' = moved \ {i}
    /\ CatalogueStays /\ UNCHANGED changes

ReadDevices(i) ==
    /\ importer[i].pc = "devices"
    /\ LET load == importer[i]
           rows == Plan(load.types, load.file, load.chosen)
       IN  IF ChoiceIsValid(load.types, load.chosen) /\ PlanIsValid(rows)
           THEN Answer(i, [pc |-> IF load.allow THEN "planned" ELSE "check", file |-> load.file, request |-> load.request,
                           rows |-> rows, tags |-> AssetTags(load.types, rows)])
           ELSE Refuse(i)
    /\ CatalogueStays /\ UNCHANGED <<changes, moved>>

(* findRepeatedImport                                                      *)
AlreadyLoaded(file) == \E m \in loaded : m.file = file

CheckFile(i) ==
    /\ importer[i].pc = "check"
    /\ IF AlreadyLoaded(importer[i].file) THEN Refuse(i) ELSE Answer(i, [importer[i] EXCEPT !.pc = "planned"])
    /\ CatalogueStays /\ UNCHANGED <<changes, moved>>

(* groupRows                                                               *)
GroupRows(rows) ==
    LET generic == (CHOOSE t \in Generics(EnsureGeneric) : TRUE).id
    IN  [n \in DOMAIN rows |-> Resolved(devices, [rows[n] EXCEPT !.typeId = IF @ = NoType THEN generic ELSE @])]

(* DEVICE_IMPORT_CHANGED, INVALID_DEVICE_TYPE.                             *)
RowsChanged(rows) == \E n \in DOMAIN rows : rows[n].error
TypeIsGone(groups) ==
    \E k \in DOMAIN groups : /\ groups[k].identity.device = 0
                             /\ ~\E t \in EnsureGeneric : t.id = groups[k].typeId /\ t.active

(* The unique columns: a code that two new devices want, a tag that another*)
(* type gave before it changed its prefix, a request that was answered.    *)
Collides(groups, request) ==
    \/ \E j, k \in DOMAIN groups : j # k /\ groups[j].identity.device = 0 /\ groups[k].identity.device = 0
                                   /\ groups[j].code = groups[k].code /\ groups[j].code # NoCode
    \/ \E k \in DOMAIN groups, tag \in UNION {d.tags : d \in devices} : tag \in TagsOf(EnsureGeneric, groups, k)
    \/ AlreadyDone(request)

(* The attempt that ends it. An earlier one that lost a race leaves        *)
(* nothing: the second one, isDeviceRace, resolves the same plan.          *)
CreateImport(i) ==
    /\ importer[i].pc = "planned"
    /\ LET rows == GroupRows(importer[i].rows)
           groups == Groups(rows)
           new == NewGroups(groups)
           IdOf(k) == lastDevice + CHOOSE n \in DOMAIN new : new[n] = k
           Created(k) == [id |-> IdOf(k), typeId |-> groups[k].typeId, name |-> groups[k].identity.name, model |-> groups[k].identity.model,
                          code |-> IF groups[k].code = NoCode THEN NewCode + IdOf(k) ELSE groups[k].code,
                          tags |-> TagsOf(EnsureGeneric, groups, k)]
           Grown(d) == [d EXCEPT !.tags = @ \cup UNION {TagsOf(EnsureGeneric, groups, k) : k \in {j \in DOMAIN groups : groups[j].identity.device = d.id}}]
           Taken(id) == MapThenSumSet(LAMBDA k : groups[k].quantity, {k \in DOMAIN groups : groups[k].typeId = id})
       IN  IF RowsChanged(rows) \/ TypeIsGone(groups) \/ Collides(groups, importer[i].request) THEN CatalogueStays /\ UNCHANGED moved
           ELSE /\ devices' = {Grown(d) : d \in devices} \cup {Created(k) : k \in {new[n] : n \in DOMAIN new}}
                /\ types' = {[t EXCEPT !.counter = @ + Taken(t.id)] : t \in EnsureGeneric}
                /\ lastDevice' = lastDevice + Len(new)
                /\ lastType' = lastType + (IF Generics(types) = {} THEN 1 ELSE 0)
                /\ loaded' = loaded \cup {[file |-> importer[i].file, request |-> importer[i].request]}
                /\ moved' = moved \cup (Planning \ {i})
    /\ Refuse(i)
    /\ UNCHANGED changes

(***************************************************************************)
(* The catalogue                                                           *)
(***************************************************************************)
Edited(newTypes, newDevices) ==
    /\ changes < MaxChanges /\ changes' = changes + 1
    /\ types' = newTypes /\ devices' = newDevices
    /\ moved' = moved \cup Planning
    /\ UNCHANGED <<loaded, importer>>

NothingNew == UNCHANGED <<lastType, lastDevice>>

CodeIsFree(code, id) == \A d \in devices : d.code = code => d.id = id
DeviceKeyIsFree(typeId, name, model, id) == \A d \in devices : d.typeId = typeId /\ d.name = name /\ d.model = model => d.id = id
Replaced(table, old, new) == (table \ {old}) \cup {new}

(* createUnits for one device: nothing is created if a tag is taken.       *)
FreshTags(t, quantity) == {<<t.prefix, t.counter + n>> : n \in 1..quantity}
Counted(t, quantity) == Replaced(types, t, [t EXCEPT !.counter = @ + quantity])

CreateDevice(t, code, name, model, quantity) ==
    /\ t.active /\ (code # NoCode => CodeIsFree(code, 0)) /\ DeviceKeyIsFree(t.id, name, model, 0)
    /\ \A tag \in FreshTags(t, quantity) : ~TagIsTaken(tag)
    /\ lastDevice' = lastDevice + 1 /\ UNCHANGED lastType
    /\ Edited(Counted(t, quantity),
              devices \cup {[id |-> lastDevice + 1, typeId |-> t.id, name |-> name, model |-> model, tags |-> FreshTags(t, quantity),
                             code |-> IF code = NoCode THEN NewCode + lastDevice + 1 ELSE code]})

UpdateDevice(d, code, name, model) ==
    /\ (code # NoCode => CodeIsFree(code, d.id)) /\ DeviceKeyIsFree(d.typeId, name, model, d.id)
    /\ Edited(types, Replaced(devices, d, [d EXCEPT !.name = name, !.model = model, !.code = IF code = NoCode THEN @ ELSE code]))
    /\ NothingNew

(* movementEntry, as the catalogue sees it.                                *)
EnterUnit(d) ==
    LET t == TypeOf(types, d.typeId)
    IN  /\ \A tag \in FreshTags(t, 1) : ~TagIsTaken(tag)
        /\ Edited(Counted(t, 1), Replaced(devices, d, [d EXCEPT !.tags = @ \cup FreshTags(t, 1)]))
        /\ NothingNew

DeleteDevice(d) == d.tags = {} /\ Edited(types, devices \ {d}) /\ NothingNew

PrefixIsFree(prefix, id) == \A t \in types : t.prefix = prefix => t.id = id

CreateType(name, prefix) ==
    /\ ~\E t \in types : t.name = name
    /\ PrefixIsFree(prefix, 0)
    /\ lastType' = lastType + 1 /\ UNCHANGED lastDevice
    /\ Edited(types \cup {[id |-> lastType + 1, name |-> name, prefix |-> prefix, active |-> TRUE, counter |-> 0]}, devices)

UpdateType(t, prefix, active) ==
    /\ PrefixIsFree(prefix, t.id)
    /\ Edited(Replaced(types, t, [t EXCEPT !.prefix = prefix, !.active = active]), devices)
    /\ NothingNew

DeleteType(t) == (\A d \in devices : d.typeId # t.id) /\ Edited(types \ {t}, devices) /\ NothingNew

(***************************************************************************)
(* The specification                                                       *)
(***************************************************************************)
(* An empty catalogue, or one type with a device that has one unit.        *)
ImportInit ==
    /\ \/ types = {} /\ devices = {} /\ lastType = 0 /\ lastDevice = 0
       \/ /\ lastType = 1 /\ lastDevice = 1
          /\ \E t \in Type : types = {[id |-> 1, name |-> t, prefix |-> 1, active |-> TRUE, counter |-> 1]}
          /\ \E code \in Code, name \in Name, model \in Model :
               devices = {[id |-> 1, typeId |-> 1, code |-> code, name |-> name, model |-> model, tags |-> {<<1, 1>>}]}
    /\ loaded = {} /\ changes = 0 /\ moved = {}
    /\ importer = [i \in Importer |-> NotImporting]

(* Bound: a type is chosen on the screen for one row at most.              *)
OneChosen(file) == {[k \in DOMAIN file |-> IF k = n THEN id ELSE NoType] : n \in DOMAIN file, id \in TypeIds(types) \cup {NoType}}

ImportNext ==
    \/ \E i \in Importer :
         \/ ReadTypes(i) \/ ReadDevices(i) \/ CheckFile(i) \/ CreateImport(i)
         \/ \E file \in File, allow \in BOOLEAN, request \in RequestId :
              \E chosen \in OneChosen(file) : Confirm(i, file, chosen, allow, request)
    \/ \E name \in Type, prefix \in Prefix : CreateType(name, prefix)
    \/ \E t \in types : \/ DeleteType(t)
                        \/ \E prefix \in Prefix, active \in BOOLEAN : UpdateType(t, prefix, active)
                        \/ \E code \in Code \cup {NoCode}, name \in Name, model \in Model, quantity \in 0..1 :
                             CreateDevice(t, code, name, model, quantity)
    \/ \E d \in devices : \/ EnterUnit(d) \/ DeleteDevice(d)
                          \/ \E code \in Code \cup {NoCode}, name \in Name, model \in Model : UpdateDevice(d, code, name, model)

ImportSpec == ImportInit /\ [][ImportNext]_importVars

(***************************************************************************)
(* Properties                                                              *)
(***************************************************************************)
(* plan, groupRows ("lo que el usuario revisó es lo que se ejecuta"): a    *)
(* load adds as many units as its rows say, and only one of a request does;*)
(* what was planned onto a device reaches it, however it was renamed since,*)
(* as long as it keeps its code; on an unchanged catalogue every group gets*)
(* the tags that were announced; and no tag is ever given twice.           *)
UnitsOf(id, set) == UNION {d.tags : d \in {e \in set : e.id = id}}
RowQuantity(rows, set) == MapThenSumSet(LAMBDA n : rows[n].quantity, set)
Loads(i) == importer[i].pc = "planned" /\ importer'[i] = NotImporting /\ devices' # devices

LoadsAsPlanned ==
    [][\A i \in {j \in Importer : Loads(j)} :
         LET rows == importer[i].rows
             before == UNION {d.tags : d \in devices}
             after == UNION {d.tags : d \in devices'}
         IN  /\ Cardinality(after) = Cardinality(before) + RowQuantity(rows, DOMAIN rows)
             /\ ~AlreadyDone(importer[i].request)
             /\ \A d \in devices :
                  LET planned == {n \in DOMAIN rows : rows[n].identity.device = d.id /\ rows[n].identity.code = d.code}
                  IN  Cardinality(UnitsOf(d.id, devices') \ d.tags) >= RowQuantity(rows, planned)
             /\ i \notin moved => \A k \in DOMAIN importer[i].tags :
                  \E d \in devices' : d.tags \ UnitsOf(d.id, devices) = importer[i].tags[k]
             /\ \A d, e \in devices' : d # e => d.tags \cap e.tags = {}]_importVars
=============================================================================
