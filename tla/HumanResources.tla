------------------------ MODULE HumanResources ------------------------
(***************************************************************************)
(* The records of the employees: the catalogue of document types, the      *)
(* catalogues of personal data (genders, blood types), the documents in    *)
(* the object store with their rows, the personal data, and the notices    *)
(* about what is missing. Requests of several steps read, and write later. *)
(***************************************************************************)
EXTENDS Naturals, FiniteSets, Sequences

CONSTANTS
    Employee,
    DocType,        \* rows of document_types
    CatalogValue,   \* rows of genders and blood_types
    ProfileField,   \* PROFILE_FIELDS but those that name a catalogue value
    Clerks,         \* requests in flight together
    MaxFiles, MaxRequests

ASSUME HRAssumption == {MaxFiles, MaxRequests} \subseteq Nat

VARIABLES
    docType,        \* type -> [state, required]
    catalog,        \* value -> "absent", "inactive", "active"
    bucket,         \* object keys
    documents,      \* employee_documents
    person,         \* employee -> [active, filled, value]
    request,        \* clerk -> the request being served
    notices,        \* notifications, in order
    requests,       \* bound
    contended           \* history: employees whose value was written during its removal

hrVars == <<docType, catalog, bucket, documents, person, request, notices, requests, contended>>

NoValue == "none"
NoRequest == [pc |-> "idle"]
Starts(c) == request[c] = NoRequest /\ requests < MaxRequests /\ requests' = requests + 1
Goes(c, r) == request' = [request EXCEPT ![c] = r]

(***************************************************************************)
(* What is missing                                                         *)
(***************************************************************************)
DocumentsOf(e) == {d.type : d \in {x \in documents : x.of = e}}

(* gaps: the active types that were not delivered and the empty fields; of *)
(* active people only.                                                     *)
Gaps(e) ==
    LET missing == {t \in DocType : docType[t].state = "active"} \ DocumentsOf(e)
    IN  [required |-> {t \in missing : docType[t].required},
         others |-> {t \in missing : ~docType[t].required},
         fields |-> (ProfileField \ person[e].filled) \cup
                    (IF person[e].value = NoValue THEN {NoValue} ELSE {})]
IsComplete(gaps) == gaps.required = {} /\ gaps.others = {} /\ gaps.fields = {}

(***************************************************************************)
(* Documents                                                               *)
(***************************************************************************)
(* uploadDocument: the object is stored first.                             *)
UploadObject(c, e, t) ==
    /\ Starts(c) /\ docType[t].state = "active" /\ Cardinality(bucket) < MaxFiles
    /\ bucket' = bucket \cup {Cardinality(bucket) + 1}
    /\ Goes(c, [pc |-> "stored", of |-> e, type |-> t, key |-> Cardinality(bucket) + 1])
    /\ UNCHANGED <<docType, catalog, documents, person, notices, contended>>

(* The row; a type that was deleted meanwhile is a foreign key that fails. *)
CreateDocument(c) ==
    /\ request[c].pc = "stored"
    /\ documents' = IF docType[request[c].type].state = "absent" THEN documents
                    ELSE documents \cup {[of |-> request[c].of, type |-> request[c].type, key |-> request[c].key]}
    /\ Goes(c, NoRequest)
    /\ UNCHANGED <<docType, catalog, bucket, person, notices, requests, contended>>

RemoveDocument(c, d) ==
    /\ Starts(c) /\ d \in documents
    /\ documents' = documents \ {d}
    /\ UNCHANGED <<docType, catalog, bucket, person, request, notices, contended>>

(* The process dies before the row is written; the object stays.           *)
RequestDies(c) ==
    /\ request[c].pc = "stored"
    /\ Goes(c, NoRequest)
    /\ UNCHANGED <<docType, catalog, bucket, documents, person, notices, requests, contended>>

(***************************************************************************)
(* Catalogues                                                              *)
(***************************************************************************)
UpsertDocumentType(c, t, active, required) ==
    /\ Starts(c)
    /\ docType' = [docType EXCEPT ![t] = [state |-> IF active \/ @.state = "absent" THEN "active" ELSE "inactive",
                                          required |-> required]]
    /\ UNCHANGED <<catalog, bucket, documents, person, request, notices, contended>>

(* DocumentTypeService.remove: first a soft removal, then the deletion,    *)
(* which the database refuses while a document names the type.             *)
RemoveDocumentType(c, t) ==
    /\ Starts(c) /\ docType[t].state # "absent"
    /\ docType[t].state = "inactive" => \A d \in documents : d.type # t
    /\ docType' = [docType EXCEPT ![t].state = IF @ = "active" THEN "inactive" ELSE "absent"]
    /\ UNCHANGED <<catalog, bucket, documents, person, request, notices, contended>>

UpsertValue(c, v, active) ==
    /\ Starts(c)
    /\ catalog' = [catalog EXCEPT ![v] = IF active \/ @ = "absent" THEN "active" ELSE "inactive"]
    /\ UNCHANGED <<docType, bucket, documents, person, request, notices, contended>>

(* Mutant: the people who have the value are not counted.                  *)
InUseNever(v) == FALSE
InUse(v) == \E e \in Employee : person[e].value = v

(* removeGender, removeBloodType: what was read decides what is done.      *)
ReadValue(c, v) ==
    /\ Starts(c) /\ catalog[v] # "absent"
    /\ catalog[v] = "inactive" => ~InUse(v)
    /\ Goes(c, [pc |-> "removing", value |-> v, hard |-> catalog[v] = "inactive"])
    /\ UNCHANGED <<docType, catalog, bucket, documents, person, notices, contended>>

(* onDelete: SetNull.                                                      *)
RemoveValue(c) ==
    /\ request[c].pc = "removing"
    /\ LET v == request[c].value
           after == IF request[c].hard THEN "absent" ELSE "inactive"
       IN  /\ catalog' = [catalog EXCEPT ![v] = IF @ = "absent" THEN @ ELSE after]
           /\ person' = [e \in Employee |->
                           IF request[c].hard /\ person[e].value = v
                           THEN [person[e] EXCEPT !.value = NoValue] ELSE person[e]]
    /\ Goes(c, NoRequest)
    /\ UNCHANGED <<docType, bucket, documents, notices, requests, contended>>

(***************************************************************************)
(* Personal data                                                           *)
(***************************************************************************)
(* updateProfile: the value must exist when it is looked up.               *)
ReadProfile(c, e, filled, v) ==
    /\ Starts(c) /\ (v # NoValue => catalog[v] # "absent")
    /\ Goes(c, [pc |-> "profile", of |-> e, filled |-> filled, value |-> v])
    /\ UNCHANGED <<docType, catalog, bucket, documents, person, notices, contended>>

WriteProfile(c) ==
    /\ request[c].pc = "profile"
    /\ LET r == request[c]
       IN  /\ person' = IF r.value # NoValue /\ catalog[r.value] = "absent" THEN person
                        ELSE [person EXCEPT ![r.of].filled = r.filled, ![r.of].value = r.value]
           /\ contended' = IF \E d \in Clerks : request[d].pc = "removing" /\ request[d].value = r.value
                       THEN contended \cup {r.of} ELSE contended
    /\ Goes(c, NoRequest)
    /\ UNCHANGED <<docType, catalog, bucket, documents, notices, requests>>

SetActive(c, e, active) ==
    /\ Starts(c)
    /\ person' = [person EXCEPT ![e].active = active]
    /\ UNCHANGED <<docType, catalog, bucket, documents, request, notices, contended>>

(***************************************************************************)
(* Notices                                                                 *)
(***************************************************************************)
Pending(people) == {e \in people : person[e].active /\ ~IsComplete(Gaps(e))}

(* notifyMany reads who is pending ...                                     *)
NotifyMany(c, people) ==
    /\ Starts(c) /\ Pending(people) # {}
    /\ Goes(c, [pc |-> "notifying", todo |-> [e \in Pending(people) |-> Gaps(e)]])
    /\ UNCHANGED <<docType, catalog, bucket, documents, person, notices, contended>>

(* ... notifyMissing reads each of them again: <<>> is the 404 of somebody *)
(* who left and the 409 of somebody whose record is complete by now.       *)
Notice(e, todo) == IF e \in Pending({e}) THEN <<[to |-> e, gaps |-> Gaps(e)]>> ELSE <<>>

(* Either error ends the batch.                                            *)
NotifyMissing(c, e) ==
    /\ request[c].pc = "notifying" /\ e \in DOMAIN request[c].todo
    /\ LET notice == Notice(e, request[c].todo)
           left == DOMAIN request[c].todo \ {e}
       IN  /\ notices' = notices \o notice
           /\ Goes(c, IF left = {} \/ notice = <<>> THEN NoRequest
                      ELSE [pc |-> "notifying", todo |-> [x \in left |-> request[c].todo[x]]])
    /\ UNCHANGED <<docType, catalog, bucket, documents, person, requests, contended>>

(***************************************************************************)
(* The specification                                                       *)
(***************************************************************************)
HRInit ==
    /\ docType = [t \in DocType |-> [state |-> "active", required |-> TRUE]]
    /\ catalog = [v \in CatalogValue |-> "inactive"]
    /\ bucket = {} /\ documents = {}
    /\ person = [e \in Employee |-> [active |-> TRUE, filled |-> {}, value |-> NoValue]]
    /\ request = [c \in Clerks |-> NoRequest] /\ notices = <<>> /\ requests = 0 /\ contended = {}

HRNext ==
    \E c \in Clerks :
      \/ \E t \in DocType :
           \/ \E e \in Employee : UploadObject(c, e, t)
           \/ \E active, required \in BOOLEAN : UpsertDocumentType(c, t, active, required)
           \/ RemoveDocumentType(c, t)
      \/ CreateDocument(c) \/ RequestDies(c) \/ \E d \in documents : RemoveDocument(c, d)
      \/ \E v \in CatalogValue : ReadValue(c, v) \/ \E active \in BOOLEAN : UpsertValue(c, v, active)
      \/ RemoveValue(c) \/ WriteProfile(c)
      \/ \E e \in Employee : \/ \E filled \in SUBSET ProfileField, v \in CatalogValue \cup {NoValue} :
                                  ReadProfile(c, e, filled, v)
                             \/ \E active \in BOOLEAN : SetActive(c, e, active)
                             \/ NotifyMissing(c, e)
      \/ \E people \in SUBSET Employee : NotifyMany(c, people)

HRSpec == HRInit /\ [][HRNext]_hrVars

(***************************************************************************)
(* Properties                                                              *)
(***************************************************************************)
(* removeGender, removeBloodType, DocumentTypeService.remove: taking a     *)
(* value or a type out of the catalogues takes nothing from a record       *)
(* (unless the value was given to the employee while it was being          *)
(* removed), and nobody keeps a document of a type that is gone.           *)
RemovalTakesNothing ==
    [][/\ \A e \in Employee :
            (catalog' # catalog /\ person[e].value # NoValue /\ person'[e].value = NoValue) => e \in contended
       /\ \A d \in documents' : docType'[d.type].state # "absent" /\ d.key \in bucket']_hrVars

(* notifyMissing: whoever gets a notice works here and lacks, at that      *)
(* moment, exactly what the notice lists, also in a batch that began       *)
(* before the record changed.                                              *)
NoticesAreCurrent ==
    [][\A i \in DOMAIN notices' \ DOMAIN notices :
         LET n == notices'[i]
         IN  person[n.to].active /\ n.gaps = Gaps(n.to) /\ ~IsComplete(n.gaps)]_hrVars

(* The record of an employee: catalogues take nothing from it, and what    *)
(* the employee is told is what it lacks.                                  *)
RecordsAreKept == RemovalTakesNothing /\ NoticesAreCurrent
=============================================================================
