---------------------------- MODULE ClockPeople ----------------------------
(***************************************************************************)
(* Writing people, cards and fingerprints to the time clocks               *)
(* (time-clock-people.service.ts). Every operation looks at the clock and  *)
(* writes afterwards, one request to the device after the other; one that  *)
(* covers all clocks goes on when one of them fails.                       *)
(***************************************************************************)
EXTENDS Naturals, FiniteSets, TLC

CONSTANTS
    Device,             \* registered clocks
    Mock,               \* clocks at a local address: always writable
    Counting,           \* clocks that count for attendance
    Worker, Card, Finger,
    Job,                \* operations in flight together
    MAX_FINGERS_PER_PERSON,
    MaxJobs, MaxLapses  \* bounds on operations, and on failures and time

ASSUME ClockPeopleAssumption ==
    /\ Mock \subseteq Device /\ Counting \subseteq Device
    /\ "none" \notin Worker
    /\ {MAX_FINGERS_PER_PERSON, MaxJobs, MaxLapses} \subseteq Nat

VARIABLES
    held,        \* device -> workers enrolled in it
    cards,       \* <<device, card, worker>>
    fingers,     \* <<device, worker, finger>>
    enabled,     \* clocks with writeEnabled
    capture,     \* the captures in memory: worker, finger, good
    job, jobs, lapses,
    everEnabled, mixed \* history: ever writable; two jobs at a time

peopleVars == <<held, cards, fingers, enabled, capture, job, jobs, lapses, everEnabled, mixed>>
devices == <<held, cards, fingers>>

NoJob == [op |-> "none"]

CanWriteClock(c) == c \in enabled \cup Mock

CardsOf(c, w) == {k \in Card : <<c, k, w>> \in cards}
Taken(c) == {k \in Card : \E w \in Worker : <<c, k, w>> \in cards}
FingersOf(c, w) == {f \in Finger : <<c, w, f>> \in fingers}

SetJob(j, step) == job' = [job EXCEPT ![j] = step]

Begin(j, step) ==
    /\ job[j] = NoJob /\ jobs < MaxJobs
    /\ SetJob(j, step)
    /\ jobs' = jobs + 1
    /\ mixed' = (mixed \/ \E k \in Job : job[k] # NoJob)
    /\ UNCHANGED <<devices, enabled, capture, lapses, everEnabled>>

(***************************************************************************)
(* The operations: the device is read                                      *)
(***************************************************************************)
Step(op, todo, w, k) == [op |-> op, pc |-> "read", todo |-> todo, worker |-> w, card |-> k]

CreatePerson(j, c, w)     == Begin(j, Step("create", {c}, w, "none"))
RemovePerson(j, c, w)     == Begin(j, Step("remove", {c}, w, "none"))
AddCard(j, c, w, k) == Begin(j, Step("addCard", {c}, w, k))
RemoveCard(j, c, k) == Begin(j, Step("removeCard", {c}, "none", k))
Apply(j, c, f)      == Begin(j, Step("apply", {c}, "none", f))

(* The clocks that answered, count, may be written and do not hold the     *)
(* person, as the status of each was read before.                          *)
EmployeeClockAltaAll(j, w, online) ==
    Begin(j, Step("create", {c \in Counting \cap online : w \notin held[c] /\ CanWriteClock(c)}, w, "none"))

EmployeeClockBajaAll(j, w, online) ==
    Begin(j, Step("remove", {c \in online : w \in held[c] /\ CanWriteClock(c)}, w, "none"))

(* Every clock of a job is read again before it is written.                *)
Applicable(j, c) ==
    LET op == job[j].op  w == job[j].worker  k == job[j].card
    IN  /\ CanWriteClock(c)
        /\ op = "create"     => w \notin held[c]
        /\ op = "remove"     => w \in held[c]
        /\ op = "addCard"    => w \in held[c] /\ k \notin Taken(c)
        /\ op = "removeCard" => k \in Taken(c)
        /\ op = "apply"      => \E p \in capture : p.finger = k /\ p.good

ReadPerson(j, c) ==
    /\ job[j] # NoJob /\ job[j].pc = "read" /\ c \in job[j].todo
    /\ IF Applicable(j, c)
       THEN \E w \in (IF job[j].op = "apply" THEN {p.worker : p \in {q \in capture : q.finger = job[j].card /\ q.good}}
                      ELSE {job[j].worker}) :
              SetJob(j, [op |-> job[j].op, pc |-> "write", todo |-> job[j].todo \ {c}, worker |-> w,
                         card |-> job[j].card, clock |-> c, seen |-> IF w = "none" THEN {} ELSE CardsOf(c, w)])
       ELSE SetJob(j, [job[j] EXCEPT !.todo = @ \ {c}])
    /\ UNCHANGED <<devices, enabled, capture, jobs, lapses, everEnabled, mixed>>

(***************************************************************************)
(* What the device does with a write (it checks numbers and cards itself)  *)
(***************************************************************************)
Written(j) == [op |-> job[j].op, pc |-> "read", todo |-> job[j].todo, worker |-> job[j].worker, card |-> job[j].card]

Writing(j, op) == job[j].op = op /\ job[j].pc = "write"

UserAdd(j) ==
    /\ Writing(j, "create")
    /\ held' = [held EXCEPT ![job[j].clock] = @ \cup {job[j].worker}]
    /\ SetJob(j, Written(j))
    /\ UNCHANGED <<cards, fingers, enabled, capture, jobs, lapses, everEnabled, mixed>>

(* Mutant: the person goes first, the cards after.                         *)
MayDeletePersonFirst(j) == TRUE

MayDeletePerson(j) == job[j].seen = {}

(* remove: the cards it saw one by one, then the person.                   *)
CardDelete(j, k) ==
    /\ Writing(j, "remove") /\ k \in job[j].seen
    /\ cards' = {t \in cards : ~(t[1] = job[j].clock /\ t[2] = k)}
    /\ SetJob(j, [job[j] EXCEPT !.seen = @ \ {k}])
    /\ UNCHANGED <<held, fingers, enabled, capture, jobs, lapses, everEnabled, mixed>>

UserDelete(j) ==
    /\ Writing(j, "remove") /\ MayDeletePerson(j)
    /\ held' = [held EXCEPT ![job[j].clock] = @ \ {job[j].worker}]
    /\ fingers' = {t \in fingers : ~(t[1] = job[j].clock /\ t[2] = job[j].worker)}
    /\ SetJob(j, Written(j))
    /\ UNCHANGED <<cards, enabled, capture, jobs, lapses, everEnabled, mixed>>

CardAdd(j) ==
    LET c == job[j].clock
    IN  /\ Writing(j, "addCard")
        /\ cards' = IF job[j].worker \in held[c] /\ job[j].card \notin Taken(c)
                    THEN cards \cup {<<c, job[j].card, job[j].worker>>} ELSE cards
        /\ SetJob(j, Written(j))
        /\ UNCHANGED <<held, fingers, enabled, capture, jobs, lapses, everEnabled, mixed>>

CardDeleteOne(j) ==
    /\ Writing(j, "removeCard")
    /\ cards' = {t \in cards : ~(t[1] = job[j].clock /\ t[2] = job[j].card)}
    /\ SetJob(j, Written(j))
    /\ UNCHANGED <<held, fingers, enabled, capture, jobs, lapses, everEnabled, mixed>>

(* The capture is not consumed: it serves every clock until it expires.    *)
FingerprintAdd(j) ==
    /\ Writing(j, "apply")
    /\ fingers' = IF job[j].worker \in held[job[j].clock]
                  THEN fingers \cup {<<job[j].clock, job[j].worker, job[j].card>>} ELSE fingers
    /\ SetJob(j, Written(j))
    /\ UNCHANGED <<held, cards, enabled, capture, jobs, lapses, everEnabled, mixed>>

EndJob(j) ==
    /\ job[j] # NoJob /\ job[j].pc = "read" /\ job[j].todo = {}
    /\ SetJob(j, NoJob)
    /\ UNCHANGED <<devices, enabled, capture, jobs, lapses, everEnabled, mixed>>

(* The station captures a finger of somebody the clock holds.              *)
CaptureFingerprint(c, w, f, good) ==
    /\ lapses < MaxLapses /\ lapses' = lapses + 1
    /\ w \in held[c] /\ Cardinality(FingersOf(c, w)) < MAX_FINGERS_PER_PERSON
    /\ capture' = capture \cup {[worker |-> w, finger |-> f, good |-> good]}
    /\ UNCHANGED <<devices, enabled, job, jobs, everEnabled, mixed>>

(***************************************************************************)
(* The environment                                                         *)
(***************************************************************************)
Lapse == lapses < MaxLapses /\ lapses' = lapses + 1

DeviceWriteFails(j) ==
    /\ Lapse /\ job[j] # NoJob /\ job[j].pc = "write"
    /\ SetJob(j, Written(j))
    /\ UNCHANGED <<devices, enabled, capture, jobs, everEnabled, mixed>>

CaptureExpires(p) ==
    /\ Lapse /\ p \in capture
    /\ capture' = capture \ {p}
    /\ UNCHANGED <<devices, enabled, job, jobs, everEnabled, mixed>>

SetWriteEnabled(c) ==
    /\ Lapse
    /\ enabled' = IF c \in enabled THEN enabled \ {c} ELSE enabled \cup {c}
    /\ everEnabled' = everEnabled \cup {c}
    /\ UNCHANGED <<devices, capture, job, jobs, mixed>>

PeopleInit ==
    /\ held = [c \in Device |-> {}]
    /\ cards = {} /\ fingers = {} /\ enabled = {} /\ capture = {}
    /\ job = [j \in Job |-> NoJob]
    /\ jobs = 0 /\ lapses = 0
    /\ everEnabled = Mock /\ mixed = FALSE

Begins(j) ==
    \/ \E c \in Device, w \in Worker : CreatePerson(j, c, w) \/ RemovePerson(j, c, w)
    \/ \E c \in Device, w \in Worker, k \in Card : AddCard(j, c, w, k)
    \/ \E c \in Device, k \in Card : RemoveCard(j, c, k)
    \/ \E c \in Device, f \in Finger : Apply(j, c, f)
    \/ \E w \in Worker, online \in SUBSET Device :
         EmployeeClockAltaAll(j, w, online) \/ EmployeeClockBajaAll(j, w, online)

PeopleNext ==
    \/ \E j \in Job :
         \/ Begins(j) \/ UserAdd(j) \/ UserDelete(j) \/ CardAdd(j) \/ CardDeleteOne(j)
         \/ FingerprintAdd(j) \/ EndJob(j) \/ DeviceWriteFails(j)
         \/ \E c \in Device : ReadPerson(j, c)
         \/ \E k \in Card : CardDelete(j, k)
    \/ \E c \in Device, w \in Worker, f \in Finger, good \in BOOLEAN : CaptureFingerprint(c, w, f, good)
    \/ \E p \in capture : CaptureExpires(p)
    \/ \E c \in Device : SetWriteEnabled(c)

PeopleSpec == PeopleInit /\ [][PeopleNext]_peopleVars

(***************************************************************************)
(* Properties                                                              *)
(***************************************************************************)
(* clockFor: a clock whose writing was never enabled is never written, by  *)
(* the operations on all clocks neither; and remove takes the cards first, *)
(* so that, one operation at a time and whichever request of it fails, no  *)
(* card is left of somebody the clock does not hold.                       *)
ClockWritesAreSafe ==
    /\ \A c \in Device \ everEnabled :
         held[c] = {} /\ {t \in cards : t[1] = c} = {} /\ {t \in fingers : t[1] = c} = {}
    /\ ~mixed => \A t \in cards : t[3] \in held[t[1]]
=============================================================================
