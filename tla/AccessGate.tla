----------------------------- MODULE AccessGate -----------------------------
(***************************************************************************)
(* Entries and exits at the gates (access.service.ts) and the report that  *)
(* pairs them into sessions (access-report.service.ts). An event is        *)
(* registered in two steps: everything is checked, then the row is         *)
(* inserted, and the key of the client decides between two inserts. A day  *)
(* has GATE_DAY units of time.                                             *)
(***************************************************************************)
EXTENDS Integers, FiniteSets, Sequences, Functions, FiniteSetsExt

CONSTANTS
    Visitor,          \* employees
    Site,
    EventKey,         \* clientEventId values
    Scan,             \* requests in flight together
    GATE_DAY,
    DUPLICATE_WINDOW,
    LOOKBACK_DAYS,
    MaxGateTime, MaxAccessEvents, MaxOffice

ASSUME GateAssumption ==
    /\ IsFiniteSet(Visitor)
    /\ {DUPLICATE_WINDOW, MaxGateTime, MaxAccessEvents, MaxOffice} \subseteq Nat
    /\ {GATE_DAY, LOOKBACK_DAYS} \subseteq Nat \ {0}

VARIABLES
    accessEvents,     \* access_events, by occurredAt
    now,
    employed,         \* active employees
    openSites,        \* active sites
    scan,
    office,           \* bound on voids and changes of people and sites
    overlapped,       \* history: employees with two events in flight together
    tampered          \* history: employees with a voided event

gateVars == <<accessEvents, now, employed, openSites, scan, office, overlapped, tampered>>

AccessEventType == {"ENTRY", "EXIT"}
NoScan == [pc |-> "idle"]
None == "none"

\* Where the events of an employee are that nobody voided.
ValidAt(e) == {i \in DOMAIN accessEvents : accessEvents[i].employee = e /\ ~accessEvents[i].voided}
LastEventFor(e) == IF ValidAt(e) = {} THEN None ELSE accessEvents[Max(ValidAt(e))].type
Registered(key) == \E i \in DOMAIN accessEvents : accessEvents[i].key = key

(* lookup and status.                                                      *)
HasOpenEntry(e) == LastEventFor(e) = "ENTRY"
SuggestedType(e) == IF HasOpenEntry(e) THEN "EXIT" ELSE "ENTRY"

(***************************************************************************)
(* createEvent                                                             *)
(***************************************************************************)
InSequence(e, type) == type = SuggestedType(e)

Duplicate(e, type) ==
    \E i \in ValidAt(e) : accessEvents[i].type = type /\ accessEvents[i].at >= now - DUPLICATE_WINDOW

(* A key that is registered answers with its event and checks nothing.     *)
CheckEvent(r, key, e, type, site) ==
    /\ scan[r] = NoScan
    /\ ~Registered(key)
    /\ e \in employed /\ site \in openSites
    /\ ~Duplicate(e, type)
    /\ InSequence(e, type)
    /\ scan' = [scan EXCEPT ![r] = [pc |-> "insert", key |-> key, employee |-> e, type |-> type]]
    /\ overlapped' = overlapped \cup {v \in {e} : \E q \in Scan : scan[q] # NoScan /\ scan[q].employee = v}
    /\ UNCHANGED <<accessEvents, now, employed, openSites, office, tampered>>

(* P2002 on the key: the event that won is the answer.                     *)
InsertEvent(r) ==
    /\ scan[r].pc = "insert"
    /\ Len(accessEvents) < MaxAccessEvents
    /\ scan' = [scan EXCEPT ![r] = NoScan]
    /\ accessEvents' = IF Registered(scan[r].key) THEN accessEvents
                       ELSE Append(accessEvents, [key |-> scan[r].key, employee |-> scan[r].employee,
                                                  type |-> scan[r].type, at |-> now, voided |-> FALSE])
    /\ UNCHANGED <<now, employed, openSites, office, overlapped, tampered>>

Office == office < MaxOffice /\ office' = office + 1

VoidEvent(i) ==
    /\ Office /\ i \in DOMAIN accessEvents /\ ~accessEvents[i].voided
    /\ accessEvents' = [accessEvents EXCEPT ![i].voided = TRUE]
    /\ tampered' = tampered \cup {accessEvents[i].employee}
    /\ UNCHANGED <<now, employed, openSites, scan, overlapped>>

UpdateSite(site) ==
    /\ Office
    /\ openSites' = IF site \in openSites THEN openSites \ {site} ELSE openSites \cup {site}
    /\ UNCHANGED <<accessEvents, now, employed, scan, overlapped, tampered>>

SetEmployed(e) ==
    /\ Office
    /\ employed' = IF e \in employed THEN employed \ {e} ELSE employed \cup {e}
    /\ UNCHANGED <<accessEvents, now, openSites, scan, overlapped, tampered>>

TimePasses ==
    /\ now < MaxGateTime
    /\ now' = now + 1
    /\ UNCHANGED <<accessEvents, employed, openSites, scan, office, overlapped, tampered>>

GateInit ==
    /\ accessEvents = <<>> /\ now = 0
    /\ employed \in SUBSET Visitor /\ openSites = Site
    /\ scan = [r \in Scan |-> NoScan]
    /\ office = 0 /\ overlapped = {} /\ tampered = {}

GateNext ==
    \/ \E r \in Scan : \/ InsertEvent(r)
                       \/ \E key \in EventKey, e \in Visitor, type \in AccessEventType, site \in Site :
                            CheckEvent(r, key, e, type, site)
    \/ \E i \in DOMAIN accessEvents : VoidEvent(i)
    \/ \E site \in Site : UpdateSite(site)
    \/ \E e \in Visitor : SetEmployed(e)
    \/ TimePasses

GateSpec == GateInit /\ [][GateNext]_gateVars

(***************************************************************************)
(* The report of a period [start, end)                                     *)
(***************************************************************************)
Period(from, days) == [start |-> from * GATE_DAY, end |-> (from + days) * GATE_DAY]

(* Mutant: nothing after the end of the period is loaded.                  *)
LoadEventsToTheEnd(e, range) ==
    {i \in ValidAt(e) : /\ accessEvents[i].at >= range.start - LOOKBACK_DAYS * GATE_DAY
                        /\ accessEvents[i].at < range.end}

(* Days before for the entries that are still open, one after for nights.  *)
LoadEvents(e, range) ==
    {i \in ValidAt(e) : /\ accessEvents[i].at >= range.start - LOOKBACK_DAYS * GATE_DAY
                        /\ accessEvents[i].at < range.end + GATE_DAY}

(* -1 stands for null.                                                     *)
Session(entry, exit, incident) ==
    [entry |-> entry, exit |-> exit, incident |-> incident,
     worked |-> IF entry >= 0 /\ exit >= 0 THEN exit - entry ELSE 0]

InRange(t, range) == t >= range.start /\ t < range.end

Earlier(loaded, i) == {j \in loaded : j < i}
Later(loaded, i) == {j \in loaded : j > i}

(* One entry is open at a time: an exit closes the entry right before it.  *)
Closes(loaded, i) ==
    /\ accessEvents[i].type = "EXIT"
    /\ Earlier(loaded, i) # {} /\ accessEvents[Max(Earlier(loaded, i))].type = "ENTRY"

SessionFrom(loaded, i, range) ==
    LET at == accessEvents[i].at
        next == Min(Later(loaded, i))
    IN  IF accessEvents[i].type = "EXIT" THEN Session(-1, at, "EXIT_WITHOUT_ENTRY")
        ELSE IF Later(loaded, i) = {}
        THEN Session(at, -1, IF InRange(at, range) /\ range.end > now THEN "OPEN_ENTRY" ELSE "ENTRY_WITHOUT_EXIT")
        ELSE IF accessEvents[next].type = "EXIT" THEN Session(at, accessEvents[next].at, None)
        ELSE Session(at, -1, "ENTRY_WITHOUT_EXIT")

(* The sessions, each by the event that begins it.                         *)
Pair(e, range) ==
    LET loaded == LoadEvents(e, range)
    IN  [i \in {j \in loaded : ~Closes(loaded, j)} |-> SessionFrom(loaded, i, range)]

(* The time of that event attributes the session to a day.                 *)
InWindow(e, range) ==
    LET sessions == Pair(e, range)
    IN  Restrict(sessions, {i \in DOMAIN sessions : InRange(accessEvents[i].at, range)})

Aggregate(e, range) ==
    LET rows == InWindow(e, range)
    IN  [sessionCount |-> Cardinality(DOMAIN rows),
         workedMinutes |-> SumFunction([i \in DOMAIN rows |-> rows[i].worked]),
         incidents |-> {rows[i].incident : i \in DOMAIN rows} \ {None}]

BuildUniverse(range) ==
    employed \cup {e \in Visitor : \E i \in ValidAt(e) : InRange(accessEvents[i].at, range)}

BuildSummary(range) ==
    LET people == BuildUniverse(range)
    IN  [peopleTotal |-> Cardinality(people),
         peopleWithRecords |-> Cardinality({e \in people : Aggregate(e, range).sessionCount > 0}),
         peopleInside |-> Cardinality({e \in people : "OPEN_ENTRY" \in Aggregate(e, range).incidents}),
         totalWorkedMinutes |-> SumFunction([e \in people |-> Aggregate(e, range).workedMinutes])]

BuildSessionRows(range) ==
    UNION {{[employee |-> e, entry |-> s.entry, exit |-> s.exit] : s \in Range(InWindow(e, range))} :
           e \in BuildUniverse(range)}

(***************************************************************************)
(* Properties                                                              *)
(***************************************************************************)
(* createEvent (layer 3): entries and exits of an employee alternate, from *)
(* an entry on, unless two requests for the employee were in flight        *)
(* together or one of the events was voided.                               *)
GateAlternates ==
    \A e \in Visitor \ (overlapped \cup tampered) :
      \A i \in ValidAt(e) :
        accessEvents[i].type = IF Earlier(ValidAt(e), i) = {} \/ accessEvents[Max(Earlier(ValidAt(e), i))].type = "EXIT"
                               THEN "ENTRY" ELSE "EXIT"

Days == MaxGateTime \div GATE_DAY + 1
GateDay(i) == accessEvents[i].at \div GATE_DAY
(* Nobody stays past the day after an entry: the report of the day of the  *)
(* entry loads the exit.                                                   *)
Nightly(e) ==
    \A i \in ValidAt(e) :
      accessEvents[i].type = "EXIT" /\ Earlier(ValidAt(e), i) # {} => GateDay(i) <= GateDay(Max(Earlier(ValidAt(e), i))) + 1

(* report, status: for a period that is still running, whoever the status  *)
(* shows inside since a time of the period is the one the report counts    *)
(* inside; and the reports of the days add up to the report of all of      *)
(* them, session by session, as long as nobody stays past the next day.    *)
ReportsAgree ==
    /\ LET today == Period(now \div GATE_DAY, 1)
           since(e) == HasOpenEntry(e) /\ InRange(accessEvents[Max(ValidAt(e))].at, today)
       IN  BuildSummary(today).peopleInside = Cardinality({e \in Visitor : since(e)})
    /\ (\A e \in Visitor : Nightly(e)) =>
         LET whole == BuildSummary(Period(0, Days))
             day(d) == BuildSummary(Period(d, 1))
         IN  /\ BuildSessionRows(Period(0, Days)) = UNION {BuildSessionRows(Period(d, 1)) : d \in 0..(Days - 1)}
             /\ whole.totalWorkedMinutes = SumFunction([d \in 0..(Days - 1) |-> day(d).totalWorkedMinutes])

(* What the gate writes alternates, and what is read from it adds up.      *)
GateAddsUp == GateAlternates /\ ReportsAgree
=============================================================================
