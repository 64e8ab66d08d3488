------------------------------- MODULE Roster -------------------------------
(***************************************************************************)
(* The roster of employees kept from the time clocks (roster-plan.ts,      *)
(* time-clock-roster.service.ts, time-clock-employees.service.ts): a run   *)
(* reads who is enrolled in every clock, and the linked people who stay    *)
(* away long enough become pending removals that Human Resources applies.  *)
(* Time is the age of an absence, counted until the grace is over.         *)
(***************************************************************************)
EXTENDS Naturals, FiniteSets, FiniteSetsExt

CONSTANTS
    Number,             \* employee numbers of the clocks
    Staff,              \* users of the system
    RosterClock,        \* registered clocks that count for attendance
    WordsOf, NumberOf,  \* name (words) of each number and user; payroll number
    FirstLinks,         \* number -> user it is linked to at first, or "none"
    Punched,            \* numbers with rows in time_clock_punches
    Removal,            \* categories of removal
    ROSTER_GRACE_RUNS, ROSTER_GRACE,
    DropNum, DropDen,   \* ROSTER_DROP_RATIO as a fraction
    MaxMoves,           \* bound on people enrolled in or taken from a clock, and on failed reads
    MaxDesk             \* bound on what people do at the desk

ASSUME RosterAssumption ==
    /\ {ROSTER_GRACE_RUNS, ROSTER_GRACE, DropDen} \subseteq Nat \ {0}
    /\ {DropNum, MaxMoves, MaxDesk} \subseteq Nat
    /\ FirstLinks \in [Number -> Staff \cup {"none"}]
    /\ Punched \subseteq Number

VARIABLES
    enrolled,   \* clock -> numbers it holds
    stored,     \* time_clock_roster_entries: clock -> numbers
    link,       \* time_clock_employees: number -> row or NoLink
    working,    \* users.active
    inUse,      \* active removal categories
    roster,     \* the run in progress (memory)
    applying,   \* an applyRemoval between its statements
    moves, desk

rosterVars == <<enrolled, stored, link, working, inUse, roster, applying, moves, desk>>

NoLink == [status |-> "none"]
Linked(u) == [user |-> u, status |-> "ACTIVE", runs |-> 0, age |-> 0, missing |-> FALSE, reappeared |-> FALSE]
IsLinked(n) == link[n] # NoLink
NoRosterRun == [pc |-> "idle"]
NotApplying == [pc |-> "idle"]

(***************************************************************************)
(* planRoster                                                              *)
(***************************************************************************)
Capped(n, bound) == IF n > bound THEN bound ELSE n

(* The stored roster is larger than the reading by more than the ratio.    *)
Dropped(reading) ==
    /\ reading.ok /\ reading.previous # {}
    /\ Cardinality(reading.previous) > Cardinality(reading.numbers)
    /\ (Cardinality(reading.previous) - Cardinality(reading.numbers)) * DropDen
         > DropNum * Cardinality(reading.previous)

Trusted(readings) == {c \in DOMAIN readings : readings[c].ok /\ ~Dropped(readings[c])}

Suspicious(readings) == \E c \in DOMAIN readings : Dropped(readings[c])

(* Mutant: a clock that could not be read counts as empty.                 *)
PresentReadOnly(readings) == UNION {readings[c].numbers : c \in Trusted(readings)}

(* A clock that is not trusted keeps what was known of it.                 *)
Present(readings) ==
    UNION {IF c \in Trusted(readings) THEN readings[c].numbers ELSE readings[c].previous
             : c \in DOMAIN readings}

OnPresent(row, active) ==
    [row EXCEPT !.status = "ACTIVE", !.runs = 0, !.age = 0, !.missing = FALSE, !.reappeared = ~active]

(* Both counts must be met: consecutive runs, and hours since the first.   *)
OnAbsent(row) ==
    LET runs == Capped(row.runs + 1, ROSTER_GRACE_RUNS)
    IN  [row EXCEPT !.runs = runs, !.missing = TRUE,
                    !.status = IF runs >= ROSTER_GRACE_RUNS /\ row.age >= ROSTER_GRACE
                               THEN "PENDING_REMOVAL" ELSE @]

PlanRoster(readings, row, active, n) ==
    IF n \in Present(readings) THEN OnPresent(row, active)
    ELSE IF active /\ ~Suspicious(readings) THEN OnAbsent(row)
    ELSE row

(* What the update of the run writes over the row as it is by then: the    *)
(* count of an absence always, the other fields when they change.          *)
Merged(now, before, after) ==
    LET counted == IF after.missing THEN {"runs", "missing", "age"} ELSE {}
    IN  [f \in DOMAIN now |-> IF f \in counted \/ before[f] # after[f] THEN after[f] ELSE now[f]]

(***************************************************************************)
(* A run: the clocks one after the other, the links, one transaction       *)
(***************************************************************************)
Desk == desk < MaxDesk /\ desk' = desk + 1

Reading == [pc |-> "reading", readings |-> <<>>, left |-> RosterClock]

(* runRoster: a run on demand.                                             *)
StartRosterRun ==
    /\ Desk
    /\ roster = NoRosterRun /\ roster' = Reading
    /\ UNCHANGED <<enrolled, stored, link, working, inUse, applying, moves>>

(* The interval of the worker has passed; an absence is dated with the     *)
(* start of the run that finds it.                                         *)
RosterTick ==
    LET older(row) == IF row # NoLink /\ row.missing THEN [row EXCEPT !.age = Capped(@ + 1, ROSTER_GRACE)] ELSE row
    IN  /\ roster = NoRosterRun /\ roster' = Reading
        /\ link' = [n \in Number |-> older(link[n])]
        /\ UNCHANGED <<enrolled, stored, working, inUse, applying, moves, desk>>

(* Another clock at the address, an error or a short list: not valid.      *)
ReadClock(c, ok) ==
    /\ roster.pc = "reading" /\ c \in roster.left
    /\ IF ok THEN UNCHANGED moves ELSE moves < MaxMoves /\ moves' = moves + 1
    /\ LET reading == [ok |-> ok, numbers |-> IF ok THEN enrolled[c] ELSE {}, previous |-> stored[c]]
       IN  roster' = [roster EXCEPT !.left = @ \ {c},
                        !.readings = [k \in DOMAIN @ \cup {c} |-> IF k = c THEN reading ELSE @[k]]]
    /\ UNCHANGED <<enrolled, stored, link, working, inUse, applying, desk>>

(* Mutant: a run in which a clock could not be read gives up and stays in  *)
(* progress.                                                               *)
ReadLinksIfAllRead ==
    /\ roster.pc = "reading" /\ roster.left = {}
    /\ \A c \in RosterClock : roster.readings[c].ok
    /\ roster' = [pc |-> "commit", readings |-> roster.readings, seen |-> link, active |-> working]
    /\ UNCHANGED <<enrolled, stored, link, working, inUse, applying, moves, desk>>

ReadLinks ==
    /\ roster.pc = "reading" /\ roster.left = {}
    /\ roster' = [pc |-> "commit", readings |-> roster.readings, seen |-> link, active |-> working]
    /\ UNCHANGED <<enrolled, stored, link, working, inUse, applying, moves, desk>>

(* The change of a link that is gone fails the whole transaction.          *)
CommitRun ==
    LET readings == roster.readings
        planned(n) == PlanRoster(readings, roster.seen[n], roster.active[roster.seen[n].user], n)
        counted(n) == n \notin Present(readings) /\ roster.active[roster.seen[n].user] /\ ~Suspicious(readings)
        changed == {n \in Number : roster.seen[n] # NoLink /\ (counted(n) \/ planned(n) # roster.seen[n])}
        noRun == Trusted(readings) = {}
    IN  /\ roster.pc = "commit"
        /\ roster' = NoRosterRun
        /\ IF noRun \/ \E n \in changed : ~IsLinked(n)
           THEN UNCHANGED <<stored, link>>
           ELSE /\ stored' = [c \in RosterClock |-> IF c \in Trusted(readings) THEN readings[c].numbers ELSE stored[c]]
                /\ link' = [n \in Number |-> IF n \in changed THEN Merged(link[n], roster.seen[n], planned(n))
                                             ELSE link[n]]
        /\ UNCHANGED <<enrolled, working, inUse, applying, moves, desk>>

(***************************************************************************)
(* The desk                                                                *)
(***************************************************************************)
InAClock(n) == \E c \in RosterClock : n \in stored[c]

(* A number with punches, or that some clock holds. Linking again changes  *)
(* the user and keeps the rest of the row.                                 *)
LinkEmployee(n, u) ==
    /\ Desk /\ (n \in Punched \/ InAClock(n))
    /\ link' = [link EXCEPT ![n] = IF IsLinked(n) THEN [@ EXCEPT !.user = u] ELSE Linked(u)]
    /\ UNCHANGED <<enrolled, stored, working, inUse, roster, applying, moves>>

UnlinkEmployee(n) ==
    /\ Desk /\ IsLinked(n)
    /\ link' = [link EXCEPT ![n] = NoLink]
    /\ UNCHANGED <<enrolled, stored, working, inUse, roster, applying, moves>>

(* Two words in common, three when both names have as many.                *)
NameMatches(a, b) ==
    LET common == Cardinality(a \cap b)
    IN  common >= 2 /\ common >= Min({3, Cardinality(a), Cardinality(b)})

(* HIGH: one user by name whose payroll number is the clock's; MEDIUM: one *)
(* user by name. Only users without a number are candidates.               *)
Suggest(n) ==
    LET free == {u \in Staff : \A k \in Number : IsLinked(k) => link[k].user # u}
        byName == {u \in free : NameMatches(WordsOf[n], WordsOf[u])}
        byNumber == {u \in byName : NumberOf[u] = NumberOf[n]}
    IN  IF Cardinality(byNumber) = 1 THEN [confidence |-> "HIGH", users |-> byNumber]
        ELSE IF Cardinality(byName) = 1 THEN [confidence |-> "MEDIUM", users |-> byName]
        ELSE [confidence |-> "NONE", users |-> {}]

(* Over rows(): the numbers that have punches, in a clock today or not.    *)
Rows == Punched

LinkSuggested ==
    LET suggested == {n \in Rows : ~IsLinked(n) /\ Suggest(n).confidence = "HIGH"}
    IN  /\ Desk /\ suggested # {}
        /\ link' = [n \in Number |-> IF n \in suggested THEN Linked(CHOOSE u \in Suggest(n).users : TRUE)
                                     ELSE link[n]]
        /\ UNCHANGED <<enrolled, stored, working, inUse, roster, applying, moves>>

Reset(row) == [row EXCEPT !.status = "ACTIVE", !.runs = 0, !.age = 0, !.missing = FALSE]

DismissRemoval(n) ==
    /\ Desk /\ IsLinked(n) /\ link[n].status = "PENDING_REMOVAL"
    /\ link' = [link EXCEPT ![n] = Reset(@)]
    /\ UNCHANGED <<enrolled, stored, working, inUse, roster, applying, moves>>

(* applyRemoval: the link is read, the user deactivated, the link reset.   *)
ApplyRemoval(n, category) ==
    /\ Desk /\ applying = NotApplying
    /\ IsLinked(n) /\ link[n].status = "PENDING_REMOVAL" /\ category \in inUse
    /\ applying' = [pc |-> "deactivate", number |-> n, user |-> link[n].user]
    /\ UNCHANGED <<enrolled, stored, link, working, inUse, roster, moves>>

(* deactivate refuses a user who is inactive already.                      *)
DeactivateRemoved ==
    /\ applying.pc = "deactivate"
    /\ applying' = IF working[applying.user] THEN [applying EXCEPT !.pc = "reset"] ELSE NotApplying
    /\ working' = [working EXCEPT ![applying.user] = FALSE]
    /\ UNCHANGED <<enrolled, stored, link, inUse, roster, moves, desk>>

ResetRemoved ==
    /\ applying.pc = "reset"
    /\ applying' = NotApplying
    /\ link' = [link EXCEPT ![applying.number] = IF @ = NoLink THEN @ ELSE Reset(@)]
    /\ UNCHANGED <<enrolled, stored, working, inUse, roster, moves, desk>>

UpdateRemovalCategory(category) ==
    /\ Desk
    /\ inUse' = IF category \in inUse THEN inUse \ {category} ELSE inUse \cup {category}
    /\ UNCHANGED <<enrolled, stored, link, working, roster, applying, moves>>

SetWorking(u) ==
    /\ Desk
    /\ working' = [working EXCEPT ![u] = ~@]
    /\ UNCHANGED <<enrolled, stored, link, inUse, roster, applying, moves>>

(***************************************************************************)
(* The clocks, the hours and the process                                   *)
(***************************************************************************)
Enrol(c, n) ==
    /\ moves < MaxMoves /\ moves' = moves + 1
    /\ enrolled' = [enrolled EXCEPT ![c] = IF n \in @ THEN @ \ {n} ELSE @ \cup {n}]
    /\ UNCHANGED <<stored, link, working, inUse, roster, applying, desk>>

RosterRestart ==
    /\ Desk
    /\ roster' = NoRosterRun /\ applying' = NotApplying
    /\ UNCHANGED <<enrolled, stored, link, working, inUse, moves>>

RosterInit ==
    /\ enrolled = [c \in RosterClock |-> Number]
    /\ stored = [c \in RosterClock |-> Number]
    /\ link = [n \in Number |-> IF FirstLinks[n] = "none" THEN NoLink ELSE Linked(FirstLinks[n])]
    /\ working = [u \in Staff |-> TRUE]
    /\ inUse = Removal
    /\ roster = NoRosterRun /\ applying = NotApplying
    /\ moves = 0 /\ desk = 0

RosterStep ==
    \/ \E c \in RosterClock : ReadClock(c, TRUE)
    \/ ReadLinks \/ CommitRun

RosterNext ==
    \/ StartRosterRun \/ RosterTick \/ RosterStep
    \/ \E c \in RosterClock : ReadClock(c, FALSE)
    \/ \E n \in Number, u \in Staff : LinkEmployee(n, u)
    \/ \E n \in Number : UnlinkEmployee(n) \/ DismissRemoval(n)
    \/ LinkSuggested \/ DeactivateRemoved \/ ResetRemoved
    \/ \E n \in Number, category \in Removal : ApplyRemoval(n, category)
    \/ \E category \in Removal : UpdateRemovalCategory(category)
    \/ \E u \in Staff : SetWorking(u)
    \/ \E c \in RosterClock, n \in Number : Enrol(c, n)
    \/ RosterRestart

(* setInterval goes on, and a request to a clock ends: with its list, or,  *)
(* MaxMoves times at most, without it.                                     *)
RosterFairness == WF_rosterVars(RosterTick) /\ WF_rosterVars(RosterStep)

RosterSpec == RosterInit /\ [][RosterNext]_rosterVars /\ RosterFairness

(***************************************************************************)
(* Properties                                                              *)
(***************************************************************************)
(* planRoster (R4, R5, R10): a pending removal is of somebody whom no      *)
(* clock that counts is known to hold, absent for the runs and the hours   *)
(* of the grace, whatever failed or was changed at the desk meanwhile.     *)
PendingIsGone ==
    \A n \in Number :
      link[n].status = "PENDING_REMOVAL" =>
        /\ ~InAClock(n)
        /\ link[n].runs >= ROSTER_GRACE_RUNS /\ link[n].age >= ROSTER_GRACE

(* startWorker, onAbsent: somebody who leaves every clock for good, when   *)
(* no clock lost too many people at once, ends as a pending removal, also  *)
(* when clocks fail to answer now and then.                                *)
GoneIsNoticed ==
    \A n \in Number :
      <>[](/\ IsLinked(n) /\ working[link[n].user]
           /\ \A c \in RosterClock :
                /\ n \notin enrolled[c]
                /\ ~Dropped([ok |-> TRUE, numbers |-> enrolled[c], previous |-> stored[c]]))
        => []<>(link[n].status = "PENDING_REMOVAL")
=============================================================================
