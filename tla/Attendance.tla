----------------------------- MODULE Attendance -----------------------------
(***************************************************************************)
(* From the punches of the clocks to the payroll of a week: sessions       *)
(* (time-clock-report.service.ts), workdays against the schedule in force  *)
(* (workday-rules.ts, schedule.service.ts), overtime and its approval      *)
(* (overtime.service.ts), the weekly report and the view by person; and at *)
(* the end, the review and closing of the payroll of a week. One active    *)
(* person. A day has DAY units; local midnight is WEST units after         *)
(* midnight UTC. A request goes from await to await; reports only read,    *)
(* and are formulas of the tables at one moment.                           *)
(***************************************************************************)
EXTENDS Integers, FiniteSetsExt, SequencesExt

CONSTANTS
    Schedule,          \* ids of schedules
    Grid,              \* what a schedule may say:
    Plan,              \* its hours and tolerances,
    RestDay,           \* and the days it gives free
    DAY, WEST,
    DUPLICATE, MAX_WORKDAY, DEFAULT_WORKDAY, LOOKBACK_DAYS_CLOCK,
    LastLocalDay,      \* the week is 0..LastLocalDay
    PunchTime,         \* instants at which the person may punch
    Boss,              \* requests that may overlap
    Selection,         \* days that may be decided in one request
    MaxPunches, MaxPaper,
    MaxBusy            \* bound on both, a request counting as two punches

ASSUME AttendanceAssumption ==
    /\ {DAY, WEST, DUPLICATE, MAX_WORKDAY, LOOKBACK_DAYS_CLOCK, LastLocalDay, MaxPunches, MaxPaper, MaxBusy} \subseteq Nat
    /\ WEST < DAY /\ DUPLICATE <= MAX_WORKDAY /\ MAX_WORKDAY <= DAY
    /\ PunchTime \subseteq Nat
    /\ Selection \subseteq SUBSET (0..LastLocalDay)
    /\ "new" \notin Grid /\ "deleted" \notin Grid
    /\ \A grid \in Grid : Plan[grid].start \in Nat /\ Plan[grid].end \in Nat /\ Plan[grid].splitEnd \in Nat
                            /\ Plan[grid].exitTolerance \in Nat /\ Plan[grid].minOvertime \in Nat

VARIABLES
    punched,           \* time_clock_punches: instants
    clockTime,         \* now
    linked,            \* the number of the clock is linked to the person
    schedules,         \* id -> [active, grid], NoSchedule before and ScheduleGone after
    assigned,          \* schedule_assignments, as committed: [schedule, from, to]
    decided,           \* overtime_approvals: day -> decision or NoDecision
    boss,              \* request -> what it is doing
    paper              \* bound on the requests

attendanceVars == <<punched, clockTime, linked, schedules, assigned, decided, boss, paper>>
observed == <<punched, clockTime, linked>>
Crowded(more) == Cardinality(punched) + 2 * paper + more > MaxBusy

NoDecision == [status |-> "none", extra |-> 0]
NoSchedule == [active |-> FALSE, grid |-> "new"]
ScheduleGone == [active |-> FALSE, grid |-> "deleted"]
NotAsking == [pc |-> "idle"]
Forever == 1000

LocalDays == 0..LastLocalDay

StartOfLocalDay(day) == day * DAY + WEST
LocalDay(t) == (t - WEST) \div DAY
UtcDate(day) == day * DAY
DaysRange(from, to) == [start |-> StartOfLocalDay(from), end |-> StartOfLocalDay(to + 1)]
TheWeek == DaysRange(0, LastLocalDay)
Today == LocalDay(clockTime)

(***************************************************************************)
(* Sessions                                                                *)
(***************************************************************************)
(* What a loop keeps, from the first instant on, that takes one if the     *)
(* last it took is at least so long before.                                *)
Spaced(instants, gap) ==
    CHOOSE kept \in SUBSET instants :
      \A t \in instants : t \in kept <=> \A u \in kept : u < t => t - u >= gap

WithoutDuplicates(instants) == Spaced(instants, DUPLICATE)

(* The first punch is the entry and the last one before the cap the exit;  *)
(* -1 stands for null.                                                     *)
PunchSession(instants, entry) ==
    LET before == {t \in instants : entry < t /\ t <= entry + MAX_WORKDAY}
    IN  [entry |-> entry, exit |-> IF before = {} THEN -1 ELSE Max(before)]
Match(instants) == {PunchSession(instants, t) : t \in Spaced(instants, MAX_WORKDAY + 1)}

Incident(s) ==
    IF s.exit >= 0 THEN "none"
    ELSE IF clockTime < s.entry + MAX_WORKDAY THEN "OPEN_ENTRY" ELSE "ENTRY_WITHOUT_EXIT"

LoadedPunches(range) ==
    {t \in punched : t >= range.start - LOOKBACK_DAYS_CLOCK * DAY /\ t < range.end + DAY}

Sessions(range) ==
    {s \in Match(WithoutDuplicates(LoadedPunches(range))) : s.entry >= range.start /\ s.entry < range.end}

(***************************************************************************)
(* The schedule in force and the workday                                   *)
(***************************************************************************)
(* validFrom and validTo are midnights UTC, the period has local ones.     *)
LoadAssignments(range) ==
    {k \in DOMAIN assigned : UtcDate(assigned[k].from) < range.end /\ UtcDate(assigned[k].to) >= range.start}

(* Of those that overlap the oldest rules; of one day, the first of the    *)
(* table. A schedule speaks as it is now, active or not.                   *)
ScheduleOn(range, day) ==
    LET inForce == {k \in LoadAssignments(range) : assigned[k].from <= day /\ day <= assigned[k].to}
        Before(k, j) == assigned[k].from < assigned[j].from \/ (assigned[k].from = assigned[j].from /\ k <= j)
    IN  IF inForce = {} THEN "none"
        ELSE schedules[assigned[CHOOSE k \in inForce : \A j \in inForce : Before(k, j)].schedule].grid

Worked(sessions) == SumFunctionOnSet([s \in sessions |-> IF s.exit >= 0 THEN s.exit - s.entry ELSE 0], sessions)
Positive(n) == IF n > 0 THEN n ELSE 0
MinutesBetween(from, to) == IF to > from THEN to - from ELSE to - from + DAY

(* The programmed exit, of the last stretch, on the next day at night.     *)
ExitInstant(plan, day) ==
    LET end == IF plan.splitEnd > 0 THEN plan.splitEnd ELSE plan.end
    IN  StartOfLocalDay(day) + end + (IF plan.crosses \/ end <= plan.start THEN DAY ELSE 0)

ScheduledMinutes(plan) ==
    Positive(MinutesBetween(plan.start, plan.end) - plan.meal
               + (IF plan.splitEnd > 0 THEN MinutesBetween(plan.splitStart, plan.splitEnd) ELSE 0))

Workday(sessions, worked, scheduled, extra, late, rest, known) ==
    [worked |-> worked, scheduled |-> scheduled, extra |-> extra, late |-> late, rest |-> rest, known |-> known,
     missing |-> IF worked > 0 THEN Positive(scheduled - worked) ELSE 0]

ComputeWorkday(day, sessions, schedule) ==
    LET worked == Worked(sessions)
        plan == Plan[schedule]
        entries == {s.entry : s \in sessions}
        exits == {s.exit : s \in sessions} \ {-1}
        late == Min(entries) - (StartOfLocalDay(day) + plan.start)
        after == Positive(Max(exits) - ExitInstant(plan, day) - plan.exitTolerance)
    IN  IF schedule = "none" THEN Workday(sessions, worked, DEFAULT_WORKDAY, 0, 0, FALSE, FALSE)
        ELSE IF day \in RestDay[schedule]
        THEN Workday(sessions, worked, 0, IF worked >= plan.minOvertime THEN worked ELSE 0, 0, TRUE, TRUE)
        ELSE Workday(sessions, worked, ScheduledMinutes(plan),
                     IF exits # {} /\ after >= plan.minOvertime THEN after ELSE 0,
                     IF entries # {} /\ late > plan.entryTolerance THEN late ELSE 0, FALSE, TRUE)

(* Those of somebody who is not linked belong to a number of the clock.    *)
LinkedSessions(range) == IF linked THEN Sessions(range) ELSE {}

(* The days of a period, with their sessions and their workday.            *)
DaysFrom(sessions, range) ==
    [d \in LocalDays |->
       LET on == {s \in sessions : LocalDay(s.entry) = d}
           schedule == ScheduleOn(range, d)
       IN  [sessions |-> on, schedule |-> schedule, work |-> ComputeWorkday(d, on, schedule)]]

ComputeDays(range) == DaysFrom(LinkedSessions(range), range)

(* computeOvertimeDays: a row for every day with a session.                *)
OvertimeDays(rows) == {d \in LocalDays : rows[d].sessions # {}}

(***************************************************************************)
(* Catalogue of schedules                                                  *)
(***************************************************************************)
Asks(b, request) ==
    /\ boss[b] = NotAsking /\ paper < MaxPaper /\ ~Crowded(2)
    /\ boss' = [boss EXCEPT ![b] = request] /\ paper' = paper + 1
Proceeds(b, request) == boss' = [boss EXCEPT ![b] = request] /\ UNCHANGED paper
Ends(b) == Proceeds(b, NotAsking)
Asked == paper < MaxPaper /\ ~Crowded(2) /\ paper' = paper + 1 /\ UNCHANGED boss

IsSchedule(s) == schedules[s] \notin {NoSchedule, ScheduleGone}
Refers(s) == {k \in DOMAIN assigned : assigned[k].schedule = s}
StillOpen(s) == {k \in Refers(s) : assigned[k].to = Forever}

(* A name that is taken is refused; names are left out.                    *)
CreateSchedule(s, grid) ==
    /\ Asked /\ schedules[s] = NoSchedule
    /\ schedules' = [schedules EXCEPT ![s] = [active |-> TRUE, grid |-> grid]]
    /\ UNCHANGED <<observed, assigned, decided>>

UpdateSchedule(s, grid, active) ==
    /\ Asked /\ IsSchedule(s)
    /\ schedules' = [schedules EXCEPT ![s] = [active |-> active, grid |-> grid]]
    /\ UNCHANGED <<observed, assigned, decided>>

(* remove: find, count, and then update or delete.                         *)
RemoveSchedule(b, s) ==
    /\ IsSchedule(s) /\ Asks(b, [pc |-> "count", schedule |-> s, soft |-> schedules[s].active])
    /\ UNCHANGED <<observed, schedules, assigned, decided>>

CountAssigned(b) ==
    /\ boss[b].pc = "count"
    /\ Proceeds(b, [boss[b] EXCEPT !.pc = "remove", !.soft = @ \/ StillOpen(boss[b].schedule) # {}])
    /\ UNCHANGED <<observed, schedules, assigned, decided>>

(* An assignment, also one that ended, keeps its schedule from deletion.   *)
RemoveWrite(b) ==
    /\ boss[b].pc = "remove" /\ Ends(b)
    /\ LET s == boss[b].schedule
       IN  schedules' = IF ~IsSchedule(s) \/ (~boss[b].soft /\ Refers(s) # {}) THEN schedules
                        ELSE [schedules EXCEPT ![s] = IF boss[b].soft THEN [@ EXCEPT !.active = FALSE] ELSE ScheduleGone]
    /\ UNCHANGED <<observed, assigned, decided>>

(***************************************************************************)
(* Assignment of schedules. A statement changes rows that were there when  *)
(* it began, as they are when it gets to them.                             *)
(***************************************************************************)
AssignBulk(b, s, from) ==
    /\ schedules[s].active /\ Asks(b, [pc |-> "assign", schedule |-> s, from |-> from])
    /\ UNCHANGED <<observed, schedules, assigned, decided>>

AssignBegins(b) ==
    /\ boss[b].pc = "assign"
    /\ Proceeds(b, [pc |-> "commit", schedule |-> boss[b].schedule, from |-> boss[b].from, seen |-> Len(assigned)])
    /\ UNCHANGED <<observed, schedules, assigned, decided>>

CoversFrom(a, from) == a.from <= from /\ a.to >= from

(* The transaction; nothing of it stays if the schedule is gone.           *)
AssignCommits(b) ==
    /\ boss[b].pc = "commit" /\ Ends(b)
    /\ LET from == boss[b].from
           closed == [k \in DOMAIN assigned |-> IF k <= boss[b].seen /\ CoversFrom(assigned[k], from)
                                                THEN [assigned[k] EXCEPT !.to = from - 1] ELSE assigned[k]]
       IN  assigned' = IF IsSchedule(boss[b].schedule)
                       THEN Append(closed, [schedule |-> boss[b].schedule, from |-> from, to |-> Forever]) ELSE assigned
    /\ UNCHANGED <<observed, schedules, decided>>

(* Ended with the day before the one it is in UTC.                         *)
RemoveBulk(b, s) ==
    /\ Asks(b, [pc |-> "end", schedule |-> s, to |-> clockTime \div DAY - 1, seen |-> Len(assigned)])
    /\ UNCHANGED <<observed, schedules, assigned, decided>>

RemoveCommits(b) ==
    /\ boss[b].pc = "end" /\ Ends(b)
    /\ assigned' = [k \in DOMAIN assigned |-> IF k <= boss[b].seen /\ k \in StillOpen(boss[b].schedule)
                                              THEN [assigned[k] EXCEPT !.to = boss[b].to] ELSE assigned[k]]
    /\ UNCHANGED <<observed, schedules, decided>>

(***************************************************************************)
(* Approval of overtime: punches are read, then the schedules, and then    *)
(* the days that have overtime are written one by one                      *)
(***************************************************************************)
Decide(b, days, status, range) ==
    /\ Asks(b, [pc |-> "compute", days |-> days, status |-> status, range |-> range, sessions |-> LinkedSessions(range)])
    /\ UNCHANGED <<observed, schedules, assigned, decided>>

DecideCompute(b) ==
    /\ boss[b].pc = "compute"
    /\ LET rows == DaysFrom(boss[b].sessions, boss[b].range)
           some == {d \in boss[b].days : rows[d].sessions # {} /\ rows[d].work.extra > 0}
       IN  IF some = {} THEN Ends(b)
           ELSE Proceeds(b, [pc |-> "write", status |-> boss[b].status, left |-> some, extra |-> [d \in some |-> rows[d].work.extra]])
    /\ UNCHANGED <<observed, schedules, assigned, decided>>

(* The items are in the order of the request, which is any.                *)
DecideWrite(b) ==
    /\ boss[b].pc = "write"
    /\ \E d \in boss[b].left :
         /\ decided' = [decided EXCEPT ![d] =
                          IF boss[b].status = "PENDING" THEN NoDecision
                          ELSE [status |-> boss[b].status, extra |-> boss[b].extra[d]]]
         /\ IF boss[b].left = {d} THEN Ends(b) ELSE Proceeds(b, [boss[b] EXCEPT !.left = @ \ {d}])
    /\ UNCHANGED <<observed, schedules, assigned>>

(* materialize: days with extra, or with a decision.                       *)
StatusOf(day) == IF decided[day] = NoDecision THEN "PENDING" ELSE decided[day].status
ApprovedOn(days) ==
    SumFunctionOnSet([d \in LocalDays |-> IF decided[d].status = "APPROVED" THEN decided[d].extra ELSE 0], days)
(* Mutant: a day that lost its extra is not shown, decided or not.         *)
MaterializedWithExtra(rows) == {d \in OvertimeDays(rows) : rows[d].work.extra > 0}

Materialized(rows) == {d \in OvertimeDays(rows) : rows[d].work.extra > 0 \/ decided[d] # NoDecision}
ExtraOf(rows, days) == SumFunctionOnSet([d \in LocalDays |-> rows[d].work.extra], days)

SummaryOf(rows) ==
    LET shown == Materialized(rows)
        with(status) == {d \in shown : StatusOf(d) = status}
    IN  [pending |-> ExtraOf(rows, with("PENDING")),
         approved |-> ApprovedOn(with("APPROVED")),
         rejected |-> ExtraOf(rows, with("REJECTED"))]

(* computeOvertime: the calculation of a person, with the decisions; what  *)
(* was rejected counts as it was when it was rejected.                     *)
ComputeOvertime(rows) ==
    LET days == OvertimeDays(rows)
        with(status) == {d \in days : decided[d].status = status}
    IN  [extra |-> ExtraOf(rows, days),
         pending |-> ExtraOf(rows, with("none")),
         approved |-> ApprovedOn(days),
         rejected |-> SumFunctionOnSet([d \in LocalDays |-> decided[d].extra], with("REJECTED"))]

(***************************************************************************)
(* The weekly report and the view by person                                *)
(***************************************************************************)
WeeklyStatus(row, day) ==
    CASE day > Today -> "FUTURE"
      [] day <= Today /\ ~linked -> "NO_INFO"
      [] day <= Today /\ linked /\ row.sessions # {} ->
           IF \E s \in row.sessions : Incident(s) = "ENTRY_WITHOUT_EXIT" THEN "INCOMPLETE"
           ELSE IF row.work.rest THEN "REST_WORKED" ELSE IF row.work.extra > 0 THEN "OVERTIME" ELSE "WORKED"
      [] day <= Today /\ linked /\ row.sessions = {} ->
           IF row.work.rest THEN "REST" ELSE IF day = Today \/ ~row.work.known THEN "NO_INFO" ELSE "ABSENCE"

WeeklyTotals(rows) ==
    LET counting == {d \in LocalDays : WeeklyStatus(rows[d], d) \notin {"FUTURE", "NO_INFO"}}
    IN  [extra |-> ExtraOf(rows, counting),
         pending |-> ExtraOf(rows, {d \in LocalDays : decided[d] = NoDecision}),
         approved |-> ApprovedOn(LocalDays),
         rejected |-> ExtraOf(rows, {d \in LocalDays : decided[d].status = "REJECTED"}),
         absences |-> {d \in LocalDays : WeeklyStatus(rows[d], d) = "ABSENCE"}]

(* A row for everybody who is linked. Today is an absence once the entry   *)
(* and its tolerance are past.                                             *)
DayStatus(row, day) ==
    LET plan == Plan[row.schedule]
    IN  IF row.sessions # {} THEN (IF row.work.late > 0 THEN "LATE" ELSE "ATTENDED")
        ELSE IF day > Today THEN "PENDING"
        ELSE IF ~row.work.known THEN "NO_INFO"
        ELSE IF row.work.rest THEN "REST"
        ELSE IF day < Today \/ clockTime > StartOfLocalDay(day) + plan.start + plan.entryTolerance
        THEN "ABSENCE" ELSE "PENDING"

(***************************************************************************)
(* The person, the hours                                                   *)
(***************************************************************************)
(* A punch reaches the database some time after it was made.               *)
PunchArrives(t) ==
    /\ Cardinality(punched) < MaxPunches /\ ~Crowded(1) /\ t <= clockTime
    /\ punched' = punched \cup {t}
    /\ UNCHANGED <<clockTime, linked, schedules, assigned, decided, boss, paper>>

HalfDayPasses ==
    /\ clockTime < StartOfLocalDay(LastLocalDay + 1)
    /\ clockTime' = clockTime + DAY \div 2
    /\ UNCHANGED <<punched, linked, schedules, assigned, decided, boss, paper>>

(* linkEmployee, unlinkEmployee and what a synchronisation concludes.      *)
Link ==
    /\ Asked /\ linked' = ~linked
    /\ UNCHANGED <<punched, clockTime, schedules, assigned, decided>>

(* Somebody who is linked; any catalogue, and at most one assignment, that *)
(* may have ended.                                                         *)
AttendanceInit ==
    /\ punched = {} /\ clockTime = StartOfLocalDay(LastLocalDay - 1) /\ linked = TRUE
    /\ schedules \in [Schedule -> {NoSchedule} \cup [active : BOOLEAN, grid : Grid]]
    /\ assigned \in {<<>>} \cup {<<[schedule |-> s, from |-> 0, to |-> to]>> : s \in {s \in Schedule : IsSchedule(s)}, to \in {0, Forever}}
    /\ decided = [d \in LocalDays |-> NoDecision] /\ boss = [b \in Boss |-> NotAsking]
    /\ paper = 0

AttendanceNext ==
    \/ \E t \in PunchTime : PunchArrives(t)
    \/ HalfDayPasses \/ Link
    \/ \E s \in Schedule, grid \in Grid : CreateSchedule(s, grid) \/ \E active \in BOOLEAN : UpdateSchedule(s, grid, active)
    \/ \E b \in Boss, s \in Schedule : RemoveSchedule(b, s) \/ RemoveBulk(b, s) \/ \E from \in LocalDays : AssignBulk(b, s, from)
    \/ \E b \in Boss, days \in Selection, status \in {"APPROVED", "REJECTED", "PENDING"} :
         Decide(b, days, status, TheWeek) \/ \E day \in days : Decide(b, days, status, DaysRange(day, day))
    \/ \E b \in Boss : CountAssigned(b) \/ RemoveWrite(b) \/ AssignBegins(b) \/ AssignCommits(b) \/ RemoveCommits(b)
                       \/ DecideCompute(b) \/ DecideWrite(b)

AttendanceSpec == AttendanceInit /\ [][AttendanceNext]_attendanceVars

(***************************************************************************)
(* Properties                                                              *)
(***************************************************************************)
(* workday-rules.ts, people-attendance.service.ts: what the bosses         *)
(* approve and the view by person count the same overtime as the weekly    *)
(* report, whatever punches came late, whichever schedule was assigned,    *)
(* edited or removed, and whoever was unlinked; what is approved, unless a *)
(* decided day has lost its sessions.                                      *)
OvertimeAgrees(rows, weekly) ==
    LET bosses == SummaryOf(rows)
        people == ComputeOvertime(rows)
    IN  /\ bosses.pending = people.pending /\ weekly.pending = people.pending
        /\ weekly.rejected = bosses.rejected
        /\ weekly.extra = people.extra
        /\ (\A d \in LocalDays : decided[d] # NoDecision => d \in OvertimeDays(rows))
             => weekly.approved = bosses.approved /\ people.approved = bosses.approved

(* And the weekly report and the view by person, where it has a row, find  *)
(* the same absences of the days that are over.                            *)
ThreeReportsAgree ==
    LET rows == ComputeDays(TheWeek)
        weekly == WeeklyTotals(rows)
    IN  /\ OvertimeAgrees(rows, weekly)
        /\ \A d \in LocalDays : d < Today => (d \in weekly.absences <=> linked /\ DayStatus(rows[d], d) = "ABSENCE")

(* compute, LOOKBACK_DAYS: the sessions of a day are the same in the       *)
(* report of the day as in the one of the week, if somewhere in the days   *)
(* read before the person stayed away longer than a workday lasts.         *)
LookbackResynchronises ==
    LET week == Sessions(TheWeek) IN
    \A day \in LocalDays :
      LET before == {t \in punched : t < StartOfLocalDay(day)}
          read == {t \in before : t >= StartOfLocalDay(day) - LOOKBACK_DAYS_CLOCK * DAY}
          next(t) == {u \in read : u > t} \cup {StartOfLocalDay(day)}
          rested == \/ before = {}
                    \/ \E t \in {StartOfLocalDay(day) - LOOKBACK_DAYS_CLOCK * DAY} \cup read :
                         Min(next(t)) - t > MAX_WORKDAY
      IN  rested => Sessions(DaysRange(day, day)) = {s \in week : LocalDay(s.entry) = day}

(* Every report of a day or of a week counts the same sessions, overtime   *)
(* and absences.                                                           *)
AttendanceAgrees == ThreeReportsAgree /\ LookbackResynchronises

(***************************************************************************)
(* Review by department and closing of the weekly payroll                  *)
(* (payroll-review.service.ts), for one week. It reads none of the above.  *)
(***************************************************************************)
CONSTANTS
    Area,        \* departments, and
    NoArea,      \* the group without one
    Payer,       \* requests that may overlap
    MaxClerk     \* bound on the requests

ASSUME PayrollAssumption == MaxClerk \in Nat /\ NoArea \in Area

VARIABLES
    staffed,     \* departments there are
    reviews,     \* payroll_department_reviews: area -> id, or 0
    closure,     \* payroll_week_closures
    payer,       \* request -> what it is doing
    clerk        \* requests so far: the last one names the rows it creates

payrollVars == <<staffed, reviews, closure, payer, clerk>>

NotFiling == [pc |-> "idle"]
OpenWeek == [closed |-> FALSE, asked |-> {}, snapshot |-> {}]
Reviewed == {a \in Area : reviews[a] # 0}

Files(o, request) ==
    /\ payer[o] = NotFiling /\ clerk < MaxClerk
    /\ payer' = [payer EXCEPT ![o] = request] /\ clerk' = clerk + 1
    /\ UNCHANGED <<staffed, reviews, closure>>
Filed(o) == payer' = [payer EXCEPT ![o] = NotFiling] /\ UNCHANGED <<staffed, clerk>>

(* The index of week and department lets one row in, all or none.          *)
Creates(some, id) ==
    reviews' = IF some \subseteq staffed \cup {NoArea} /\ some \cap Reviewed = {}
               THEN [a \in Area |-> IF a \in some THEN id ELSE reviews[a]] ELSE reviews

(* Marking again only changes who did it and when, which is left out.      *)
SetReviewed(o, area) ==
    Files(o, IF reviews[area] = 0 THEN [pc |-> "create", areas |-> {area}, id |-> clerk + 1]
             ELSE [pc |-> "delete", area |-> area, id |-> reviews[area]])

(* createMany of those that are missing.                                   *)
ReviewAll(o, asked) ==
    asked \ Reviewed # {} /\ Files(o, [pc |-> "create", areas |-> asked \ Reviewed, id |-> clerk + 1])

ReviewCreates(o) ==
    /\ payer[o].pc = "create"
    /\ Creates(payer[o].areas, payer[o].id)
    /\ Filed(o) /\ UNCHANGED closure

(* By its id: another row of the department stays.                         *)
ReviewDeletes(o) ==
    /\ payer[o].pc = "delete"
    /\ reviews' = [reviews EXCEPT ![payer[o].area] = IF @ = payer[o].id THEN 0 ELSE @]
    /\ Filed(o) /\ UNCHANGED closure

(* Mutant: one review is enough to close.                                  *)
MissingNone(asked) == Reviewed = {} /\ asked # {}

Missing(asked) == asked \ Reviewed # {}

Close(o, asked) ==
    ~Missing(asked) /\ Files(o, [pc |-> "close", asked |-> asked, snapshot |-> Reviewed])

CloseWrite(o) ==
    /\ payer[o].pc = "close"
    /\ closure' = [closed |-> TRUE, asked |-> payer[o].asked, snapshot |-> payer[o].snapshot]
    /\ Filed(o) /\ UNCHANGED reviews

(* The row keeps its snapshot.                                             *)
Reopen(o) == closure.closed /\ Files(o, [pc |-> "reopen"])

ReopenWrite(o) ==
    /\ payer[o].pc = "reopen"
    /\ closure' = [closure EXCEPT !.closed = FALSE]
    /\ Filed(o) /\ UNCHANGED reviews

(* The reviews of a department go with it.                                 *)
DepartmentGoes(area) ==
    /\ area \in staffed /\ clerk < MaxClerk /\ clerk' = clerk + 1
    /\ staffed' = staffed \ {area} /\ reviews' = [reviews EXCEPT ![area] = 0]
    /\ UNCHANGED <<closure, payer>>

PayrollInit ==
    /\ staffed = Area \ {NoArea} /\ reviews = [a \in Area |-> 0] /\ closure = OpenWeek
    /\ payer = [o \in Payer |-> NotFiling] /\ clerk = 0

PayrollNext ==
    \/ \E o \in Payer, area \in Area : SetReviewed(o, area)
    \/ \E o \in Payer, asked \in SUBSET Area : ReviewAll(o, asked) \/ Close(o, asked)
    \/ \E o \in Payer : ReviewCreates(o) \/ ReviewDeletes(o) \/ CloseWrite(o) \/ Reopen(o) \/ ReopenWrite(o)
    \/ \E area \in Area : DepartmentGoes(area)

PayrollSpec == PayrollInit /\ [][PayrollNext]_payrollVars

(***************************************************************************)
(* Properties                                                              *)
(***************************************************************************)
(* close: the photograph of a week that was closed holds the review of     *)
(* every department the screen asked for, also when reviews are withdrawn  *)
(* or departments removed while it closes, or after it was reopened.       *)
PhotographIsComplete == closure.asked \subseteq closure.snapshot
=============================================================================
