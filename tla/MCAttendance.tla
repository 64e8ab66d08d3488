---------------------------- MODULE MCAttendance ----------------------------
(* What is counted over time: the gate and its reports, the periods of the *)
(* calendar, work days and overtime, the closing of a week, the loans of a *)
(* period, and the summary of the clocks.  The parts share no state: a     *)
(* behaviour runs one of them, the others stay as they start.              *)
EXTENDS AccessGate, Calendar, Attendance, PeriodSummary, ClockSummary, TLC

CONSTANTS x1, x2, u3, y1, y2, z1, z2

VARIABLE part

\* Identifiers of events, units of one device and overlapping requests of the
\* office are the first two values; scans in flight, and visitors, the others.
Symmetry == Permutations({x1, x2}) \cup Permutations({y1, y2}) \cup Permutations({z1, z2})

\* The clocks stand six hours behind or ten ahead of UTC.
MCOffset == {-6, 10}
MCShift == {1, -1}

\* Somebody has the day shift, and a second schedule does not exist yet; or had
\* the night shift for a day, and it is retired.
Catalogue(second) == [first |-> [active |-> TRUE, grid |-> "day"], second |-> second]
MCOffice ==
  {<<Catalogue(NoSchedule), <<[schedule |-> "first", from |-> 0, to |-> Forever]>>>>,
   <<Catalogue([active |-> FALSE, grid |-> "night"]), <<[schedule |-> "second", from |-> 0, to |-> 0]>>>>}
MCSelection == {{0, 1}}

\* A day shift without tolerance and a night shift with some; the day shift
\* rests on the second day.
MCPlan ==
  [s \in {"day", "night", "none"} |->
     IF s = "day"
     THEN [start |-> 1, end |-> 3, splitStart |-> 0, splitEnd |-> 0, meal |-> 0, minOvertime |-> 1,
           entryTolerance |-> 0, exitTolerance |-> 0, crosses |-> FALSE]
     ELSE [start |-> 5, end |-> 1, splitStart |-> 0, splitEnd |-> 0, meal |-> 0, minOvertime |-> 1,
           entryTolerance |-> 1, exitTolerance |-> 0, crosses |-> FALSE]]
MCRest == [s \in {"day", "night"} |-> IF s = "day" THEN {1} ELSE {}]

MCDeviceOf == [u \in ReportUnit |-> IF u = u3 THEN "radio" ELSE "laptop"]
MCTypeOf == [d \in {"laptop", "radio"} |-> IF d = "laptop" THEN "pc" ELSE "rf"]

vars == <<part, gateVars, calendarVars, attendanceVars, reportVars, payrollVars, summaryVars>>

Init ==
  /\ part \in {"gate", "calendar", "week", "period", "payroll", "summary"}
  /\ GateInit /\ CalendarInit /\ AttendanceInit /\ ReportInit /\ PayrollInit /\ SummaryInit
  /\ employed = IF part = "gate" THEN Visitor ELSE {}
  /\ part # "calendar" => zone = [before |-> 10, shift |-> 1, change |-> 366 * 24 - 8] /\ weekStart = 4
  /\ <<schedules, assigned>> \in IF part = "week" THEN MCOffice ELSE {<<Catalogue(NoSchedule), <<>>>>}
  /\ part # "summary" => \A s \in Serial : placed[s].url \in Address /\ placed[s].countsAttendance

Next ==
  \/ (/\ part = "gate" /\ GateNext
      /\ UNCHANGED <<part, calendarVars, attendanceVars, reportVars, payrollVars, summaryVars>>)
  \/ (/\ part = "calendar" /\ HourPasses
      /\ UNCHANGED <<part, gateVars, attendanceVars, reportVars, payrollVars, summaryVars>>)
  \/ (/\ part = "week" /\ AttendanceNext
      /\ UNCHANGED <<part, gateVars, calendarVars, reportVars, payrollVars, summaryVars>>)
  \/ (/\ part = "period" /\ ReportNext
      /\ UNCHANGED <<part, gateVars, calendarVars, attendanceVars, payrollVars, summaryVars>>)
  \/ (/\ part = "payroll" /\ PayrollNext
      /\ UNCHANGED <<part, gateVars, calendarVars, attendanceVars, reportVars, summaryVars>>)
  \/ (/\ part = "summary" /\ SummaryNext
      /\ UNCHANGED <<part, gateVars, calendarVars, attendanceVars, reportVars, payrollVars>>)

Spec == Init /\ [][Next]_vars

\* ReportsAddUp, while devices are lent and come back: the reports of a period
\* add up from its days, devices and people.
PeriodIsRight == part = "period" => ReportsAddUp
=============================================================================
