------------------------------ MODULE Calendar ------------------------------
(***************************************************************************)
(* Local days and report periods (core/utils/timezone.ts). Instants are    *)
(* hours of UTC since the first day of FirstYear; a zone has an offset     *)
(* that changes once, at two in the morning of its own clock, as the zones *)
(* the hotel uses did. A dateKey is the record of its year, month and day. *)
(***************************************************************************)
EXTENDS Integers, Sequences, Functions

CONSTANTS
    FirstYear,
    FirstDay, LastDay,     \* days, counted from the first of FirstYear on
    FirstWeekday,          \* getUTCDay of day 0
    OffsetBefore, Shift,   \* offsets from UTC and changes of the clock, hours
    ChangeDay,             \* days on which the clocks change
    WeekStart              \* values of WEEK_START_DAY

ASSUME CalendarAssumption ==
    /\ {FirstYear, LastDay, FirstWeekday} \subseteq Nat /\ FirstDay \in 1..LastDay
    /\ OffsetBefore \subseteq -12..14 /\ Shift \subseteq {-1, 1}
    /\ ChangeDay \subseteq 1..LastDay /\ WeekStart \subseteq 0..6

VARIABLES zone, weekStart, instant

calendarVars == <<zone, weekStart, instant>>

REPORT_PERIODS == {"DAY", "WEEK", "FORTNIGHT", "MONTH"}

(***************************************************************************)
(* Dates: what Date.UTC does with a year, a month and a day                *)
(***************************************************************************)
Leap(y) == y % 4 = 0 /\ (y % 100 # 0 \/ y % 400 = 0)
DaysInMonth(y, m) == IF m = 2 THEN (IF Leap(y) THEN 29 ELSE 28)
                     ELSE IF m \in {4, 6, 9, 11} THEN 30 ELSE 31

(* The days before the first of a month, from the first of FirstYear on.   *)
YearMonth == (FirstYear..(FirstYear + LastDay \div 365 + 2)) \X (1..12)
DaysBefore == [ym \in YearMonth |->
    SumFunction([k \in FirstYear..(ym[1] - 1) |-> IF Leap(k) THEN 366 ELSE 365])
      + SumFunction([k \in 1..(ym[2] - 1) |-> DaysInMonth(ym[1], k)])]

DayNumber(date) == DaysBefore[<<date.y, date.m>>] + date.d - 1

DateOf == [day \in 0..(LastDay + 31) |->
    LET month == CHOOSE ym \in YearMonth :
                   day - DaysBefore[ym] \in 0..(DaysInMonth(ym[1], ym[2]) - 1)
    IN  [y |-> month[1], m |-> month[2], d |-> day - DaysBefore[month] + 1]]

IsValidDateKey(date) == date.m \in 1..12 /\ date.d \in 1..DaysInMonth(date.y, date.m)

AddDays(day, days) == day + days

(* Mutant: the months of Date.UTC counted from one.                        *)
AddMonthsFromOne(date, months) ==
    LET month == date.m + months
    IN  [y |-> date.y + month \div 12, m |-> (month % 12) + 1, d |-> 1]

AddMonths(date, months) ==
    LET month == date.m - 1 + months
    IN  [y |-> date.y + month \div 12, m |-> (month % 12) + 1, d |-> 1]

(***************************************************************************)
(* Zones                                                                   *)
(***************************************************************************)
OffsetMs(t, tz) == IF t < tz.change THEN tz.before ELSE tz.before + tz.shift

(* Two passes, to absorb a change of offset at the edge of the day.        *)
ZonedTimeToUtc(day, tz) ==
    LET guess == day * 24
        first == guess - OffsetMs(guess, tz)
    IN  guess - OffsetMs(first, tz)

LocalDateKey(t, tz) == (t + OffsetMs(t, tz)) \div 24

LocalDayRange(day, tz) ==
    [start |-> ZonedTimeToUtc(day, tz), end |-> ZonedTimeToUtc(AddDays(day, 1), tz)]

LocalWeekRange(day, tz, first) ==
    LET utcDay == (FirstWeekday + day) % 7
        start == AddDays(day, -((utcDay - first + 7) % 7))
    IN  [start |-> ZonedTimeToUtc(start, tz), end |-> ZonedTimeToUtc(AddDays(start, 7), tz)]

LocalMonthRange(day, tz) ==
    LET first == [DateOf[day] EXCEPT !.d = 1]
    IN  [start |-> ZonedTimeToUtc(DayNumber(first), tz),
         end |-> ZonedTimeToUtc(DayNumber(AddMonths(first, 1)), tz)]

LocalFortnightRange(day, tz) ==
    LET firstHalf == DateOf[day].d <= 15
        start == [DateOf[day] EXCEPT !.d = IF firstHalf THEN 1 ELSE 16]
        end == IF firstHalf THEN [start EXCEPT !.d = 16] ELSE AddMonths(start, 1)
    IN  [start |-> ZonedTimeToUtc(DayNumber(start), tz), end |-> ZonedTimeToUtc(DayNumber(end), tz)]

ResolveReportRange(period, day, tz, first) ==
    CASE period = "DAY" -> LocalDayRange(day, tz)
      [] period = "WEEK" -> LocalWeekRange(day, tz, first)
      [] period = "FORTNIGHT" -> LocalFortnightRange(day, tz)
      [] period = "MONTH" -> LocalMonthRange(day, tz)

(* resolveTimezoneWithConfig: the first that is given; one that is given   *)
(* by the client or by sys_config and is not valid is an error.            *)
ResolveTimezone(explicit, config, env, valid) ==
    LET named == IF explicit # "none" THEN explicit ELSE config
        fallback == SelectSeq(env, LAMBDA tz : tz \in valid)
    IN  IF named # "none" THEN (IF named \in valid THEN named ELSE "INVALID_TIMEZONE")
        ELSE IF fallback # <<>> THEN Head(fallback) ELSE "America/Mexico_City"

ResolveWeekStart(config) == IF config \in 0..6 THEN config ELSE 4

(***************************************************************************)
(* A clock that walks through the hours of every zone                      *)
(***************************************************************************)
CalendarInit ==
    /\ \E before \in OffsetBefore, shift \in Shift, day \in ChangeDay :
         zone = [before |-> before, shift |-> shift, change |-> day * 24 + 2 - before]
    /\ \E config \in WeekStart \cup {-1} : weekStart = ResolveWeekStart(config)
    /\ instant = FirstDay * 24

HourPasses ==
    /\ instant < LastDay * 24
    /\ instant' = instant + 1
    /\ UNCHANGED <<zone, weekStart>>

CalendarSpec == CalendarInit /\ [][HourPasses]_calendarVars

(***************************************************************************)
(* Properties                                                              *)
(***************************************************************************)
(* resolveReportRange, zonedTimeToUtc: every instant lies in the day, the  *)
(* week, the fortnight and the month of its own local date, in every zone  *)
(* and also on the days its clocks change; and the local date of the last  *)
(* hour of a period has the same period, so that periods never overlap.    *)
PeriodsPartitionTime ==
    LET today == LocalDateKey(instant, zone)
    IN  \A period \in REPORT_PERIODS :
          LET range == ResolveReportRange(period, today, zone, weekStart)
              last == LocalDateKey(range.end - 1, zone)
          IN  /\ range.start <= instant /\ instant < range.end
              /\ last <= LastDay => ResolveReportRange(period, last, zone, weekStart) = range
=============================================================================
