---------------------------- MODULE ClockSummary ----------------------------
(***************************************************************************)
(* The state of the time clocks for the dashboard                          *)
(* (TimeClockSummaryService, clock-summary.ts): what the database knows of *)
(* each clock, its punches of today by hour, its alerts, and a reading of  *)
(* the device that the process keeps for DEVICE_READ_TTL.                  *)
(*                                                                         *)
(* A summary asks one clock after the other and waits for each answer, so  *)
(* several summaries overlap, and a clock may be moved to another address  *)
(* or start to fail while one waits.  The unit of time is an hour of the   *)
(* day and a reading alike; HOURS of them make a day.                      *)
(***************************************************************************)
EXTENDS Integers, Sequences, FiniteSets, FiniteSetsExt, SequencesExt

CONSTANTS Serial,           \* clocks, numbered in the order they were created
          Address,          \* addresses a clock may have
          NoAddress,
          Person,           \* employee numbers
          Watcher,          \* summaries under way at once
          HOURS,            \* hours of a day
          DEVICE_READ_TTL,  \* how long a reading serves
          MaxTime,          \* bound on the time
          MaxStoredPunches,       \* bound on the punches
          MaxEvents         \* bound on what happens to the clocks

ASSUME SummaryAssumption ==
  /\ Serial \subseteq Nat /\ IsFiniteSet(Serial) /\ NoAddress \notin Address
  /\ HOURS \in Nat \ {0} /\ DEVICE_READ_TTL \in Nat
  /\ MaxTime \in Nat /\ MaxStoredPunches \in Nat /\ MaxEvents \in Nat

VARIABLES device,    \* what the device at each address answers
          placed,    \* the clocks: [url, countsAttendance, lastSyncOk]
          punches,   \* time_clock_punches: [serial, at, person]
          roster,    \* what the database says of the roster
          kept,      \* the cache by serial: [read, at], and the address that was asked
          view,      \* the summaries under way
          hour,      \* now
          happened,  \* how much has happened to the clocks
          gave       \* the last moment each address would have given each reading

summaryVars == <<device, placed, punches, roster, kept, view, hour, happened, gave>>

DeviceReading == {"ok", "authError", "error"}
EMPTY_ROSTER == [suspicious |-> FALSE, pendingRemovals |-> 0, reappeared |-> 0, unlinked |-> 0]
NoView == [left |-> << >>, step |-> "idle", now |-> 0, at |-> 0, read |-> "null", rows |-> << >>, alerts |-> << >>]
NotKept == [read |-> "null", at |-> 0, from |-> NoAddress]

SummaryInit ==
  /\ device = [a \in Address |-> "ok"]
  /\ placed \in [Serial -> [url : Address, countsAttendance : BOOLEAN, lastSyncOk : {TRUE}]]
  /\ punches = {}
  /\ roster = EMPTY_ROSTER
  /\ kept = [s \in Serial |-> NotKept]
  /\ view = [v \in Watcher |-> NoView]
  /\ hour = 0
  /\ happened = 0
  /\ gave = [a \in Address |-> [r \in DeviceReading |-> IF r = "ok" THEN 0 ELSE -1 - MaxTime]]

-----------------------------------------------------------------------------
(* What a reading, the punches and the roster mean.                        *)

ClassifyConnection(read) ==
  CASE read = "null" -> "NOT_READ"
    [] read = "ok" -> "ONLINE"
    [] read = "authError" -> "PAUSED_CREDENTIALS"
    [] read = "error" -> "NO_RESPONSE"

ALERT_PRIORITY == <<"NO_RESPONSE", "CREDENTIALS", "SUSPICIOUS_ROSTER", "SYNC_ERROR",
                    "PENDING_REMOVALS", "REAPPEARED", "UNLINKED">>

\* The alerts of a clock (with an empty roster) or of the roster (with a sound clock), by priority.
BuildAlerts(connection, lastSyncOk, facts) ==
  LET raised == {code \in Range(ALERT_PRIORITY) :
                   CASE code = "NO_RESPONSE" -> connection = "NO_RESPONSE"
                     [] code = "CREDENTIALS" -> connection = "PAUSED_CREDENTIALS"
                     [] code = "SUSPICIOUS_ROSTER" -> facts.suspicious
                     [] code = "SYNC_ERROR" -> ~lastSyncOk
                     [] code = "PENDING_REMOVALS" -> facts.pendingRemovals > 0
                     [] code = "REAPPEARED" -> facts.reappeared > 0
                     [] code = "UNLINKED" -> facts.unlinked > 0}
  IN SelectSeq(ALERT_PRIORITY, LAMBDA code : code \in raised)

DayOf(t) == t \div HOURS

\* The punches of today: from the start of the local day of `now` on, later days included.
Todays(s, now) ==
  IF placed[s].countsAttendance
  THEN {p \in punches : p.serial = s /\ p.at >= HOURS * DayOf(now)}
  ELSE {}

\* hourlyCounts: of the punches given, the ones of the day of `now`, by hour, each person once an hour.
HourlyCounts(given, now) ==
  [h \in 0..(HOURS - 1) |->
     LET here == {p \in given : DayOf(p.at) = DayOf(now) /\ p.at % HOURS = h}
     IN [count |-> Cardinality(here), people |-> {p.person : p \in here}]]

\* A row of the summary: the reading of the device beside what the database says now.
Row(s, read, now) ==
  LET connection == ClassifyConnection(read)
      todays == Todays(s, now)
  IN [serial |-> s, connection |-> connection, punchesToday |-> Cardinality(todays),
      hourly |-> HourlyCounts(todays, now),
      alerts |-> BuildAlerts(connection, placed[s].lastSyncOk, EMPTY_ROSTER)]

-----------------------------------------------------------------------------
(* deviceFor and summary.                                                  *)

\* The clocks with an address, in the order they were created, and the alerts of the roster.
Summarise(v) ==
  /\ view[v] = NoView
  /\ LET asked == {s \in Serial : placed[s].url # NoAddress} IN
     \E listed \in [1..Cardinality(asked) -> asked] :
       /\ \A i, j \in DOMAIN listed : i < j => listed[i] < listed[j]
       /\ view' = [view EXCEPT ![v] =
            [NoView EXCEPT !.left = [i \in DOMAIN listed |->
                                       [serial |-> listed[i], url |-> placed[listed[i]].url]],
                           !.step = "clocks", !.now = hour, !.alerts = BuildAlerts("ONLINE", TRUE, roster)]]
  /\ UNCHANGED <<device, placed, punches, roster, kept, hour, happened, gave>>

\* A kept reading serves while it is younger than the TTL.
Serves(s) == kept[s].read # "null" /\ hour - kept[s].at < DEVICE_READ_TTL

\* A kept reading serves, or the device is asked; the time is taken before it is asked.
DeviceFor(v) ==
  /\ view[v].step = "clocks" /\ view[v].left # << >>
  /\ LET w == view[v]
         s == Head(w.left).serial
     IN view' = [view EXCEPT ![v] =
          IF Serves(s)
          THEN [w EXCEPT !.left = Tail(w.left), !.rows = Append(w.rows, Row(s, kept[s].read, w.now))]
          ELSE [w EXCEPT !.step = "asking", !.at = hour]]
  /\ UNCHANGED <<device, placed, punches, roster, kept, hour, happened, gave>>

\* The device at the address replies, or the read fails.
DeviceReplies(v) ==
  /\ view[v].step = "asking"
  /\ view' = [view EXCEPT ![v] = [view[v] EXCEPT !.step = "replied", !.read = device[Head(view[v].left).url]]]
  /\ UNCHANGED <<device, placed, punches, roster, kept, hour, happened, gave>>

\* Mutant: a reading is dated when it arrives.
EntryAtArrival(v) == [read |-> view[v].read, at |-> hour, from |-> Head(view[v].left).url]

\* What is kept of a reading, good or failed: it is dated when the device was asked.
Entry(v) == [read |-> view[v].read, at |-> view[v].at, from |-> Head(view[v].left).url]

ReplyArrives(v) ==
  /\ view[v].step = "replied"
  /\ LET w == view[v]
         s == Head(w.left).serial
     IN /\ kept' = [kept EXCEPT ![s] = Entry(v)]
        /\ view' = [view EXCEPT ![v] = [w EXCEPT !.step = "clocks", !.left = Tail(w.left), !.read = "null",
                                                 !.at = 0, !.rows = Append(w.rows, Row(s, w.read, w.now))]]
  /\ UNCHANGED <<device, placed, punches, roster, hour, happened, gave>>

\* The rows and the alerts are answered.
Shown(v) ==
  /\ view[v].step = "clocks" /\ view[v].left = << >>
  /\ view' = [view EXCEPT ![v] = NoView]
  /\ UNCHANGED <<device, placed, punches, roster, kept, hour, happened, gave>>

-----------------------------------------------------------------------------
(* What happens meanwhile.                                                 *)

Event == happened < MaxEvents /\ happened' = happened + 1

\* A device fails, refuses the credentials or recovers.
DeviceChanges(a, r) ==
  /\ Event
  /\ device' = [device EXCEPT ![a] = r]
  /\ gave' = [gave EXCEPT ![a][r] = hour]
  /\ UNCHANGED <<placed, punches, roster, kept, view, hour>>

\* The clock is given another address or none, or a synchronisation ends.
ClockChanges(s, url, ok) ==
  /\ Event
  /\ placed' = [placed EXCEPT ![s].url = url, ![s].lastSyncOk = ok]
  /\ UNCHANGED <<device, punches, roster, kept, view, hour, gave>>

\* A run of the roster ends.
RosterChanges(facts) ==
  /\ Event
  /\ roster' = facts
  /\ UNCHANGED <<device, placed, punches, kept, view, hour, gave>>

\* A punch is stored; the device dates it, an hour ahead if its own time is wrong.
PunchStored(s, p, ahead) ==
  /\ Event
  /\ Cardinality(punches) < MaxStoredPunches
  /\ punches' = punches \cup {[serial |-> s, at |-> hour + ahead, person |-> p]}
  /\ UNCHANGED <<device, placed, roster, kept, view, hour, gave>>

DashboardHour ==
  /\ hour < MaxTime
  /\ hour' = hour + 1
  /\ gave' = [a \in Address |-> [gave[a] EXCEPT ![device[a]] = hour + 1]]
  /\ UNCHANGED <<device, placed, punches, roster, kept, view, happened>>

SummaryNext ==
  \/ \E v \in Watcher :
       Summarise(v) \/ DeviceFor(v) \/ DeviceReplies(v) \/ ReplyArrives(v) \/ Shown(v)
  \/ \E a \in Address, r \in DeviceReading : DeviceChanges(a, r)
  \/ \E s \in Serial, url \in Address \cup {NoAddress}, ok \in BOOLEAN : ClockChanges(s, url, ok)
  \/ \E facts \in [suspicious : {TRUE}, pendingRemovals : {1}, reappeared : {1}, unlinked : {0}] :
       RosterChanges(facts)
  \/ \E s \in Serial, p \in Person, ahead \in {0, 1} : PunchStored(s, p, ahead)
  \/ DashboardHour

SummarySpec == SummaryInit /\ [][SummaryNext]_summaryVars

-----------------------------------------------------------------------------

(* A reading that still serves is one that the device it was asked of      *)
(* would have given less than the TTL ago, however long the answer took    *)
(* and in whatever order the answers of overlapping summaries arrive.      *)
ReadingsAreRecent ==
  \A s \in Serial : Serves(s) => hour - gave[kept[s].from][kept[s].read] < DEVICE_READ_TTL

(* The hours of a row hold every punch counted for today but the ones      *)
(* dated after today, and nobody is named in an hour without a punch.      *)
HoursAddUp ==
  \A v \in Watcher : \A i \in DOMAIN view[v].rows :
    LET row == view[v].rows[i]
        inHours == SumFunction([h \in DOMAIN row.hourly |-> row.hourly[h].count])
        later == {p \in punches : p.serial = row.serial /\ DayOf(p.at) > DayOf(view[v].now)}
    IN /\ inHours <= row.punchesToday
       /\ row.punchesToday - inHours <= Cardinality(later)
       /\ \A h \in DOMAIN row.hourly : Cardinality(row.hourly[h].people) <= row.hourly[h].count

(* The summary of the clocks: readings that serve are recent, and the      *)
(* hours of a row are its punches.                                         *)
SummaryIsTrue == ReadingsAreRecent /\ HoursAddUp
=============================================================================
