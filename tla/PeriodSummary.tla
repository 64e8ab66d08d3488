------------------------- MODULE PeriodSummary -------------------------
(***************************************************************************)
(* The reports of the device inventory: the summary of a period, the       *)
(* table of deliveries and the table of assigned devices, read from the    *)
(* documents that InventoryService writes. Time is counted in instants,    *)
(* REPORT_DAY of them in a day. A letter of custody (Loan) holds the units *)
(* it lent; a return names the units that came back, in good condition.    *)
(*                                                                         *)
(* A report is a formula of one moment.  summary() sends its totals, its   *)
(* groups, the people and the days as separate queries, outside a          *)
(* transaction: a document that is written between two of them is in some  *)
(* parts of that report only, and nothing here is said of such a report.   *)
(***************************************************************************)
EXTENDS Integers, FiniteSetsExt, SequencesExt

CONSTANTS
    ReportUnit,       \* device units
    NewUnit,          \* units that are admitted during the run
    DeviceOf,         \* unit -> device
    TypeOf,           \* device -> type
    Custodian, Dept,
    REPORT_DAY,
    LastInstant, MaxLoans, MaxReturns, MaxEdits

ASSUME ReportAssumption == {REPORT_DAY, LastInstant, MaxLoans, MaxReturns, MaxEdits} \subseteq Nat

VARIABLES
    letters,          \* loans with their items and units
    returns,          \* loan_returns with their items
    admitted,         \* units of STOCK_IN and ADJUSTMENT_IN movements -> instant
    unitStatus,       \* device_units.status
    atNow,
    edits

reportVars == <<letters, returns, admitted, unitStatus, atNow, edits>>

Anyone == "none"
ReportDevice == {DeviceOf[u] : u \in ReportUnit}
Of(device, units) == {u \in units : DeviceOf[u] = device}
Open(l) == l.units \ l.back
NotClosed(l) == ~l.cancelled /\ l.back # l.units

(***************************************************************************)
(* The documents                                                           *)
(***************************************************************************)
Admit(u) ==
    /\ unitStatus[u] = "UNKNOWN"
    /\ unitStatus' = [unitStatus EXCEPT ![u] = "AVAILABLE"]
    /\ admitted' = [admitted EXCEPT ![u] = atNow]
    /\ UNCHANGED <<letters, returns, atNow, edits>>

(* movementLoan: to a person, to a department or to both.                  *)
Lend(units, custodian, dept) ==
    /\ Len(letters) < MaxLoans /\ units # {} /\ {custodian, dept} # {Anyone}
    /\ \A u \in units : unitStatus[u] = "AVAILABLE"
    /\ unitStatus' = [u \in ReportUnit |-> IF u \in units THEN "ON_LOAN" ELSE unitStatus[u]]
    /\ letters' = Append(letters, [at |-> atNow, custodian |-> custodian, dept |-> dept,
                                   units |-> units, back |-> {}, cancelled |-> FALSE])
    /\ UNCHANGED <<returns, admitted, atNow, edits>>

(* movementReturn: the custodian that comes with the return, else the      *)
(* custodian of the loan.                                                  *)
GiveBack(i, units, custodian) ==
    /\ i \in DOMAIN letters /\ NotClosed(letters[i]) /\ Len(returns) < MaxReturns
    /\ units # {} /\ units \subseteq Open(letters[i])
    /\ unitStatus' = [u \in ReportUnit |-> IF u \in units THEN "AVAILABLE" ELSE unitStatus[u]]
    /\ letters' = [letters EXCEPT ![i].back = @ \cup units]
    /\ returns' = Append(returns, [at |-> atNow, loan |-> i, units |-> units,
                                   custodian |-> IF custodian = Anyone THEN letters[i].custodian ELSE custodian])
    /\ UNCHANGED <<admitted, atNow, edits>>

Edit == edits < MaxEdits /\ edits' = edits + 1

(* updateLoan: another person or department, also after a return.          *)
Reassign(i, custodian, dept) ==
    /\ Edit /\ i \in DOMAIN letters /\ NotClosed(letters[i])
    /\ letters' = [letters EXCEPT ![i].custodian = custodian, ![i].dept = dept]
    /\ UNCHANGED <<returns, admitted, unitStatus, atNow>>

CancelLoan(i) ==
    /\ Edit /\ i \in DOMAIN letters /\ NotClosed(letters[i])
    /\ unitStatus' = [u \in ReportUnit |-> IF u \in Open(letters[i]) THEN "AVAILABLE" ELSE unitStatus[u]]
    /\ letters' = [letters EXCEPT ![i].back = letters[i].units, ![i].cancelled = TRUE]
    /\ UNCHANGED <<returns, admitted, atNow>>

InstantPasses ==
    /\ atNow < LastInstant /\ atNow' = atNow + 1
    /\ UNCHANGED <<letters, returns, admitted, unitStatus, edits>>

(***************************************************************************)
(* The three series: a row is [doc, device, n, at]. A filter that was not  *)
(* given is Anyone and selects everything.                                 *)
(***************************************************************************)
LocalDayOf(t) == t \div REPORT_DAY
LastReportDay == LocalDayOf(LastInstant)
DayOnly(day) == [start |-> day * REPORT_DAY, end |-> (day + 1) * REPORT_DAY]
TheMonth == [start |-> 0, end |-> (LastReportDay + 1) * REPORT_DAY]
Within(t, range) == t >= range.start /\ t < range.end
Selects(filter, value) == filter = Anyone \/ filter = value

Rows(docs, units, at) ==
    {[doc |-> d, device |-> device, n |-> Cardinality(Of(device, units[d])), at |-> at[d]] :
       <<d, device>> \in {x \in docs \X ReportDevice : Of(x[2], units[x[1]]) # {}}}
OfType(rows, f) == {r \in rows : Selects(f.type, TypeOf[r.device])}

DeliveredWhere(range, f) ==
    LET docs == {i \in DOMAIN letters : /\ Within(letters[i].at, range) /\ ~letters[i].cancelled
                                        /\ Selects(f.dept, letters[i].dept)
                                        /\ Selects(f.custodian, letters[i].custodian)}
    IN  OfType(Rows(docs, [i \in docs |-> letters[i].units], [i \in docs |-> letters[i].at]), f)

(* The person of the filter must be that of the return and of the loan.    *)
ReturnedWhere(range, f) ==
    LET docs == {i \in DOMAIN returns :
                   LET r == returns[i] l == letters[r.loan]
                   IN  /\ Within(r.at, range) /\ ~l.cancelled /\ Selects(f.dept, l.dept)
                       /\ Selects(f.custodian, r.custodian) /\ Selects(f.custodian, l.custodian)}
    IN  OfType(Rows(docs, [i \in docs |-> returns[i].units], [i \in docs |-> returns[i].at]), f)

(* STOCK_IN and ADJUSTMENT_IN carry neither person nor department, and     *)
(* movementReversion refuses them: they are all ACTIVE.                    *)
AdmittedWhere(range, f) ==
    LET docs == {u \in ReportUnit : /\ unitStatus[u] # "UNKNOWN" /\ Within(admitted[u], range)
                                    /\ f.dept = Anyone /\ f.custodian = Anyone}
    IN  OfType(Rows(docs, [u \in docs |-> {u}], [u \in docs |-> admitted[u]]), f)

Total(rows) == MapThenSumSet(LAMBDA r : r.n, rows)

(***************************************************************************)
(* The aggregates                                                          *)
(***************************************************************************)
(* Mutant: a device keeps the last document instead of accumulating.       *)
ByDeviceLast(rows) ==
    [d \in {r.device : r \in rows} |-> (CHOOSE r \in rows : r.device = d).n]
ByDevice(rows) == [d \in {r.device : r \in rows} |-> Total({r \in rows : r.device = d})]

(* dailyBuckets: SQL of its own, which joins the units of the documents of *)
(* each day.  The person is that of the return or of the loan.             *)
DailyBuckets(range, f) ==
    LET ofType(u) == Selects(f.type, TypeOf[DeviceOf[u]])
        joined(docs, units) == Cardinality({<<i, u>> \in docs \X ReportUnit : u \in units[i].units /\ ofType(u)})
        onDay(t, day) == Within(t, range) /\ LocalDayOf(t) = day
        inDept(l) == ~l.cancelled /\ Selects(f.dept, l.dept)
        lent(day) == {i \in DOMAIN letters : /\ onDay(letters[i].at, day) /\ inDept(letters[i])
                                             /\ Selects(f.custodian, letters[i].custodian)}
        back(day) == {i \in DOMAIN returns :
                        LET l == letters[returns[i].loan]
                        IN  /\ onDay(returns[i].at, day) /\ inDept(l)
                            /\ f.custodian \in {Anyone, returns[i].custodian, l.custodian}}
        new(day) == {u \in ReportUnit : /\ unitStatus[u] # "UNKNOWN" /\ onDay(admitted[u], day) /\ ofType(u)
                                        /\ {f.dept, f.custodian} = {Anyone}}
    IN  [day \in 0..LastReportDay |->
           [delivered |-> joined(lent(day), letters), returned |-> joined(back(day), returns),
            admitted |-> Cardinality(new(day))]]

(* recipients: a loan counts for its person, a return for the person who   *)
(* came back with the units; outstanding never falls below zero.           *)
Recipients(delivered, returned) ==
    LET broughtBy(r) == IF returns[r.doc].custodian # Anyone THEN returns[r.doc].custodian
                        ELSE letters[returns[r.doc].loan].custodian
        people == ({letters[r.doc].custodian : r \in delivered} \cup {broughtBy(r) : r \in returned}) \ {Anyone}
        given(c) == {r \in delivered : letters[r.doc].custodian = c}
        brought(c) == {r \in returned : broughtBy(r) = c}
    IN  [c \in people |->
           [loans |-> Cardinality({r.doc : r \in given(c)}), delivered |-> Total(given(c)),
            returned |-> Total(brought(c)), outstanding |-> Max({0, Total(given(c)) - Total(brought(c))})]]

Summary(range, f) ==
    LET delivered == DeliveredWhere(range, f)
        returned == ReturnedWhere(range, f)
    IN  [delivered |-> Total(delivered), returned |-> Total(returned),
         admitted |-> Total(AdmittedWhere(range, f)), net |-> Total(delivered) - Total(returned),
         byDevice |-> ByDevice(delivered), backByDevice |-> ByDevice(returned),
         recipients |-> Recipients(delivered, returned)]

(***************************************************************************)
(* The rows of the deliveries                                              *)
(***************************************************************************)
ReturnedQuantity(r) == Cardinality(Of(r.device, letters[r.doc].back))
DeliveryStatusOf(r) ==
    IF ReturnedQuantity(r) > 0 /\ ReturnedQuantity(r) >= r.n THEN "RETURNED"
    ELSE IF ReturnedQuantity(r) > 0 THEN "PARTIAL" ELSE "ACTIVE"
StatusWhere(status, r) ==
    CASE status = "ACTIVE" -> ReturnedQuantity(r) = 0
      [] status = "RETURNED" -> ReturnedQuantity(r) > 0 /\ ReturnedQuantity(r) >= r.n
      [] status = "PARTIAL" -> ReturnedQuantity(r) > 0 /\ ReturnedQuantity(r) < r.n

(* The most recent delivery first, ties by id, no more than the limit.     *)
Detail(range, f, limit) ==
    LET rows == DeliveredWhere(range, f)
        later(a, b) == a.at > b.at \/ (a.at = b.at /\ (a.doc < b.doc \/ (a.doc = b.doc /\ a.device # b.device)))
        found == SetToSeq(rows)
        sorted == SortSeq(found, later)
    IN  [data |-> SubSeq(sorted, 1, Min({limit, Len(sorted)})), total |-> Cardinality(rows),
         truncated |-> Len(sorted) > limit]

(***************************************************************************)
(* Assigned devices                                                        *)
(***************************************************************************)
HoldersOf(u) == {i \in DOMAIN letters : u \in Open(letters[i]) /\ ~letters[i].cancelled}

(* loanDateFilter: the greatest lower bound and the smallest upper bound;  *)
(* the end of a range is exclusive, a number of days inclusive. A bound    *)
(* that was not given is -1.                                               *)
LoanDateFilter(f) ==
    LET least == atNow - f.maxDays * REPORT_DAY
        most == atNow - f.minDays * REPORT_DAY
        lower == (IF f.start >= 0 THEN {f.start} ELSE {}) \cup (IF f.maxDays >= 0 THEN {least} ELSE {})
    IN  [gte |-> IF lower = {} THEN 0 ELSE Max(lower),
         lt |-> IF f.end >= 0 /\ f.minDays >= 0 THEN (IF most <= f.end THEN most + 1 ELSE f.end)
                ELSE IF f.end >= 0 THEN f.end
                ELSE IF f.minDays >= 0 THEN most + 1 ELSE LastInstant + 1]

(* commonFilters: the conditions on the loan hold of one and the same      *)
(* open loan.                                                              *)
CommonFilters(f, dates) ==
    LET fits(l) == /\ Selects(f.custodian, l.custodian) /\ Selects(f.dept, l.dept)
                   /\ l.at >= dates.gte /\ l.at < dates.lt
        asked == f.custodian # Anyone \/ f.dept # Anyone \/ dates # [gte |-> 0, lt |-> LastInstant + 1]
    IN  {u \in ReportUnit : /\ unitStatus[u] # "UNKNOWN" /\ Selects(f.type, TypeOf[DeviceOf[u]])
                            /\ asked => \E i \in HoldersOf(u) : fits(letters[i])}

AssignedWhere(f, dates) == {u \in CommonFilters(f, dates) : unitStatus[u] = "ON_LOAN"}
DevicesWhere(f, dates, status) == {u \in CommonFilters(f, dates) : Selects(status, unitStatus[u])}

(* assignmentDays: one number for each open loan of a unit.                *)
AssignmentDays(units) ==
    {<<u, i, (atNow - letters[i].at) \div REPORT_DAY>> : <<u, i>> \in {x \in units \X DOMAIN letters : x[2] \in HoldersOf(x[1])}}
AssignedStats(units) == [assigned |-> Cardinality(units), days |-> AssignmentDays(units)]

DevicesStats(units, pinned) ==
    LET count(status) == IF pinned \notin {Anyone, status} THEN 0
                         ELSE Cardinality({u \in units : unitStatus[u] = status})
    IN  [total |-> Cardinality(units), available |-> count("AVAILABLE"), assigned |-> count("ON_LOAN"),
         days |-> AssignmentDays(units)]

(***************************************************************************)
(* The specification                                                       *)
(***************************************************************************)
ReportInit ==
    /\ letters = <<>> /\ returns = <<>> /\ atNow = 0 /\ edits = 0
    /\ unitStatus = [u \in ReportUnit |-> IF u \in NewUnit THEN "UNKNOWN" ELSE "AVAILABLE"]
    /\ admitted = [u \in ReportUnit |-> 0]

ReportNext ==
    \/ \E u \in ReportUnit : Admit(u)
    \/ \E units \in SUBSET ReportUnit, c \in Custodian \cup {Anyone}, d \in Dept \cup {Anyone} :
         Lend(units, c, d)
    \/ \E i \in DOMAIN letters :
         \/ \E units \in SUBSET ReportUnit, c \in Custodian \cup {Anyone} : GiveBack(i, units, c)
         \/ \E c \in Custodian \cup {Anyone}, d \in Dept \cup {Anyone} : Reassign(i, c, d)
         \/ CancelLoan(i)
    \/ InstantPasses

ReportSpec == ReportInit /\ [][ReportNext]_reportVars

(***************************************************************************)
(* Properties                                                              *)
(***************************************************************************)
ReportFilters(people) ==
    [type : {TypeOf[d] : d \in ReportDevice} \cup {Anyone}, dept : Dept \cup {Anyone}, custodian : people]
Everything == [type |-> Anyone, dept |-> Anyone, custodian |-> Anyone]

SumOf(f) == MapThenSumSet(LAMBDA k : f[k], DOMAIN f)

(* What that person brought back was lent to that person, and what came    *)
(* back of it was brought by that person.                                  *)
SameHands(person) ==
    person = Anyone \/ \A i \in DOMAIN returns :
                         returns[i].custodian = person <=> letters[returns[i].loan].custodian = person

(* summary, byDevice, dailyBuckets, recipients, detail: whatever           *)
(* department, with a type or a person, is asked for, the total of the     *)
(* period is the sum of its devices, of its days and of the summaries of   *)
(* the single days, who received it and the loans to a department make it  *)
(* up, every delivered row is found under exactly its status, and the net  *)
(* of all time is what is still out.  Of a person whose units came back by *)
(* the hand of another, or were moved to another after a return, this is   *)
(* not claimed: see DaysMatchTotals.                                       *)
PeriodAddsUp ==
    \A f \in {g \in ReportFilters(Custodian \cup {Anyone}) :
                 Anyone \in {g.type, g.custodian} /\ SameHands(g.custodian)} :
      LET s == Summary(TheMonth, f)
          buckets == DailyBuckets(TheMonth, f)
          rows == DeliveredWhere(TheMonth, f)
          detail == Detail(TheMonth, f, 2)
      IN  /\ s.delivered = SumOf(s.byDevice) /\ s.returned = SumOf(s.backByDevice)
          /\ \A d \in 0..LastReportDay :
               LET day == Summary(DayOnly(d), f)
               IN  buckets[d] = [delivered |-> day.delivered, returned |-> day.returned, admitted |-> day.admitted]
          /\ s.net = MapThenSumSet(LAMBDA d : buckets[d].delivered, DOMAIN buckets)
                       - MapThenSumSet(LAMBDA d : buckets[d].returned, DOMAIN buckets)
          /\ s.net = MapThenSumSet(LAMBDA r : r.n - ReturnedQuantity(r), rows)
          /\ s.delivered = MapThenSumSet(LAMBDA c : s.recipients[c].delivered, DOMAIN s.recipients)
                             + Total({r \in rows : letters[r.doc].custodian = Anyone})
          /\ \A r \in rows : {x \in {"ACTIVE", "PARTIAL", "RETURNED"} : StatusWhere(x, r)} = {DeliveryStatusOf(r)}
          /\ detail.truncated <=> Len(detail.data) < detail.total

(* "El filtro de persona acepta cualquiera de los dos (igual que el SQL de *)
(* los buckets)": whoever is asked for, what came back in the period is    *)
(* what came back on its days.                                             *)
DaysMatchTotals ==
    \A f \in ReportFilters(Custodian) :
      LET buckets == DailyBuckets(TheMonth, f)
      IN  Summary(TheMonth, f).returned = MapThenSumSet(LAMBDA d : buckets[d].returned, DOMAIN buckets)

(* getAssignedDevicesReport, getDevicesReport: the units shown for the     *)
(* people and for the loans without a person make up the units on loan,    *)
(* each once; the two reports agree; and combined bounds on the date of    *)
(* the loan select what every one of them selects (an exclusive end that   *)
(* is the very instant of an inclusive one gives way to it).               *)
AssignmentsAddUp ==
    LET all == LoanDateFilter([start |-> -1, end |-> -1, minDays |-> -1, maxDays |-> -1])
        lent == AssignedStats(AssignedWhere(Everything, all))
        of(c) == AssignedStats(AssignedWhere([Everything EXCEPT !.custodian = c], all))
        devices == DevicesStats(DevicesWhere(Everything, all, Anyone), Anyone)
        pinned == DevicesStats(DevicesWhere(Everything, all, "ON_LOAN"), "ON_LOAN")
        without == {u \in ReportUnit : \E i \in HoldersOf(u) : letters[i].custodian = Anyone}
        most(f) == atNow - f.minDays * REPORT_DAY
    IN  /\ lent.assigned = MapThenSumSet(LAMBDA c : of(c).assigned, Custodian) + Cardinality(without)
        /\ lent.assigned = Cardinality(lent.days)
        /\ devices.assigned = lent.assigned /\ pinned.assigned = lent.assigned
        /\ devices.days = lent.days /\ pinned.total = pinned.assigned
        /\ \A f \in [start : {-1, REPORT_DAY}, end : {-1, REPORT_DAY, 2 * REPORT_DAY}, minDays : {-1, 1}, maxDays : {-1, 1}] :
             LET dates == LoanDateFilter(f)
                 fits(l) == /\ f.start >= 0 => l.at >= f.start
                            /\ f.end >= 0 => (l.at < f.end \/ (f.minDays >= 0 /\ l.at = f.end /\ f.end = most(f)))
                            /\ f.minDays >= 0 => l.at <= most(f)
                            /\ f.maxDays >= 0 => l.at >= atNow - f.maxDays * REPORT_DAY
             IN  AssignedWhere(Everything, dates) =
                   {u \in ReportUnit : \E i \in HoldersOf(u) : fits(letters[i])}

(* The two families of reports over loans and returns add up, and agree.   *)
ReportsAddUp == PeriodAddsUp /\ AssignmentsAddUp
=============================================================================
