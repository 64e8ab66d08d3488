---------------------------- MODULE ClockProofs -----------------------------
(***************************************************************************)
(* Proofs about the synchronisation of the time clocks: whatever fails, is *)
(* restarted, retired or swapped, the cursor of a clock never passes a     *)
(* punch that is not stored, and only moves forward.  And about the        *)
(* summary of their state: what it shows of a device is recent, and its    *)
(* hours are the punches it counts.  And about the periods of the calendar *)
(* that punches and reports are counted by; and about the reports of       *)
(* attendance, that count the same whatever is punched, assigned, removed  *)
(* and decided at once.                                                    *)
(***************************************************************************)
EXTENDS ClockSync, ClockSummary, Calendar, Attendance, Sums, FunctionTheorems, FiniteSetTheorems, SequenceTheorems, TLAPS

Trigger == {"AUTO", "MANUAL", "REGISTER"}
Memory == [inProgress : BOOLEAN, pausedByCredentials : BOOLEAN, stop : BOOLEAN]
ClockRow == [registered : BOOLEAN, lastSerialNo : Nat]
Refusals == [sync : Nat, roster : Nat]

ConnectStep == [pc : {"connect"}, clock : Clock, trigger : Trigger]
TargetStep == [pc : {"target"}, clock : Clock, trigger : Trigger, end : Nat]
ReadStep == [pc : {"read"}, clock : Clock, trigger : Trigger, to : Nat, from : Nat,
             end : Nat, minor : 1 .. 2, position : Nat]

\* The tables, the memory and the clocks have their shape.
ClockTypes ==
  /\ events \in [Clock -> Seq(EventKind)]
  /\ answers \in [Clock -> Clock]
  /\ row \in [Clock -> ClockRow]
  /\ punch \in [Clock -> SUBSET Nat]
  /\ memory \in [Clock -> Memory]
  /\ importing \in [Clock -> SUBSET Nat]
  /\ refusals \in [Clock -> Refusals]
  /\ run = [r \in Run |-> run[r]]

\* What holds of a clock between any two steps.
ClockIsRight(c) ==
  /\ row[c].lastSerialNo <= LastEvent(c)
  /\ Savable(c, 1 .. row[c].lastSerialNo) \subseteq punch[c]
  /\ punch[c] \subseteq Savable(c, 1 .. LastEvent(c))
  /\ importing[c] # {} => answers[c] = c
  /\ refusals[c].sync <= 1
  /\ refusals[c].sync = 1 => memory[c].pausedByCredentials

\* How many events of a search come before one of them.
Rank(found, s) == Cardinality({t \in found : t < s})

\* The events of the kind that a run is reading in its window.
Reading(r) ==
  AcsEvents(run[r].clock, run[r].from, run[r].end, MINORS_PUNCH[run[r].minor])

\* Events of the window that the run has passed: those of an earlier kind,
\* and those of its kind before its position.
Passed(r) ==
  LET c == run[r].clock
  IN  {s \in Savable(c, run[r].from .. run[r].end) :
         \/ run[r].minor = 2 /\ events[c][s] = "CARD"
         \/ s \in Reading(r) /\ Rank(Reading(r), s) < run[r].position}

\* A run holds the lock of its clock, talks to that clock, and is ahead of a
\* cursor nobody else moves; what it has passed is stored.
RunIsRight(r) ==
  LET w == run[r]
      c == run[r].clock
      cursor == row[run[r].clock].lastSerialNo
  IN  run[r] # NoRun =>
        /\ c \in Clock /\ memory[c].inProgress /\ refusals[c].sync = 0
        /\ \/ w \in ConnectStep
           \/ w \in TargetStep /\ answers[c] = c /\ w.end = cursor
           \/ /\ w \in ReadStep /\ answers[c] = c /\ w.from = cursor + 1
              /\ cursor <= w.end /\ w.end <= w.to /\ w.to <= LastEvent(c)
              /\ Passed(r) \subseteq punch[c]
           \/ /\ w.pc = "confirm" /\ answers[c] = c /\ w.trigger \in Trigger /\ w.end \in Nat /\ w.to \in Nat
              /\ cursor <= w.end /\ w.end <= w.to /\ w.to <= LastEvent(c)
              /\ Savable(c, 1 .. w.end) \subseteq punch[c]

\* No two runs have the same clock.
Exclusive ==
  \A r, q \in Run :
    r # q /\ run[r] # NoRun /\ run[q] # NoRun => run[r].clock # run[q].clock

\* The inductive invariant of the synchronisation.
SyncInv ==
  /\ ClockTypes
  /\ \A c \in Clock : ClockIsRight(c)
  /\ \A r \in Run : RunIsRight(r)
  /\ Exclusive

-----------------------------------------------------------------------------
(* What the operators of the model return.                                 *)

\* Two serial numbers: the larger, and the smaller.
LEMMA MaxOfTwo == ASSUME NEW a \in Int, NEW b \in Int, a >= b PROVE Max({a, b}) = a
<1>1. \A y \in {a, b} : a >= y
  OBVIOUS
<1>2. \A x \in {a, b} : (\A y \in {a, b} : x >= y) => x = a
  BY SMT
<1>. QED
  BY <1>1, <1>2 DEF Max

\* The smaller of two numbers is one of them, and below both.
LEMMA MinOfTwo ==
  ASSUME NEW a \in Int, NEW b \in Int
  PROVE  Min({a, b}) \in {a, b} /\ Min({a, b}) <= a /\ Min({a, b}) <= b
<1>1. \E x \in {a, b} : \A y \in {a, b} : x =< y
  BY SMT
<1>2. Min({a, b}) \in {a, b} /\ \A y \in {a, b} : Min({a, b}) =< y
  BY <1>1 DEF Min
<1>. QED
  BY <1>2

\* The number of the last event is a natural number.
LEMMA LastIsNat == ASSUME ClockTypes, NEW c \in Clock PROVE LastEvent(c) \in Nat
  BY LenProperties DEF ClockTypes, LastEvent

\* AcsEvents, over the newest matching events: whatever event comes first,
\* the count corrects it, so the answer is the last event.
LEMMA LastSerialIsExact ==
  ASSUME ClockTypes, NEW c \in Clock, NEW from \in Nat, NEW to \in LastSerialNo(c, from)
  PROVE  to = LastEvent(c) /\ from <= LastEvent(c)
<1>0. LastEvent(c) \in Nat
  BY LastIsNat
<1>. DEFINE matches == {s \in from .. LastEvent(c) : TRUE}
<1>1. matches = from .. LastEvent(c)
  OBVIOUS
<1>2. PICK s \in matches : to = Max({from + Cardinality(matches) - 1, s})
  BY DEF LastSerialNo
<1>3. s \in Nat /\ from <= s /\ s <= LastEvent(c)
  BY <1>0, <1>1, <1>2
<1>. HIDE DEF matches
<1>4. from + Cardinality(matches) - 1 = LastEvent(c)
  <2>1. Cardinality(from .. LastEvent(c)) = LastEvent(c) - from + 1
    BY <1>0, <1>3, FS_Interval
  <2>. QED
    BY <2>1, <1>0, <1>1
<1>. QED
  BY <1>0, <1>2, <1>3, <1>4, MaxOfTwo

\* Serial numbers are found in order: each has fewer before it than there are.
LEMMA RankBelow ==
  ASSUME NEW found \in SUBSET Nat, IsFiniteSet(found), NEW s \in found
  PROVE  Rank(found, s) \in Nat /\ Rank(found, s) < Cardinality(found)
<1>. DEFINE before == {t \in found : t < s}
<1>1. before \in SUBSET found /\ s \notin before
  OBVIOUS
<1>2. Cardinality(before) <= Cardinality(found) /\ before # found /\ IsFiniteSet(before)
      /\ (Cardinality(found) = Cardinality(before) => found = before)
  BY <1>1, FS_Subset
<1>3. Cardinality(before) \in Nat /\ Cardinality(found) \in Nat
  BY <1>2, FS_CardinalityType
<1>. QED
  BY <1>2, <1>3 DEF Rank

\* A later event has more events before it.
LEMMA RankGrows ==
  ASSUME NEW found \in SUBSET Nat, IsFiniteSet(found), NEW s \in found, NEW t \in found, s < t
  PROVE  Rank(found, s) < Rank(found, t)
<1>. DEFINE after == {u \in found : u < t}
<1>1. after \in SUBSET Nat /\ IsFiniteSet(after) /\ s \in after
  BY FS_Subset
<1>2. {u \in after : u < s} = {u \in found : u < s}
  <2>1. \A u \in found : u < s => u < t
    BY SMT
  <2>. QED
    BY <2>1
<1>3. Rank(after, s) < Cardinality(after)
  BY <1>1, RankBelow
<1>. QED
  BY <1>2, <1>3 DEF Rank

\* A page has at most as many events as it may have.
LEMMA PageFits ==
  ASSUME NEW found \in SUBSET Nat, IsFiniteSet(found), NEW position \in Nat
  PROVE  /\ IsFiniteSet(Page(found, position))
         /\ Cardinality(Page(found, position)) \in Nat
         /\ Cardinality(Page(found, position)) <= PAGE_SIZE
<1>. DEFINE page == Page(found, position)
            ranks == position .. position + PAGE_SIZE - 1
            rank == [s \in page |-> Rank(found, s)]
<1>0. PAGE_SIZE \in Nat \ {0}
  BY ClockAssumption
<1>1. page \subseteq found
  BY DEF Page
<1>2. \A s \in page : Rank(found, s) \in ranks
  BY DEF Page, Rank
<1>3. \A s, t \in page : Rank(found, s) = Rank(found, t) => s = t
  <2>1. SUFFICES ASSUME NEW s \in page, NEW t \in page, Rank(found, s) = Rank(found, t), s # t
                 PROVE  FALSE
    OBVIOUS
  <2>2. s \in found /\ t \in found /\ s \in Nat /\ t \in Nat
    BY <1>1
  <2>3. Rank(found, s) \in Nat /\ Rank(found, t) \in Nat
    BY <2>2, RankBelow
  <2>4. CASE s < t
    BY <2>1, <2>2, <2>3, <2>4, RankGrows
  <2>5. CASE t < s
    BY <2>1, <2>2, <2>3, <2>5, RankGrows
  <2>. QED
    BY <2>1, <2>2, <2>4, <2>5
<1>4. rank \in Injection(page, ranks)
  <2>1. rank \in [page -> ranks]
    BY <1>2
  <2>2. \A s, t \in DOMAIN rank : rank[s] = rank[t] => s = t
    BY <1>3
  <2>. HIDE DEF rank, page, ranks
  <2>. QED
    BY <2>1, <2>2 DEF Injection, IsInjective
<1>5. IsFiniteSet(ranks) /\ Cardinality(ranks) = PAGE_SIZE
  BY <1>0, FS_Interval
<1>6. Cardinality(page) <= Cardinality(ranks) /\ IsFiniteSet(page)
  BY <1>4, <1>5, FS_Injection
<1>. QED
  BY <1>5, <1>6, FS_CardinalityType

-----------------------------------------------------------------------------
(* Steps of others.                                                        *)

\* A clock records, and the database stores: neither forgets.
Grows(c) ==
  /\ LastEvent(c) <= LastEvent(c)'
  /\ \A s \in 1 .. LastEvent(c) : events'[c][s] = events[c][s]
  /\ punch[c] \subseteq punch'[c]

\* A clock whose cursor, address and lock stay as they are.
Kept(c) ==
  /\ Grows(c)
  /\ answers'[c] = answers[c]
  /\ row'[c].lastSerialNo = row[c].lastSerialNo
  /\ memory'[c].inProgress = memory[c].inProgress
  /\ refusals'[c].sync \in {refusals[c].sync, 0}

\* What a clock has recorded up to some number stays what it is.
LEMMA SavableIsKept ==
  ASSUME ClockTypes, ClockTypes', NEW c \in Clock, Grows(c),
         NEW m \in Nat, NEW n \in Nat, n <= LastEvent(c)
  PROVE  Savable(c, m .. n)' = Savable(c, m .. n)
<1>1. LastEvent(c) \in Nat /\ LastEvent(c)' \in Nat
  BY LastIsNat, LenProperties DEF ClockTypes, LastEvent
<1>2. (m .. n) \cap (1 .. LastEvent(c)') = (m .. n) \cap (1 .. LastEvent(c))
  BY <1>1 DEF Grows
<1>3. \A s \in (m .. n) \cap (1 .. LastEvent(c)) : events'[c][s] = events[c][s]
  BY <1>1 DEF Grows
<1>. QED
  BY <1>2, <1>3 DEF Savable

\* So does what a search of one kind of event answers.
LEMMA AcsEventsAreKept ==
  ASSUME ClockTypes, ClockTypes', NEW c \in Clock, Grows(c), NEW minor,
         NEW m \in Nat \ {0}, NEW n \in Nat, n <= LastEvent(c)
  PROVE  AcsEvents(c, m, n, minor)' = AcsEvents(c, m, n, minor)
<1>1. LastEvent(c) \in Nat /\ LastEvent(c)' \in Nat
  BY LastIsNat, LenProperties DEF ClockTypes, LastEvent
<1>2. \A s \in m .. n : s <= LastEvent(c) /\ s <= LastEvent(c)' /\ events'[c][s] = events[c][s]
  BY <1>1 DEF Grows
<1>. QED
  BY <1>2 DEF AcsEvents

\* A run is right as long as the others leave its clock as it is.
LEMMA RunIsKept ==
  ASSUME ClockTypes, ClockTypes', NEW r \in Run, RunIsRight(r), run'[r] = run[r],
         run[r] # NoRun => Kept(run[r].clock)
  PROVE  RunIsRight(r)'
<1>1. CASE run[r] = NoRun
  BY <1>1 DEF RunIsRight
<1>2. CASE run[r] # NoRun
  <2>. DEFINE w == run[r]
              c == run[r].clock
              cursor == row[run[r].clock].lastSerialNo
  <2>1. c \in Clock /\ Kept(c)
    BY <1>2 DEF RunIsRight
  <2>2. memory'[c].inProgress /\ refusals'[c].sync = 0 /\ row'[c].lastSerialNo = cursor
        /\ answers'[c] = answers[c] /\ punch[c] \subseteq punch'[c] /\ LastEvent(c) <= LastEvent(c)'
    BY <1>2, <2>1 DEF RunIsRight, Kept, Grows
  <2>3. LastEvent(c) \in Nat /\ LastEvent(c)' \in Nat /\ cursor \in Nat
    BY <2>1, LastIsNat, LenProperties DEF ClockTypes, LastEvent, ClockRow
  <2>4. CASE w \in ConnectStep
    BY <1>2, <2>1, <2>2, <2>4 DEF RunIsRight
  <2>5. CASE w \in TargetStep /\ answers[c] = c /\ w.end = cursor
    BY <1>2, <2>1, <2>2, <2>5 DEF RunIsRight
  <2>6. CASE /\ w \in ReadStep /\ answers[c] = c /\ w.from = cursor + 1
             /\ cursor <= w.end /\ w.end <= w.to /\ w.to <= LastEvent(c)
             /\ Passed(r) \subseteq punch[c]
    <3>1. w.from \in Nat \ {0} /\ w.end \in Nat /\ w.to \in Nat /\ w.end <= LastEvent(c)
          /\ w.to <= LastEvent(c)'
      BY <2>2, <2>3, <2>6 DEF ReadStep
    <3>2. Savable(c, w.from .. w.end)' = Savable(c, w.from .. w.end)
      <4>. PICK m \in Nat, n \in Nat : m = w.from /\ n = w.end
        BY <3>1
      <4>1. Savable(c, m .. n)' = Savable(c, m .. n)
        BY <2>1, <3>1, SavableIsKept DEF Kept
      <4>. QED
        BY <4>1 DEF Savable
    <3>3. Reading(r)' = Reading(r)
      <4>1. AcsEvents(c, w.from, w.end, MINORS_PUNCH[w.minor])' = AcsEvents(c, w.from, w.end, MINORS_PUNCH[w.minor])
        BY <2>1, <3>1, AcsEventsAreKept DEF Kept
      <4>. QED
        BY <4>1 DEF Reading
    <3>4. Passed(r)' \subseteq Passed(r)
      BY <3>1, <3>2, <3>3, <2>1 DEF Passed, Rank, Kept, Grows, Savable
    <3>. QED
      BY <1>2, <2>1, <2>2, <2>6, <3>1, <3>4 DEF RunIsRight
  <2>7. CASE /\ w.pc = "confirm" /\ answers[c] = c /\ w.trigger \in Trigger /\ w.end \in Nat /\ w.to \in Nat
             /\ cursor <= w.end /\ w.end <= w.to /\ w.to <= LastEvent(c)
             /\ Savable(c, 1 .. w.end) \subseteq punch[c]
    <3>1. w.end <= LastEvent(c) /\ w.to <= LastEvent(c)'
      BY <2>2, <2>3, <2>7
    <3>2. Savable(c, 1 .. w.end)' = Savable(c, 1 .. w.end)
      BY <2>1, <2>7, <3>1, SavableIsKept DEF Kept
    <3>. QED
      BY <1>2, <2>1, <2>2, <2>7, <3>1, <3>2 DEF RunIsRight
  <2>. QED
    BY <1>2, <2>4, <2>5, <2>6, <2>7 DEF RunIsRight
<1>. QED
  BY <1>1, <1>2

\* A clock is right as long as its cursor stays, what is added to its
\* punches was recorded, and refusals are counted only as it is paused.
LEMMA ClockIsKept ==
  ASSUME ClockTypes, ClockTypes', NEW c \in Clock, ClockIsRight(c), Grows(c),
         row'[c].lastSerialNo = row[c].lastSerialNo,
         punch'[c] \subseteq punch[c] \cup Savable(c, 1 .. LastEvent(c))',
         importing'[c] # {} => answers'[c] = c,
         refusals'[c].sync <= 1,
         refusals'[c].sync = 1 => memory'[c].pausedByCredentials
  PROVE  ClockIsRight(c)'
<1>. DEFINE cursor == row[c].lastSerialNo
<1>1. LastEvent(c) \in Nat /\ LastEvent(c)' \in Nat /\ cursor \in Nat
  BY LastIsNat, LenProperties DEF ClockTypes, LastEvent, ClockRow
<1>2. Savable(c, 1 .. cursor)' \subseteq punch'[c] /\ cursor <= LastEvent(c)'
  <2>. PICK n \in Nat : n = cursor
    BY <1>1
  <2>1. Savable(c, 1 .. n)' = Savable(c, 1 .. n)
    BY <1>1, SavableIsKept DEF ClockIsRight
  <2>. QED
    BY <1>1, <2>1 DEF ClockIsRight, Grows, Savable
<1>3. punch[c] \subseteq Savable(c, 1 .. LastEvent(c))'
  <2>. PICK n \in Nat : n = LastEvent(c)
    BY <1>1
  <2>1. Savable(c, 1 .. n)' = Savable(c, 1 .. n)
    BY <1>1, SavableIsKept
  <2>2. Savable(c, 1 .. n)' \subseteq Savable(c, 1 .. LastEvent(c))'
    BY <1>1 DEF Savable, Grows
  <2>. QED
    BY <2>1, <2>2 DEF ClockIsRight
<1>. QED
  BY <1>1, <1>2, <1>3 DEF ClockIsRight, Savable

-----------------------------------------------------------------------------
(* What the steps do to the memory and to the runs.                        *)

\* A run ends: its clock is free, and paused or not.
LEMMA EndingFreesTheClock ==
  ASSUME ClockTypes, NEW r \in Run, run[r].clock \in Clock, NEW paused \in BOOLEAN, Ending(r, paused)
  PROVE  /\ memory' \in [Clock -> Memory]
         /\ memory'[run[r].clock].inProgress = FALSE
         /\ memory'[run[r].clock].pausedByCredentials = paused
         /\ \A d \in Clock \ {run[r].clock} : memory'[d] = memory[d]
         /\ run' = [q \in Run |-> run'[q]] /\ run'[r] = NoRun
         /\ \A q \in Run \ {r} : run'[q] = run[q]
<1>. PICK c \in Clock : c = run[r].clock
  OBVIOUS
<1>1. PICK old \in Memory : old = memory[c]
  BY DEF ClockTypes
<1>2. PICK new : new = [old EXCEPT !.inProgress = FALSE, !.pausedByCredentials = paused]
  OBVIOUS
<1>3. new \in Memory /\ new.inProgress = FALSE /\ new.pausedByCredentials = paused
  <2>1. new = [inProgress |-> FALSE, pausedByCredentials |-> paused, stop |-> old.stop]
    BY <1>1, <1>2, Zenon DEF Memory
  <2>. QED
    BY <1>1, <2>1, Zenon DEF Memory
<1>4. memory' = [memory EXCEPT ![c] = new]
  BY <1>1, <1>2 DEF Ending, ClockTypes
<1>5. run' = [run EXCEPT ![r] = NoRun]
  BY DEF Ending, Goto
<1>. QED
  BY <1>3, <1>4, <1>5 DEF ClockTypes

\* A run takes the lock of its clock.
LEMMA StartingTakesTheLock ==
  ASSUME ClockTypes, NEW r \in Run, NEW c \in Clock, NEW trigger \in Trigger, Starting(r, c, trigger)
  PROVE  /\ memory' \in [Clock -> Memory]
         /\ memory'[c].inProgress
         /\ memory'[c].pausedByCredentials = memory[c].pausedByCredentials
         /\ \A d \in Clock \ {c} : memory'[d] = memory[d]
         /\ run' = [q \in Run |-> run'[q]]
         /\ run'[r] \in ConnectStep /\ run'[r].clock = c
         /\ \A q \in Run \ {r} : run'[q] = run[q]
<1>1. PICK old \in Memory : old = memory[c]
  BY DEF ClockTypes
<1>2. PICK new : new = [old EXCEPT !.inProgress = TRUE, !.stop = FALSE]
  OBVIOUS
<1>3. new \in Memory /\ new.inProgress /\ new.pausedByCredentials = old.pausedByCredentials
  <2>1. new = [inProgress |-> TRUE, pausedByCredentials |-> old.pausedByCredentials, stop |-> FALSE]
    BY <1>1, <1>2, Zenon DEF Memory
  <2>. QED
    BY <1>1, <2>1, Zenon DEF Memory
<1>4. memory' = [memory EXCEPT ![c] = new]
  BY <1>1, <1>2 DEF Starting, ClockTypes
<1>5. PICK step \in ConnectStep : step.clock = c /\ run' = [run EXCEPT ![r] = step]
  BY DEF Starting, Goto, ConnectStep
<1>. QED
  BY <1>1, <1>3, <1>4, <1>5 DEF ClockTypes

\* A run that acts leaves the others right, and alone with its clock.
LEMMA OneRunActs ==
  ASSUME SyncInv, ClockTypes', NEW r \in Run,
         \A q \in Run \ {r} : run'[q] = run[q],
         \A q \in Run \ {r} : run[q] # NoRun => Kept(run[q].clock),
         run'[r] # NoRun => \A q \in Run \ {r} : run[q] # NoRun => run[q].clock # run'[r].clock,
         RunIsRight(r)',
         \A c \in Clock : ClockIsRight(c)'
  PROVE  SyncInv'
<1>1. ASSUME NEW q \in Run PROVE RunIsRight(q)'
  BY <1>1, RunIsKept DEF SyncInv
<1>2. Exclusive'
  BY DEF SyncInv, Exclusive
<1>. QED
  BY <1>1, <1>2 DEF SyncInv

\* A run that acts has a clock, which no other run has.
LEMMA ActingRun ==
  ASSUME SyncInv, NEW r \in Run, run[r].pc # "idle"
  PROVE  /\ run[r] # NoRun /\ run[r].clock \in Clock
         /\ \A q \in Run \ {r} : run[q] # NoRun => run[q].clock \in Clock \ {run[r].clock}
         /\ memory[run[r].clock].inProgress /\ refusals[run[r].clock].sync = 0
<1>1. run[r] # NoRun
  BY DEF NoRun
<1>. QED
  BY <1>1 DEF SyncInv, Exclusive, RunIsRight

\* What a run is doing tells what it knows.
LEMMA RunAtItsStep ==
  ASSUME NEW r \in Run, RunIsRight(r), run[r].pc # "idle"
  PROVE  LET w == run[r]
             c == run[r].clock
             cursor == row[run[r].clock].lastSerialNo
         IN  /\ w.trigger \in Trigger
             /\ w.pc = "connect" => w \in ConnectStep
             /\ w.pc = "target" => w \in TargetStep /\ answers[c] = c /\ w.end = cursor
             /\ w.pc = "read" =>
                  /\ w \in ReadStep /\ answers[c] = c /\ w.from = cursor + 1
                  /\ cursor <= w.end /\ w.end <= w.to /\ w.to <= LastEvent(c)
                  /\ Passed(r) \subseteq punch[c]
             /\ w.pc = "confirm" =>
                  /\ answers[c] = c /\ w.end \in Nat /\ w.to \in Nat
                  /\ cursor <= w.end /\ w.end <= w.to /\ w.to <= LastEvent(c)
                  /\ Savable(c, 1 .. w.end) \subseteq punch[c]
<1>1. run[r] # NoRun
  BY DEF NoRun
<1>. QED
  BY <1>1 DEF RunIsRight, ConnectStep, TargetStep, ReadStep

\* A clock nothing happens to, whatever its registration.
LEMMA Still ==
  ASSUME SyncInv, ClockTypes', NEW c \in Clock, events' = events, answers' = answers,
         row'[c].lastSerialNo = row[c].lastSerialNo, punch'[c] = punch[c],
         memory'[c].inProgress = memory[c].inProgress, refusals'[c].sync \in {refusals[c].sync, 0}
  PROVE  Kept(c)
<1>1. LastEvent(c) \in Nat /\ LastEvent(c)' = LastEvent(c)
  BY LastIsNat DEF SyncInv, LastEvent
<1>. QED
  BY <1>1 DEF Kept, Grows

-----------------------------------------------------------------------------
(* The steps of a run.                                                     *)

\* A run that ends frees its clock; if nothing else happened to the clocks
\* but what the run stored, everything is still right.
LEMMA EndingIsSafe ==
  ASSUME SyncInv, NEW r \in Run, run[r].pc # "idle", NEW c \in Clock, c = run[r].clock, NEW paused \in BOOLEAN, Ending(r, paused),
         events' = events, answers' = answers, importing' = importing,
         row' \in [Clock -> ClockRow], refusals' \in [Clock -> Refusals], punch' = punch,
         \A d \in Clock \ {c} : row'[d] = row[d] /\ refusals'[d] = refusals[d],
         ClockIsRight(c)'
  PROVE  SyncInv'
<1>1. /\ memory' \in [Clock -> Memory]
      /\ \A d \in Clock \ {c} : memory'[d] = memory[d]
      /\ run' = [q \in Run |-> run'[q]] /\ run'[r] = NoRun
      /\ \A q \in Run \ {r} : run'[q] = run[q]
  BY EndingFreesTheClock DEF SyncInv
<1>2. ClockTypes'
  BY <1>1 DEF SyncInv, ClockTypes
<1>3. ASSUME NEW d \in Clock \ {c} PROVE Kept(d)
  BY <1>1, <1>2, Still
<1>4. ASSUME NEW d \in Clock PROVE ClockIsRight(d)'
  <2>1. CASE d = c
    BY <2>1
  <2>2. CASE d # c
    BY <1>1, <1>2, <1>3, <2>2, ClockIsKept DEF SyncInv, ClockIsRight, Kept
  <2>. QED
    BY <2>1, <2>2
<1>5. RunIsRight(r)'
  BY <1>1 DEF RunIsRight
<1>. QED
  BY <1>1, <1>2, <1>3, <1>4, <1>5, ActingRun, OneRunActs

\* Reading any window starts with nothing passed.
LEMMA WindowIsRight ==
  ASSUME ClockTypes', NEW r \in Run, NEW c \in Clock, run[r].clock = c, run[r].trigger \in Trigger,
         NEW after \in Nat, NEW to \in Nat, after < to, to <= LastEvent(c)',
         row'[c].lastSerialNo = after, answers'[c] = c, memory'[c].inProgress, refusals'[c].sync = 0,
         run'[r] = Window(r, after, to)
  PROVE  RunIsRight(r)' /\ run'[r].clock = c
<1>. PICK end : end = Min({after + WINDOW_SERIAL, to})
  OBVIOUS
<1>1. end \in Nat /\ after <= end /\ end <= to
  <2>1. WINDOW_SERIAL \in Nat
    BY ClockAssumption
  <2>2. after + WINDOW_SERIAL \in Int /\ to \in Int
    BY <2>1
  <2>3. end \in {after + WINDOW_SERIAL, to} /\ end <= to
    BY <2>2, MinOfTwo
  <2>. QED
    BY <2>1, <2>3
<1>2. PICK w : w = [pc |-> "read", clock |-> c, trigger |-> run[r].trigger, to |-> to, from |-> after + 1,
                    end |-> end, minor |-> 1, position |-> 0]
  OBVIOUS
<1>3. w \in ReadStep /\ w.pc = "read" /\ w.clock = c /\ w.from = after + 1 /\ w.end = end /\ w.to = to
      /\ w.minor = 1 /\ w.position = 0
  BY <1>1, <1>2, SMT DEF ReadStep
<1>4. run'[r] = w
  BY <1>2 DEF Window
<1>5. Passed(r)' = {}
  <2>1. SUFFICES ASSUME NEW s \in Reading(r)', s \in Nat, Rank(Reading(r)', s) < 0 PROVE FALSE
    BY <1>1, <1>3, <1>4 DEF Passed, Rank, Savable
  <2>2. Reading(r)' \subseteq (after + 1) .. end
    BY <1>3, <1>4 DEF Reading, AcsEvents
  <2>3. IsFiniteSet(Reading(r)')
    <3>1. IsFiniteSet((after + 1) .. end)
      BY <1>1, FS_Interval
    <3>. QED
      BY <2>2, <3>1, FS_Subset
  <2>4. Reading(r)' \in SUBSET Nat
    BY <1>1, <2>2
  <2>5. Rank(Reading(r)', s) \in Nat
    BY <2>3, <2>4, RankBelow
  <2>. QED
    BY <2>1, <2>5
<1>6. w # NoRun
  BY <1>3 DEF NoRun
<1>. QED
  BY <1>1, <1>3, <1>4, <1>5, <1>6 DEF RunIsRight

\* A run goes on only with its own clock, from the cursor it has.
LEMMA ConnectKeepsSync == ASSUME SyncInv, NEW r \in Run, Connect(r) PROVE SyncInv'
<1>. PICK c \in Clock : c = run[r].clock
  BY ActingRun DEF Connect
<1>0. run[r].pc # "idle" /\ run[r].pc = "connect"
  BY DEF Connect
<1>1. UNCHANGED <<row, punch, listed, importing, refusals, events, answers>>
  BY DEF Connect, Unchanged
<1>2. CASE ~VerifySerial(c)
  <2>1. memory[c].pausedByCredentials \in BOOLEAN
    BY DEF SyncInv, ClockTypes, Memory
  <2>2. Ending(r, memory[c].pausedByCredentials)
    BY <1>2 DEF Connect
  <2>3. ClockIsRight(c)'
    <3>1. memory'[c].pausedByCredentials = memory[c].pausedByCredentials
      BY <2>1, <2>2, EndingFreesTheClock DEF SyncInv
    <3>. QED
      BY <1>1, <3>1 DEF SyncInv, ClockIsRight, Savable, LastEvent
  <2>. QED
    BY <1>0, <1>1, <2>1, <2>2, <2>3, EndingIsSafe DEF SyncInv, ClockTypes
<1>3. CASE VerifySerial(c)
  <2>1. PICK cursor \in Nat : cursor = row[c].lastSerialNo
    BY DEF SyncInv, ClockTypes, ClockRow
  <2>2. run[r].trigger \in Trigger /\ memory[c].inProgress /\ refusals[c].sync = 0
    BY <1>0, RunAtItsStep, ActingRun DEF SyncInv
  <2>3. PICK w : w = [pc |-> "target", clock |-> c, trigger |-> run[r].trigger, end |-> cursor]
    OBVIOUS
  <2>4. w \in TargetStep /\ w.clock = c /\ w.end = cursor
    BY <2>1, <2>2, <2>3, SMT DEF TargetStep
  <2>5. run' = [run EXCEPT ![r] = w] /\ memory' = memory
    BY <1>3, <2>1, <2>3 DEF Connect, Goto
  <2>6. ClockTypes'
    BY <1>1, <2>5 DEF SyncInv, ClockTypes
  <2>7. run'[r] = w /\ \A q \in Run \ {r} : run'[q] = run[q]
    BY <2>5 DEF SyncInv, ClockTypes
  <2>8. RunIsRight(r)'
    BY <1>1, <1>3, <2>1, <2>2, <2>4, <2>5, <2>7 DEF RunIsRight, VerifySerial
  <2>9. \A d \in Clock : Kept(d)
    BY <1>1, <2>5, <2>6, Still
  <2>10. \A d \in Clock : ClockIsRight(d)'
    BY <1>1, <2>5 DEF SyncInv, ClockIsRight, Savable, LastEvent
  <2>. QED
    BY <1>0, <2>4, <2>6, <2>7, <2>8, <2>9, <2>10, ActingRun, OneRunActs
<1>. QED
  BY <1>2, <1>3

\* Nothing new leaves the cursor; else the first window starts after it.
LEMMA TargetKeepsSync == ASSUME SyncInv, NEW r \in Run, Target(r) PROVE SyncInv'
<1>. PICK c \in Clock : c = run[r].clock
  BY ActingRun DEF Target
<1>0. run[r].pc # "idle" /\ run[r].pc = "target"
  BY DEF Target
<1>1. UNCHANGED <<row, punch, memory, importing, refusals, events, answers>>
  BY DEF Target, Unchanged
<1>2. PICK cursor \in Nat : cursor = row[c].lastSerialNo
  BY DEF SyncInv, ClockTypes, ClockRow
<1>3. run[r].trigger \in Trigger /\ memory[c].inProgress /\ refusals[c].sync = 0
      /\ answers[c] = c /\ run[r].end = cursor
  BY <1>0, <1>2, RunAtItsStep, ActingRun DEF SyncInv
<1>4. Answering(r) = c
  BY <1>3 DEF Answering
<1>5. \E w : run' = [run EXCEPT ![r] = w]
  BY DEF Target, Goto
<1>6. ClockTypes' /\ \A q \in Run \ {r} : run'[q] = run[q]
  BY <1>1, <1>5 DEF SyncInv, ClockTypes
<1>7. RunIsRight(r)' /\ run'[r].clock = c
  <2>1. CASE run' = [run EXCEPT ![r] = [pc |-> "confirm", clock |-> run[r].clock, trigger |-> run[r].trigger,
                                        end |-> cursor, to |-> cursor]]
    <3>1. PICK w : w = [pc |-> "confirm", clock |-> c, trigger |-> run[r].trigger, end |-> cursor, to |-> cursor]
      OBVIOUS
    <3>2. w.pc = "confirm" /\ w.clock = c /\ w.trigger = run[r].trigger /\ w.end = cursor /\ w.to = cursor
      BY <3>1
    <3>3. run'[r] = w
      BY <2>1, <3>1 DEF SyncInv, ClockTypes
    <3>4. cursor <= LastEvent(c) /\ Savable(c, 1 .. cursor) \subseteq punch[c]
      BY <1>2 DEF SyncInv, ClockIsRight
    <3>5. Savable(c, 1 .. cursor)' \subseteq punch'[c] /\ LastEvent(c)' = LastEvent(c)
      BY <1>1, <3>4 DEF Savable, LastEvent
    <3>. QED
      BY <1>1, <1>2, <1>3, <3>2, <3>3, <3>4, <3>5 DEF RunIsRight
  <2>2. CASE \E to \in LastSerialNo(c, cursor + 1) : run' = [run EXCEPT ![r] = Window(r, cursor, to)]
    <3>1. PICK to \in LastSerialNo(c, cursor + 1) : run' = [run EXCEPT ![r] = Window(r, cursor, to)]
      BY <2>2
    <3>2. to = LastEvent(c) /\ cursor + 1 <= LastEvent(c)
      BY LastSerialIsExact DEF SyncInv
    <3>3. LastEvent(c) \in Nat /\ LastEvent(c)' = LastEvent(c)
      BY <1>1, LastIsNat DEF SyncInv, LastEvent
    <3>4. run'[r] = Window(r, cursor, to)
      BY <3>1 DEF SyncInv, ClockTypes
    <3>5. to \in Nat /\ cursor < to /\ to <= LastEvent(c)'
      BY <3>2, <3>3
    <3>6. row'[c].lastSerialNo = cursor /\ answers'[c] = c /\ memory'[c].inProgress /\ refusals'[c].sync = 0
      BY <1>1, <1>2, <1>3
    <3>. QED
      BY <1>3, <1>6, <3>4, <3>5, <3>6, WindowIsRight
  <2>. QED
    BY <1>3, <1>4, <2>1, <2>2 DEF Target, Goto
<1>8. \A d \in Clock : Kept(d)
  BY <1>1, <1>6, Still
<1>9. \A d \in Clock : ClockIsRight(d)'
  BY <1>1 DEF SyncInv, ClockIsRight, Savable, LastEvent
<1>. QED
  BY <1>0, <1>6, <1>7, <1>8, <1>9, ActingRun, OneRunActs

\* After a page, every identified event of the kind that the clock puts
\* before the next position is stored.
LEMMA PageIsStored ==
  ASSUME ClockTypes, NEW r \in Run, NEW c \in Clock, c = run[r].clock, run[r] \in ReadStep,
         run[r].from # 0, Passed(r) \subseteq punch[c],
         punch'[c] = punch[c] \cup Savable(c, Page(Reading(r), run[r].position)),
         NEW s \in Savable(c, run[r].from .. run[r].end), s \in Reading(r),
         Rank(Reading(r), s) < run[r].position + Cardinality(Page(Reading(r), run[r].position))
  PROVE  s \in punch'[c]
<1>. DEFINE found == Reading(r)
            position == run[r].position
<1>1. position \in Nat /\ run[r].from \in Nat /\ run[r].end \in Nat
  BY DEF ReadStep
<1>2. found \in SUBSET Nat /\ IsFiniteSet(found)
  <2>1. found \subseteq run[r].from .. run[r].end
    BY DEF Reading, AcsEvents
  <2>2. IsFiniteSet(run[r].from .. run[r].end)
    BY <1>1, FS_Interval
  <2>. QED
    BY <1>1, <2>1, <2>2, FS_Subset
<1>3. Rank(found, s) \in Nat
  BY <1>2, RankBelow
<1>4. CASE Rank(found, s) < position
  BY <1>4 DEF Passed
<1>5. CASE ~(Rank(found, s) < position)
  <2>1. /\ Cardinality(Page(found, position)) \in Nat
        /\ Cardinality(Page(found, position)) <= PAGE_SIZE
    BY <1>1, <1>2, PageFits
  <2>2. PAGE_SIZE \in Nat
    BY ClockAssumption
  <2>. HIDE DEF found, position
  <2>3. Rank(found, s) \in position .. position + PAGE_SIZE - 1
    BY <1>1, <1>3, <1>5, <2>1, <2>2 DEF found, position
  <2>4. s \in Page(found, position)
    BY <2>3 DEF Page, Rank, found
  <2>. QED
    BY <2>4 DEF Savable, found, position
<1>. QED
  BY <1>4, <1>5

\* A page stores what it passes; after the last kind the window is stored.
LEMMA ReadPageKeepsSync == ASSUME SyncInv, NEW r \in Run, ReadPage(r) PROVE SyncInv'
<1>. PICK c \in Clock : c = run[r].clock
  BY ActingRun DEF ReadPage
<1>0. run[r].pc # "idle" /\ run[r].pc = "read"
  BY DEF ReadPage
<1>1. UNCHANGED <<row, importing, refusals, events, answers>>
  BY DEF ReadPage, Unchanged
<1>2. PICK cursor \in Nat : cursor = row[c].lastSerialNo
  BY DEF SyncInv, ClockTypes, ClockRow
<1>3. /\ memory[c].inProgress /\ refusals[c].sync = 0 /\ answers[c] = c
      /\ run[r] \in ReadStep /\ run[r].trigger \in Trigger /\ run[r].from = cursor + 1
      /\ cursor <= run[r].end /\ run[r].end <= run[r].to /\ run[r].to <= LastEvent(c)
      /\ Passed(r) \subseteq punch[c]
  BY <1>0, <1>2, RunAtItsStep, ActingRun DEF SyncInv
<1>4. run[r].from \in Int /\ run[r].end \in Int
      /\ run[r].end \in Nat /\ run[r].to \in Nat /\ run[r].position \in Nat /\ run[r].minor \in 1 .. 2
      /\ run[r].clock \in Clock
  BY <1>3 DEF ReadStep
<1>. DEFINE page == Page(Reading(r), run[r].position)
<1>5. AcsEvents(Answering(r), run[r].from, run[r].end, MINORS_PUNCH[run[r].minor]) = Reading(r)
  BY <1>3 DEF Reading, Answering
<1>6. CASE Ending(r, memory[c].pausedByCredentials) /\ UNCHANGED punch
  <2>1. memory[c].pausedByCredentials \in BOOLEAN
    BY DEF SyncInv, ClockTypes, Memory
  <2>2. ClockIsRight(c)'
    <3>1. memory'[c].pausedByCredentials = memory[c].pausedByCredentials
      BY <1>6, <2>1, EndingFreesTheClock DEF SyncInv
    <3>. QED
      BY <1>1, <1>6, <3>1 DEF SyncInv, ClockIsRight, Savable, LastEvent
  <2>. QED
    BY <1>0, <1>1, <1>6, <2>1, <2>2, EndingIsSafe DEF SyncInv, ClockTypes
<1>7. CASE /\ punch' = [punch EXCEPT ![c] = @ \cup Savable(c, page)]
           /\ Goto(r, IF run[r].position + Cardinality(page) < Cardinality(Reading(r))
                      THEN [run[r] EXCEPT !.position = @ + Cardinality(page)] ELSE NextMinor(r))
           /\ UNCHANGED memory
  <2>1. PICK w : w = IF run[r].position + Cardinality(page) < Cardinality(Reading(r))
                     THEN [run[r] EXCEPT !.position = @ + Cardinality(page)] ELSE NextMinor(r)
    OBVIOUS
  <2>2. run' = [run EXCEPT ![r] = w]
    BY <1>7, <2>1 DEF Goto
  <2>3. Savable(c, page) \subseteq Savable(c, 1 .. LastEvent(c))
    BY LastIsNat DEF Savable, SyncInv
  <2>4. Savable(c, page) \subseteq Nat
    BY LastIsNat DEF Savable, SyncInv
  <2>5. punch' \in [Clock -> SUBSET Nat] /\ punch'[c] = punch[c] \cup Savable(c, page)
        /\ \A d \in Clock \ {c} : punch'[d] = punch[d]
    BY <1>7, <2>4 DEF SyncInv, ClockTypes
  <2>6. ClockTypes'
    BY <1>1, <1>7, <2>2, <2>5 DEF SyncInv, ClockTypes
  <2>7. run'[r] = w /\ \A q \in Run \ {r} : run'[q] = run[q]
    BY <2>2 DEF SyncInv, ClockTypes
  <2>8. \A d \in Clock \ {c} : Kept(d)
    BY <1>1, <1>7, <2>5, <2>6, Still
  <2>9. \A d \in Clock : ClockIsRight(d)'
    <3>1. \A d \in Clock \ {c} : ClockIsRight(d)'
      BY <1>1, <1>7, <2>5 DEF SyncInv, ClockIsRight, Savable, LastEvent
    <3>2. ClockIsRight(c)'
      BY <1>1, <1>7, <2>3, <2>5 DEF SyncInv, ClockIsRight, Savable, LastEvent
    <3>. QED
      BY <3>1, <3>2
  <2>10. /\ Reading(r) \in SUBSET Nat /\ IsFiniteSet(Reading(r))
         /\ Cardinality(page) \in Nat /\ Cardinality(Reading(r)) \in Nat
    <3>1. Reading(r) \subseteq run[r].from .. run[r].end
      BY DEF Reading, AcsEvents
    <3>2. IsFiniteSet(run[r].from .. run[r].end)
      BY <1>4, FS_Interval
    <3>3. IsFiniteSet(Reading(r)) /\ Reading(r) \in SUBSET Nat
      BY <1>3, <1>4, <3>1, <3>2, FS_Subset
    <3>. QED
      BY <1>4, <3>3, PageFits, FS_CardinalityType
  <2>11. \A s \in Savable(c, run[r].from .. run[r].end) :
           s \in Reading(r) /\ Rank(Reading(r), s) < run[r].position + Cardinality(page) => s \in punch'[c]
    BY <1>2, <1>3, <2>5, PageIsStored DEF SyncInv
  <2>12. RunIsRight(r)' /\ run'[r].clock = c
    <3>. HIDE DEF page
    <3>1. CASE run[r].position + Cardinality(page) < Cardinality(Reading(r))
      <4>1. PICK n \in Nat : n = run[r].position + Cardinality(page)
        BY <1>4, <2>10
      <4>2. w = [run[r] EXCEPT !.position = n]
        BY <2>1, <3>1, <4>1
      <4>3. /\ w \in ReadStep /\ w.pc = "read" /\ w.clock = c /\ w.from = run[r].from /\ w.end = run[r].end
            /\ w.to = run[r].to /\ w.minor = run[r].minor /\ w.position = n
        BY <1>3, <4>1, <4>2, SMT DEF ReadStep
      <4>4. Passed(r)' \subseteq punch'[c]
        <5>1. Reading(r)' = Reading(r)
          BY <1>1, <2>7, <4>3 DEF Reading, AcsEvents, LastEvent
        <5>2. Passed(r)' = {s \in Savable(c, run[r].from .. run[r].end) :
                              \/ run[r].minor = 2 /\ events[c][s] = "CARD"
                              \/ s \in Reading(r) /\ Rank(Reading(r), s) < n}
          BY <1>1, <2>7, <4>3, <5>1 DEF Passed, Savable, LastEvent, Rank
        <5>3. \A s \in Savable(c, run[r].from .. run[r].end) :
                run[r].minor = 2 /\ events[c][s] = "CARD" => s \in punch'[c]
          BY <1>3, <2>5 DEF Passed
        <5>. QED
          BY <2>11, <4>1, <5>2, <5>3
      <4>5. LastEvent(c)' = LastEvent(c) /\ w # NoRun
        BY <1>1, <4>3 DEF LastEvent, NoRun
      <4>. QED
        BY <1>1, <1>2, <1>3, <1>7, <2>7, <4>3, <4>4, <4>5 DEF RunIsRight
    <3>2. CASE ~(run[r].position + Cardinality(page) < Cardinality(Reading(r)))
      <4>1. \A s \in Savable(c, run[r].from .. run[r].end) : s \in Reading(r) => s \in punch'[c]
        <5>1. ASSUME NEW s \in Reading(r)
              PROVE  Rank(Reading(r), s) < run[r].position + Cardinality(page)
          <6>1. Rank(Reading(r), s) \in Nat /\ Rank(Reading(r), s) < Cardinality(Reading(r))
            BY <2>10, RankBelow
          <6>. QED
            BY <3>2, <6>1, <2>10, <1>4
        <5>. QED
          BY <2>11, <5>1
      <4>2. w = NextMinor(r)
        BY <2>1, <3>2
      <4>3. LastEvent(c)' = LastEvent(c) /\ LastEvent(c) \in Nat
        BY <1>1, LastIsNat DEF LastEvent, SyncInv
      <4>4. CASE run[r].minor = 1
        <5>1. w = [run[r] EXCEPT !.minor = 2, !.position = 0]
          BY <4>2, <4>4 DEF NextMinor, MINORS_PUNCH
        <5>2. w = [pc |-> "read", clock |-> run[r].clock, trigger |-> run[r].trigger, to |-> run[r].to,
                   from |-> run[r].from, end |-> run[r].end, minor |-> 2, position |-> 0]
          BY <1>3, <5>1, Zenon DEF ReadStep
        <5>3. /\ w \in ReadStep /\ w.pc = "read" /\ w.clock = c /\ w.from = run[r].from /\ w.end = run[r].end
              /\ w.to = run[r].to /\ w.minor = 2 /\ w.position = 0
          BY <1>3, <5>2, SMT DEF ReadStep
        <5>4. Reading(r)' \in SUBSET Nat /\ IsFiniteSet(Reading(r)')
          <6>1. Reading(r)' \subseteq run[r].from .. run[r].end
            BY <2>7, <5>3 DEF Reading, AcsEvents
          <6>2. IsFiniteSet(run[r].from .. run[r].end)
            BY <1>4, FS_Interval
          <6>. QED
            BY <1>3, <1>4, <6>1, <6>2, FS_Subset
        <5>5. \A s \in Reading(r)' : ~(Rank(Reading(r)', s) < 0)
          BY <5>4, RankBelow
        <5>6. Passed(r)' \subseteq {s \in Savable(c, run[r].from .. run[r].end) : events[c][s] = "CARD"}
          BY <1>1, <2>7, <5>3, <5>5 DEF Passed, Savable, LastEvent, Rank
        <5>7. \A s \in Savable(c, run[r].from .. run[r].end) : events[c][s] = "CARD" => s \in Reading(r)
          BY <1>2, <1>3, <1>4, <4>3, <4>4 DEF Savable, Reading, AcsEvents, MINORS_PUNCH, MinorOf
        <5>8. w # NoRun
          BY <5>3 DEF NoRun
        <5>. QED
          BY <1>1, <1>2, <1>3, <1>7, <2>7, <4>1, <4>3, <5>3, <5>6, <5>7, <5>8 DEF RunIsRight
      <4>5. CASE run[r].minor = 2
        <5>1. w = [run[r] EXCEPT !.pc = "confirm"]
          BY <4>2, <4>5 DEF NextMinor, MINORS_PUNCH
        <5>2. /\ w.pc = "confirm" /\ w.clock = c /\ w.trigger = run[r].trigger
              /\ w.end = run[r].end /\ w.to = run[r].to
          BY <1>3, <5>1, SMT DEF ReadStep
        <5>3. \A s \in Savable(c, run[r].from .. run[r].end) : events[c][s] = "CARD" => s \in punch'[c]
          BY <1>3, <2>5, <4>5 DEF Passed
        <5>4. \A s \in Savable(c, run[r].from .. run[r].end) : events[c][s] = "FACE" => s \in Reading(r)
          BY <1>2, <1>3, <1>4, <4>3, <4>5 DEF Savable, Reading, AcsEvents, MINORS_PUNCH, MinorOf
        <5>5. Savable(c, run[r].from .. run[r].end) \subseteq punch'[c]
          BY <4>1, <5>3, <5>4 DEF Savable, METHOD_BY_MINOR
        <5>6. Savable(c, 1 .. cursor) \subseteq punch'[c]
          BY <1>2, <2>5 DEF SyncInv, ClockIsRight
        <5>7. Savable(c, 1 .. run[r].end) \subseteq
                Savable(c, 1 .. cursor) \cup Savable(c, run[r].from .. run[r].end)
          BY <1>2, <1>3, <1>4, <4>3 DEF Savable
        <5>8. Savable(c, 1 .. run[r].end)' \subseteq punch'[c] \/ run'[r].end # run[r].end
          BY <1>1, <5>5, <5>6, <5>7, <2>7, <5>2 DEF Savable, LastEvent
        <5>. QED
          BY <1>1, <1>2, <1>3, <1>4, <1>7, <2>7, <4>3, <5>2, <5>5, <5>6, <5>7, <5>8 DEF RunIsRight, NoRun
      <4>. QED
        BY <1>4, <4>4, <4>5
    <3>. QED
      BY <3>1, <3>2
  <2>. QED
    BY <1>0, <2>6, <2>7, <2>8, <2>9, <2>12, ActingRun, OneRunActs
<1>. QED
  BY <1>3, <1>5, <1>6, <1>7 DEF ReadPage, Answering

\* The cursor moves to the end of a window whose punches are stored.
LEMMA ConfirmKeepsSync == ASSUME SyncInv, NEW r \in Run, Confirm(r) PROVE SyncInv'
<1>. PICK c \in Clock : c = run[r].clock
  BY ActingRun DEF Confirm
<1>0. run[r].pc # "idle" /\ run[r].pc = "confirm"
  BY DEF Confirm
<1>1. UNCHANGED <<punch, importing, refusals, events, answers>>
  BY DEF Confirm, Unchanged
<1>2. PICK cursor \in Nat : cursor = row[c].lastSerialNo
  BY DEF SyncInv, ClockTypes, ClockRow
<1>3. /\ memory[c].inProgress /\ refusals[c].sync = 0 /\ run[r].trigger \in Trigger
      /\ answers[c] = c /\ run[r].end \in Nat /\ run[r].to \in Nat
      /\ cursor <= run[r].end /\ run[r].end <= run[r].to /\ run[r].to <= LastEvent(c)
      /\ Savable(c, 1 .. run[r].end) \subseteq punch[c]
  BY <1>0, <1>2, RunAtItsStep, ActingRun DEF SyncInv
<1>4. PICK old \in ClockRow : old = row[c]
  BY DEF SyncInv, ClockTypes
<1>5. PICK new : new = [old EXCEPT !.lastSerialNo = run[r].end]
  OBVIOUS
<1>6. new \in ClockRow /\ new.lastSerialNo = run[r].end
  BY <1>3, <1>4, <1>5, SMT DEF ClockRow
<1>7. row' = [row EXCEPT ![c] = new]
  BY <1>4, <1>5 DEF Confirm, SyncInv, ClockTypes
<1>8. row' \in [Clock -> ClockRow] /\ row'[c].lastSerialNo = run[r].end /\ \A d \in Clock \ {c} : row'[d] = row[d]
  BY <1>6, <1>7 DEF SyncInv, ClockTypes
<1>9. LastEvent(c)' = LastEvent(c) /\ LastEvent(c) \in Nat
  BY <1>1, LastIsNat DEF LastEvent, SyncInv
<1>10. ClockIsRight(c)'
  <2>1. refusals'[c].sync = 0 /\ row'[c].lastSerialNo <= LastEvent(c)'
    BY <1>1, <1>3, <1>8, <1>9
  <2>. QED
    BY <1>1, <1>3, <1>8, <2>1 DEF SyncInv, ClockIsRight, Savable, LastEvent
<1>11. CASE Ending(r, FALSE)
  BY <1>0, <1>1, <1>8, <1>10, <1>11, EndingIsSafe DEF SyncInv, ClockTypes
<1>12. CASE run[r].end < run[r].to /\ Goto(r, Window(r, run[r].end, run[r].to)) /\ UNCHANGED memory
  <2>1. ClockTypes' /\ run'[r] = Window(r, run[r].end, run[r].to) /\ \A q \in Run \ {r} : run'[q] = run[q]
    BY <1>1, <1>8, <1>12 DEF SyncInv, ClockTypes, Goto
  <2>2. RunIsRight(r)' /\ run'[r].clock = c
    <3>1. PICK after \in Nat, to \in Nat : after = run[r].end /\ to = run[r].to
      BY <1>3
    <3>2. after < to /\ to <= LastEvent(c)' /\ run'[r] = Window(r, after, to)
      BY <1>3, <1>9, <1>12, <2>1, <3>1
    <3>3. row'[c].lastSerialNo = after /\ answers'[c] = c /\ memory'[c].inProgress /\ refusals'[c].sync = 0
      BY <1>1, <1>3, <1>8, <1>12, <3>1
    <3>. QED
      BY <1>3, <2>1, <3>2, <3>3, WindowIsRight
  <2>3. \A d \in Clock \ {c} : Kept(d)
    BY <1>1, <1>8, <1>12, <2>1, Still
  <2>4. \A d \in Clock \ {c} : ClockIsRight(d)'
    BY <1>1, <1>8, <1>12 DEF SyncInv, ClockIsRight, Savable, LastEvent
  <2>. QED
    BY <1>0, <1>10, <2>1, <2>2, <2>3, <2>4, ActingRun, OneRunActs
<1>. QED
  BY <1>11, <1>12 DEF Confirm

\* The first refusal pauses the clock, so there is no second.
LEMMA RejectedKeepsSync == ASSUME SyncInv, NEW r \in Run, Rejected(r) PROVE SyncInv'
<1>. PICK c \in Clock : c = run[r].clock
  BY ActingRun DEF Rejected, Asking
<1>0. run[r].pc # "idle" /\ Ending(r, TRUE)
  BY DEF Rejected, Asking
<1>1. UNCHANGED <<row, punch, importing, events, answers>>
  BY DEF Rejected, Unchanged
<1>2. refusals[c].sync = 0 /\ memory'[c].pausedByCredentials
  BY <1>0, ActingRun, EndingFreesTheClock DEF SyncInv
<1>3. PICK old \in Refusals : old = refusals[c]
  BY DEF SyncInv, ClockTypes
<1>4. PICK n \in {0, 1} : refusals' = [refusals EXCEPT ![c].sync = @ + n]
  BY DEF Rejected
<1>5. PICK new : new = [old EXCEPT !.sync = @ + n]
  OBVIOUS
<1>6. new \in Refusals /\ new.sync = n
  <2>1. new \in Refusals /\ new.sync = old.sync + n
    BY <1>3, <1>4, <1>5, SMT DEF Refusals
  <2>. QED
    BY <1>2, <1>3, <1>4, <2>1
<1>7. refusals' = [refusals EXCEPT ![c] = new]
  BY <1>3, <1>4, <1>5 DEF SyncInv, ClockTypes
<1>8. /\ refusals' \in [Clock -> Refusals] /\ refusals'[c].sync \in {0, 1}
      /\ \A d \in Clock \ {c} : refusals'[d] = refusals[d]
  <2>1. refusals \in [Clock -> Refusals]
    BY DEF SyncInv, ClockTypes
  <2>2. refusals' \in [Clock -> Refusals] /\ refusals'[c] = new
        /\ \A d \in Clock \ {c} : refusals'[d] = refusals[d]
    BY <1>6, <1>7, <2>1, Zenon
  <2>. QED
    BY <1>4, <1>6, <2>2
<1>9. ClockIsRight(c)'
  BY <1>1, <1>2, <1>8 DEF SyncInv, ClockIsRight, Savable, LastEvent
<1>. QED
  BY <1>0, <1>1, <1>8, <1>9, EndingIsSafe DEF SyncInv, ClockTypes

\* A lost connection ends the run where it is, and the cursor stays.
LEMMA FailsKeepsSync == ASSUME SyncInv, NEW r \in Run, Fails(r) PROVE SyncInv'
<1>. PICK c \in Clock : c = run[r].clock
  BY ActingRun DEF Fails, Asking
<1>0. run[r].pc # "idle" /\ Ending(r, memory[c].pausedByCredentials)
  BY DEF Fails, Asking
<1>1. UNCHANGED <<row, punch, importing, refusals, events, answers>>
  BY DEF Fails
<1>2. memory[c].pausedByCredentials \in BOOLEAN
  BY DEF SyncInv, ClockTypes, Memory
<1>3. memory'[c].pausedByCredentials = memory[c].pausedByCredentials
  BY <1>0, <1>2, EndingFreesTheClock DEF SyncInv
<1>4. ClockIsRight(c)'
  BY <1>1, <1>3 DEF SyncInv, ClockIsRight, Savable, LastEvent
<1>. QED
  BY <1>0, <1>1, <1>2, <1>4, EndingIsSafe DEF SyncInv, ClockTypes

-----------------------------------------------------------------------------
(* The steps of the worker, of the console and of the environment.         *)

\* A step that starts nothing, and leaves what the runs rely on as it is.
LEMMA RunsStand ==
  ASSUME SyncInv, ClockTypes', UNCHANGED run,
         \A r \in Run : run[r] # NoRun => Kept(run[r].clock),
         \A c \in Clock : ClockIsRight(c)'
  PROVE  SyncInv'
<1>1. \A r \in Run : RunIsRight(r)'
  BY RunIsKept DEF SyncInv
<1>2. Exclusive'
  BY DEF SyncInv, Exclusive
<1>. QED
  BY <1>1, <1>2 DEF SyncInv

\* Steps that only the worker, the passwords or a bound notice.
LEMMA NothingHappens ==
  ASSUME SyncInv, UNCHANGED <<events, answers, row, punch, memory, run, importing, refusals>>
  PROVE  SyncInv'
<1>1. ClockTypes'
  BY DEF SyncInv, ClockTypes
<1>2. \A c \in Clock : Kept(c)
  BY <1>1, Still
<1>3. \A c \in Clock : ClockIsRight(c)'
  BY DEF SyncInv, ClockIsRight, Savable, LastEvent
<1>4. \A r \in Run : run[r] # NoRun => run[r].clock \in Clock
  BY DEF SyncInv, RunIsRight
<1>. QED
  BY <1>1, <1>2, <1>3, <1>4, RunsStand

\* The worker starts a run of a clock that is neither running nor paused.
LEMMA TickStartKeepsSync == ASSUME SyncInv, NEW c \in Clock, TickStart(c) PROVE SyncInv'
<1>1. UNCHANGED <<row, punch, importing, refusals, events, answers>>
  BY DEF TickStart, Unchanged
<1>2. CASE ~IsFree(c)
  <2>1. UNCHANGED <<memory, run>>
    BY <1>2 DEF TickStart
  <2>. QED
    BY <1>1, <2>1, NothingHappens
<1>3. CASE IsFree(c)
  <2>1. PICK r \in Run : Starting(r, c, "AUTO")
    BY <1>3 DEF TickStart
  <2>2. run[r] = NoRun
    BY <2>1 DEF Starting
  <2>3. /\ memory' \in [Clock -> Memory]
        /\ memory'[c].inProgress
        /\ memory'[c].pausedByCredentials = memory[c].pausedByCredentials
        /\ \A d \in Clock \ {c} : memory'[d] = memory[d]
        /\ run' = [q \in Run |-> run'[q]]
        /\ run'[r] \in ConnectStep /\ run'[r].clock = c
        /\ \A q \in Run \ {r} : run'[q] = run[q]
    BY <2>1, StartingTakesTheLock DEF SyncInv, Trigger
  <2>4. ClockTypes'
    BY <1>1, <2>3 DEF SyncInv, ClockTypes
  <2>5. refusals[c].sync = 0
    BY <1>3 DEF IsFree, SyncInv, ClockIsRight, ClockTypes, Refusals
  <2>6. \A q \in Run : run[q] # NoRun => run[q].clock \in Clock \ {c}
    BY <1>3 DEF IsFree, SyncInv, RunIsRight
  <2>7. \A d \in Clock \ {c} : Kept(d)
    BY <1>1, <2>3, <2>4, Still
  <2>8. RunIsRight(r)'
    BY <1>1, <2>3, <2>5 DEF RunIsRight
  <2>9. \A d \in Clock : ClockIsRight(d)'
    BY <1>1, <2>3 DEF SyncInv, ClockIsRight, Savable, LastEvent
  <2>. QED
    BY <2>3, <2>4, <2>6, <2>7, <2>8, <2>9, OneRunActs
<1>. QED
  BY <1>2, <1>3

\* An explicit attempt gives every free clock a run of its own.
LEMMA SyncKeepsSync == ASSUME SyncInv, Sync PROVE SyncInv'
<1>. DEFINE free == {c \in Registered : ~memory[c].inProgress}
<1>1. UNCHANGED <<row, punch, importing, events, answers>>
  BY DEF Sync
<1>2. PICK pick \in Injection(free, {r \in Run : run[r] = NoRun}) :
        run' = [r \in Run |-> IF \E c \in free : pick[c] = r
                              THEN [pc |-> "connect", clock |-> CHOOSE c \in free : pick[c] = r,
                                    trigger |-> "MANUAL"]
                              ELSE run[r]]
  BY DEF Sync
<1>3. /\ memory' = [c \in Clock |-> IF c \in free THEN [memory[c] EXCEPT !.inProgress = TRUE, !.stop = FALSE]
                                    ELSE memory[c]]
      /\ refusals' = [c \in Clock |-> IF c \in free THEN NoRefusals ELSE refusals[c]]
  BY DEF Sync
<1>4. free \subseteq Clock
  BY DEF Registered
<1>. HIDE DEF free
<1>5. ASSUME NEW c \in Clock
      PROVE  /\ memory'[c] \in Memory /\ memory'[c].pausedByCredentials = memory[c].pausedByCredentials
             /\ c \notin free => memory'[c] = memory[c]
             /\ c \in free => memory'[c].inProgress
  <2>1. PICK old \in Memory : old = memory[c]
    BY DEF SyncInv, ClockTypes
  <2>2. CASE c \in free
    <3>1. PICK new : new = [old EXCEPT !.inProgress = TRUE, !.stop = FALSE]
      OBVIOUS
    <3>2. new = [inProgress |-> TRUE, pausedByCredentials |-> old.pausedByCredentials, stop |-> FALSE]
      BY <2>1, <3>1, Zenon DEF Memory
    <3>3. new \in Memory /\ new.inProgress /\ new.pausedByCredentials = old.pausedByCredentials
      BY <2>1, <3>2, Zenon DEF Memory
    <3>4. memory'[c] = new
      BY <1>3, <2>1, <2>2, <3>1
    <3>. QED
      BY <2>1, <2>2, <3>3, <3>4
  <2>3. CASE c \notin free
    BY <1>3, <2>1, <2>3
  <2>. QED
    BY <2>2, <2>3
<1>6. memory' \in [Clock -> Memory]
  BY <1>3, <1>5
<1>7. NoRefusals \in Refusals /\ NoRefusals.sync = 0
  BY DEF NoRefusals, Refusals
<1>8. /\ refusals' \in [Clock -> Refusals]
      /\ \A c \in Clock : refusals'[c] \in {refusals[c], NoRefusals} /\ (c \in free => refusals'[c] = NoRefusals)
      /\ \A c \in Clock : c \notin free => refusals'[c] = refusals[c]
  BY <1>3, <1>7 DEF SyncInv, ClockTypes
<1>9. ClockTypes'
  BY <1>1, <1>2, <1>6, <1>8 DEF SyncInv, ClockTypes
<1>10. \A c \in Clock \ free : Kept(c)
  BY <1>1, <1>5, <1>8, <1>9, Still
<1>11. \A c \in Clock : ClockIsRight(c)'
  <2>1. \A c \in Clock : refusals'[c].sync \in {refusals[c].sync, 0}
    BY <1>7, <1>8
  <2>. QED
    BY <1>1, <1>5, <2>1 DEF SyncInv, ClockIsRight, Savable, LastEvent
<1>12. ASSUME NEW r \in Run, \E c \in free : pick[c] = r
       PROVE  /\ run[r] = NoRun /\ run'[r] \in ConnectStep
              /\ run'[r].clock \in free /\ pick[run'[r].clock] = r
  <2>1. PICK d : d = CHOOSE c \in free : pick[c] = r
    OBVIOUS
  <2>2. d \in free /\ pick[d] = r
    BY <1>12, <2>1
  <2>3. PICK step : step = [pc |-> "connect", clock |-> d, trigger |-> "MANUAL"]
    OBVIOUS
  <2>4. step \in ConnectStep /\ step.clock = d
    BY <1>4, <2>2, <2>3, SMT DEF ConnectStep, Trigger
  <2>5. run'[r] = step
    BY <1>2, <1>12, <2>1, <2>3
  <2>6. run[r] = NoRun
    BY <2>2 DEF Injection
  <2>. QED
    BY <2>2, <2>4, <2>5, <2>6
<1>13. \A r \in Run : (\E c \in free : pick[c] = r) \/ run'[r] = run[r]
  BY <1>2
<1>14. \A r \in Run : run[r] # NoRun => run[r].clock \in Clock \ free
  BY DEF free, SyncInv, RunIsRight
<1>15. ASSUME NEW r \in Run PROVE RunIsRight(r)'
  <2>1. CASE \E c \in free : pick[c] = r
    <3>1. /\ run'[r] \in ConnectStep /\ run'[r].clock \in Clock
          /\ memory'[run'[r].clock].inProgress /\ refusals'[run'[r].clock].sync = 0
      BY <1>4, <1>5, <1>7, <1>8, <1>12, <2>1
    <3>. QED
      BY <3>1 DEF RunIsRight
  <2>2. CASE run'[r] = run[r]
    BY <1>9, <1>10, <1>14, <2>2, RunIsKept DEF SyncInv
  <2>. QED
    BY <1>13, <2>1, <2>2
<1>16. Exclusive'
  <2>1. SUFFICES ASSUME NEW r \in Run, NEW q \in Run, r # q, run'[r] # NoRun, run'[q] # NoRun,
                        run'[r].clock = run'[q].clock
                 PROVE  FALSE
    BY DEF Exclusive
  <2>2. CASE (\E c \in free : pick[c] = r) /\ (\E c \in free : pick[c] = q)
    BY <1>12, <2>1, <2>2
  <2>3. CASE (\E c \in free : pick[c] = r) /\ run'[q] = run[q]
    BY <1>12, <1>14, <2>1, <2>3
  <2>4. CASE (\E c \in free : pick[c] = q) /\ run'[r] = run[r]
    BY <1>12, <1>14, <2>1, <2>4
  <2>5. CASE run'[r] = run[r] /\ run'[q] = run[q]
    BY <2>1, <2>5 DEF SyncInv, Exclusive
  <2>. QED
    BY <1>13, <2>2, <2>3, <2>4, <2>5
<1>. QED
  BY <1>9, <1>11, <1>15, <1>16 DEF SyncInv

\* Registering a clock again keeps its cursor, and asks again.
LEMMA RegisterKeepsSync == ASSUME SyncInv, NEW c \in Clock, Register(c) PROVE SyncInv'
<1>1. UNCHANGED <<punch, importing, events, answers>>
  BY DEF Register
<1>2. PICK old \in ClockRow : old = row[c]
  BY DEF SyncInv, ClockTypes
<1>3. PICK new : new = [old EXCEPT !.registered = TRUE]
  OBVIOUS
<1>4. new \in ClockRow /\ new.lastSerialNo = old.lastSerialNo
  <2>1. new = [registered |-> TRUE, lastSerialNo |-> old.lastSerialNo]
    BY <1>2, <1>3, Zenon DEF ClockRow
  <2>. QED
    BY <1>2, <2>1, Zenon DEF ClockRow
<1>5. row' = [row EXCEPT ![c] = new]
  BY <1>2, <1>3 DEF Register, RegisteredFrom
<1>6. row' \in [Clock -> ClockRow] /\ \A d \in Clock : row'[d].lastSerialNo = row[d].lastSerialNo
  BY <1>2, <1>4, <1>5 DEF SyncInv, ClockTypes
<1>7. NoRefusals \in Refusals /\ NoRefusals.sync = 0
  BY DEF NoRefusals, Refusals
<1>8. /\ refusals' \in [Clock -> Refusals] /\ refusals'[c].sync = 0
      /\ \A d \in Clock \ {c} : refusals'[d] = refusals[d]
  BY <1>7 DEF Register, SyncInv, ClockTypes
<1>9. PICK mem \in Memory : mem = memory[c]
  BY DEF SyncInv, ClockTypes
<1>10. CASE /\ memory[c].inProgress
            /\ memory' = [memory EXCEPT ![c].pausedByCredentials = FALSE, ![c].stop = FALSE]
            /\ UNCHANGED run
  <2>1. PICK now : now = [mem EXCEPT !.pausedByCredentials = FALSE, !.stop = FALSE]
    OBVIOUS
  <2>2. now = [inProgress |-> mem.inProgress, pausedByCredentials |-> FALSE, stop |-> FALSE]
    BY <1>9, <2>1, Zenon DEF Memory
  <2>3. now \in Memory /\ now.inProgress = mem.inProgress
    BY <1>9, <2>2, Zenon DEF Memory
  <2>4. memory' = [memory EXCEPT ![c] = now]
    BY <1>9, <1>10, <2>1 DEF SyncInv, ClockTypes
  <2>5. memory' \in [Clock -> Memory] /\ memory'[c].inProgress = memory[c].inProgress
        /\ \A d \in Clock \ {c} : memory'[d] = memory[d]
    BY <1>9, <2>3, <2>4 DEF SyncInv, ClockTypes
  <2>6. ClockTypes'
    BY <1>1, <1>6, <1>8, <1>10, <2>5 DEF SyncInv, ClockTypes
  <2>7. \A d \in Clock : Kept(d)
    <3>1. Kept(c)
      BY <1>1, <1>6, <1>8, <2>5, <2>6, Still
    <3>2. \A d \in Clock \ {c} : Kept(d)
      BY <1>1, <1>6, <1>8, <2>5, <2>6, Still
    <3>. QED
      BY <3>1, <3>2
  <2>8. ClockIsRight(c)'
    BY <1>1, <1>6, <1>8 DEF SyncInv, ClockIsRight, Savable, LastEvent
  <2>9. \A d \in Clock \ {c} : ClockIsRight(d)'
    BY <1>1, <1>6, <1>8, <2>5 DEF SyncInv, ClockIsRight, Savable, LastEvent
  <2>10. \A r \in Run : run[r] # NoRun => run[r].clock \in Clock
    BY DEF SyncInv, RunIsRight
  <2>. QED
    BY <1>10, <2>6, <2>7, <2>8, <2>9, <2>10, RunsStand
<1>11. CASE /\ ~memory[c].inProgress
            /\ \E r \in Run :
                 /\ run[r] = NoRun
                 /\ Goto(r, [pc |-> "connect", clock |-> c, trigger |-> "REGISTER"])
            /\ memory' = [memory EXCEPT ![c] = [Fresh EXCEPT !.inProgress = TRUE]]
  <2>1. PICK now : now = [Fresh EXCEPT !.inProgress = TRUE]
    OBVIOUS
  <2>2. now \in Memory /\ now.inProgress
    BY <2>1 DEF Fresh, Memory
  <2>3. memory' \in [Clock -> Memory] /\ memory'[c].inProgress /\ \A d \in Clock \ {c} : memory'[d] = memory[d]
    BY <1>11, <2>1, <2>2 DEF SyncInv, ClockTypes
  <2>4. PICK step : step = [pc |-> "connect", clock |-> c, trigger |-> "REGISTER"]
    OBVIOUS
  <2>5. step \in ConnectStep /\ step.clock = c
    BY <2>4, SMT DEF ConnectStep, Trigger
  <2>6. PICK r \in Run : run[r] = NoRun /\ run' = [run EXCEPT ![r] = step]
    BY <1>11, <2>4 DEF Goto
  <2>7. run'[r] = step /\ (\A q \in Run \ {r} : run'[q] = run[q]) /\ run' = [q \in Run |-> run'[q]]
    BY <2>6 DEF SyncInv, ClockTypes
  <2>8. ClockTypes'
    BY <1>1, <1>6, <1>8, <2>3, <2>7 DEF SyncInv, ClockTypes
  <2>9. \A q \in Run : run[q] # NoRun => run[q].clock \in Clock \ {c}
    BY <1>11 DEF SyncInv, RunIsRight
  <2>10. \A d \in Clock \ {c} : Kept(d)
    BY <1>1, <1>6, <1>8, <2>3, <2>8, Still
  <2>11. RunIsRight(r)'
    BY <1>8, <2>3, <2>5, <2>7 DEF RunIsRight
  <2>12. ClockIsRight(c)'
    BY <1>1, <1>6, <1>8 DEF SyncInv, ClockIsRight, Savable, LastEvent
  <2>13. \A d \in Clock \ {c} : ClockIsRight(d)'
    BY <1>1, <1>6, <1>8, <2>3 DEF SyncInv, ClockIsRight, Savable, LastEvent
  <2>. QED
    BY <2>5, <2>7, <2>8, <2>9, <2>10, <2>11, <2>12, <2>13, OneRunActs
<1>. QED
  BY <1>10, <1>11 DEF Register

\* Retiring a clock asks its run to stop, and keeps its cursor.
LEMMA RetireKeepsSync == ASSUME SyncInv, NEW c \in Clock, Retire(c) PROVE SyncInv'
<1>1. UNCHANGED <<punch, importing, events, answers, run, refusals>>
  BY DEF Retire
<1>2. PICK old \in ClockRow : old = row[c]
  BY DEF SyncInv, ClockTypes
<1>3. PICK new : new = [old EXCEPT !.registered = FALSE]
  OBVIOUS
<1>4. new \in ClockRow /\ new.lastSerialNo = old.lastSerialNo
  <2>1. new = [registered |-> FALSE, lastSerialNo |-> old.lastSerialNo]
    BY <1>2, <1>3, Zenon DEF ClockRow
  <2>. QED
    BY <1>2, <2>1, Zenon DEF ClockRow
<1>5. row' = [row EXCEPT ![c] = new]
  BY <1>2, <1>3 DEF Retire, SyncInv, ClockTypes
<1>6. row' \in [Clock -> ClockRow] /\ \A d \in Clock : row'[d].lastSerialNo = row[d].lastSerialNo
  BY <1>2, <1>4, <1>5 DEF SyncInv, ClockTypes
<1>7. PICK mem \in Memory : mem = memory[c]
  BY DEF SyncInv, ClockTypes
<1>8. PICK now : now = [mem EXCEPT !.stop = @ \/ mem.inProgress]
  OBVIOUS
<1>9. now = [inProgress |-> mem.inProgress, pausedByCredentials |-> mem.pausedByCredentials,
             stop |-> mem.stop \/ mem.inProgress]
  BY <1>7, <1>8, Zenon DEF Memory
<1>10. now \in Memory /\ now.inProgress = mem.inProgress
       /\ now.pausedByCredentials = mem.pausedByCredentials
  BY <1>7, <1>9, Zenon DEF Memory
<1>11. memory' = [memory EXCEPT ![c] = now]
  BY <1>7, <1>8 DEF Retire, SyncInv, ClockTypes
<1>12. memory' \in [Clock -> Memory]
       /\ \A d \in Clock : /\ memory'[d].inProgress = memory[d].inProgress
                           /\ memory'[d].pausedByCredentials = memory[d].pausedByCredentials
  BY <1>7, <1>10, <1>11 DEF SyncInv, ClockTypes
<1>13. ClockTypes'
  BY <1>1, <1>6, <1>12 DEF SyncInv, ClockTypes
<1>14. \A d \in Clock : Kept(d)
  BY <1>1, <1>6, <1>12, <1>13, Still
<1>15. \A d \in Clock : ClockIsRight(d)'
  BY <1>1, <1>6, <1>12 DEF SyncInv, ClockIsRight, Savable, LastEvent
<1>16. \A r \in Run : run[r] # NoRun => run[r].clock \in Clock
  BY DEF SyncInv, RunIsRight
<1>. QED
  BY <1>1, <1>13, <1>14, <1>15, <1>16, RunsStand

\* An import reads from clocks that answer as themselves.
LEMMA StartImportKeepsSync ==
  ASSUME SyncInv, NEW days \in SUBSET Nat, StartImport(days) PROVE SyncInv'
<1>1. UNCHANGED <<events, answers, row, punch, memory, run>>
  BY DEF StartImport
<1>2. importing' = [c \in Clock |-> IF c \in Registered /\ VerifySerial(c) THEN days \cap 1 .. LastEvent(c) ELSE {}]
  BY DEF StartImport
<1>3. importing' \in [Clock -> SUBSET Nat] /\ \A c \in Clock : importing'[c] # {} => answers[c] = c
  BY <1>2 DEF VerifySerial
<1>4. NoRefusals \in Refusals /\ NoRefusals.sync = 0
  BY DEF NoRefusals, Refusals
<1>5. refusals' = [c \in Clock |-> NoRefusals]
  BY DEF StartImport
<1>6. refusals' \in [Clock -> Refusals] /\ \A c \in Clock : refusals'[c].sync = 0
  BY <1>4, <1>5
<1>7. ClockTypes'
  BY <1>1, <1>3, <1>6 DEF SyncInv, ClockTypes
<1>8. \A c \in Clock : Kept(c)
  BY <1>1, <1>6, <1>7, Still
<1>9. \A c \in Clock : ClockIsRight(c)'
  BY <1>1, <1>3, <1>6 DEF SyncInv, ClockIsRight, Savable, LastEvent
<1>10. \A r \in Run : run[r] # NoRun => run[r].clock \in Clock
  BY DEF SyncInv, RunIsRight
<1>. QED
  BY <1>1, <1>7, <1>8, <1>9, <1>10, RunsStand

\* A page of an import stores what its own clock recorded.
LEMMA ImportPageKeepsSync == ASSUME SyncInv, NEW c \in Clock, ImportPage(c) PROVE SyncInv'
<1>1. UNCHANGED <<events, answers, row, run, refusals>>
  BY DEF ImportPage, Unchanged
<1>2. importing[c] # {} /\ answers[c] = c
  BY DEF ImportPage, SyncInv, ClockIsRight
<1>3. PICK left \in SUBSET importing[c] : importing' = [importing EXCEPT ![c] = left]
  BY DEF ImportPage
<1>4. importing' \in [Clock -> SUBSET Nat]
      /\ \A d \in Clock : importing'[d] # {} => importing[d] # {}
  BY <1>3 DEF SyncInv, ClockTypes
<1>5. CASE memory' = [memory EXCEPT ![c].pausedByCredentials = TRUE] /\ UNCHANGED punch
  <2>1. PICK mem \in Memory : mem = memory[c]
    BY DEF SyncInv, ClockTypes
  <2>2. PICK now : now = [mem EXCEPT !.pausedByCredentials = TRUE]
    OBVIOUS
  <2>3. now = [inProgress |-> mem.inProgress, pausedByCredentials |-> TRUE, stop |-> mem.stop]
    BY <2>1, <2>2, Zenon DEF Memory
  <2>4. now \in Memory /\ now.inProgress = mem.inProgress /\ now.pausedByCredentials
    BY <2>1, <2>3, Zenon DEF Memory
  <2>5. memory' = [memory EXCEPT ![c] = now]
    BY <1>5, <2>1, <2>2 DEF SyncInv, ClockTypes
  <2>6. memory' \in [Clock -> Memory]
        /\ \A d \in Clock : /\ memory'[d].inProgress = memory[d].inProgress
                            /\ memory[d].pausedByCredentials => memory'[d].pausedByCredentials
    BY <2>1, <2>4, <2>5 DEF SyncInv, ClockTypes
  <2>7. ClockTypes'
    BY <1>1, <1>4, <1>5, <2>6 DEF SyncInv, ClockTypes
  <2>8. \A d \in Clock : Kept(d)
    BY <1>1, <1>5, <2>6, <2>7, Still
  <2>9. \A d \in Clock : ClockIsRight(d)'
    BY <1>1, <1>4, <1>5, <2>6 DEF SyncInv, ClockIsRight, Savable, LastEvent
  <2>10. \A r \in Run : run[r] # NoRun => run[r].clock \in Clock
    BY DEF SyncInv, RunIsRight
  <2>. QED
    BY <1>1, <2>7, <2>8, <2>9, <2>10, RunsStand
<1>6. CASE /\ \E s : punch' = [punch EXCEPT ![c] = @ \cup Savable(c, {s})]
           /\ UNCHANGED memory
  <2>1. PICK s : punch' = [punch EXCEPT ![c] = @ \cup Savable(c, {s})]
    BY <1>6
  <2>2. Savable(c, {s}) \subseteq Savable(c, 1 .. LastEvent(c)) /\ Savable(c, {s}) \subseteq Nat
    BY LastIsNat DEF Savable, SyncInv
  <2>3. /\ punch' \in [Clock -> SUBSET Nat] /\ punch'[c] = punch[c] \cup Savable(c, {s})
        /\ \A d \in Clock \ {c} : punch'[d] = punch[d]
    BY <2>1, <2>2 DEF SyncInv, ClockTypes
  <2>4. ClockTypes'
    BY <1>1, <1>4, <1>6, <2>3 DEF SyncInv, ClockTypes
  <2>5. \A d \in Clock : LastEvent(d) \in Nat /\ LastEvent(d)' = LastEvent(d)
    BY <1>1, LastIsNat DEF SyncInv, LastEvent
  <2>6. \A d \in Clock : Kept(d)
    BY <1>1, <1>6, <2>3, <2>5 DEF Kept, Grows
  <2>7. \A d \in Clock : ClockIsRight(d)'
    BY <1>1, <1>4, <1>6, <2>2, <2>3 DEF SyncInv, ClockIsRight, Savable, LastEvent
  <2>8. \A r \in Run : run[r] # NoRun => run[r].clock \in Clock
    BY DEF SyncInv, RunIsRight
  <2>. QED
    BY <1>1, <2>4, <2>6, <2>7, <2>8, RunsStand
<1>. QED
  BY <1>2, <1>5, <1>6 DEF ImportPage

\* A clock that records another event has recorded the same ones before.
LEMMA PunchKeepsSync ==
  ASSUME SyncInv, NEW c \in Clock, NEW kind \in EventKind, Punch(c, kind) PROVE SyncInv'
<1>1. UNCHANGED <<answers, row, punch, memory, run, importing, refusals>>
  BY DEF Punch
<1>2. PICK old \in Seq(EventKind) : old = events[c]
  BY DEF SyncInv, ClockTypes
<1>3. PICK new : new = Append(old, kind)
  OBVIOUS
<1>4. new \in Seq(EventKind) /\ Len(new) = Len(old) + 1 /\ \A s \in 1 .. Len(old) : new[s] = old[s]
  BY <1>2, <1>3, AppendProperties
<1>5. events' = [events EXCEPT ![c] = new]
  BY <1>2, <1>3 DEF Punch
<1>6. events' \in [Clock -> Seq(EventKind)] /\ events'[c] = new /\ \A d \in Clock \ {c} : events'[d] = events[d]
  BY <1>4, <1>5 DEF SyncInv, ClockTypes
<1>7. ClockTypes'
  BY <1>1, <1>6 DEF SyncInv, ClockTypes
<1>8. \A d \in Clock : Grows(d)
  <2>1. Len(old) \in Nat
    BY <1>2, LenProperties
  <2>2. Grows(c)
    BY <1>1, <1>2, <1>4, <1>6, <2>1 DEF Grows, LastEvent
  <2>3. \A d \in Clock \ {c} : LastEvent(d) \in Nat /\ LastEvent(d)' = LastEvent(d)
    BY <1>6, LastIsNat DEF SyncInv, LastEvent
  <2>4. \A d \in Clock \ {c} : Grows(d)
    BY <1>1, <1>6, <2>3 DEF Grows
  <2>. QED
    BY <2>2, <2>4
<1>9. \A d \in Clock : Kept(d)
  BY <1>1, <1>8 DEF Kept
<1>10. ASSUME NEW d \in Clock PROVE ClockIsRight(d)'
  <2>1. ClockIsRight(d)
    BY DEF SyncInv
  <2>2. /\ row'[d].lastSerialNo = row[d].lastSerialNo
        /\ punch'[d] \subseteq punch[d] \cup Savable(d, 1 .. LastEvent(d))'
        /\ importing'[d] # {} => answers'[d] = d
        /\ refusals'[d].sync <= 1
        /\ refusals'[d].sync = 1 => memory'[d].pausedByCredentials
    BY <1>1, <2>1 DEF ClockIsRight
  <2>. QED
    BY <1>7, <1>8, <2>1, <2>2, ClockIsKept DEF SyncInv
<1>11. \A r \in Run : run[r] # NoRun => run[r].clock \in Clock
  BY DEF SyncInv, RunIsRight
<1>. QED
  BY <1>1, <1>7, <1>9, <1>10, <1>11, RunsStand

\* After a restart nothing runs, nothing is paused and nothing is counted.
LEMMA RestartKeepsSync == ASSUME SyncInv, Restart PROVE SyncInv'
<1>1. UNCHANGED <<events, answers, row, punch>>
  BY DEF Restart
<1>2. Fresh \in Memory /\ NoRefusals \in Refusals /\ NoRefusals.sync = 0
  BY DEF Fresh, Memory, NoRefusals, Refusals
<1>3. /\ memory' \in [Clock -> Memory] /\ refusals' \in [Clock -> Refusals]
      /\ importing' \in [Clock -> SUBSET Nat] /\ run' = [r \in Run |-> NoRun]
      /\ \A c \in Clock : refusals'[c].sync = 0 /\ importing'[c] = {}
  BY <1>2 DEF Restart
<1>4. \A r \in Run : run'[r] = NoRun
  BY <1>3
<1>5. ClockTypes'
  BY <1>1, <1>3 DEF SyncInv, ClockTypes
<1>6. \A c \in Clock : ClockIsRight(c)'
  BY <1>1, <1>3 DEF SyncInv, ClockIsRight, Savable, LastEvent
<1>7. (\A r \in Run : RunIsRight(r)') /\ Exclusive'
  BY <1>4 DEF RunIsRight, Exclusive
<1>. QED
  BY <1>5, <1>6, <1>7 DEF SyncInv

\* An address moves only between conversations.
LEMMA SwapKeepsSync ==
  ASSUME SyncInv, NEW c \in Clock, NEW other \in Clock, Swap(c, other) PROVE SyncInv'
<1>1. UNCHANGED <<events, row, punch, memory, run, importing, refusals>>
      /\ ~memory[c].inProgress /\ importing[c] = {}
  BY DEF Swap
<1>2. answers' \in [Clock -> Clock] /\ \A d \in Clock \ {c} : answers'[d] = answers[d]
  BY DEF Swap, SyncInv, ClockTypes
<1>3. ClockTypes'
  BY <1>1, <1>2 DEF SyncInv, ClockTypes
<1>4. \A d \in Clock : LastEvent(d) \in Nat /\ LastEvent(d)' = LastEvent(d)
  BY <1>1, LastIsNat DEF SyncInv, LastEvent
<1>5. \A d \in Clock \ {c} : Kept(d)
  BY <1>1, <1>2, <1>4 DEF Kept, Grows
<1>6. \A d \in Clock : ClockIsRight(d)'
  BY <1>1, <1>2 DEF SyncInv, ClockIsRight, Savable, LastEvent
<1>7. \A r \in Run : run[r] # NoRun => run[r].clock \in Clock \ {c}
  BY <1>1 DEF SyncInv, RunIsRight
<1>. QED
  BY <1>1, <1>3, <1>5, <1>6, <1>7, RunsStand

\* The roster counts its own refusals.
LEMMA RosterRefusedKeepsSync == ASSUME SyncInv, NEW c \in Clock, RosterRefused(c) PROVE SyncInv'
<1>1. UNCHANGED <<events, answers, row, punch, memory, run, importing>>
  BY DEF RosterRefused, Unchanged
<1>2. PICK old \in Refusals : old = refusals[c]
  BY DEF SyncInv, ClockTypes
<1>3. PICK new : new = [old EXCEPT !.roster = @ + 1]
  OBVIOUS
<1>4. new \in Refusals /\ new.sync = old.sync
  BY <1>2, <1>3, SMT DEF Refusals
<1>5. refusals' = [refusals EXCEPT ![c] = new]
  BY <1>2, <1>3 DEF RosterRefused, SyncInv, ClockTypes
<1>6. refusals' \in [Clock -> Refusals] /\ \A d \in Clock : refusals'[d].sync = refusals[d].sync
  BY <1>2, <1>4, <1>5 DEF SyncInv, ClockTypes
<1>7. ClockTypes'
  BY <1>1, <1>6 DEF SyncInv, ClockTypes
<1>8. \A d \in Clock : Kept(d)
  BY <1>1, <1>6, <1>7, Still
<1>9. \A d \in Clock : ClockIsRight(d)'
  BY <1>1, <1>6 DEF SyncInv, ClockIsRight, Savable, LastEvent
<1>10. \A r \in Run : run[r] # NoRun => run[r].clock \in Clock
  BY DEF SyncInv, RunIsRight
<1>. QED
  BY <1>1, <1>7, <1>8, <1>9, <1>10, RunsStand

-----------------------------------------------------------------------------
(* The theorems.                                                           *)

LEMMA SyncInvHoldsAtFirst == ClockInit => SyncInv
<1>. SUFFICES ASSUME ClockInit PROVE SyncInv
  OBVIOUS
<1>1. Fresh \in Memory /\ NoRefusals \in Refusals /\ NoRefusals.sync = 0
  BY DEF Fresh, Memory, NoRefusals, Refusals
<1>2. \A c \in Clock : row[c] = [registered |-> c \in Installed, lastSerialNo |-> 0]
  BY DEF ClockInit
<1>3. row \in [Clock -> ClockRow] /\ \A c \in Clock : row[c].lastSerialNo = 0
  BY <1>2 DEF ClockInit, ClockRow
<1>4. <<>> \in Seq(EventKind)
  BY EmptySeq
<1>5. ClockTypes
  BY <1>1, <1>3, <1>4 DEF ClockInit, ClockTypes
<1>6. ASSUME NEW c \in Clock PROVE ClockIsRight(c)
  <2>1. LastEvent(c) = 0
    BY DEF ClockInit, LastEvent
  <2>2. \A n : n \in 1 .. 0 => FALSE
    OBVIOUS
  <2>. QED
    BY <1>1, <1>3, <2>1, <2>2 DEF ClockInit, ClockIsRight, Savable
<1>7. (\A r \in Run : RunIsRight(r)) /\ Exclusive
  BY DEF ClockInit, RunIsRight, Exclusive
<1>. QED
  BY <1>5, <1>6, <1>7 DEF SyncInv

\* Every step of the system keeps the invariant.
LEMMA SyncInvIsKept == SyncInv /\ [ClockNext]_clockVars => SyncInv'
<1>. SUFFICES ASSUME SyncInv, [ClockNext]_clockVars PROVE SyncInv'
  OBVIOUS
<1>1. ASSUME NEW r \in Run, RunStep(r) \/ Fails(r) PROVE SyncInv'
  BY <1>1, ConnectKeepsSync, TargetKeepsSync, ReadPageKeepsSync, ConfirmKeepsSync, RejectedKeepsSync,
     FailsKeepsSync DEF RunStep
<1>2. CASE TickRead
  BY <1>2, NothingHappens DEF TickRead, Unchanged
<1>3. ASSUME NEW c \in Clock, TickStart(c) \/ ImportPage(c) PROVE SyncInv'
  BY <1>3, TickStartKeepsSync, ImportPageKeepsSync
<1>4. CASE Sync
  BY <1>4, SyncKeepsSync
<1>5. ASSUME NEW c \in Clock, Register(c) \/ Retire(c) \/ RosterRefused(c) PROVE SyncInv'
  BY <1>5, RegisterKeepsSync, RetireKeepsSync, RosterRefusedKeepsSync
<1>6. ASSUME NEW c \in Clock, ChangePassword(c) PROVE SyncInv'
  BY <1>6, NothingHappens DEF ChangePassword
<1>7. ASSUME NEW from \in 1 .. 2, NEW to \in 1 .. 2, StartImport(from .. to) PROVE SyncInv'
  <2>1. (from .. to) \in SUBSET Nat
    OBVIOUS
  <2>. QED
    BY <1>7, <2>1, StartImportKeepsSync
<1>8. ASSUME NEW c \in Clock, NEW kind \in EventKind, Punch(c, kind) PROVE SyncInv'
  BY <1>8, PunchKeepsSync
<1>9. CASE Restart
  BY <1>9, RestartKeepsSync
<1>10. ASSUME NEW c \in Clock, NEW other \in Clock, Swap(c, other) PROVE SyncInv'
  BY <1>10, SwapKeepsSync
<1>11. CASE UNCHANGED clockVars
  BY <1>11, NothingHappens DEF clockVars
<1>. QED
  BY <1>1, <1>2, <1>3, <1>4, <1>5, <1>6, <1>7, <1>8, <1>9, <1>10, <1>11 DEF ClockNext

\* The cursor of a clock never passes a punch that is not stored, and a clock
\* that refuses the credentials is not asked on and on, for any windows,
\* pages, clocks and runs, and for any number of faults.
THEOREM SynchronisationIsSafe == ClockSpec => []SyncIsSafe
<1>1. SyncInv => SyncIsSafe
  BY DEF SyncInv, ClockIsRight, SyncIsSafe, CursorIsSafe, WorkerGivesUp
<1>. QED
  BY <1>1, SyncInvHoldsAtFirst, SyncInvIsKept, PTL DEF ClockSpec

\* A confirmation takes the cursor to the end of a window that is ahead of it.
LEMMA ConfirmationsAdvance ==
  ASSUME SyncInv, NEW r \in Run, Confirm(r), NEW c \in Clock
  PROVE  row'[c].lastSerialNo >= row[c].lastSerialNo
<1>. PICK own \in Clock : own = run[r].clock
  BY ActingRun DEF Confirm
<1>1. /\ row[own].lastSerialNo \in Nat /\ row[c].lastSerialNo \in Nat
      /\ run[r].end \in Nat /\ row[own].lastSerialNo <= run[r].end
  <2>1. \A d \in Clock : row[d].lastSerialNo \in Nat
    BY DEF SyncInv, ClockTypes, ClockRow
  <2>. QED
    BY <2>1, RunAtItsStep DEF SyncInv, Confirm
<1>2. PICK old \in ClockRow : old = row[own]
  BY DEF SyncInv, ClockTypes
<1>3. PICK new : new = [old EXCEPT !.lastSerialNo = run[r].end]
  OBVIOUS
<1>4. new.lastSerialNo = run[r].end
  BY <1>1, <1>2, <1>3, SMT DEF ClockRow
<1>5. row' = [row EXCEPT ![own] = new]
  BY <1>2, <1>3 DEF Confirm, SyncInv, ClockTypes
<1>6. row'[own] = new /\ (c # own => row'[c] = row[c])
  BY <1>5 DEF SyncInv, ClockTypes
<1>. QED
  BY <1>1, <1>4, <1>6

\* Registering and retiring a clock keep its cursor.
LEMMA RegistrationsKeepCursors ==
  ASSUME SyncInv, NEW c \in Clock, Register(c) \/ Retire(c), NEW d \in Clock
  PROVE  row'[d].lastSerialNo = row[d].lastSerialNo
<1>1. PICK old \in ClockRow : old = row[c]
  BY DEF SyncInv, ClockTypes
<1>2. PICK flag \in BOOLEAN : row' = [row EXCEPT ![c] = [old EXCEPT !.registered = flag]]
  BY <1>1 DEF Register, RegisteredFrom, Retire, SyncInv, ClockTypes
<1>3. PICK new : new = [old EXCEPT !.registered = flag]
  OBVIOUS
<1>4. new.lastSerialNo = old.lastSerialNo
  <2>1. new = [registered |-> flag, lastSerialNo |-> old.lastSerialNo]
    BY <1>1, <1>3, Zenon DEF ClockRow
  <2>. QED
    BY <2>1, Zenon
<1>. QED
  BY <1>1, <1>2, <1>3, <1>4 DEF SyncInv, ClockTypes

\* No step of anybody takes the cursor of a clock back: the lock keeps two
\* runs of a clock apart, and registering it again keeps its row.
THEOREM CursorsNeverGoBack == ClockSpec => CursorOnlyAdvances
<1>1. SyncInv /\ [ClockNext]_clockVars => [\A c \in Clock : row'[c].lastSerialNo >= row[c].lastSerialNo]_clockVars
  <2>. SUFFICES ASSUME SyncInv, ClockNext, NEW c \in Clock
                PROVE  row'[c].lastSerialNo >= row[c].lastSerialNo
    OBVIOUS
  <2>1. row[c].lastSerialNo \in Nat
    BY DEF SyncInv, ClockTypes, ClockRow
  <2>2. CASE UNCHANGED row
    BY <2>1, <2>2
  <2>3. CASE \E d \in Clock : Register(d) \/ Retire(d)
    BY <2>1, <2>3, RegistrationsKeepCursors
  <2>4. CASE \E r \in Run : Confirm(r)
    BY <2>4, ConfirmationsAdvance
  <2>. QED
    BY <2>2, <2>3, <2>4
       DEF ClockNext, RunStep, Connect, Target, ReadPage, Rejected, Fails, TickRead, TickStart, ImportPage,
           Sync, RosterRefused, ChangePassword, StartImport, Punch, Restart, Swap
<1>. QED
  BY <1>1, SyncInvHoldsAtFirst, SyncInvIsKept, PTL DEF ClockSpec, CursorOnlyAdvances

-----------------------------------------------------------------------------
(* The summary of the state of the clocks.                                 *)

\* A punch as it is stored.
StoredPunch == [serial : Serial, at : Nat, person : Person]

\* The hours of a row of the summary of the day of `now` hold its punches of that day,
\* and those it counts beyond them are stored with a later day.
RowAddsUp(r, now, stored) ==
  LET inHours == SumFunction([h \in DOMAIN r.hourly |-> r.hourly[h].count])
      later == {p \in stored : p.serial = r.serial /\ DayOf(p.at) > DayOf(now)}
  IN /\ inHours \in Int /\ r.punchesToday \in Int
     /\ inHours <= r.punchesToday
     /\ r.punchesToday - inHours <= Cardinality(later)
     /\ \A h \in DOMAIN r.hourly : Cardinality(r.hourly[h].people) <= r.hourly[h].count

\* A summary asks addresses, from the moment it notes on; what it was answered, the
\* address would have given at that moment or after it; its rows add up.
ViewIsHonest(w, time, given, stored) ==
  /\ w = [left |-> w.left, step |-> w.step, now |-> w.now, at |-> w.at, read |-> w.read,
          rows |-> w.rows, alerts |-> w.alerts]
  /\ w.left \in Seq([serial : Serial, url : Address])
  /\ w.now \in Nat /\ w.at \in Nat /\ w.at <= time
  /\ w.step \in {"asking", "replied"} => w.left # << >>
  /\ w.step = "replied" =>
       w.read \in DeviceReading /\ w.at <= given[Head(w.left).url][w.read]
  /\ \E S : w.rows \in Seq(S)
  /\ \A i \in DOMAIN w.rows : RowAddsUp(w.rows[i], w.now, stored)

\* A reading that is kept was given by its address when it was asked or after that.
KeptIsHonest(k, given) ==
  k.read # "null" => k.from \in Address /\ k.at <= given[k.from][k.read]

\* The tables of the clocks have their shape, and each address gives now what it answers now.
SummaryTables ==
  /\ device \in [Address -> DeviceReading]
  /\ placed \in [Serial -> [url : Address \cup {NoAddress}, countsAttendance : BOOLEAN, lastSyncOk : BOOLEAN]]
  /\ IsFiniteSet(punches) /\ punches \subseteq StoredPunch
  /\ kept \in [Serial -> [read : DeviceReading \cup {"null"}, at : Nat, from : Address \cup {NoAddress}]]
  /\ hour \in Nat
  /\ gave \in [Address -> [DeviceReading -> Int]]
  /\ \A a \in Address : gave[a][device[a]] = hour /\ \A r \in DeviceReading : gave[a][r] <= hour

\* The summaries: honest readings, kept and under way.
SummaryIsHonest ==
  /\ SummaryTables
  /\ \A s \in Serial : KeptIsHonest(kept[s], gave)
  /\ view = [v \in Watcher |-> view[v]]
  /\ \A v \in Watcher : ViewIsHonest(view[v], hour, gave, punches)

\* A moment of a day that begins no later is on that day or after it.
LEMMA DayBegan ==
  ASSUME NEW d \in Nat \ {0}, NEW t \in Nat, NEW u \in Nat, u >= d * (t \div d)
  PROVE  u \div d >= t \div d
<1>1. PICK k \in Int : k = t \div d BY SMT
<1>2. PICK q \in Int : q = u \div d BY SMT
<1>3. d * q <= u /\ u < d * q + d BY <1>2, SMT
<1>4. d * k <= u BY <1>1
<1>5. SUFFICES ASSUME q < k PROVE FALSE BY <1>1, <1>2
<1>6. d * k >= d * (q + 1) BY <1>5, SMT
<1>7. d * (q + 1) = d * q + d BY SMT
<1> QED BY <1>3, <1>4, <1>6, <1>7

\* Punches name no more people than they are.
LEMMA PeopleAtMost ==
  ASSUME NEW P, IsFiniteSet(P)
  PROVE  Cardinality({p.person : p \in P}) <= Cardinality(P)
<1>1. PICK who : who = [p \in P |-> p.person] OBVIOUS
<1>2. {who[p] : p \in P} = {p.person : p \in P} BY <1>1
<1>3. who \in Surjection(P, {p.person : p \in P})
  <2>1. who \in [P -> {p.person : p \in P}] BY <1>1
  <2>2. \A n \in {p.person : p \in P} : \E p \in P : who[p] = n BY <1>1
  <2> QED BY <2>1, <2>2, Fun_IsSurj
<1> QED BY <1>3, FS_Surjection

\* A row is made of the punches of the day of the summary.
LEMMA RowsAddUp ==
  ASSUME NEW s \in Serial, NEW read, NEW now \in Nat, IsFiniteSet(punches), punches \subseteq StoredPunch
  PROVE  RowAddsUp(Row(s, read, now), now, punches)
<1> DEFINE Hour == 0..(HOURS - 1)
           todays == Todays(s, now)
           T == {p \in todays : DayOf(p.at) = DayOf(now)}
           hourOf == [p \in T |-> p.at % HOURS]
           At(h) == {p \in todays : DayOf(p.at) = DayOf(now) /\ p.at % HOURS = h}
           later == {p \in punches : p.serial = s /\ DayOf(p.at) > DayOf(now)}
           row1 == Row(s, read, now)
<1>1. HOURS \in Nat \ {0} BY SummaryAssumption
<1>2. todays \subseteq punches /\ \A p \in todays : p.serial = s /\ p.at >= HOURS * DayOf(now) BY DEF Todays
<1>3. \A p \in todays : p.at \in Nat BY <1>2 DEF StoredPunch
<1>4. /\ row1.serial = s /\ row1.punchesToday = Cardinality(todays)
      /\ row1.hourly = [h \in Hour |-> [count |-> Cardinality(At(h)), people |-> {p.person : p \in At(h)}]]
  BY DEF Row, HourlyCounts
<1> HIDE DEF todays, row1
<1>5. IsFiniteSet(todays) /\ IsFiniteSet(T) /\ IsFiniteSet(later) /\ IsFiniteSet(todays \ T) BY <1>2, FS_Subset
<1>6. IsFiniteSet(Hour) BY <1>1, FS_Interval
<1>7. hourOf \in [T -> Hour]
  <2> SUFFICES ASSUME NEW p \in T PROVE p.at % HOURS \in Hour OBVIOUS
  <2>1. p.at \in Nat BY <1>3
  <2> QED BY <1>1, <2>1, SMT
<1>8. \A h \in Hour : At(h) = {p \in T : hourOf[p] = h} OBVIOUS
<1> DEFINE counted == [h \in Hour |-> Cardinality(At(h))]
           inHours == SumFunction([h \in DOMAIN row1.hourly |-> row1.hourly[h].count])
<1>9. inHours = SumFunctionOnSet(counted, Hour)
  <2>1. DOMAIN row1.hourly = Hour /\ \A h \in Hour : row1.hourly[h].count = Cardinality(At(h)) BY <1>4
  <2>2. [h \in DOMAIN row1.hourly |-> row1.hourly[h].count] = counted BY <2>1
  <2>3. DOMAIN counted = Hour OBVIOUS
  <2> HIDE DEF counted
  <2> QED BY <2>2, <2>3 DEF SumFunction
<1>10. SumFunctionOnSet(counted, Hour) = Cardinality(T)
  <2>1. counted = [h \in Hour |-> Cardinality({p \in T : hourOf[p] = h})] BY <1>8
  <2> HIDE DEF counted, T, hourOf, Hour
  <2>2. SumFunctionOnSet([h \in Hour |-> Cardinality({p \in T : hourOf[p] = h})], Hour) = Cardinality(T)
    BY <1>5, <1>6, <1>7, CountByKey
  <2> QED BY <2>1, <2>2
<1>11. todays \ T \subseteq later
  <2> SUFFICES ASSUME NEW p \in todays \ T PROVE p \in later OBVIOUS
  <2>1. p \in punches /\ p.serial = s /\ p.at \in Nat /\ p.at >= HOURS * (now \div HOURS) BY <1>2, <1>3 DEF DayOf
  <2>2. p.at \div HOURS >= now \div HOURS BY <1>1, <2>1, DayBegan
  <2>3. p.at \div HOURS # now \div HOURS BY DEF DayOf
  <2>4. p.at \div HOURS \in Int /\ now \div HOURS \in Int BY <1>1, <2>1, SMT
  <2> QED BY <2>1, <2>2, <2>3, <2>4 DEF DayOf
<1>12. Cardinality(todays) = Cardinality(T) + Cardinality(todays \ T)
  <2>1. T \cap (todays \ T) = {} /\ T \cup (todays \ T) = todays OBVIOUS
  <2>2. Cardinality(T \cup (todays \ T)) = Cardinality(T) + Cardinality(todays \ T) - Cardinality(T \cap (todays \ T))
    BY <1>5, FS_Union
  <2>3. Cardinality({}) = 0 BY FS_EmptySet
  <2>4. Cardinality(T) \in Nat /\ Cardinality(todays \ T) \in Nat BY <1>5, FS_CardinalityType
  <2>5. Cardinality(T \cap (todays \ T)) = 0 /\ Cardinality(T \cup (todays \ T)) = Cardinality(todays) BY <2>1, <2>3
  <2> HIDE DEF T
  <2> QED BY <2>2, <2>4, <2>5
<1>13. Cardinality(todays \ T) <= Cardinality(later) BY <1>5, <1>11, FS_Subset
<1>14. Cardinality(T) \in Nat /\ Cardinality(todays \ T) \in Nat /\ Cardinality(later) \in Nat
  BY <1>5, FS_CardinalityType
<1>15. ASSUME NEW h \in Hour PROVE Cardinality(row1.hourly[h].people) <= row1.hourly[h].count
  <2>1. IsFiniteSet(At(h)) BY <1>5, FS_Subset
  <2>2. row1.hourly[h].count = Cardinality(At(h)) /\ row1.hourly[h].people = {p.person : p \in At(h)} BY <1>4
  <2>3. Cardinality({p.person : p \in At(h)}) <= Cardinality(At(h)) BY <2>1, PeopleAtMost
  <2> QED BY <2>2, <2>3
<1>16. DOMAIN row1.hourly = Hour BY <1>4
<1>17. inHours = Cardinality(T) BY <1>9, <1>10
<1>18. {p \in punches : p.serial = row1.serial /\ DayOf(p.at) > DayOf(now)} = later BY <1>4
<1> HIDE DEF T, later, inHours, Hour
<1>19. /\ inHours \in Int /\ row1.punchesToday \in Int /\ inHours <= row1.punchesToday
       /\ row1.punchesToday - inHours <= Cardinality(later)
  BY <1>4, <1>12, <1>13, <1>14, <1>17
<1>20. RowAddsUp(row1, now, punches) BY <1>15, <1>16, <1>18, <1>19 DEF RowAddsUp, inHours
<1> QED BY <1>20 DEF row1

\* More punches keep a row true.
LEMMA RowsStayTrue ==
  ASSUME NEW r, NEW now, NEW stored, NEW more, stored \subseteq more, IsFiniteSet(more), RowAddsUp(r, now, stored)
  PROVE  RowAddsUp(r, now, more)
<1> DEFINE Later(set) == {p \in set : p.serial = r.serial /\ DayOf(p.at) > DayOf(now)}
<1>1. IsFiniteSet(Later(more)) /\ Later(stored) \subseteq Later(more) BY FS_Subset
<1>2. Cardinality(Later(stored)) <= Cardinality(Later(more)) BY <1>1, FS_Subset
<1>3. Cardinality(Later(stored)) \in Nat /\ Cardinality(Later(more)) \in Nat
  <2>1. IsFiniteSet(Later(stored)) BY <1>1, FS_Subset
  <2> QED BY <1>1, <2>1, FS_CardinalityType
<1> DEFINE inHours == SumFunction([h \in DOMAIN r.hourly |-> r.hourly[h].count])
<1>4. /\ inHours \in Int /\ r.punchesToday \in Int /\ inHours <= r.punchesToday
      /\ r.punchesToday - inHours <= Cardinality(Later(stored))
      /\ \A h \in DOMAIN r.hourly : Cardinality(r.hourly[h].people) <= r.hourly[h].count
  BY DEF RowAddsUp
<1> HIDE DEF inHours, Later
<1>5. r.punchesToday - inHours <= Cardinality(Later(more)) BY <1>2, <1>3, <1>4
<1> QED BY <1>4, <1>5 DEF RowAddsUp, inHours, Later

\* Time, punches and readings that only grow keep a summary honest.
LEMMA ViewStaysHonest ==
  ASSUME NEW w, NEW time \in Nat, NEW time2 \in Nat, time <= time2,
         NEW given \in [Address -> [DeviceReading -> Int]], NEW given2 \in [Address -> [DeviceReading -> Int]],
         \A a \in Address, r \in DeviceReading : given[a][r] <= given2[a][r],
         NEW stored, NEW more, stored \subseteq more, IsFiniteSet(more),
         ViewIsHonest(w, time, given, stored)
  PROVE  ViewIsHonest(w, time2, given2, more)
<1>1. w.at \in Nat /\ w.at <= time2 BY DEF ViewIsHonest
<1>2. ASSUME w.step = "replied" PROVE w.at <= given2[Head(w.left).url][w.read]
  <2>1. w.left \in Seq([serial : Serial, url : Address]) /\ w.left # << >> BY <1>2 DEF ViewIsHonest
  <2>2. Head(w.left) \in [serial : Serial, url : Address] BY <2>1, HeadTailProperties
  <2>3. PICK a \in Address : a = Head(w.left).url BY <2>2
  <2>4. w.read \in DeviceReading /\ w.at <= given[a][w.read] BY <1>2, <2>3 DEF ViewIsHonest
  <2>5. given[a][w.read] \in Int /\ given2[a][w.read] \in Int /\ given[a][w.read] <= given2[a][w.read] BY <2>4
  <2> QED BY <1>1, <2>3, <2>4, <2>5
<1>3. \A i \in DOMAIN w.rows : RowAddsUp(w.rows[i], w.now, more) BY RowsStayTrue DEF ViewIsHonest
<1> QED BY <1>1, <1>2, <1>3 DEF ViewIsHonest

\* A row that adds up joins the rows.
LEMMA RowJoins ==
  ASSUME NEW w, NEW x, NEW stored, \E S : w.rows \in Seq(S),
         \A i \in DOMAIN w.rows : RowAddsUp(w.rows[i], w.now, stored), RowAddsUp(x, w.now, stored)
  PROVE  /\ \E S : Append(w.rows, x) \in Seq(S)
         /\ \A i \in DOMAIN Append(w.rows, x) : RowAddsUp(Append(w.rows, x)[i], w.now, stored)
<1>1. PICK S : w.rows \in Seq(S) OBVIOUS
<1>2. PICK T : T = S \cup {x} OBVIOUS
<1>3. w.rows \in Seq(T) /\ x \in T
  <2>1. S \subseteq T /\ x \in T BY <1>2
  <2> QED BY <1>1, <2>1, SMT
<1>4. /\ Append(w.rows, x) \in Seq(T)
      /\ Len(Append(w.rows, x)) = Len(w.rows) + 1
      /\ \A i \in 1..Len(w.rows) : Append(w.rows, x)[i] = w.rows[i]
      /\ Append(w.rows, x)[Len(w.rows) + 1] = x
  BY <1>3, AppendProperties
<1>5. Len(w.rows) \in Nat /\ DOMAIN w.rows = 1..Len(w.rows) /\ DOMAIN Append(w.rows, x) = 1..(Len(w.rows) + 1)
  BY <1>3, <1>4, LenProperties
<1>6. ASSUME NEW i \in DOMAIN Append(w.rows, x) PROVE RowAddsUp(Append(w.rows, x)[i], w.now, stored)
  <2>1. CASE i \in 1..Len(w.rows) BY <1>4, <1>5, <2>1
  <2>2. CASE i = Len(w.rows) + 1 BY <1>4, <2>2
  <2> QED BY <1>5, <2>1, <2>2
<1> QED BY <1>4, <1>6

\* A summary that is not under way is honest.
LEMMA NobodyLooks ==
  ASSUME NEW time \in Nat, NEW given, NEW stored
  PROVE  ViewIsHonest(NoView, time, given, stored)
<1>1. << >> \in Seq({}) /\ << >> \in Seq([serial : Serial, url : Address]) /\ DOMAIN << >> = {} OBVIOUS
<1> QED BY <1>1 DEF ViewIsHonest, NoView

\* The initial state is honest.
LEMMA SummaryStartsHonest == SummaryInit => SummaryIsHonest
<1> SUFFICES ASSUME SummaryInit PROVE SummaryIsHonest OBVIOUS
<1>1. SummaryTables
  <2>1. IsFiniteSet(punches) /\ punches \subseteq StoredPunch BY FS_EmptySet DEF SummaryInit
  <2>2. placed \in [Serial -> [url : Address \cup {NoAddress}, countsAttendance : BOOLEAN, lastSyncOk : BOOLEAN]]
    BY DEF SummaryInit
  <2>3. device \in [Address -> DeviceReading] /\ hour = 0 /\ \A a \in Address : device[a] = "ok"
    BY DEF SummaryInit, DeviceReading
  <2>4. kept \in [Serial -> [read : DeviceReading \cup {"null"}, at : Nat, from : Address \cup {NoAddress}]]
    BY DEF SummaryInit, NotKept
  <2>5. -1 - MaxTime \in Int /\ -1 - MaxTime <= 0 BY SummaryAssumption
  <2>6. \A a \in Address, r \in DeviceReading :
          gave[a][r] = (IF r = "ok" THEN 0 ELSE -1 - MaxTime)
    BY DEF SummaryInit
  <2>7. gave \in [Address -> [DeviceReading -> Int]] BY <2>5 DEF SummaryInit
  <2>8. \A a \in Address : gave[a][device[a]] = hour /\ \A r \in DeviceReading : gave[a][r] <= hour
    BY <2>3, <2>5, <2>6
  <2> QED BY <2>1, <2>2, <2>3, <2>4, <2>7, <2>8 DEF SummaryTables
<1>2. \A s \in Serial : KeptIsHonest(kept[s], gave) BY DEF SummaryInit, NotKept, KeptIsHonest
<1>3. view = [v \in Watcher |-> view[v]] BY DEF SummaryInit
<1>4. hour \in Nat BY <1>1 DEF SummaryTables
<1>5. ASSUME NEW v \in Watcher PROVE ViewIsHonest(view[v], hour, gave, punches)
  <2>1. view[v] = NoView BY DEF SummaryInit
  <2> QED BY <1>4, <2>1, NobodyLooks
<1> QED BY <1>1, <1>2, <1>3, <1>5 DEF SummaryIsHonest

\* A summary of clocks keeps its place while the rest of the tables grow.
LEMMA SummaryGoesOn ==
  ASSUME SummaryIsHonest, SummaryTables', hour <= hour', punches \subseteq punches',
         \A a \in Address, r \in DeviceReading : gave[a][r] <= gave'[a][r]
  PROVE  /\ \A s \in Serial : kept'[s] = kept[s] => KeptIsHonest(kept'[s], gave')
         /\ \A v \in Watcher : view'[v] = view[v] => ViewIsHonest(view'[v], hour', gave', punches')
<1>1. hour \in Nat /\ hour' \in Nat /\ IsFiniteSet(punches') /\ gave \in [Address -> [DeviceReading -> Int]]
      /\ gave' \in [Address -> [DeviceReading -> Int]]
      /\ kept \in [Serial -> [read : DeviceReading \cup {"null"}, at : Nat, from : Address \cup {NoAddress}]]
  BY DEF SummaryIsHonest, SummaryTables
<1>2. ASSUME NEW s \in Serial, kept'[s] = kept[s] PROVE KeptIsHonest(kept'[s], gave')
  <2> SUFFICES ASSUME kept[s].read # "null" PROVE kept[s].from \in Address /\ kept[s].at <= gave'[kept[s].from][kept[s].read]
    BY <1>2 DEF KeptIsHonest
  <2>1. kept[s].from \in Address /\ kept[s].at <= gave[kept[s].from][kept[s].read] BY DEF SummaryIsHonest, KeptIsHonest
  <2>2. kept[s].read \in DeviceReading /\ kept[s].at \in Nat BY <1>1
  <2>3. PICK a \in Address, r \in DeviceReading : a = kept[s].from /\ r = kept[s].read BY <2>1, <2>2
  <2>4. gave[a][r] \in Int /\ gave'[a][r] \in Int /\ gave[a][r] <= gave'[a][r] BY <1>1
  <2> QED BY <2>1, <2>2, <2>3, <2>4
<1>3. ASSUME NEW v \in Watcher, view'[v] = view[v] PROVE ViewIsHonest(view'[v], hour', gave', punches')
  <2>1. ViewIsHonest(view[v], hour, gave, punches) BY DEF SummaryIsHonest
  <2>2. ViewIsHonest(view[v], hour', gave', punches') BY <1>1, <2>1, ViewStaysHonest
  <2> QED BY <1>3, <2>2
<1> QED BY <1>2, <1>3

\* The step of a summary that reads no device leaves the readings as they are.
LEMMA ViewMoves ==
  ASSUME SummaryIsHonest, NEW v \in Watcher, NEW w, view' = [view EXCEPT ![v] = w],
         ViewIsHonest(w, hour, gave, punches), UNCHANGED <<device, placed, punches, kept, hour, gave>>
  PROVE  SummaryIsHonest'
<1>1. SummaryTables' BY DEF SummaryIsHonest, SummaryTables
<1>2. view' = [u \in Watcher |-> view'[u]] /\ \A u \in Watcher : view'[u] = IF u = v THEN w ELSE view[u]
  BY DEF SummaryIsHonest
<1>3. \A u \in Watcher : ViewIsHonest(view'[u], hour, gave, punches) BY <1>2 DEF SummaryIsHonest
<1>4. \A s \in Serial : KeptIsHonest(kept'[s], gave) BY DEF SummaryIsHonest
<1>5. (\A s \in Serial : KeptIsHonest(kept[s], gave))' BY <1>4
<1>6. (\A u \in Watcher : ViewIsHonest(view[u], hour, gave, punches))' BY <1>3
<1>7. (view = [u \in Watcher |-> view[u]])' BY <1>2
<1> QED BY <1>1, <1>5, <1>6, <1>7 DEF SummaryIsHonest

\* Each step of a summary is honest.
LEMMA SummariesStayHonest ==
  ASSUME SummaryIsHonest, NEW v \in Watcher,
         Summarise(v) \/ DeviceFor(v) \/ DeviceReplies(v) \/ ReplyArrives(v) \/ Shown(v)
  PROVE  SummaryIsHonest'
<1> PICK w : w = view[v] OBVIOUS
<1>0. /\ w = [left |-> w.left, step |-> w.step, now |-> w.now, at |-> w.at, read |-> w.read,
              rows |-> w.rows, alerts |-> w.alerts]
      /\ w.left \in Seq([serial : Serial, url : Address])
      /\ w.now \in Nat /\ w.at \in Nat /\ w.at <= hour
      /\ \E S : w.rows \in Seq(S)
      /\ \A i \in DOMAIN w.rows : RowAddsUp(w.rows[i], w.now, punches)
      /\ w.step \in {"asking", "replied"} => w.left # << >>
      /\ w.step = "replied" => w.read \in DeviceReading /\ w.at <= gave[Head(w.left).url][w.read]
  BY DEF SummaryIsHonest, ViewIsHonest
<1>t. /\ device \in [Address -> DeviceReading]
      /\ placed \in [Serial -> [url : Address \cup {NoAddress}, countsAttendance : BOOLEAN, lastSyncOk : BOOLEAN]]
      /\ IsFiniteSet(punches) /\ punches \subseteq StoredPunch
      /\ kept \in [Serial -> [read : DeviceReading \cup {"null"}, at : Nat, from : Address \cup {NoAddress}]]
      /\ hour \in Nat
      /\ gave \in [Address -> [DeviceReading -> Int]]
      /\ \A a \in Address : gave[a][device[a]] = hour
  BY DEF SummaryIsHonest, SummaryTables
<1>h. w.left # << >> => /\ Head(w.left).serial \in Serial /\ Head(w.left).url \in Address
                        /\ Tail(w.left) \in Seq([serial : Serial, url : Address])
  <2> SUFFICES ASSUME w.left # << >> PROVE /\ Head(w.left) \in [serial : Serial, url : Address]
                                           /\ Tail(w.left) \in Seq([serial : Serial, url : Address])
    OBVIOUS
  <2> QED BY <1>0, HeadTailProperties
<1>1. CASE Summarise(v)
  <2> DEFINE asked == {s \in Serial : placed[s].url # NoAddress}
  <2>1. PICK order \in [1..Cardinality(asked) -> asked] :
          view' = [view EXCEPT ![v] =
            [NoView EXCEPT !.left = [i \in DOMAIN order |->
                                       [serial |-> order[i], url |-> placed[order[i]].url]],
                           !.step = "clocks", !.now = hour, !.alerts = BuildAlerts("ONLINE", TRUE, roster)]]
    BY <1>1 DEF Summarise
  <2>2. PICK left : left = [i \in DOMAIN order |-> [serial |-> order[i], url |-> placed[order[i]].url]] OBVIOUS
  <2>3. PICK alerts : alerts = BuildAlerts("ONLINE", TRUE, roster) OBVIOUS
  <2>4. PICK new : new = [NoView EXCEPT !.left = left, !.step = "clocks", !.now = hour, !.alerts = alerts] OBVIOUS
  <2>5. view' = [view EXCEPT ![v] = new] BY <2>1, <2>2, <2>3, <2>4, Zenon
  <2>n. new = [left |-> left, step |-> "clocks", now |-> hour, at |-> 0, read |-> "null", rows |-> << >>, alerts |-> alerts]
    BY <2>4 DEF NoView
  <2>6. left \in Seq([serial : Serial, url : Address])
    <3>1. IsFiniteSet(asked) BY SummaryAssumption, FS_Subset
    <3>2. Cardinality(asked) \in Nat BY <3>1, FS_CardinalityType
    <3>3. \A i \in DOMAIN order : order[i] \in Serial /\ placed[order[i]].url \in Address BY <1>t
    <3>4. left \in [1..Cardinality(asked) -> [serial : Serial, url : Address]] BY <2>2, <3>3
    <3>5. PICK n \in Nat : n = Cardinality(asked) BY <3>2
    <3>6. PICK T : T = [serial : Serial, url : Address] OBVIOUS
    <3>7. left \in [1..n -> T] BY <3>4, <3>5, <3>6
    <3>8. left \in Seq(T) BY <3>7
    <3> QED BY <3>6, <3>8
  <2>7. << >> \in Seq({}) /\ DOMAIN << >> = {} OBVIOUS
  <2>8. ViewIsHonest(new, hour, gave, punches) BY <1>t, <2>n, <2>6, <2>7 DEF ViewIsHonest
  <2>9. UNCHANGED <<device, placed, punches, kept, hour, gave>> BY <1>1 DEF Summarise
  <2> QED BY <2>5, <2>8, <2>9, ViewMoves
<1>2. CASE DeviceFor(v)
  <2>0. w.left # << >> /\ w.step = "clocks" /\ UNCHANGED <<device, placed, punches, kept, hour, gave>> BY <1>2 DEF DeviceFor
  <2> PICK s : s = Head(w.left).serial OBVIOUS
  <2>s. s \in Serial BY <1>h, <2>0
  <2>1. CASE Serves(s)
    <3>1. PICK x : x = Row(s, kept[s].read, w.now) OBVIOUS
    <3>2. PICK new : new = [w EXCEPT !.left = Tail(w.left), !.rows = Append(w.rows, x)] OBVIOUS
    <3>3. view' = [view EXCEPT ![v] = new] BY <1>2, <2>1, <3>1, <3>2 DEF DeviceFor
    <3>4. RowAddsUp(x, w.now, punches) BY <1>0, <1>t, <2>s, <3>1, RowsAddUp
    <3>5. /\ \E S : Append(w.rows, x) \in Seq(S)
          /\ \A i \in DOMAIN Append(w.rows, x) : RowAddsUp(Append(w.rows, x)[i], w.now, punches)
      BY <1>0, <3>4, RowJoins
    <3>6. new = [left |-> Tail(w.left), step |-> w.step, now |-> w.now, at |-> w.at, read |-> w.read,
                 rows |-> Append(w.rows, x), alerts |-> w.alerts]
      BY <1>0, <3>2
    <3>7. ViewIsHonest(new, hour, gave, punches) BY <1>0, <1>h, <2>0, <3>5, <3>6 DEF ViewIsHonest
    <3> QED BY <2>0, <3>3, <3>7, ViewMoves
  <2>2. CASE ~Serves(s)
    <3>1. PICK new : new = [w EXCEPT !.step = "asking", !.at = hour] OBVIOUS
    <3>2. view' = [view EXCEPT ![v] = new] BY <1>2, <2>2, <3>1 DEF DeviceFor
    <3>3. new = [left |-> w.left, step |-> "asking", now |-> w.now, at |-> hour, read |-> w.read,
                 rows |-> w.rows, alerts |-> w.alerts]
      BY <1>0, <3>1
    <3>4. ViewIsHonest(new, hour, gave, punches) BY <1>0, <1>t, <2>0, <3>3 DEF ViewIsHonest
    <3> QED BY <2>0, <3>2, <3>4, ViewMoves
  <2> QED BY <2>1, <2>2
<1>3. CASE DeviceReplies(v)
  <2>0. w.left # << >> /\ w.step = "asking" /\ UNCHANGED <<device, placed, punches, kept, hour, gave>>
    BY <1>0, <1>3 DEF DeviceReplies
  <2>1. PICK a \in Address : a = Head(w.left).url BY <1>h, <2>0
  <2>2. PICK new : new = [w EXCEPT !.step = "replied", !.read = device[a]] OBVIOUS
  <2>3. view' = [view EXCEPT ![v] = new] BY <1>3, <2>1, <2>2 DEF DeviceReplies
  <2>4. new = [left |-> w.left, step |-> "replied", now |-> w.now, at |-> w.at, read |-> device[a],
               rows |-> w.rows, alerts |-> w.alerts]
    BY <1>0, <2>2
  <2>5. device[a] \in DeviceReading /\ gave[a][device[a]] = hour BY <1>t
  <2>6. ViewIsHonest(new, hour, gave, punches) BY <1>0, <2>0, <2>1, <2>4, <2>5 DEF ViewIsHonest
  <2> QED BY <2>0, <2>3, <2>6, ViewMoves
<1>4. CASE ReplyArrives(v)
  <2>0. w.step = "replied" /\ w.left # << >> /\ UNCHANGED <<device, placed, punches, hour, gave>>
    BY <1>0, <1>4 DEF ReplyArrives
  <2> PICK s : s = Head(w.left).serial OBVIOUS
  <2>s. s \in Serial BY <1>h, <2>0
  <2>1. PICK x : x = Row(s, w.read, w.now) OBVIOUS
  <2>2. PICK new : new = [w EXCEPT !.step = "clocks", !.left = Tail(w.left), !.read = "null",
                                   !.at = 0, !.rows = Append(w.rows, x)]
    OBVIOUS
  <2>3. view' = [view EXCEPT ![v] = new] BY <1>4, <2>1, <2>2 DEF ReplyArrives
  <2>4. PICK e : e = [read |-> w.read, at |-> w.at, from |-> Head(w.left).url] OBVIOUS
  <2>5. kept' = [kept EXCEPT ![s] = e] BY <1>4, <2>4 DEF ReplyArrives, Entry
  <2>6. RowAddsUp(x, w.now, punches) BY <1>0, <1>t, <2>s, <2>1, RowsAddUp
  <2>7. /\ \E S : Append(w.rows, x) \in Seq(S)
        /\ \A i \in DOMAIN Append(w.rows, x) : RowAddsUp(Append(w.rows, x)[i], w.now, punches)
    BY <1>0, <2>6, RowJoins
  <2>8. new = [left |-> Tail(w.left), step |-> "clocks", now |-> w.now, at |-> 0, read |-> "null",
               rows |-> Append(w.rows, x), alerts |-> w.alerts]
    BY <1>0, <2>2
  <2>l. new.left \in Seq([serial : Serial, url : Address]) BY <1>h, <2>0, <2>8
  <2>9. ViewIsHonest(new, hour, gave, punches)
    <3>1. PICK more : more = Append(w.rows, x) OBVIOUS
    <3>2. (\E S : more \in Seq(S)) /\ \A i \in DOMAIN more : RowAddsUp(more[i], w.now, punches) BY <2>7, <3>1
    <3>3. new = [left |-> new.left, step |-> "clocks", now |-> w.now, at |-> 0, read |-> "null", rows |-> more,
                 alerts |-> w.alerts]
      BY <2>8, <3>1
    <3>4. 0 <= hour BY <1>t
    <3> QED BY <1>0, <2>l, <3>2, <3>3, <3>4 DEF ViewIsHonest
  <2>10. e \in [read : DeviceReading \cup {"null"}, at : Nat, from : Address \cup {NoAddress}] /\ KeptIsHonest(e, gave)
    BY <1>0, <1>h, <2>0, <2>4 DEF KeptIsHonest
  <2>11. SummaryTables' BY <2>0, <2>5, <2>10 DEF SummaryIsHonest, SummaryTables
  <2>12. \A t \in Serial : KeptIsHonest(kept'[t], gave) BY <1>t, <2>5, <2>10 DEF SummaryIsHonest
  <2>13. view' = [u \in Watcher |-> view'[u]] /\ \A u \in Watcher : view'[u] = IF u = v THEN new ELSE view[u]
    BY <2>3 DEF SummaryIsHonest
  <2>14. \A u \in Watcher : ViewIsHonest(view'[u], hour, gave, punches) BY <2>9, <2>13 DEF SummaryIsHonest
  <2>15. (\A t \in Serial : KeptIsHonest(kept[t], gave))' BY <2>0, <2>12
  <2>16. (\A u \in Watcher : ViewIsHonest(view[u], hour, gave, punches))' BY <2>0, <2>14
  <2>17. (view = [u \in Watcher |-> view[u]])' BY <2>13
  <2> QED BY <2>11, <2>15, <2>16, <2>17 DEF SummaryIsHonest
<1>5. CASE Shown(v)
  <2>1. view' = [view EXCEPT ![v] = NoView] /\ UNCHANGED <<device, placed, punches, kept, hour, gave>> BY <1>5 DEF Shown
  <2>2. ViewIsHonest(NoView, hour, gave, punches) BY <1>t, NobodyLooks
  <2> QED BY <2>1, <2>2, ViewMoves
<1> QED BY <1>1, <1>2, <1>3, <1>4, <1>5

\* What happens meanwhile keeps the summaries honest.
LEMMA ClocksStayHonest ==
  ASSUME SummaryIsHonest,
         \/ \E a \in Address, r \in DeviceReading : DeviceChanges(a, r)
         \/ \E s \in Serial, url \in Address \cup {NoAddress}, ok \in BOOLEAN : ClockChanges(s, url, ok)
         \/ \E facts : RosterChanges(facts)
         \/ \E s \in Serial, p \in Person, ahead \in {0, 1} : PunchStored(s, p, ahead)
         \/ DashboardHour
  PROVE  SummaryIsHonest'
<1>t. /\ device \in [Address -> DeviceReading]
      /\ placed \in [Serial -> [url : Address \cup {NoAddress}, countsAttendance : BOOLEAN, lastSyncOk : BOOLEAN]]
      /\ IsFiniteSet(punches) /\ punches \subseteq StoredPunch
      /\ kept \in [Serial -> [read : DeviceReading \cup {"null"}, at : Nat, from : Address \cup {NoAddress}]]
      /\ hour \in Nat
      /\ gave \in [Address -> [DeviceReading -> Int]]
      /\ \A a \in Address : gave[a][device[a]] = hour /\ \A r \in DeviceReading : gave[a][r] <= hour
  BY DEF SummaryIsHonest, SummaryTables
<1>g. \A a \in Address, r \in DeviceReading : gave[a][r] <= gave[a][r] BY <1>t
<1>1. /\ SummaryTables' /\ UNCHANGED <<kept, view>> /\ hour <= hour' /\ punches \subseteq punches'
      /\ \A a \in Address, r \in DeviceReading : gave[a][r] <= gave'[a][r]
  <2>1. ASSUME NEW a \in Address, NEW r \in DeviceReading, DeviceChanges(a, r) PROVE <1>1!:
    <3>1. /\ device' = [device EXCEPT ![a] = r] /\ gave' = [gave EXCEPT ![a] = [gave[a] EXCEPT ![r] = hour]]
          /\ UNCHANGED <<placed, punches, kept, view, hour>>
      BY <2>1 DEF DeviceChanges
    <3>2. \A b \in Address, q \in DeviceReading :
            gave'[b][q] = IF b = a /\ q = r THEN hour ELSE gave[b][q]
      BY <1>t, <3>1
    <3>3. \A b \in Address : device'[b] = IF b = a THEN r ELSE device[b] BY <1>t, <3>1
    <3>4. gave' \in [Address -> [DeviceReading -> Int]] /\ device' \in [Address -> DeviceReading] BY <1>t, <3>1
    <3>5. \A b \in Address : gave'[b][device'[b]] = hour /\ \A q \in DeviceReading : gave'[b][q] <= hour
      BY <1>t, <3>2, <3>3
    <3>6. SummaryTables' BY <1>t, <3>1, <3>4, <3>5 DEF SummaryTables
    <3> QED BY <1>t, <3>1, <3>2, <3>6
  <2>2. ASSUME NEW s \in Serial, NEW url \in Address \cup {NoAddress}, NEW ok \in BOOLEAN, ClockChanges(s, url, ok)
        PROVE  <1>1!:
    <3>1. placed' = [placed EXCEPT ![s].url = url, ![s].lastSyncOk = ok] /\ UNCHANGED <<device, punches, kept, view, hour, gave>>
      BY <2>2 DEF ClockChanges
    <3>2. placed' \in [Serial -> [url : Address \cup {NoAddress}, countsAttendance : BOOLEAN, lastSyncOk : BOOLEAN]]
      BY ZenonT(30), <1>t, <3>1
    <3> QED BY <1>t, <1>g, <3>1, <3>2 DEF SummaryTables
  <2>3. ASSUME NEW facts, RosterChanges(facts) PROVE <1>1!:
    BY <1>t, <1>g, <2>3 DEF RosterChanges, SummaryTables
  <2>4. ASSUME NEW s \in Serial, NEW p \in Person, NEW ahead \in {0, 1}, PunchStored(s, p, ahead) PROVE <1>1!:
    <3>1. PICK x : x = [serial |-> s, at |-> hour + ahead, person |-> p] OBVIOUS
    <3>2. punches' = punches \cup {x} /\ UNCHANGED <<device, placed, kept, view, hour, gave>> BY <2>4, <3>1 DEF PunchStored
    <3>3. x \in StoredPunch BY <1>t, <3>1 DEF StoredPunch
    <3>4. IsFiniteSet(punches') /\ punches' \subseteq StoredPunch BY <1>t, <3>2, <3>3, FS_AddElement
    <3> QED BY <1>t, <1>g, <3>2, <3>4 DEF SummaryTables
  <2>5. ASSUME DashboardHour PROVE <1>1!:
    <3>1. /\ hour' = hour + 1 /\ UNCHANGED <<device, placed, punches, kept, view>>
          /\ gave' = [a \in Address |-> [gave[a] EXCEPT ![device[a]] = hour + 1]]
      BY <2>5 DEF DashboardHour
    <3>2. \A a \in Address, r \in DeviceReading : gave'[a][r] = IF r = device[a] THEN hour + 1 ELSE gave[a][r]
      BY <1>t, <3>1
    <3>3. gave' \in [Address -> [DeviceReading -> Int]] BY <1>t, <3>1
    <3>4. \A a \in Address, r \in DeviceReading : gave[a][r] \in Int /\ gave[a][r] <= hour BY <1>t
    <3>5. \A a \in Address : gave'[a][device[a]] = hour + 1 /\ \A r \in DeviceReading : gave'[a][r] <= hour + 1
      BY <1>t, <3>2, <3>4
    <3>6. SummaryTables' BY <1>t, <3>1, <3>3, <3>5 DEF SummaryTables
    <3>7. \A a \in Address, r \in DeviceReading : gave[a][r] <= gave'[a][r] BY <1>t, <3>2, <3>4
    <3> QED BY <1>t, <3>1, <3>6, <3>7
  <2> QED BY <2>1, <2>2, <2>3, <2>4, <2>5
<1>2. /\ \A s \in Serial : KeptIsHonest(kept'[s], gave')
      /\ \A v \in Watcher : ViewIsHonest(view'[v], hour', gave', punches')
  <2>1. kept' = kept /\ view' = view BY <1>1
  <2>2. /\ \A s \in Serial : kept'[s] = kept[s] => KeptIsHonest(kept'[s], gave')
        /\ \A v \in Watcher : view'[v] = view[v] => ViewIsHonest(view'[v], hour', gave', punches')
    BY <1>1, SummaryGoesOn
  <2> QED BY <2>1, <2>2
<1>3. (view = [v \in Watcher |-> view[v]])' BY <1>1 DEF SummaryIsHonest
<1>4. (\A s \in Serial : KeptIsHonest(kept[s], gave))' BY <1>2
<1>5. (\A v \in Watcher : ViewIsHonest(view[v], hour, gave, punches))' BY <1>2
<1> QED BY <1>1, <1>3, <1>4, <1>5 DEF SummaryIsHonest

\* Honest summaries show what the property asks.
LEMMA HonestSummariesAreTrue == SummaryIsHonest => SummaryIsTrue
<1> SUFFICES ASSUME SummaryIsHonest PROVE SummaryIsTrue OBVIOUS
<1>1. ReadingsAreRecent
  <2> SUFFICES ASSUME NEW s \in Serial, Serves(s) PROVE hour - gave[kept[s].from][kept[s].read] < DEVICE_READ_TTL
    BY DEF ReadingsAreRecent
  <2>1. kept[s].from \in Address /\ kept[s].at <= gave[kept[s].from][kept[s].read]
    BY DEF SummaryIsHonest, KeptIsHonest, Serves
  <2>2. kept[s].read \in DeviceReading /\ kept[s].at \in Nat /\ hour \in Nat
    BY DEF SummaryIsHonest, SummaryTables, Serves
  <2>3. gave[kept[s].from][kept[s].read] \in Int BY <2>1, <2>2 DEF SummaryIsHonest, SummaryTables
  <2>4. hour - kept[s].at < DEVICE_READ_TTL BY DEF Serves
  <2>5. DEVICE_READ_TTL \in Nat BY SummaryAssumption
  <2> QED BY <2>1, <2>2, <2>3, <2>4, <2>5
<1>2. HoursAddUp
  <2>1. \A v \in Watcher : \A i \in DOMAIN view[v].rows : RowAddsUp(view[v].rows[i], view[v].now, punches)
    BY DEF SummaryIsHonest, ViewIsHonest
  <2> QED BY <2>1 DEF HoursAddUp, RowAddsUp
<1> QED BY <1>1, <1>2 DEF SummaryIsTrue

(* A reading that still serves is one its device would have given less     *)
(* than DEVICE_READ_TTL ago, whichever of several overlapping summaries    *)
(* kept it and however long its answer took, and the hours of a row of the *)
(* summary hold the punches it counts (device-status.service.ts,           *)
(* clock-summary.ts).                                                      *)
THEOREM SummariesAreTrue == SummarySpec => []SummaryIsTrue
<1>1. SummaryInit => SummaryIsHonest BY SummaryStartsHonest
<1>2. SummaryIsHonest /\ [SummaryNext]_summaryVars => SummaryIsHonest'
  <2> SUFFICES ASSUME SummaryIsHonest, [SummaryNext]_summaryVars PROVE SummaryIsHonest' OBVIOUS
  <2>1. CASE \E v \in Watcher : Summarise(v) \/ DeviceFor(v) \/ DeviceReplies(v) \/ ReplyArrives(v) \/ Shown(v)
    BY <2>1, SummariesStayHonest
  <2>2. CASE \E a \in Address, r \in DeviceReading : DeviceChanges(a, r) BY <2>2, ClocksStayHonest
  <2>3. CASE \E s \in Serial, url \in Address \cup {NoAddress}, ok \in BOOLEAN : ClockChanges(s, url, ok)
    BY <2>3, ClocksStayHonest
  <2>4. CASE \E facts \in [suspicious : {TRUE}, pendingRemovals : {1}, reappeared : {1}, unlinked : {0}] :
               RosterChanges(facts)
    BY <2>4, ClocksStayHonest
  <2>5. CASE \E s \in Serial, p \in Person, ahead \in {0, 1} : PunchStored(s, p, ahead) BY <2>5, ClocksStayHonest
  <2>6. CASE DashboardHour BY <2>6, ClocksStayHonest
  <2>7. CASE UNCHANGED summaryVars
    BY <2>7 DEF summaryVars, SummaryIsHonest, SummaryTables
  <2> QED BY <2>1, <2>2, <2>3, <2>4, <2>5, <2>6, <2>7 DEF SummaryNext
<1> QED BY <1>1, <1>2, HonestSummariesAreTrue, PTL DEF SummarySpec

-----------------------------------------------------------------------------
(* The periods of the calendar.                                            *)

\* A zone whose clock changes once, by an hour, at two in the morning of some day.
Zone(tz, k) ==
  /\ k \in Int /\ tz.before \in -12..14 /\ tz.shift \in {-1, 1}
  /\ tz.change = k * 24 + 2 - tz.before

\* Two passes find the local midnight, on the days of the change too.
LEMMA Midnights ==
  ASSUME NEW tz, NEW k, Zone(tz, k), NEW day \in Int
  PROVE  ZonedTimeToUtc(day, tz) = IF day <= k THEN day * 24 - tz.before ELSE day * 24 - tz.before - tz.shift
BY DEF Zone, ZonedTimeToUtc, OffsetMs

\* The local date of an instant is the one between whose midnights it lies.
LEMMA LocalDates ==
  ASSUME NEW tz, NEW k, Zone(tz, k), NEW t \in Int, NEW d \in Int
  PROVE  /\ LocalDateKey(t, tz) \in Int
         /\ LocalDateKey(t, tz) = d <=> ZonedTimeToUtc(d, tz) <= t /\ t < ZonedTimeToUtc(d + 1, tz)
<1>1. PICK b \in Int, s \in {-1, 1} : b = tz.before /\ s = tz.shift /\ k \in Int /\ tz.change = k * 24 + 2 - b BY DEF Zone
<1>2. ZonedTimeToUtc(d, tz) = IF d <= k THEN d * 24 - b ELSE d * 24 - b - s BY <1>1, Midnights
<1>3. ZonedTimeToUtc(d + 1, tz) = IF d + 1 <= k THEN (d + 1) * 24 - b ELSE (d + 1) * 24 - b - s BY <1>1, Midnights
<1>4. PICK o \in Int : o = OffsetMs(t, tz) /\ o = IF t < k * 24 + 2 - b THEN b ELSE b + s BY <1>1 DEF OffsetMs
<1>5. LocalDateKey(t, tz) = (t + o) \div 24 BY <1>4 DEF LocalDateKey
<1>6. PICK q \in Int : q = (t + o) \div 24 /\ q * 24 <= t + o /\ t + o < q * 24 + 24 BY SMT
<1>7. q = d <=> d * 24 <= t + o /\ t + o < d * 24 + 24 BY <1>6, SMT
<1>8. CASE t < k * 24 + 2 - b BY <1>1, <1>2, <1>3, <1>4, <1>5, <1>6, <1>7, <1>8, SMT
<1>9. CASE ~(t < k * 24 + 2 - b) BY <1>1, <1>2, <1>3, <1>4, <1>5, <1>6, <1>7, <1>9, SMT
<1> QED BY <1>8, <1>9

\* Local midnights follow each other.
LEMMA MidnightsFollow ==
  ASSUME NEW tz, NEW k, Zone(tz, k), NEW a \in Int, NEW b \in Int, a <= b
  PROVE  /\ ZonedTimeToUtc(a, tz) \in Int /\ ZonedTimeToUtc(b, tz) \in Int
         /\ ZonedTimeToUtc(a, tz) <= ZonedTimeToUtc(b, tz)
         /\ ZonedTimeToUtc(a, tz) < ZonedTimeToUtc(a + 1, tz)
<1>1. PICK o \in Int, s \in {-1, 1} : o = tz.before /\ s = tz.shift /\ k \in Int BY DEF Zone
<1>2. ZonedTimeToUtc(a, tz) = IF a <= k THEN a * 24 - o ELSE a * 24 - o - s BY <1>1, Midnights
<1>3. ZonedTimeToUtc(b, tz) = IF b <= k THEN b * 24 - o ELSE b * 24 - o - s BY <1>1, Midnights
<1>4. ZonedTimeToUtc(a + 1, tz) = IF a + 1 <= k THEN (a + 1) * 24 - o ELSE (a + 1) * 24 - o - s BY <1>1, Midnights
<1> QED BY <1>1, <1>2, <1>3, <1>4, SMT

-----------------------------------------------------------------------------
\* The years and months of the table of dates.
Years == FirstYear..(FirstYear + LastDay \div 365 + 2)
YearLength(y) == IF Leap(y) THEN 366 ELSE 365
DaysOf(ym) == DaysInMonth(ym[1], ym[2])

\* Days of the years before a year, and of the months of a year before a month.
YearsBefore(y) == SumFunction([k \in FirstYear..(y - 1) |-> YearLength(k)])
MonthsBefore(y, m) == SumFunction([k \in 1..(m - 1) |-> DaysInMonth(y, k)])

\* What the table holds for a month.
LEMMA TableOfDates ==
  \A y \in Years, m \in 1..12 : DaysBefore[<<y, m>>] = YearsBefore(y) + MonthsBefore(y, m)
<1>1. DaysBefore = [ym \in YearMonth |-> YearsBefore(ym[1]) + MonthsBefore(ym[1], ym[2])]
  BY DEF DaysBefore, YearsBefore, MonthsBefore, YearLength
<1>2. \A y \in Years, m \in 1..12 : <<y, m>> \in YearMonth BY DEF Years, YearMonth
<1> QED BY <1>1, <1>2

\* A sum over an interval of naturals takes its last term.
LEMMA IntervalSum ==
  ASSUME NEW a \in Nat, NEW b \in Nat, a <= b, NEW f, NEW g, f = [k \in a..(b - 1) |-> f[k]],
         g = [k \in a..b |-> g[k]], \A k \in a..b : g[k] \in Nat, \A k \in a..(b - 1) : f[k] = g[k]
  PROVE  SumFunction(g) = SumFunction(f) + g[b] /\ SumFunction(f) \in Nat
<1>1. PICK S : S = a..(b - 1) OBVIOUS
<1>2. a..b = S \cup {b} /\ b \notin S BY <1>1
<1>3. IsFiniteSet(S) BY <1>1, FS_Interval
<1>4. SumFunctionOnSet(g, S \cup {b}) = g[b] + SumFunctionOnSet(g, S)
  <2>1. \A y \in S \cup {b} : g[y] \in Int BY <1>2
  <2> QED BY <1>2, <1>3, <2>1, SumWithOne
<1>5. SumFunctionOnSet(f, S) = SumFunctionOnSet(g, S) BY <1>1, <1>3, SumOfEquals
<1>6. SumFunctionOnSet(g, S) \in Nat BY <1>2, <1>3, SumIsNumber
<1>7. SumFunction(g) = SumFunctionOnSet(g, S \cup {b}) /\ SumFunction(f) = SumFunctionOnSet(f, S)
  <2>1. DOMAIN g = S \cup {b} /\ DOMAIN f = S BY <1>1, <1>2
  <2> QED BY <2>1 DEF SumFunction
<1> QED BY <1>4, <1>5, <1>6, <1>7

\* A sum over an empty interval.
LEMMA EmptySum ==
  ASSUME NEW f, DOMAIN f = {}
  PROVE  SumFunction(f) = 0
BY SumOfNone DEF SumFunction

\* A year follows a year.
LEMMA YearAfterYear ==
  ASSUME NEW y \in Nat, y >= FirstYear
  PROVE  YearsBefore(y) \in Nat /\ YearsBefore(y + 1) = YearsBefore(y) + YearLength(y)
<1>1. PICK a \in Nat : a = FirstYear /\ a <= y BY CalendarAssumption
<1>2. PICK f : f = [k \in a..(y - 1) |-> YearLength(k)] OBVIOUS
<1>3. PICK g : g = [k \in a..y |-> YearLength(k)] OBVIOUS
<1>4. \A k : YearLength(k) \in Nat BY DEF YearLength
<1>5. SumFunction(g) = SumFunction(f) + g[y] /\ SumFunction(f) \in Nat
  <2>1. f = [k \in a..(y - 1) |-> f[k]] /\ g = [k \in a..y |-> g[k]] BY <1>2, <1>3
  <2>2. (\A k \in a..y : g[k] \in Nat) /\ \A k \in a..(y - 1) : f[k] = g[k] BY <1>2, <1>3, <1>4
  <2> QED BY <1>1, <2>1, <2>2, IntervalSum
<1>6. YearsBefore(y) = SumFunction(f) BY <1>1, <1>2 DEF YearsBefore
<1>7. (y + 1) - 1 = y OBVIOUS
<1>8. YearsBefore(y + 1) = SumFunction(g) BY <1>1, <1>3, <1>7 DEF YearsBefore
<1>9. g[y] = YearLength(y) BY <1>1, <1>3
<1> QED BY <1>5, <1>6, <1>8, <1>9

\* A month follows a month of the year.
LEMMA MonthAfterMonth ==
  ASSUME NEW y, NEW m \in 1..12
  PROVE  MonthsBefore(y, m) \in Nat /\ MonthsBefore(y, m + 1) = MonthsBefore(y, m) + DaysInMonth(y, m)
<1>2. PICK f : f = [k \in 1..(m - 1) |-> DaysInMonth(y, k)] OBVIOUS
<1>3. PICK g : g = [k \in 1..m |-> DaysInMonth(y, k)] OBVIOUS
<1>4. \A k : DaysInMonth(y, k) \in Nat BY DEF DaysInMonth
<1>5. SumFunction(g) = SumFunction(f) + g[m] /\ SumFunction(f) \in Nat
  <2>1. f = [k \in 1..(m - 1) |-> f[k]] /\ g = [k \in 1..m |-> g[k]] BY <1>2, <1>3
  <2>2. (\A k \in 1..m : g[k] \in Nat) /\ \A k \in 1..(m - 1) : f[k] = g[k] BY <1>2, <1>3, <1>4
  <2>3. m \in Nat /\ 1 \in Nat /\ 1 <= m OBVIOUS
  <2> QED BY <2>1, <2>2, <2>3, IntervalSum
<1>6. MonthsBefore(y, m) = SumFunction(f) BY <1>2 DEF MonthsBefore
<1>7. (m + 1) - 1 = m OBVIOUS
<1>8. MonthsBefore(y, m + 1) = SumFunction(g) BY <1>3, <1>7 DEF MonthsBefore
<1>9. g[m] = DaysInMonth(y, m) BY <1>3
<1> QED BY <1>5, <1>6, <1>8, <1>9

\* The first months of a table, and the year its months make.
LEMMA MonthsOfAYear ==
  ASSUME NEW y
  PROVE  MonthsBefore(y, 1) = 0 /\ MonthsBefore(y, 12) + 31 = YearLength(y)
<1>1. MonthsBefore(y, 1) = 0
  <2>1. DOMAIN [k \in 1..(1 - 1) |-> DaysInMonth(y, k)] = {} OBVIOUS
  <2> QED BY <2>1, EmptySum DEF MonthsBefore
<1>2. MonthsBefore(y, 2) = 31 BY <1>1, MonthAfterMonth DEF DaysInMonth
<1>3. MonthsBefore(y, 3) = 31 + (IF Leap(y) THEN 29 ELSE 28)
  <2>1. MonthsBefore(y, 2 + 1) = MonthsBefore(y, 2) + DaysInMonth(y, 2) BY MonthAfterMonth
  <2> QED BY <1>2, <2>1 DEF DaysInMonth
<1> DEFINE F == IF Leap(y) THEN 29 ELSE 28
<1>f. F \in Nat OBVIOUS
<1> HIDE DEF F
<1>4. MonthsBefore(y, 4) = F + 62
  <2>1. MonthsBefore(y, 3 + 1) = MonthsBefore(y, 3) + DaysInMonth(y, 3) BY MonthAfterMonth
  <2> QED BY <1>3, <1>f, <2>1 DEF DaysInMonth, F
<1>5. MonthsBefore(y, 5) = F + 92
  <2>1. MonthsBefore(y, 4 + 1) = MonthsBefore(y, 4) + DaysInMonth(y, 4) BY MonthAfterMonth
  <2> QED BY <1>4, <1>f, <2>1 DEF DaysInMonth
<1>6. MonthsBefore(y, 6) = F + 123
  <2>1. MonthsBefore(y, 5 + 1) = MonthsBefore(y, 5) + DaysInMonth(y, 5) BY MonthAfterMonth
  <2> QED BY <1>5, <1>f, <2>1 DEF DaysInMonth
<1>7. MonthsBefore(y, 7) = F + 153
  <2>1. MonthsBefore(y, 6 + 1) = MonthsBefore(y, 6) + DaysInMonth(y, 6) BY MonthAfterMonth
  <2> QED BY <1>6, <1>f, <2>1 DEF DaysInMonth
<1>8. MonthsBefore(y, 8) = F + 184
  <2>1. MonthsBefore(y, 7 + 1) = MonthsBefore(y, 7) + DaysInMonth(y, 7) BY MonthAfterMonth
  <2> QED BY <1>7, <1>f, <2>1 DEF DaysInMonth
<1>9. MonthsBefore(y, 9) = F + 215
  <2>1. MonthsBefore(y, 8 + 1) = MonthsBefore(y, 8) + DaysInMonth(y, 8) BY MonthAfterMonth
  <2> QED BY <1>8, <1>f, <2>1 DEF DaysInMonth
<1>10. MonthsBefore(y, 10) = F + 245
  <2>1. MonthsBefore(y, 9 + 1) = MonthsBefore(y, 9) + DaysInMonth(y, 9) BY MonthAfterMonth
  <2> QED BY <1>9, <1>f, <2>1 DEF DaysInMonth
<1>11. MonthsBefore(y, 11) = F + 276
  <2>1. MonthsBefore(y, 10 + 1) = MonthsBefore(y, 10) + DaysInMonth(y, 10) BY MonthAfterMonth
  <2> QED BY <1>10, <1>f, <2>1 DEF DaysInMonth
<1>12. MonthsBefore(y, 12) = F + 306
  <2>1. MonthsBefore(y, 11 + 1) = MonthsBefore(y, 11) + DaysInMonth(y, 11) BY MonthAfterMonth
  <2> QED BY <1>11, <1>f, <2>1 DEF DaysInMonth
<1> QED BY <1>1, <1>12 DEF F, YearLength

\* The month after a month.
NextMonth(ym) == IF ym[2] = 12 THEN <<ym[1] + 1, 1>> ELSE <<ym[1], ym[2] + 1>>

\* The days before the next month are those before this one and its own.
LEMMA DaysAddUp ==
  ASSUME NEW y \in Years, NEW m \in 1..12, NextMonth(<<y, m>>) \in YearMonth
  PROVE  /\ DaysBefore[<<y, m>>] \in Nat
         /\ DaysBefore[NextMonth(<<y, m>>)] = DaysBefore[<<y, m>>] + DaysInMonth(y, m)
<1>1. FirstYear \in Nat /\ y \in Nat /\ y >= FirstYear BY CalendarAssumption DEF Years
<1>2. DaysBefore[<<y, m>>] = YearsBefore(y) + MonthsBefore(y, m) BY TableOfDates
<1>3. YearsBefore(y) \in Nat /\ YearsBefore(y + 1) = YearsBefore(y) + YearLength(y) BY <1>1, YearAfterYear
<1>4. MonthsBefore(y, m) \in Nat /\ MonthsBefore(y, m + 1) = MonthsBefore(y, m) + DaysInMonth(y, m) BY MonthAfterMonth
<1>5. CASE m = 12
  <2>1. NextMonth(<<y, m>>) = <<y + 1, 1>> BY <1>5 DEF NextMonth
  <2>2. y + 1 \in Years BY <2>1 DEF YearMonth, Years
  <2>a. 1 \in 1..12 OBVIOUS
  <2>3. DaysBefore[<<y + 1, 1>>] = YearsBefore(y + 1) + MonthsBefore(y + 1, 1) BY <2>2, <2>a, TableOfDates
  <2>4. MonthsBefore(y + 1, 1) = 0 BY MonthsOfAYear
  <2>5. MonthsBefore(y, 12) + 31 = YearLength(y) BY MonthsOfAYear
  <2>6. DaysInMonth(y, m) = 31 BY <1>5 DEF DaysInMonth
  <2>7. YearLength(y) \in Nat BY DEF YearLength
  <2> QED BY <1>2, <1>3, <1>4, <1>5, <2>1, <2>3, <2>4, <2>5, <2>6, <2>7
<1>6. CASE m # 12
  <2>1. NextMonth(<<y, m>>) = <<y, m + 1>> /\ m + 1 \in 1..12 BY <1>6 DEF NextMonth
  <2>2. DaysBefore[<<y, m + 1>>] = YearsBefore(y) + MonthsBefore(y, m + 1) BY <2>1, TableOfDates
  <2>3. DaysInMonth(y, m) \in Nat BY DEF DaysInMonth
  <2> QED BY <1>2, <1>3, <1>4, <2>1, <2>2, <2>3
<1> QED BY <1>5, <1>6

\* The last year of the table.
LEMMA LastYear == LastDay \div 365 \in Nat /\ 365 * (LastDay \div 365) + 365 > LastDay /\ LastDay \in Nat /\ FirstYear \in Nat
<1>1. PICK n \in Nat : n = LastDay BY CalendarAssumption
<1>2. n \div 365 \in Nat /\ 365 * (n \div 365) + 365 > n BY SMT
<1> QED BY <1>1, <1>2, CalendarAssumption

\* How many months come before a month.
Rank12(ym) == 12 * (ym[1] - FirstYear) + ym[2] - 1

\* A later month begins when an earlier one has ended.
LEMMA MonthsFollow ==
  ASSUME NEW a \in YearMonth, NEW b \in YearMonth, Rank12(a) < Rank12(b)
  PROVE  DaysBefore[a] + DaysOf(a) <= DaysBefore[b]
<1> DEFINE Wrong(n) == \E x \in YearMonth, z \in YearMonth :
                         Rank12(z) = Rank12(x) + 1 + n /\ ~(DaysBefore[x] + DaysOf(x) <= DaysBefore[z])
           Bad == {n \in Nat : Wrong(n)}
<1>0. FirstYear \in Nat BY CalendarAssumption
<1>m. ASSUME NEW ym \in YearMonth
      PROVE  /\ ym = <<ym[1], ym[2]>> /\ ym[1] \in Years /\ ym[1] \in Nat /\ ym[1] >= FirstYear /\ ym[2] \in 1..12
             /\ Rank12(ym) \in Nat
  BY <1>0, LastYear DEF YearMonth, Years, Rank12
<1>t. ASSUME NEW ym \in YearMonth PROVE DaysBefore[ym] \in Nat /\ DaysOf(ym) \in Nat
  <2>1. ym = <<ym[1], ym[2]>> /\ ym[1] \in Years /\ ym[1] \in Nat /\ ym[1] >= FirstYear /\ ym[2] \in 1..12 BY <1>m
  <2>2. YearsBefore(ym[1]) \in Nat BY <2>1, YearAfterYear
  <2>3. MonthsBefore(ym[1], ym[2]) \in Nat BY <2>1, MonthAfterMonth
  <2>4. DaysBefore[<<ym[1], ym[2]>>] = YearsBefore(ym[1]) + MonthsBefore(ym[1], ym[2]) BY <2>1, TableOfDates
  <2>5. DaysOf(ym) \in Nat BY DEF DaysOf, DaysInMonth
  <2> QED BY <2>1, <2>2, <2>3, <2>4, <2>5
<1>1. SUFFICES ASSUME ~(DaysBefore[a] + DaysOf(a) <= DaysBefore[b]) PROVE FALSE OBVIOUS
<1>2. Bad # {} /\ Bad \subseteq Nat
  <2>1. PICK n \in Nat : Rank12(b) = Rank12(a) + 1 + n
    <3>1. Rank12(a) \in Nat /\ Rank12(b) \in Nat BY <1>m
    <3>2. Rank12(b) - Rank12(a) - 1 \in Nat BY <3>1
    <3> QED BY <3>1, <3>2
  <2>2. n \in Bad BY <1>1, <2>1
  <2> QED BY <2>2
<1>3. PICK n \in Bad : \A k \in Bad : n <= k
  <2> HIDE DEF Bad
  <2> QED BY <1>2, LeastNumber
<1>4. PICK x \in YearMonth, z \in YearMonth :
        Rank12(z) = Rank12(x) + 1 + n /\ ~(DaysBefore[x] + DaysOf(x) <= DaysBefore[z])
  BY <1>3
<1>5. PICK p : p = IF z[2] = 1 THEN <<z[1] - 1, 12>> ELSE <<z[1], z[2] - 1>> OBVIOUS
<1>6. p \in YearMonth /\ NextMonth(p) = z /\ Rank12(p) = Rank12(x) + n
  <2>1. x[1] \in Nat /\ x[1] >= FirstYear /\ x[2] \in 1..12 /\ z = <<z[1], z[2]>> /\ z[1] \in Nat /\ z[1] >= FirstYear
        /\ z[2] \in 1..12 /\ n \in Nat /\ z[1] \in Years
    BY <1>m, <1>3
  <2>2. 12 * (z[1] - FirstYear) + z[2] - 1 = 12 * (x[1] - FirstYear) + x[2] + n BY <1>0, <1>4, <2>1 DEF Rank12
  <2>3. z[2] = 1 => z[1] > FirstYear BY <1>0, <2>1, <2>2
  <2>4. p[1] \in Nat /\ p[1] >= FirstYear /\ p[1] <= z[1] /\ p[2] \in 1..12 /\ p = <<p[1], p[2]>> BY <1>0, <1>5, <2>1, <2>3
  <2>5. p \in YearMonth BY <1>0, <2>1, <2>4, LastYear DEF YearMonth, Years
  <2>6. NextMonth(p) = z
    <3>1. CASE z[2] = 1
      <4>1. p[1] = z[1] - 1 /\ p[2] = 12 BY <1>5, <3>1
      <4>2. p[1] + 1 = z[1] BY <2>1, <4>1
      <4> QED BY <2>1, <3>1, <4>1, <4>2 DEF NextMonth
    <3>2. CASE z[2] # 1
      <4>1. p[1] = z[1] /\ p[2] = z[2] - 1 BY <1>5, <3>2
      <4>2. p[2] + 1 = z[2] /\ p[2] # 12 BY <2>1, <4>1
      <4> QED BY <2>1, <4>1, <4>2 DEF NextMonth
    <3> QED BY <3>1, <3>2
  <2>7. Rank12(p) = Rank12(z) - 1
    <3>1. CASE z[2] = 1 BY <1>0, <1>5, <2>1, <3>1 DEF Rank12
    <3>2. CASE z[2] # 1 BY <1>0, <1>5, <2>1, <3>2 DEF Rank12
    <3> QED BY <3>1, <3>2
  <2>8. Rank12(x) \in Nat BY <1>m
  <2> QED BY <1>4, <2>1, <2>5, <2>6, <2>7, <2>8
<1>7. DaysBefore[z] = DaysBefore[p] + DaysOf(p)
  <2>1. p = <<p[1], p[2]>> /\ p[1] \in Years /\ p[2] \in 1..12 BY <1>6, <1>m
  <2>2. DaysBefore[NextMonth(<<p[1], p[2]>>)] = DaysBefore[<<p[1], p[2]>>] + DaysInMonth(p[1], p[2])
    BY <1>6, <2>1, DaysAddUp
  <2> QED BY <1>6, <2>1, <2>2 DEF DaysOf
<1>8. CASE n = 0
  <2>1. Rank12(p) = Rank12(x) BY <1>6, <1>8, <1>m
  <2>2. p = x
    <3>1. p = <<p[1], p[2]>> /\ x = <<x[1], x[2]>> /\ p[1] \in Nat /\ x[1] \in Nat /\ p[2] \in 1..12 /\ x[2] \in 1..12 BY <1>6, <1>m
    <3>2. p[1] = x[1] /\ p[2] = x[2] BY <1>0, <2>1, <3>1 DEF Rank12
    <3> QED BY <3>1, <3>2
  <2> QED BY <1>4, <1>7, <2>2, <1>t
<1>9. CASE n # 0
  <2>1. n - 1 \in Nat /\ n - 1 < n /\ Rank12(p) = Rank12(x) + 1 + (n - 1) BY <1>3, <1>6, <1>9, <1>m
  <2>2. n - 1 \notin Bad
    <3>1. n \in Nat BY <1>2, <1>3
    <3> HIDE DEF Bad
    <3> QED BY <1>3, <2>1, <3>1
  <2>3. DaysBefore[x] + DaysOf(x) <= DaysBefore[p] BY <1>6, <2>1, <2>2
  <2> QED BY <1>4, <1>6, <1>7, <1>t, <2>3
<1> QED BY <1>8, <1>9

\* The days of a year before its number: at least 365 for each.
LEMMA YearsAreLong ==
  ASSUME NEW y \in Nat, y >= FirstYear
  PROVE  YearsBefore(y) \in Nat /\ YearsBefore(y) >= 365 * (y - FirstYear)
<1>0. FirstYear \in Nat BY CalendarAssumption
<1>1. YearsBefore(y) \in Nat BY YearAfterYear
<1>2. YearsBefore(FirstYear) = 0
  <2>1. DOMAIN [k \in FirstYear..(FirstYear - 1) |-> YearLength(k)] = {} BY <1>0
  <2> HIDE DEF YearLength
  <2> QED BY <2>1, EmptySum DEF YearsBefore
<1> DEFINE Bad == {n \in Nat : ~(YearsBefore(FirstYear + n) >= 365 * n)}
<1>3. SUFFICES ASSUME Bad # {} PROVE FALSE
  <2>1. PICK n \in Nat : n = y - FirstYear BY <1>0
  <2>2. y = FirstYear + n BY <1>0, <2>1
  <2>3. YearsBefore(FirstYear + n) >= 365 * n OBVIOUS
  <2> QED BY <1>1, <2>1, <2>2, <2>3
<1>4. PICK n \in Bad : \A k \in Bad : n <= k
  <2>1. Bad \in SUBSET Nat OBVIOUS
  <2> HIDE DEF Bad
  <2> QED BY <1>3, <2>1, LeastNumber
<1>5. n # 0
  <2>1. FirstYear + 0 = FirstYear BY <1>0
  <2> QED BY <1>2, <1>4, <2>1
<1>6. PICK m \in Nat : n = m + 1 BY <1>4, <1>5
<1>7. m \notin Bad
  <2> HIDE DEF Bad
  <2> QED BY <1>4, <1>6
<1>8. PICK z \in Nat : z = FirstYear + m /\ z >= FirstYear BY <1>0
<1>9. YearsBefore(z) \in Nat /\ YearsBefore(z + 1) = YearsBefore(z) + YearLength(z) BY <1>8, YearAfterYear
<1>10. YearLength(z) \in Nat /\ YearLength(z) >= 365 BY DEF YearLength
<1>11. z + 1 = FirstYear + n BY <1>0, <1>6, <1>8
<1>12. YearsBefore(z) >= 365 * m BY <1>7, <1>8
<1>13. ~(YearsBefore(z + 1) >= 365 * n) BY <1>4, <1>11
<1> QED BY <1>6, <1>9, <1>10, <1>12, <1>13

\* The facts about a month of the table.
LEMMA MonthFacts ==
  ASSUME NEW ym \in YearMonth
  PROVE  /\ ym = <<ym[1], ym[2]>> /\ ym[1] \in Nat /\ ym[1] >= FirstYear
         /\ ym[1] <= FirstYear + LastDay \div 365 + 2 /\ ym[2] \in 1..12
         /\ Rank12(ym) \in Nat /\ DaysBefore[ym] \in Nat /\ DaysOf(ym) \in 28..31
         /\ DaysBefore[ym] >= 365 * (ym[1] - FirstYear)
<1>1. /\ ym = <<ym[1], ym[2]>> /\ ym[1] \in Years /\ ym[1] \in Nat /\ ym[1] >= FirstYear /\ ym[2] \in 1..12
      /\ ym[1] <= FirstYear + LastDay \div 365 + 2 /\ Rank12(ym) \in Nat
  BY LastYear DEF YearMonth, Years, Rank12
<1>2. YearsBefore(ym[1]) \in Nat /\ YearsBefore(ym[1]) >= 365 * (ym[1] - FirstYear) BY <1>1, YearsAreLong
<1>3. MonthsBefore(ym[1], ym[2]) \in Nat BY <1>1, MonthAfterMonth
<1>4. DaysBefore[ym] = YearsBefore(ym[1]) + MonthsBefore(ym[1], ym[2]) BY <1>1, TableOfDates
<1>5. DaysOf(ym) \in 28..31 BY DEF DaysOf, DaysInMonth
<1> QED BY <1>1, <1>2, <1>3, <1>4, <1>5, LastYear

\* A day lies in a month.
InMonth(day, ym) == day - DaysBefore[ym] \in 0..(DaysInMonth(ym[1], ym[2]) - 1)

\* A month that begins not long after the last day has a next one.
LEMMA MonthsGoOn ==
  ASSUME NEW ym \in YearMonth, DaysBefore[ym] <= LastDay + 31
  PROVE  NextMonth(ym) \in YearMonth
<1>1. ym = <<ym[1], ym[2]>> /\ ym[1] \in Nat /\ ym[1] >= FirstYear /\ ym[2] \in 1..12
      /\ DaysBefore[ym] \in Nat /\ DaysBefore[ym] >= 365 * (ym[1] - FirstYear)
  BY MonthFacts
<1>2. ym[1] < FirstYear + LastDay \div 365 + 2 BY <1>1, LastYear
<1>3. CASE ym[2] = 12
  <2>1. NextMonth(ym) = <<ym[1] + 1, 1>> BY <1>3 DEF NextMonth
  <2>2. ym[1] + 1 \in FirstYear..(FirstYear + LastDay \div 365 + 2) BY <1>1, <1>2, LastYear
  <2> QED BY <2>1, <2>2 DEF YearMonth
<1>4. CASE ym[2] # 12
  <2>1. NextMonth(ym) = <<ym[1], ym[2] + 1>> /\ ym[2] + 1 \in 1..12 BY <1>1, <1>4 DEF NextMonth
  <2>2. ym[1] \in FirstYear..(FirstYear + LastDay \div 365 + 2) BY <1>1, <1>2, LastYear
  <2> QED BY <2>1, <2>2 DEF YearMonth
<1> QED BY <1>3, <1>4

\* Every day lies in a month.
LEMMA DaysHaveMonths ==
  ASSUME NEW day \in 0..(LastDay + 31)
  PROVE  \E ym \in YearMonth : InMonth(day, ym)
<1> DEFINE Bad == {n \in 0..(LastDay + 31) : ~\E ym \in YearMonth : InMonth(n, ym)}
<1>1. SUFFICES ASSUME Bad # {} PROVE FALSE OBVIOUS
<1>2. Bad \in SUBSET Nat BY LastYear
<1>3. PICK n \in Bad : \A k \in Bad : n <= k
  <2> HIDE DEF Bad
  <2> QED BY <1>1, <1>2, LeastNumber
<1>4. n \in Nat /\ n <= LastDay + 31 /\ ~\E ym \in YearMonth : InMonth(n, ym) BY <1>3, LastYear
<1>5. CASE n = 0
  <2>1. PICK ym : ym = <<FirstYear, 1>> OBVIOUS
  <2>2. ym \in YearMonth /\ FirstYear \in Years /\ 1 \in 1..12 BY <2>1, LastYear DEF YearMonth, Years
  <2>3. DaysBefore[ym] = YearsBefore(FirstYear) + MonthsBefore(FirstYear, 1) BY <2>1, <2>2, TableOfDates
  <2>4. MonthsBefore(FirstYear, 1) = 0 BY MonthsOfAYear
  <2>5. YearsBefore(FirstYear) = 0
    <3>1. DOMAIN [k \in FirstYear..(FirstYear - 1) |-> YearLength(k)] = {} BY LastYear
    <3> QED BY <3>1, EmptySum DEF YearsBefore
  <2>6. DaysInMonth(ym[1], ym[2]) = 31 BY <2>1 DEF DaysInMonth
  <2>7. InMonth(n, ym) BY <1>5, <2>3, <2>4, <2>5, <2>6 DEF InMonth
  <2> QED BY <1>4, <2>2, <2>7
<1>6. CASE n # 0
  <2>1. n - 1 \in 0..(LastDay + 31) /\ n - 1 < n BY <1>4, <1>6, LastYear
  <2>2. n - 1 \notin Bad
    <3> HIDE DEF Bad
    <3> QED BY <1>3, <1>4, <2>1
  <2>3. PICK ym \in YearMonth : InMonth(n - 1, ym) BY <2>1, <2>2
  <2>4. DaysBefore[ym] \in Nat /\ DaysOf(ym) \in 28..31 /\ ym = <<ym[1], ym[2]>> /\ ym[1] \in Nat /\ ym[2] \in 1..12 BY MonthFacts
  <2>5. n - 1 - DaysBefore[ym] \in 0..(DaysOf(ym) - 1) BY <2>3 DEF InMonth, DaysOf
  <2>6. CASE n - DaysBefore[ym] < DaysOf(ym)
    <3>1. n - DaysBefore[ym] \in 0..(DaysOf(ym) - 1) BY <1>4, <2>4, <2>5, <2>6
    <3> QED BY <1>4, <3>1 DEF InMonth, DaysOf
  <2>7. CASE ~(n - DaysBefore[ym] < DaysOf(ym))
    <3>1. n = DaysBefore[ym] + DaysOf(ym) BY <1>4, <2>4, <2>5, <2>7
    <3>2. DaysBefore[ym] <= LastDay + 31 BY <1>4, <2>4, <3>1, LastYear
    <3>3. PICK next : next = NextMonth(ym) OBVIOUS
    <3>4. next \in YearMonth BY <3>2, <3>3, MonthsGoOn
    <3>5. ym[1] \in Years /\ NextMonth(<<ym[1], ym[2]>>) \in YearMonth BY <2>4, <3>3, <3>4 DEF YearMonth, Years
    <3>6. DaysBefore[NextMonth(<<ym[1], ym[2]>>)] = DaysBefore[<<ym[1], ym[2]>>] + DaysInMonth(ym[1], ym[2])
      BY <2>4, <3>5, DaysAddUp
    <3>7. DaysBefore[next] = n BY <2>4, <3>1, <3>3, <3>6 DEF DaysOf
    <3>8. DaysOf(next) \in 28..31 BY <3>4, MonthFacts
    <3>9. InMonth(n, next) BY <1>4, <3>7, <3>8 DEF InMonth, DaysOf
    <3> QED BY <1>4, <3>4, <3>9
  <2> QED BY <2>6, <2>7
<1> QED BY <1>5, <1>6

\* And in one month only.
LEMMA DaysHaveOneMonth ==
  ASSUME NEW day \in Int, NEW a \in YearMonth, NEW b \in YearMonth, InMonth(day, a), InMonth(day, b)
  PROVE  a = b
<1>1. /\ a = <<a[1], a[2]>> /\ a[1] \in Nat /\ a[2] \in 1..12 /\ Rank12(a) \in Nat /\ DaysBefore[a] \in Nat /\ DaysOf(a) \in 28..31
      /\ b = <<b[1], b[2]>> /\ b[1] \in Nat /\ b[2] \in 1..12 /\ Rank12(b) \in Nat /\ DaysBefore[b] \in Nat /\ DaysOf(b) \in 28..31
  BY MonthFacts
<1>2. day - DaysBefore[a] \in 0..(DaysOf(a) - 1) /\ day - DaysBefore[b] \in 0..(DaysOf(b) - 1) BY DEF InMonth, DaysOf
<1>3. ~(Rank12(a) < Rank12(b))
  <2> SUFFICES ASSUME Rank12(a) < Rank12(b) PROVE FALSE OBVIOUS
  <2>1. DaysBefore[a] + DaysOf(a) <= DaysBefore[b] BY MonthsFollow
  <2> QED BY <1>1, <1>2, <2>1
<1>4. ~(Rank12(b) < Rank12(a))
  <2> SUFFICES ASSUME Rank12(b) < Rank12(a) PROVE FALSE OBVIOUS
  <2>1. DaysBefore[b] + DaysOf(b) <= DaysBefore[a] BY MonthsFollow
  <2> QED BY <1>1, <1>2, <2>1
<1>5. Rank12(a) = Rank12(b) BY <1>1, <1>3, <1>4
<1>6. a[1] = b[1] /\ a[2] = b[2] BY <1>1, <1>5, LastYear DEF Rank12
<1> QED BY <1>1, <1>6

\* The date of a day of a month.
LEMMA DatesOfDays ==
  ASSUME NEW day \in 0..(LastDay + 31), NEW ym \in YearMonth, InMonth(day, ym)
  PROVE  DateOf[day] = [y |-> ym[1], m |-> ym[2], d |-> day - DaysBefore[ym] + 1]
<1>1. PICK month : month = CHOOSE z \in YearMonth : InMonth(day, z) OBVIOUS
<1>2. month \in YearMonth /\ InMonth(day, month) BY <1>1
<1>3. day \in Int BY LastYear
<1>4. month = ym BY <1>2, <1>3, DaysHaveOneMonth
<1>5. DateOf[day] = LET mo == CHOOSE z \in YearMonth : InMonth(day, z)
                    IN  [y |-> mo[1], m |-> mo[2], d |-> day - DaysBefore[mo] + 1]
  BY DEF DateOf, InMonth
<1> QED BY <1>1, <1>4, <1>5

-----------------------------------------------------------------------------
\* A period runs from a first day up to a day that is no longer in it, and every
\* day of it has the same period.
Holds(period, day, tz, first, from, to) ==
  /\ from \in Int /\ to \in Int /\ from <= day /\ day < to
  /\ \A other \in from..(to - 1) : other \in 0..(LastDay + 31) =>
       ResolveReportRange(period, other, tz, first) = [start |-> ZonedTimeToUtc(from, tz), end |-> ZonedTimeToUtc(to, tz)]

\* Days are periods.
LEMMA DaysHold ==
  ASSUME NEW day \in 0..(LastDay + 31), NEW tz, NEW first
  PROVE  Holds("DAY", day, tz, first, day, day + 1)
<1>1. day \in Int /\ day + 1 \in Int BY LastYear
<1>2. \A other \in day..((day + 1) - 1) : other = day BY <1>1
<1>3. ResolveReportRange("DAY", day, tz, first) = [start |-> ZonedTimeToUtc(day, tz), end |-> ZonedTimeToUtc(day + 1, tz)]
  BY DEF ResolveReportRange, LocalDayRange, AddDays
<1> QED BY <1>1, <1>2, <1>3 DEF Holds

\* How many days before a day its week began.
Back(d, first) == (((FirstWeekday + d) % 7) - first + 7) % 7

\* Then the number of the day of the week is the first one.
LEMMA WeeksBegin ==
  ASSUME NEW d \in Nat, NEW first \in 0..6
  PROVE  Back(d, first) \in 0..6 /\ \E q \in Int : FirstWeekday + d - first - Back(d, first) = 7 * q
<1>1. PICK n \in Nat : n = FirstWeekday + d BY CalendarAssumption
<1>2. PICK r \in 0..6 : r = n % 7 BY SMT
<1>3. PICK a \in Int : n = 7 * a + r BY <1>2, SMT
<1>4. PICK k \in Nat : k = r - first + 7 OBVIOUS
<1>5. PICK z \in 0..6 : z = k % 7 BY SMT
<1>6. PICK b \in Int : k = 7 * b + z BY <1>5, SMT
<1>7. Back(d, first) = z BY <1>1, <1>2, <1>4, <1>5 DEF Back
<1>8. PICK q \in Int : q = a + b - 1 OBVIOUS
<1>9. n - first - z = 7 * q BY <1>3, <1>4, <1>6, <1>8
<1>10. FirstWeekday + d - first - Back(d, first) = 7 * q BY <1>1, <1>7, <1>9, CalendarAssumption
<1> QED BY <1>7, <1>10

\* Seven days from the last day on which a week begins are a week.
LEMMA WeeksHold ==
  ASSUME NEW day \in 0..(LastDay + 31), NEW tz, NEW first \in 0..6
  PROVE  \E from, to : Holds("WEEK", day, tz, first, from, to)
<1>1. FirstWeekday \in Nat /\ day \in Nat /\ LastDay \in Nat BY CalendarAssumption, LastYear
<1>2. PICK z \in 0..6, p \in Int : z = Back(day, first) /\ FirstWeekday + day - first - z = 7 * p BY <1>1, WeeksBegin
<1>3. PICK from \in Int : from = day - z BY <1>1, <1>2
<1>4. ASSUME NEW other \in from..(from + 6), other \in Nat PROVE other - Back(other, first) = from /\ Back(other, first) \in 0..6
  <2>1. PICK x \in 0..6, q \in Int : x = Back(other, first) /\ FirstWeekday + other - first - x = 7 * q BY <1>4, WeeksBegin
  <2>2. from <= other /\ other <= from + 6 BY <1>3, <1>4
  <2>a. PICK w \in Int : w = FirstWeekday - first BY <1>1
  <2>b. w + day - z = 7 * p /\ w + other - x = 7 * q BY <1>1, <1>2, <1>4, <2>1, <2>a
  <2>c. PICK m \in Int : m = q - p OBVIOUS
  <2>g. 7 * m = 7 * q - 7 * p BY <2>c
  <2>h. other - x - (day - z) = (w + other - x) - (w + day - z) BY <1>1, <1>4
  <2>d. other - x - from = 7 * m BY <1>3, <2>b, <2>g, <2>h
  <2>e. other - x - from \in -6..6 BY <1>3, <1>4, <2>1, <2>2
  <2>f. m = 0 BY <2>d, <2>e
  <2>3. other - x = from BY <1>3, <1>4, <2>1, <2>d, <2>f
  <2> QED BY <2>1, <2>3
<1>5. ASSUME NEW other \in from..((from + 7) - 1), other \in 0..(LastDay + 31)
      PROVE  ResolveReportRange("WEEK", other, tz, first) = [start |-> ZonedTimeToUtc(from, tz), end |-> ZonedTimeToUtc(from + 7, tz)]
  <2>1. other \in Nat /\ other \in from..(from + 6) BY <1>1, <1>3, <1>5
  <2>2. other - Back(other, first) = from /\ Back(other, first) \in 0..6 BY <1>4, <2>1
  <2>3. other + (-Back(other, first)) = from BY <2>1, <2>2
  <2>4. ResolveReportRange("WEEK", other, tz, first) = LocalWeekRange(other, tz, first) BY DEF ResolveReportRange
  <2>5. LocalWeekRange(other, tz, first) =
          [start |-> ZonedTimeToUtc(other + (-Back(other, first)), tz), end |-> ZonedTimeToUtc((other + (-Back(other, first))) + 7, tz)]
    BY DEF LocalWeekRange, AddDays, Back
  <2> QED BY <2>3, <2>4, <2>5
<1>6. from <= day /\ day < from + 7 /\ from + 7 \in Int BY <1>1, <1>2, <1>3
<1>7. Holds("WEEK", day, tz, first, from, from + 7) BY <1>3, <1>5, <1>6 DEF Holds
<1> QED BY <1>7

\* What a month is for each of its days.
LEMMA MonthOfDays ==
  ASSUME NEW day \in 0..(LastDay + 31)
  PROVE  \E ym \in YearMonth :
           /\ InMonth(day, ym) /\ DaysBefore[ym] \in Nat /\ DaysOf(ym) \in 28..31
           /\ DaysBefore[ym] <= day /\ day < DaysBefore[ym] + DaysOf(ym)
           /\ \A other \in DaysBefore[ym]..(DaysBefore[ym] + DaysOf(ym) - 1) : other \in 0..(LastDay + 31) =>
                /\ DateOf[other] = [y |-> ym[1], m |-> ym[2], d |-> other - DaysBefore[ym] + 1]
           /\ \A date : date.y = ym[1] /\ date.m = ym[2] =>
                /\ DayNumber(date) = DaysBefore[ym] + date.d - 1
                /\ DayNumber(AddMonths(date, 1)) = DaysBefore[ym] + DaysOf(ym)
<1>1. PICK ym \in YearMonth : InMonth(day, ym) BY DaysHaveMonths
<1>2. DaysBefore[ym] \in Nat /\ DaysOf(ym) \in 28..31 /\ ym = <<ym[1], ym[2]>> /\ ym[1] \in Nat /\ ym[2] \in 1..12 BY MonthFacts
<1>3. day \in Nat /\ day <= LastDay + 31 /\ LastDay \in Nat BY LastYear
<1>4. DaysBefore[ym] <= day /\ day < DaysBefore[ym] + DaysOf(ym) BY <1>1, <1>2, <1>3 DEF InMonth, DaysOf
<1>5. ASSUME NEW other \in DaysBefore[ym]..(DaysBefore[ym] + DaysOf(ym) - 1), other \in 0..(LastDay + 31)
      PROVE  DateOf[other] = [y |-> ym[1], m |-> ym[2], d |-> other - DaysBefore[ym] + 1]
  <2>1. InMonth(other, ym) BY <1>2, <1>5 DEF InMonth, DaysOf
  <2> QED BY <1>5, <2>1, DatesOfDays
<1>6. NextMonth(ym) \in YearMonth BY <1>2, <1>3, <1>4, MonthsGoOn
<1>7. DaysBefore[NextMonth(ym)] = DaysBefore[ym] + DaysOf(ym)
  <2>1. ym[1] \in Years /\ NextMonth(<<ym[1], ym[2]>>) \in YearMonth BY <1>2, <1>6 DEF YearMonth, Years
  <2>2. DaysBefore[NextMonth(<<ym[1], ym[2]>>)] = DaysBefore[<<ym[1], ym[2]>>] + DaysInMonth(ym[1], ym[2])
    BY <1>2, <2>1, DaysAddUp
  <2> QED BY <1>2, <2>2 DEF DaysOf
<1>8. ASSUME NEW date, date.y = ym[1], date.m = ym[2]
      PROVE  /\ DayNumber(date) = DaysBefore[ym] + date.d - 1
             /\ DayNumber(AddMonths(date, 1)) = DaysBefore[ym] + DaysOf(ym)
  <2>1. DayNumber(date) = DaysBefore[ym] + date.d - 1 BY <1>2, <1>8 DEF DayNumber
  <2>2. AddMonths(date, 1) = [y |-> ym[1] + ym[2] \div 12, m |-> (ym[2] % 12) + 1, d |-> 1]
    <3>1. date.m - 1 + 1 = ym[2] BY <1>2, <1>8
    <3> QED BY <1>8, <3>1 DEF AddMonths
  <2>3. <<ym[1] + ym[2] \div 12, (ym[2] % 12) + 1>> = NextMonth(ym)
    <3>1. CASE ym[2] = 12
      <4>1. 12 \div 12 = 1 /\ 12 % 12 = 0 BY SMT
      <4> QED BY <3>1, <4>1 DEF NextMonth
    <3>2. CASE ym[2] # 12
      <4>1. PICK m \in 1..11 : m = ym[2] BY <1>2, <3>2
      <4>2. m \div 12 = 0 /\ m % 12 = m BY SMT
      <4>3. ym[1] + 0 = ym[1] BY <1>2
      <4> QED BY <3>2, <4>1, <4>2, <4>3 DEF NextMonth
    <3> QED BY <3>1, <3>2
  <2>4. DayNumber(AddMonths(date, 1)) = DaysBefore[NextMonth(ym)] + 1 - 1 BY <2>2, <2>3 DEF DayNumber
  <2> QED BY <1>2, <1>7, <2>1, <2>4
<1> QED BY <1>1, <1>2, <1>4, <1>5, <1>8

\* The days of a month are a period.
LEMMA MonthsHold ==
  ASSUME NEW day \in 0..(LastDay + 31), NEW tz, NEW first
  PROVE  \E from, to : Holds("MONTH", day, tz, first, from, to)
<1>1. PICK ym \in YearMonth :
           /\ InMonth(day, ym) /\ DaysBefore[ym] \in Nat /\ DaysOf(ym) \in 28..31
           /\ DaysBefore[ym] <= day /\ day < DaysBefore[ym] + DaysOf(ym)
           /\ \A other \in DaysBefore[ym]..(DaysBefore[ym] + DaysOf(ym) - 1) : other \in 0..(LastDay + 31) =>
                /\ DateOf[other] = [y |-> ym[1], m |-> ym[2], d |-> other - DaysBefore[ym] + 1]
           /\ \A date : date.y = ym[1] /\ date.m = ym[2] =>
                /\ DayNumber(date) = DaysBefore[ym] + date.d - 1
                /\ DayNumber(AddMonths(date, 1)) = DaysBefore[ym] + DaysOf(ym)
  BY MonthOfDays
<1>2. PICK from \in Int, to \in Int : from = DaysBefore[ym] /\ to = DaysBefore[ym] + DaysOf(ym) BY <1>1
<1>3. ASSUME NEW other \in from..(to - 1), other \in 0..(LastDay + 31)
      PROVE  ResolveReportRange("MONTH", other, tz, first) = [start |-> ZonedTimeToUtc(from, tz), end |-> ZonedTimeToUtc(to, tz)]
  <2>1. DateOf[other] = [y |-> ym[1], m |-> ym[2], d |-> other - DaysBefore[ym] + 1] BY <1>1, <1>2, <1>3
  <2>2. PICK date : date = [DateOf[other] EXCEPT !.d = 1] OBVIOUS
  <2>3. date.y = ym[1] /\ date.m = ym[2] /\ date.d = 1 BY <2>1, <2>2
  <2>4. DayNumber(date) = from /\ DayNumber(AddMonths(date, 1)) = to BY <1>1, <1>2, <2>3
  <2>5. ResolveReportRange("MONTH", other, tz, first) = LocalMonthRange(other, tz) BY DEF ResolveReportRange
  <2>6. LocalMonthRange(other, tz) =
          [start |-> ZonedTimeToUtc(DayNumber(date), tz), end |-> ZonedTimeToUtc(DayNumber(AddMonths(date, 1)), tz)]
    BY <2>2 DEF LocalMonthRange
  <2> QED BY <2>4, <2>5, <2>6
<1>4. day \in Int BY LastYear
<1>5. Holds("MONTH", day, tz, first, from, to) BY <1>1, <1>2, <1>3, <1>4 DEF Holds
<1> QED BY <1>5

\* The first fifteen days of a month are a period, and the others.
LEMMA FortnightsHold ==
  ASSUME NEW day \in 0..(LastDay + 31), NEW tz, NEW first
  PROVE  \E from, to : Holds("FORTNIGHT", day, tz, first, from, to)
<1>1. PICK ym \in YearMonth :
           /\ InMonth(day, ym) /\ DaysBefore[ym] \in Nat /\ DaysOf(ym) \in 28..31
           /\ DaysBefore[ym] <= day /\ day < DaysBefore[ym] + DaysOf(ym)
           /\ \A other \in DaysBefore[ym]..(DaysBefore[ym] + DaysOf(ym) - 1) : other \in 0..(LastDay + 31) =>
                /\ DateOf[other] = [y |-> ym[1], m |-> ym[2], d |-> other - DaysBefore[ym] + 1]
           /\ \A date : date.y = ym[1] /\ date.m = ym[2] =>
                /\ DayNumber(date) = DaysBefore[ym] + date.d - 1
                /\ DayNumber(AddMonths(date, 1)) = DaysBefore[ym] + DaysOf(ym)
  BY MonthOfDays
<1>2. PICK begin \in Int, end \in Int : begin = DaysBefore[ym] /\ end = DaysBefore[ym] + DaysOf(ym) BY <1>1
<1>3. day \in Int /\ begin <= day /\ day < end /\ end - begin \in 28..31 BY <1>1, <1>2, LastYear
<1>4. ASSUME NEW other \in begin..(end - 1), other \in 0..(LastDay + 31)
      PROVE  ResolveReportRange("FORTNIGHT", other, tz, first) =
               IF other < begin + 15
               THEN [start |-> ZonedTimeToUtc(begin, tz), end |-> ZonedTimeToUtc(begin + 15, tz)]
               ELSE [start |-> ZonedTimeToUtc(begin + 15, tz), end |-> ZonedTimeToUtc(end, tz)]
  <2>1. DateOf[other] = [y |-> ym[1], m |-> ym[2], d |-> other - begin + 1] BY <1>1, <1>2, <1>4
  <2>2. DateOf[other].d <= 15 <=> other < begin + 15 BY <1>2, <1>4, <2>1
  <2>3. PICK date : date = [DateOf[other] EXCEPT !.d = IF DateOf[other].d <= 15 THEN 1 ELSE 16] OBVIOUS
  <2>4. PICK late : late = IF DateOf[other].d <= 15 THEN [date EXCEPT !.d = 16] ELSE AddMonths(date, 1) OBVIOUS
  <2>5. ResolveReportRange("FORTNIGHT", other, tz, first) =
          [start |-> ZonedTimeToUtc(DayNumber(date), tz), end |-> ZonedTimeToUtc(DayNumber(late), tz)]
    BY <2>3, <2>4 DEF ResolveReportRange, LocalFortnightRange
  <2>6. date = [y |-> ym[1], m |-> ym[2], d |-> IF DateOf[other].d <= 15 THEN 1 ELSE 16] BY <2>1, <2>3
  <2>7. CASE other < begin + 15
    <3>1. date.y = ym[1] /\ date.m = ym[2] /\ date.d = 1 BY <2>2, <2>6, <2>7
    <3>2. late.y = ym[1] /\ late.m = ym[2] /\ late.d = 16 BY <2>2, <2>4, <2>6, <2>7
    <3>3. DayNumber(date) = begin /\ DayNumber(late) = begin + 15 BY <1>1, <1>2, <3>1, <3>2
    <3> QED BY <2>5, <2>7, <3>3
  <2>8. CASE ~(other < begin + 15)
    <3>1. date.y = ym[1] /\ date.m = ym[2] /\ date.d = 16 BY <2>2, <2>6, <2>8
    <3>2. late = AddMonths(date, 1) BY <2>2, <2>4, <2>8
    <3>3. DayNumber(date) = begin + 15 /\ DayNumber(late) = end BY <1>1, <1>2, <3>1, <3>2
    <3> QED BY <2>5, <2>8, <3>3
  <2> QED BY <2>7, <2>8
<1>5. CASE day < begin + 15
  <2>1. \A other \in begin..((begin + 15) - 1) : other \in begin..(end - 1) /\ other < begin + 15 BY <1>2, <1>3
  <2>2. Holds("FORTNIGHT", day, tz, first, begin, begin + 15) BY <1>2, <1>3, <1>4, <1>5, <2>1 DEF Holds
  <2> QED BY <2>2
<1>6. CASE ~(day < begin + 15)
  <2>1. \A other \in (begin + 15)..(end - 1) : other \in begin..(end - 1) /\ ~(other < begin + 15) BY <1>2, <1>3
  <2>2. Holds("FORTNIGHT", day, tz, first, begin + 15, end) BY <1>2, <1>3, <1>4, <1>6, <2>1 DEF Holds
  <2> QED BY <2>2
<1> QED BY <1>5, <1>6

\* What the clock that walks through the zones keeps.
CalendarRight ==
  /\ \E k \in Int : Zone(zone, k)
  /\ weekStart \in 0..6
  /\ instant \in 24..(24 * LastDay)

\* It holds of every period of every instant.
LEMMA PeriodsHold == CalendarRight => PeriodsPartitionTime
<1> SUFFICES ASSUME CalendarRight, NEW period \in REPORT_PERIODS,
                    NEW today, today = LocalDateKey(instant, zone)
             PROVE  LET range == ResolveReportRange(period, today, zone, weekStart)
                        last == LocalDateKey(range.end - 1, zone)
                    IN  /\ range.start <= instant /\ instant < range.end
                        /\ last <= LastDay => ResolveReportRange(period, last, zone, weekStart) = range
  BY DEF PeriodsPartitionTime
<1>1. PICK k \in Int : Zone(zone, k) BY DEF CalendarRight
<1>2. instant \in Int /\ instant >= 24 /\ instant <= 24 * LastDay /\ LastDay \in Nat /\ weekStart \in 0..6
  BY LastYear DEF CalendarRight
<1>3. today \in 0..(LastDay + 31)
  <2>1. PICK o \in -13..15 : today = (instant + o) \div 24
    <3>1. OffsetMs(instant, zone) \in -13..15 BY <1>1 DEF Zone, OffsetMs
    <3> QED BY <3>1 DEF LocalDateKey
  <2>2. PICK n \in Nat : n = instant + o /\ n <= 24 * LastDay + 15 BY <1>2, <2>1
  <2>3. n \div 24 \in Nat /\ 24 * (n \div 24) <= n BY SMT
  <2> QED BY <1>2, <2>1, <2>2, <2>3
<1>4. PICK from, to : Holds(period, today, zone, weekStart, from, to)
  <2>1. CASE period = "DAY" BY <1>3, <2>1, DaysHold
  <2>2. CASE period = "WEEK" BY <1>2, <1>3, <2>2, WeeksHold
  <2>3. CASE period = "FORTNIGHT" BY <1>3, <2>3, FortnightsHold
  <2>4. CASE period = "MONTH" BY <1>3, <2>4, MonthsHold
  <2> QED BY <2>1, <2>2, <2>3, <2>4 DEF REPORT_PERIODS
<1> DEFINE Z(d) == ZonedTimeToUtc(d, zone)
           range == [start |-> Z(from), end |-> Z(to)]
<1>5. from \in Int /\ to \in Int /\ today \in Int /\ from <= today /\ today <= to - 1 /\ today + 1 <= to
  BY <1>3, <1>4, LastYear DEF Holds
<1>6. \A other \in from..(to - 1) : other \in 0..(LastDay + 31) => ResolveReportRange(period, other, zone, weekStart) = range
  BY <1>4 DEF Holds
<1>7. ResolveReportRange(period, today, zone, weekStart) = range
  <2>1. today \in from..(to - 1) BY <1>5
  <2> HIDE DEF range
  <2> QED BY <1>3, <1>6, <2>1
<1>8. Z(today) <= instant /\ instant < Z(today + 1) BY <1>1, <1>2, <1>5, LocalDates
<1>9. Z(from) <= Z(today) /\ Z(from) \in Int /\ Z(today) \in Int BY <1>1, <1>5, MidnightsFollow
<1>10. Z(today + 1) <= Z(to) /\ Z(today + 1) \in Int /\ Z(to) \in Int
  <2>1. today + 1 \in Int BY <1>5
  <2> QED BY <1>1, <1>5, <2>1, MidnightsFollow
<1>11. Z(from) <= instant /\ instant < Z(to) BY <1>2, <1>8, <1>9, <1>10
<1>12. LocalDateKey(Z(to) - 1, zone) = to - 1
  <2>1. to - 1 \in Int /\ to - 1 <= to - 1 /\ (to - 1) + 1 = to BY <1>5
  <2>2. Z(to - 1) \in Int /\ Z(to - 1) < Z((to - 1) + 1) BY <1>1, <2>1, MidnightsFollow
  <2>3. Z(to) - 1 \in Int /\ Z(to - 1) <= Z(to) - 1 /\ Z(to) - 1 < Z((to - 1) + 1) BY <1>10, <2>1, <2>2
  <2> HIDE DEF Z
  <2> QED BY <1>1, <2>1, <2>3, LocalDates DEF Z
<1>13. ASSUME to - 1 <= LastDay PROVE ResolveReportRange(period, to - 1, zone, weekStart) = range
  <2>1. to - 1 \in from..(to - 1) /\ to - 1 \in 0..(LastDay + 31) BY <1>2, <1>3, <1>5, <1>13
  <2> HIDE DEF range
  <2> QED BY <1>6, <2>1
<1> HIDE DEF Z
<1>14. range.start = Z(from) /\ range.end = Z(to) OBVIOUS
<1> HIDE DEF range
<1> QED BY <1>7, <1>11, <1>12, <1>13, <1>14

(* Every instant lies in the day, the week, the fortnight and the month of *)
(* its local date, and these periods never overlap: in any zone whose      *)
(* clock changes by an hour on any day, over the turns of months, years    *)
(* and leap years (timezone.ts, resolveReportRange).                       *)
THEOREM PeriodsPartition == CalendarSpec => []PeriodsPartitionTime
<1>1. CalendarInit => CalendarRight
  <2> SUFFICES ASSUME CalendarInit PROVE CalendarRight OBVIOUS
  <2>1. PICK before \in OffsetBefore, shift \in Shift, day \in ChangeDay :
          zone = [before |-> before, shift |-> shift, change |-> day * 24 + 2 - before]
    BY DEF CalendarInit
  <2>2. Zone(zone, day) /\ day \in Int BY <2>1, CalendarAssumption DEF Zone
  <2>3. weekStart \in 0..6 BY DEF CalendarInit, ResolveWeekStart
  <2>4. instant \in 24..(24 * LastDay)
    <3>1. FirstDay \in Nat /\ LastDay \in Nat /\ 1 <= FirstDay /\ FirstDay <= LastDay BY CalendarAssumption
    <3> QED BY <3>1 DEF CalendarInit
  <2> QED BY <2>2, <2>3, <2>4 DEF CalendarRight
<1>2. CalendarRight /\ [HourPasses]_calendarVars => CalendarRight'
  <2> SUFFICES ASSUME CalendarRight, [HourPasses]_calendarVars PROVE CalendarRight' OBVIOUS
  <2>1. CASE HourPasses BY <2>1, LastYear DEF HourPasses, CalendarRight, Zone
  <2>2. CASE UNCHANGED calendarVars BY <2>2 DEF calendarVars, CalendarRight, Zone
  <2> QED BY <2>1, <2>2
<1> QED BY <1>1, <1>2, PeriodsHold, PTL DEF CalendarSpec

(***************************************************************************)
(* Sessions, workdays and overtime                                         *)
(***************************************************************************)
\* A finite set of instants has a last one.
LEMMA LastInstants ==
  ASSUME NEW S, IsFiniteSet(S)
  PROVE  S \in SUBSET Nat /\ S # {} => Max(S) \in S /\ \A t \in S : t <= Max(S)
<1> DEFINE Wrong == {T \in SUBSET S : T \in SUBSET Nat /\ T # {} /\ ~\E x \in T : \A y \in T : x >= y}
<1>1. Wrong = {}
  <2> SUFFICES ASSUME Wrong # {} PROVE FALSE OBVIOUS
  <2>1. PICK T \in Wrong : \A U \in Wrong : U \subseteq T => U = T
    <3>1. Wrong \in SUBSET (SUBSET S) /\ Wrong # {} OBVIOUS
    <3> HIDE DEF Wrong
    <3> QED BY <3>1, MinimalSubset
  <2>2. PICK z \in T : TRUE OBVIOUS
  <2>3. T \ {z} \notin Wrong
    <3> HIDE DEF Wrong
    <3> QED BY <2>1, <2>2
  <2>4. T \in SUBSET S /\ T \in SUBSET Nat /\ ~\E x \in T : \A y \in T : x >= y OBVIOUS
  <2>5. CASE T \ {z} = {} BY <2>2, <2>4, <2>5
  <2>6. CASE T \ {z} # {}
    <3>1. PICK x \in T \ {z} : \A y \in T \ {z} : x >= y BY <2>3, <2>4, <2>6
    <3>2. x \in Nat /\ z \in Nat BY <2>2, <2>4, <3>1
    <3>3. \A y \in T : y \in Nat BY <2>4
    <3> HIDE DEF Wrong
    <3>4. CASE x >= z BY <2>4, <3>1, <3>2, <3>4
    <3>5. CASE z > x
      <4>1. \A y \in T : z >= y BY <3>1, <3>2, <3>3, <3>5
      <4> QED BY <2>2, <2>4, <4>1
    <3> QED BY <3>2, <3>4, <3>5
  <2> QED BY <2>5, <2>6
<1> SUFFICES ASSUME S \in SUBSET Nat, S # {} PROVE Max(S) \in S /\ \A t \in S : t <= Max(S) OBVIOUS
<1>2. \E x \in S : \A y \in S : x >= y BY <1>1
<1>3. Max(S) \in S /\ \A y \in S : Max(S) >= y BY <1>2 DEF Max
<1>4. \A y \in S : y \in Nat OBVIOUS
<1> QED BY <1>3, <1>4

\* What Spaced is one of.
IsSpaced(instants, gap, taken) ==
  /\ taken \in SUBSET instants
  /\ \A t \in instants : t \in taken <=> \A u \in taken : u < t => t - u >= gap

\* There is no other.
LEMMA OneSpacing ==
  ASSUME NEW S \in SUBSET Nat, NEW w \in Int,
         NEW K, IsSpaced(S, w, K), NEW L, IsSpaced(S, w, L)
  PROVE  K = L
<1> DEFINE D == {t \in S : ~(t \in K <=> t \in L)}
<1>1. ASSUME D # {} PROVE FALSE
  <2>1. D \in SUBSET Nat OBVIOUS
  <2>2. PICK t \in D : \A u \in D : t <= u
    <3> HIDE DEF D
    <3> QED BY <1>1, <2>1, LeastNumber
  <2>3. \A u \in S : u < t => (u \in K <=> u \in L)
    <3> SUFFICES ASSUME NEW u \in S, u < t, ~(u \in K <=> u \in L) PROVE FALSE OBVIOUS
    <3>1. t <= u BY <2>2
    <3>2. t \in Nat /\ u \in Nat BY <2>1
    <3> QED BY <3>1, <3>2
  <2>4. K \subseteq S /\ L \subseteq S /\ t \in S BY DEF IsSpaced
  <2>5. (\A u \in K : u < t => t - u >= w) <=> (\A u \in L : u < t => t - u >= w) BY <2>3, <2>4
  <2>6. t \in K <=> t \in L BY <2>4, <2>5 DEF IsSpaced
  <2> QED BY <2>6
<1>2. K \subseteq S /\ L \subseteq S BY DEF IsSpaced
<1>3. \A t \in S : t \in K <=> t \in L BY <1>1
<1> QED BY <1>2, <1>3

\* There is one.
LEMMA SomeSpacing ==
  ASSUME NEW S, IsFiniteSet(S), NEW w \in Int
  PROVE  S \in SUBSET Nat => \E K : IsSpaced(S, w, K)
<1> DEFINE Wrong == {T \in SUBSET S : T \in SUBSET Nat /\ ~\E K : IsSpaced(T, w, K)}
<1> SUFFICES ASSUME Wrong # {} PROVE FALSE
  <2>1. S \notin Wrong OBVIOUS
  <2> HIDE DEF Wrong
  <2> QED BY <2>1 DEF Wrong
<1>1. PICK T \in Wrong : \A U \in Wrong : U \subseteq T => U = T
  <2>1. Wrong \in SUBSET (SUBSET S) /\ Wrong # {} OBVIOUS
  <2> HIDE DEF Wrong
  <2> QED BY <2>1, MinimalSubset
<1>2. T # {}
  <2>1. IsSpaced({}, w, {}) BY DEF IsSpaced
  <2> QED BY <2>1
<1>3. T \in SUBSET Nat /\ IsFiniteSet(T)
  <2>1. T \in SUBSET Nat /\ T \in SUBSET S OBVIOUS
  <2> HIDE DEF Wrong
  <2> QED BY <2>1, FS_Subset
<1>4. PICK x : x \in T /\ \A t \in T : t <= x
  <2> HIDE DEF Wrong
  <2> QED BY <1>2, <1>3, LastInstants
<1>13. T \in SUBSET S OBVIOUS
<1>5. T \ {x} \notin Wrong
  <2> HIDE DEF Wrong
  <2> QED BY <1>1, <1>4
<1>6. PICK K : IsSpaced(T \ {x}, w, K) BY <1>5
<1>7. \A t \in T : t \in Nat BY <1>3
<1>8. K \subseteq T \ {x} BY <1>6 DEF IsSpaced
<1>9. ASSUME NEW L, L = K \/ L = K \cup {x}, NEW t \in T \ {x}
      PROVE  t \in L <=> \A u \in L : u < t => t - u >= w
  <2>1. ~(x < t) BY <1>4, <1>7
  <2>2. t \in K <=> \A u \in K : u < t => t - u >= w BY <1>6 DEF IsSpaced
  <2> HIDE DEF Wrong
  <2> QED BY <1>9, <2>1, <2>2
<1>10. ~(x < x) BY <1>4, <1>7
<1>11. CASE \A u \in K : u < x => x - u >= w
  <2>1. IsSpaced(T, w, K \cup {x})
    <3>1. K \cup {x} \in SUBSET T BY <1>4, <1>8
    <3>2. \A u \in K \cup {x} : u < x => x - u >= w BY <1>10, <1>11
    <3> HIDE DEF Wrong
    <3> QED BY <1>9, <3>1, <3>2 DEF IsSpaced
  <2> QED BY <2>1
<1>12. CASE ~\A u \in K : u < x => x - u >= w
  <2>1. IsSpaced(T, w, K)
    <3> HIDE DEF Wrong
    <3> QED BY <1>8, <1>9, <1>12 DEF IsSpaced
  <2> QED BY <2>1
<1> QED BY <1>11, <1>12

\* Spaced is it.
LEMMA SpacedIs ==
  ASSUME NEW S \in SUBSET Nat, IsFiniteSet(S), NEW w \in Int
  PROVE  /\ IsSpaced(S, w, Spaced(S, w))
         /\ \A K : IsSpaced(S, w, K) => Spaced(S, w) = K
<1> DEFINE Good(K) == \A t \in S : t \in K <=> \A u \in K : u < t => t - u >= w
<1>2. \E K : IsSpaced(S, w, K) BY SomeSpacing
<1>3. \E K \in SUBSET S : Good(K) BY <1>2 DEF IsSpaced
<1>4. Spaced(S, w) = CHOOSE K \in SUBSET S : Good(K) BY DEF Spaced
<1>5. Spaced(S, w) \in SUBSET S /\ Good(Spaced(S, w))
  <2> HIDE DEF Good
  <2> QED BY <1>3, <1>4
<1>1. IsSpaced(S, w, Spaced(S, w)) BY <1>5 DEF IsSpaced
<1> QED BY <1>1, OneSpacing

\* What is taken after a long pause does not depend on what came before,
\* nor on what comes later.
LEMMA SpacedAfterPause ==
  ASSUME NEW S \in SUBSET Nat, IsFiniteSet(S), NEW w \in Int, NEW c \in Int, NEW h \in Int,
         \A t \in S, u \in S : t < c /\ u >= c => u - t >= w
  PROVE  {t \in Spaced(S, w) : c <= t /\ t < h} = Spaced({t \in S : c <= t /\ t < h}, w)
<1> DEFINE K == Spaced(S, w)
           T == {t \in S : c <= t /\ t < h}
           L == {t \in K : c <= t /\ t < h}
<1>1. IsSpaced(S, w, K) BY SpacedIs
<1>2. T \in SUBSET Nat /\ IsFiniteSet(T) BY FS_Subset
<1>3. IsSpaced(T, w, L)
  <2>1. K \in SUBSET S /\ \A t \in S : t \in K <=> \A u \in K : u < t => t - u >= w BY <1>1 DEF IsSpaced
  <2>2. L \in SUBSET T BY <2>1
  <2>3. ASSUME NEW t \in T PROVE t \in L <=> \A u \in L : u < t => t - u >= w
    <3>1. t \in S /\ t \in Nat /\ c <= t /\ t < h BY <1>2
    <3>2. t \in L <=> t \in K BY <3>1
    <3>3. ASSUME NEW u \in K, u < t, u \notin L PROVE t - u >= w
      <4>1. u \in S /\ u \in Nat BY <2>1, <3>3
      <4>2. u < c BY <3>1, <3>3, <4>1
      <4> QED BY <3>1, <4>1, <4>2
    <3>4. (\A u \in L : u < t => t - u >= w) <=> (\A u \in K : u < t => t - u >= w) BY <3>3
    <3> QED BY <2>1, <3>1, <3>2, <3>4
  <2> QED BY <2>2, <2>3 DEF IsSpaced
<1> HIDE DEF K, T, L
<1>4. Spaced(T, w) = L BY <1>2, <1>3, SpacedIs
<1> QED BY <1>4 DEF K, T, L

\* Days follow each other.
LEMMA StartsOfDays ==
  /\ DAY \in Nat \ {0} /\ WEST \in Nat /\ LastLocalDay \in Nat
  /\ \A d \in Nat : StartOfLocalDay(d) \in Nat /\ StartOfLocalDay(d + 1) = StartOfLocalDay(d) + DAY
  /\ \A d \in Nat : d <= LastLocalDay =>
       TheWeek.start <= StartOfLocalDay(d) /\ StartOfLocalDay(d) + DAY <= TheWeek.end
  /\ TheWeek.start \in Nat /\ TheWeek.end \in Nat
<1>1. DAY \in Nat /\ WEST \in Nat /\ LastLocalDay \in Nat /\ WEST < DAY BY AttendanceAssumption
<1>2. PICK D \in Nat \ {0} : D = DAY BY <1>1
<1>3. PICK L \in Nat : L = LastLocalDay BY <1>1
<1>4. \A d \in Nat : d * D \in Nat /\ (d + 1) * D = d * D + D BY SMT
<1>5. \A d \in Nat : StartOfLocalDay(d) = d * D + WEST BY <1>2 DEF StartOfLocalDay
<1>6. \A d \in Nat : StartOfLocalDay(d) \in Nat /\ StartOfLocalDay(d + 1) = StartOfLocalDay(d) + D
  <2> TAKE d \in Nat
  <2>1. d + 1 \in Nat OBVIOUS
  <2>2. StartOfLocalDay(d + 1) = (d + 1) * D + WEST BY <1>5, <2>1
  <2>3. PICK p \in Nat : p = d * D BY <1>4
  <2> QED BY <1>1, <1>2, <1>4, <1>5, <2>2, <2>3
<1>7. TheWeek.start = WEST /\ TheWeek.end = StartOfLocalDay(L) + D
  <2>1. TheWeek.start = StartOfLocalDay(0) /\ TheWeek.end = StartOfLocalDay(L + 1)
    BY <1>3 DEF TheWeek, DaysRange
  <2>2. StartOfLocalDay(0) = WEST BY <1>1, <1>2, <1>5
  <2> QED BY <1>6, <2>1, <2>2
<1>8. ASSUME NEW d \in Nat, d <= L
      PROVE  WEST <= StartOfLocalDay(d) /\ StartOfLocalDay(d) <= StartOfLocalDay(L)
  <2>1. d * D <= L * D BY <1>8, SMT
  <2>2. PICK p \in Nat : p = d * D BY <1>4
  <2>3. PICK q \in Nat : q = L * D BY <1>4
  <2>4. StartOfLocalDay(d) = p + WEST /\ StartOfLocalDay(L) = q + WEST BY <1>5, <2>2, <2>3
  <2> QED BY <1>1, <2>1, <2>2, <2>3, <2>4
<1>9. ASSUME NEW d \in Nat, d <= L
      PROVE  TheWeek.start <= StartOfLocalDay(d) /\ StartOfLocalDay(d) + D <= TheWeek.end
  <2>1. StartOfLocalDay(d) \in Nat /\ StartOfLocalDay(L) \in Nat BY <1>6
  <2> QED BY <1>7, <1>8, <1>9, <2>1
<1>10. TheWeek.start \in Nat /\ TheWeek.end \in Nat
  <2>1. StartOfLocalDay(L) \in Nat BY <1>6
  <2> QED BY <1>1, <1>7, <2>1
<1> QED BY <1>1, <1>2, <1>3, <1>6, <1>9, <1>10

\* An instant is in its day.
LEMMA DayOfInstant ==
  /\ \A t \in Int : LocalDay(t) \in Int
  /\ \A t \in Int, d \in Nat : LocalDay(t) = d <=> StartOfLocalDay(d) <= t /\ t < StartOfLocalDay(d) + DAY
  /\ \A t \in Int, u \in Int : t <= u => LocalDay(t) <= LocalDay(u)
<1>1. DAY \in Nat \ {0} /\ WEST \in Nat BY StartsOfDays
<1>2. PICK D \in Nat \ {0} : D = DAY BY <1>1
<1>3. ASSUME NEW t \in Int
      PROVE  LocalDay(t) \in Int /\ LocalDay(t) * D <= t - WEST /\ t - WEST < LocalDay(t) * D + D
  <2>1. t - WEST \in Int BY <1>1
  <2>2. PICK v \in Int : v = t - WEST BY <2>1
  <2>3. PICK q \in Int : q = v \div D BY SMT
  <2>4. q * D <= v /\ v < q * D + D BY <2>3, SMT
  <2>5. LocalDay(t) = q BY <1>2, <2>2, <2>3 DEF LocalDay
  <2> QED BY <2>2, <2>4, <2>5
<1>4. ASSUME NEW p \in Int, NEW q \in Int, p < q PROVE p * D + D <= q * D
  <2>1. p + 1 <= q BY <1>4
  <2>2. (p + 1) * D <= q * D BY <2>1, SMT
  <2>3. (p + 1) * D = p * D + D BY SMT
  <2> QED BY <2>2, <2>3
<1>5. ASSUME NEW t \in Int, NEW d \in Nat
      PROVE  LocalDay(t) = d <=> StartOfLocalDay(d) <= t /\ t < StartOfLocalDay(d) + DAY
  <2>1. PICK q \in Int : q = LocalDay(t) BY <1>3
  <2>2. PICK m \in Int : m = q * D BY SMT
  <2>3. PICK n \in Int : n = d * D BY SMT
  <2>4. m <= t - WEST /\ t - WEST < m + D BY <1>3, <2>1, <2>2
  <2>5. StartOfLocalDay(d) = n + WEST BY <1>2, <2>3 DEF StartOfLocalDay
  <2>6. q = d => m = n BY <2>2, <2>3
  <2>7. q < d => m + D <= n BY <1>4, <2>2, <2>3
  <2>8. d < q => n + D <= m BY <1>4, <2>2, <2>3
  <2>9. q = d \/ q < d \/ d < q OBVIOUS
  <2> QED BY <1>1, <1>2, <2>1, <2>4, <2>5, <2>6, <2>7, <2>8, <2>9
<1>6. ASSUME NEW t \in Int, NEW u \in Int, t <= u PROVE LocalDay(t) <= LocalDay(u)
  <2>1. PICK p \in Int : p = LocalDay(t) BY <1>3
  <2>2. PICK q \in Int : q = LocalDay(u) BY <1>3
  <2>3. PICK m \in Int : m = p * D BY SMT
  <2>4. PICK n \in Int : n = q * D BY SMT
  <2>5. m <= t - WEST /\ u - WEST < n + D BY <1>3, <2>1, <2>2, <2>3, <2>4
  <2>6. q < p => n + D <= m BY <1>4, <2>3, <2>4
  <2> QED BY <1>1, <1>6, <2>1, <2>2, <2>5, <2>6
<1> QED BY <1>3, <1>5, <1>6

\* What is known of the punches.
PunchesKnown == punched \in SUBSET Nat /\ IsFiniteSet(punched)

\* The entries of some instants, and the instants themselves.
LEMMA MatchIs ==
  ASSUME NEW S \in SUBSET Nat, IsFiniteSet(S)
  PROVE  /\ Match(S) = {PunchSession(S, t) : t \in Spaced(S, MAX_WORKDAY + 1)}
         /\ Spaced(S, MAX_WORKDAY + 1) \in SUBSET S
         /\ \A t \in S : /\ PunchSession(S, t).entry = t
                         /\ PunchSession(S, t).exit \in {-1} \cup {u \in S : t < u}
<1>1. MAX_WORKDAY \in Nat BY AttendanceAssumption
<1>2. MAX_WORKDAY + 1 \in Int BY <1>1
<1>3. Spaced(S, MAX_WORKDAY + 1) \in SUBSET S BY <1>2, SpacedIs DEF IsSpaced
<1>4. ASSUME NEW t \in S
      PROVE  PunchSession(S, t).entry = t /\ PunchSession(S, t).exit \in {-1} \cup {u \in S : t < u}
  <2> DEFINE before == {u \in S : t < u /\ u <= t + MAX_WORKDAY}
  <2>1. before \in SUBSET Nat /\ IsFiniteSet(before) BY FS_Subset
  <2>2. before # {} => Max(before) \in before
    <3> HIDE DEF before
    <3> QED BY <2>1, LastInstants
  <2>3. PunchSession(S, t) = [entry |-> t, exit |-> IF before = {} THEN -1 ELSE Max(before)]
    BY DEF PunchSession
  <2>4. before \subseteq {u \in S : t < u} OBVIOUS
  <2> HIDE DEF before
  <2>5. PunchSession(S, t).entry = t /\ PunchSession(S, t).exit = IF before = {} THEN -1 ELSE Max(before) BY <2>3
  <2>6. CASE before = {} BY <2>5, <2>6
  <2>7. CASE before # {}
    <3>1. PunchSession(S, t).exit \in {u \in S : t < u} BY <2>2, <2>4, <2>5, <2>7
    <3> QED BY <2>5, <3>1
  <2> QED BY <2>6, <2>7
<1> QED BY <1>3, <1>4 DEF Match

\* Of the same instants around an entry the session is the same.
LEMMA SameSession ==
  ASSUME NEW S, NEW T, NEW t \in Int,
         \A u : u \in S /\ t < u /\ u <= t + MAX_WORKDAY <=> u \in T /\ t < u /\ u <= t + MAX_WORKDAY
  PROVE  PunchSession(S, t) = PunchSession(T, t)
<1> DEFINE before(R) == {u \in R : t < u /\ u <= t + MAX_WORKDAY}
<1>1. before(S) = before(T) OBVIOUS
<1>2. PunchSession(S, t) = [entry |-> t, exit |-> IF before(S) = {} THEN -1 ELSE Max(before(S))] BY DEF PunchSession
<1>3. PunchSession(T, t) = [entry |-> t, exit |-> IF before(T) = {} THEN -1 ELSE Max(before(T))] BY DEF PunchSession
<1> HIDE DEF before
<1> QED BY <1>1, <1>2, <1>3

\* Nobody punched for longer than a workday lasts before c.
Paused(instants, c) == \A t \in instants : t < c => c - t > MAX_WORKDAY

\* After a pause nothing of before is left.
LEMMA KeptAfterPause ==
  ASSUME NEW R \in SUBSET Nat, IsFiniteSet(R), NEW c \in Int, NEW h \in Int, Paused(R, c)
  PROVE  LET K == WithoutDuplicates(R)
         IN  /\ K \in SUBSET R /\ K \in SUBSET Nat /\ IsFiniteSet(K)
             /\ {t \in K : c <= t /\ t < h} = Spaced({t \in R : c <= t /\ t < h}, DUPLICATE)
             /\ {t \in Spaced(K, MAX_WORKDAY + 1) : c <= t /\ t < h}
                  = Spaced({t \in K : c <= t /\ t < h}, MAX_WORKDAY + 1)
<1>1. MAX_WORKDAY \in Nat /\ DUPLICATE \in Nat /\ DUPLICATE <= MAX_WORKDAY BY AttendanceAssumption
<1>2. MAX_WORKDAY + 1 \in Int /\ DUPLICATE \in Int BY <1>1
<1>3. PICK K : K = WithoutDuplicates(R) OBVIOUS
<1>4. K \in SUBSET R BY <1>2, <1>3, SpacedIs DEF WithoutDuplicates, IsSpaced
<1>5. K \in SUBSET Nat /\ IsFiniteSet(K) BY <1>4, FS_Subset
<1>6. ASSUME NEW t \in R, NEW u \in R, t < c, u >= c PROVE u - t >= MAX_WORKDAY + 1 /\ u - t >= DUPLICATE
  <2>1. t \in Nat /\ u \in Nat /\ c - t > MAX_WORKDAY BY <1>6 DEF Paused
  <2> QED BY <1>1, <1>6, <2>1
<1>7. {t \in K : c <= t /\ t < h} = Spaced({t \in R : c <= t /\ t < h}, DUPLICATE)
  <2>1. \A t \in R, u \in R : t < c /\ u >= c => u - t >= DUPLICATE BY <1>6
  <2> QED BY <1>2, <1>3, <2>1, SpacedAfterPause DEF WithoutDuplicates
<1>8. {t \in Spaced(K, MAX_WORKDAY + 1) : c <= t /\ t < h} = Spaced({t \in K : c <= t /\ t < h}, MAX_WORKDAY + 1)
  <2>1. \A t \in K, u \in K : t < c /\ u >= c => u - t >= MAX_WORKDAY + 1 BY <1>4, <1>6
  <2>2. PICK w \in Int : w = MAX_WORKDAY + 1 BY <1>2
  <2>3. \A t \in K, u \in K : t < c /\ u >= c => u - t >= w BY <2>1, <2>2
  <2> QED BY <1>5, <2>2, <2>3, SpacedAfterPause
<1> QED BY <1>3, <1>4, <1>5, <1>7, <1>8

\* Of two sets of instants that agree from a pause on, the sessions do.
LEMMA SessionsAfterPause ==
  ASSUME NEW S \in SUBSET Nat, IsFiniteSet(S), NEW T \in SUBSET Nat, IsFiniteSet(T), NEW c \in Int, NEW h \in Int,
         {t \in S : c <= t /\ t < h} = {t \in T : c <= t /\ t < h},
         Paused(S, c), Paused(T, c),
         NEW s, s \in Match(WithoutDuplicates(S)), c <= s.entry, s.entry + MAX_WORKDAY < h
  PROVE  s \in Match(WithoutDuplicates(T))
<1>1. MAX_WORKDAY \in Nat /\ DUPLICATE \in Nat /\ DUPLICATE <= MAX_WORKDAY BY AttendanceAssumption
<1>2. PICK m \in Nat : m = MAX_WORKDAY + 1 BY <1>1
<1> DEFINE In(R) == {t \in R : c <= t /\ t < h}
           K(R) == WithoutDuplicates(R)
           E(R) == Spaced(K(R), m)
<1>3. ASSUME NEW R \in SUBSET Nat, IsFiniteSet(R), Paused(R, c)
      PROVE  /\ K(R) \in SUBSET R /\ K(R) \in SUBSET Nat /\ IsFiniteSet(K(R))
             /\ In(K(R)) = Spaced(In(R), DUPLICATE)
             /\ In(E(R)) = Spaced(In(K(R)), m)
  BY <1>2, <1>3, KeptAfterPause
<1>4. In(S) = In(T) OBVIOUS
<1>5. /\ K(S) \in SUBSET Nat /\ IsFiniteSet(K(S)) /\ In(K(S)) = Spaced(In(S), DUPLICATE)
      /\ In(E(S)) = Spaced(In(K(S)), m)
  <2> HIDE DEF In, K, E
  <2> QED BY <1>3
<1>6. /\ K(T) \in SUBSET Nat /\ IsFiniteSet(K(T)) /\ In(K(T)) = Spaced(In(T), DUPLICATE)
      /\ In(E(T)) = Spaced(In(K(T)), m)
  <2> HIDE DEF In, K, E
  <2> QED BY <1>3
<1>7. In(K(S)) = In(K(T)) /\ In(E(S)) = In(E(T))
  <2> HIDE DEF In, K, E
  <2> QED BY <1>4, <1>5, <1>6
<1>8. PICK t \in E(S) : s = PunchSession(K(S), t)
  <2>1. Match(K(S)) = {PunchSession(K(S), t) : t \in E(S)} BY <1>2 DEF Match
  <2>2. s \in Match(K(S)) OBVIOUS
  <2> HIDE DEF In, K, E
  <2> QED BY <2>1, <2>2
<1>9. E(S) \in SUBSET K(S)
  <2>1. m \in Int OBVIOUS
  <2> HIDE DEF K
  <2> QED BY <1>5, <2>1, SpacedIs DEF IsSpaced
<1>10. s.entry = t /\ t \in Nat
  <2>1. t \in K(S) BY <1>8, <1>9
  <2> HIDE DEF K, E
  <2> QED BY <1>5, <1>8, <2>1, MatchIs
<1>11. c <= t /\ t < h BY <1>1, <1>10
<1>12. t \in E(T)
  <2>1. t \in In(E(S)) BY <1>8, <1>11
  <2>2. In(E(T)) \subseteq E(T) OBVIOUS
  <2> HIDE DEF In, K, E
  <2> QED BY <1>7, <2>1, <2>2
<1>13. PunchSession(K(S), t) = PunchSession(K(T), t)
  <2>1. ASSUME NEW u, t < u, u <= t + MAX_WORKDAY, u \in Nat PROVE u \in K(S) <=> u \in K(T)
    <3>1. c <= u /\ u < h BY <1>1, <1>10, <1>11, <2>1
    <3>2. u \in K(S) <=> u \in In(K(S)) BY <3>1
    <3>3. u \in K(T) <=> u \in In(K(T)) BY <3>1
    <3> HIDE DEF In, K, E
    <3> QED BY <1>7, <3>2, <3>3
  <2>2. \A u : u \in K(S) \/ u \in K(T) => u \in Nat
    <3> HIDE DEF K
    <3> QED BY <1>5, <1>6
  <2>3. t \in Int BY <1>10
  <2> HIDE DEF In, K, E
  <2> QED BY <2>1, <2>2, <2>3, SameSession
<1>14. PunchSession(K(T), t) \in Match(K(T))
  <2>1. Match(K(T)) = {PunchSession(K(T), u) : u \in E(T)} BY <1>2 DEF Match
  <2> HIDE DEF In, K, E
  <2> QED BY <1>12, <2>1
<1> HIDE DEF E, In
<1> QED BY <1>8, <1>13, <1>14

\* A pause in the days read before a day, or before all punches, makes its
\* sessions those of the week.
LEMMA SessionsOfADay ==
  ASSUME PunchesKnown, NEW day \in LocalDays, NEW c \in Int,
         c <= StartOfLocalDay(day), c >= StartOfLocalDay(day) - LOOKBACK_DAYS_CLOCK * DAY,
         Paused(punched, c)
  PROVE  Sessions(DaysRange(day, day)) = {s \in Sessions(TheWeek) : LocalDay(s.entry) = day}
<1>1. day \in Nat /\ day <= LastLocalDay BY StartsOfDays DEF LocalDays
<1>2. DAY \in Nat /\ MAX_WORKDAY \in Nat /\ MAX_WORKDAY <= DAY /\ LOOKBACK_DAYS_CLOCK \in Nat BY AttendanceAssumption
<1>3. PICK D \in Nat : D = DAY BY <1>2
<1>4. PICK B \in Nat : B = LOOKBACK_DAYS_CLOCK * DAY
  <2>1. PICK l \in Nat : l = LOOKBACK_DAYS_CLOCK BY <1>2
  <2>2. l * D \in Nat BY SMT
  <2> QED BY <1>3, <2>1, <2>2
<1>5. PICK s0 \in Nat : s0 = StartOfLocalDay(day) BY <1>1, StartsOfDays
<1>6. DaysRange(day, day).start = s0 /\ DaysRange(day, day).end = s0 + D
  BY <1>1, <1>3, <1>5, StartsOfDays DEF DaysRange
<1>7. PICK ws \in Nat : ws = TheWeek.start BY StartsOfDays
<1>8. PICK we \in Nat : we = TheWeek.end BY StartsOfDays
<1>9. ws <= s0 /\ s0 + D <= we BY <1>1, <1>3, <1>5, <1>7, <1>8, StartsOfDays
<1>10. PICK A : A = {t \in punched : t >= s0 - B /\ t < s0 + D + D} OBVIOUS
<1>11. PICK W : W = {t \in punched : t >= ws - B /\ t < we + D} OBVIOUS
<1>12. LoadedPunches(DaysRange(day, day)) = A BY <1>3, <1>4, <1>6, <1>10 DEF LoadedPunches
<1>13. LoadedPunches(TheWeek) = W BY <1>3, <1>4, <1>7, <1>8, <1>11 DEF LoadedPunches
<1>14. A \in SUBSET Nat /\ IsFiniteSet(A) /\ A \subseteq punched BY <1>10, FS_Subset DEF PunchesKnown
<1>15. W \in SUBSET Nat /\ IsFiniteSet(W) /\ W \subseteq punched BY <1>11, FS_Subset DEF PunchesKnown
<1>16. PICK h \in Nat : h = s0 + D + D OBVIOUS
<1>17. c <= s0 /\ c >= s0 - B BY <1>4, <1>5
<1>18. {t \in A : c <= t /\ t < h} = {t \in W : c <= t /\ t < h}
  <2>1. ASSUME NEW t \in punched, c <= t, t < h PROVE t \in A /\ t \in W
    <3>1. t \in Nat BY DEF PunchesKnown
    <3>2. t >= s0 - B /\ t < s0 + D + D BY <1>16, <1>17, <2>1, <3>1
    <3>3. t >= ws - B /\ t < we + D BY <1>9, <3>1, <3>2
    <3> QED BY <1>10, <1>11, <3>2, <3>3
  <2> QED BY <1>14, <1>15, <2>1
<1>19. Paused(A, c) /\ Paused(W, c) BY <1>14, <1>15 DEF Paused
<1> DEFINE SA == Match(WithoutDuplicates(A))
           SW == Match(WithoutDuplicates(W))
<1>20. ASSUME NEW s, s.entry \in Int, s.entry >= s0, s.entry < s0 + D
       PROVE  c <= s.entry /\ s.entry + MAX_WORKDAY < h
  BY <1>2, <1>3, <1>16, <1>17, <1>20
<1>21. ASSUME NEW s, s.entry \in Int, s.entry >= s0, s.entry < s0 + D
       PROVE  s \in SA <=> s \in SW
  <2>1. c <= s.entry /\ s.entry + MAX_WORKDAY < h BY <1>20, <1>21
  <2>2. h \in Int OBVIOUS
  <2>3. s \in SA => s \in SW BY <1>14, <1>15, <1>18, <1>19, <2>1, <2>2, SessionsAfterPause
  <2>4. s \in SW => s \in SA BY <1>14, <1>15, <1>18, <1>19, <2>1, <2>2, SessionsAfterPause
  <2> QED BY <2>3, <2>4
<1>22. ASSUME NEW R \in SUBSET Nat, IsFiniteSet(R), NEW s \in Match(WithoutDuplicates(R)) PROVE s.entry \in Nat
  <2>1. DUPLICATE \in Int /\ DUPLICATE \in Nat BY AttendanceAssumption
  <2>2. PICK K : K = WithoutDuplicates(R) OBVIOUS
  <2>3. K \in SUBSET R BY <1>22, <2>1, <2>2, SpacedIs DEF WithoutDuplicates, IsSpaced
  <2>4. K \in SUBSET Nat /\ IsFiniteSet(K) BY <1>22, <2>3, FS_Subset
  <2>5. PICK t \in Spaced(K, MAX_WORKDAY + 1) : s = PunchSession(K, t) BY <2>2, <2>4, MatchIs
  <2> QED BY <2>4, <2>5, MatchIs
<1>23. Sessions(DaysRange(day, day)) = {s \in SA : s.entry >= s0 /\ s.entry < s0 + D}
  BY <1>6, <1>12 DEF Sessions
<1>24. Sessions(TheWeek) = {s \in SW : s.entry >= ws /\ s.entry < we} BY <1>7, <1>8, <1>13 DEF Sessions
<1>25. \A s \in SA : s.entry \in Nat BY <1>14, <1>22
<1>26. \A s \in SW : s.entry \in Nat BY <1>15, <1>22
<1>27. ASSUME NEW s, s.entry \in Nat
       PROVE  /\ LocalDay(s.entry) = day <=> s.entry >= s0 /\ s.entry < s0 + D
              /\ s.entry >= s0 /\ s.entry < s0 + D => s.entry >= ws /\ s.entry < we
  <2>1. s.entry \in Int BY <1>27
  <2>2. LocalDay(s.entry) = day <=> s0 <= s.entry /\ s.entry < s0 + D BY <1>1, <1>3, <1>5, <2>1, DayOfInstant
  <2> QED BY <1>9, <1>27, <2>2
<1> HIDE DEF SA, SW
<1>28. ASSUME NEW s PROVE s \in Sessions(DaysRange(day, day)) <=> s \in Sessions(TheWeek) /\ LocalDay(s.entry) = day
  <2>1. CASE s.entry \in Nat
    <3>1. s.entry \in Int BY <2>1
    <3> QED BY <1>21, <1>23, <1>24, <1>27, <2>1, <3>1
  <2>2. CASE s.entry \notin Nat BY <1>23, <1>24, <1>25, <1>26, <2>2
  <2> QED BY <2>1, <2>2
<1> QED BY <1>28

\* LookbackResynchronises, of any punches.
LEMMA DaysResynchronise == ASSUME PunchesKnown PROVE LookbackResynchronises
<1> DEFINE before(day) == {t \in punched : t < StartOfLocalDay(day)}
           low(day) == StartOfLocalDay(day) - LOOKBACK_DAYS_CLOCK * DAY
           read(day) == {t \in before(day) : t >= low(day)}
           next(day, t) == {u \in read(day) : u > t} \cup {StartOfLocalDay(day)}
           rested(day) == \/ before(day) = {}
                          \/ \E t \in {low(day)} \cup read(day) : Min(next(day, t)) - t > MAX_WORKDAY
<1>1. ASSUME NEW day \in LocalDays, rested(day)
      PROVE  Sessions(DaysRange(day, day)) = {s \in Sessions(TheWeek) : LocalDay(s.entry) = day}
  <2>1. day \in Nat /\ StartOfLocalDay(day) \in Nat BY StartsOfDays DEF LocalDays
  <2>2. PICK s0 \in Nat : s0 = StartOfLocalDay(day) BY <2>1
  <2>3. MAX_WORKDAY \in Nat /\ LOOKBACK_DAYS_CLOCK \in Nat /\ DAY \in Nat BY AttendanceAssumption
  <2>4. PICK B \in Nat : B = LOOKBACK_DAYS_CLOCK * DAY BY <2>3, SMT
  <2>5. CASE before(day) = {}
    <3>1. Paused(punched, s0) BY <2>2, <2>5 DEF Paused
    <3>2. s0 \in Int /\ s0 <= s0 /\ s0 >= s0 - B OBVIOUS
    <3> HIDE DEF before, low, read, next
    <3> QED BY <2>2, <2>4, <3>1, <3>2, SessionsOfADay
  <2>6. ASSUME NEW t \in {low(day)} \cup read(day), Min(next(day, t)) - t > MAX_WORKDAY
        PROVE  Sessions(DaysRange(day, day)) = {s \in Sessions(TheWeek) : LocalDay(s.entry) = day}
    <3>1. PICK N : N = next(day, t) OBVIOUS
    <3>2. N = {u \in punched : u < s0 /\ u >= s0 - B /\ u > t} \cup {s0} BY <2>2, <2>4, <3>1
    <3>3. N \in SUBSET Nat /\ N # {} BY <3>2 DEF PunchesKnown
    <3>4. \E x \in N : \A y \in N : x <= y BY <3>3, LeastNumber
    <3>5. Min(N) \in N /\ \A y \in N : Min(N) <= y BY <3>4 DEF Min
    <3>6. PICK c \in Nat : c = Min(N) BY <3>3, <3>5
    <3>7. c - t > MAX_WORKDAY BY <2>6, <3>1, <3>6
    <3>8. t \in Int /\ t >= s0 - B
      <4>1. low(day) = s0 - B BY <2>2, <2>4
      <4>2. \A u \in read(day) : u \in Nat /\ u >= s0 - B BY <4>1 DEF PunchesKnown
      <4>3. t = s0 - B \/ t \in read(day) BY <2>6, <4>1
      <4> HIDE DEF before, low, read, next
      <4> QED BY <4>2, <4>3
    <3>9. c <= s0 BY <3>2, <3>5, <3>6
    <3>10. c >= s0 - B BY <2>3, <3>7, <3>8
    <3>11. ASSUME NEW u \in punched, u < c PROVE c - u > MAX_WORKDAY
      <4>1. u \in Nat BY DEF PunchesKnown
      <4>2. u \notin N BY <3>5, <3>6, <3>11, <4>1
      <4>3. u < s0 BY <3>9, <3>11, <4>1
      <4>4. u < s0 - B \/ u <= t BY <3>2, <3>8, <4>1, <4>2, <4>3
      <4>5. u <= t BY <3>8, <4>1, <4>4
      <4> QED BY <2>3, <3>7, <3>8, <4>1, <4>5
    <3>12. c \in Int /\ Paused(punched, c) BY <3>11 DEF Paused
    <3> HIDE DEF before, low, read, next
    <3> QED BY <2>2, <2>4, <3>9, <3>10, <3>12, SessionsOfADay
  <2> HIDE DEF before, low, read, next
  <2> QED BY <1>1, <2>5, <2>6 DEF rested
<1> QED BY <1>1 DEF LookbackResynchronises

\* The image of a finite set is finite.
LEMMA ImagesAreFinite ==
  ASSUME NEW S, IsFiniteSet(S), NEW f
  PROVE  IsFiniteSet({f[x] : x \in S})
<1> DEFINE T == {f[x] : x \in S}
           g == [x \in S |-> f[x]]
<1>1. g \in Surjection(S, T) BY DEF Surjection
<1> HIDE DEF g, T
<1>2. IsFiniteSet(T) BY <1>1, FS_Surjection
<1> QED BY <1>2 DEF T

\* Sessions: finitely many, and each one ends after it began.
Plausible(sessions) ==
  /\ IsFiniteSet(sessions)
  /\ \A s \in sessions : s.entry \in Nat /\ (s.exit = -1 \/ (s.exit \in Nat /\ s.entry < s.exit))

\* Those of a period are.
LEMMA SessionsArePlausible ==
  ASSUME PunchesKnown, NEW range
  PROVE  Plausible(Sessions(range)) /\ \A s \in Sessions(range) : s.entry \in punched
<1>1. PICK L : L = LoadedPunches(range) OBVIOUS
<1>2. L \subseteq punched BY <1>1 DEF LoadedPunches
<1>3. L \in SUBSET Nat /\ IsFiniteSet(L) BY <1>2, FS_Subset DEF PunchesKnown
<1>4. PICK K : K = WithoutDuplicates(L) OBVIOUS
<1>5. DUPLICATE \in Nat /\ MAX_WORKDAY \in Nat BY AttendanceAssumption
<1>6. DUPLICATE \in Int BY <1>5
<1>7. K \in SUBSET L BY <1>3, <1>4, <1>6, SpacedIs DEF WithoutDuplicates, IsSpaced
<1>8. K \in SUBSET Nat /\ IsFiniteSet(K) /\ K \subseteq punched BY <1>2, <1>3, <1>7, FS_Subset
<1>9. PICK E : E = Spaced(K, MAX_WORKDAY + 1) OBVIOUS
<1>10. E \in SUBSET K /\ Match(K) = {PunchSession(K, t) : t \in E} BY <1>8, <1>9, MatchIs
<1>11. IsFiniteSet(E) BY <1>8, <1>10, FS_Subset
<1>12. IsFiniteSet(Match(K))
  <2>1. PICK f : f = [t \in E |-> PunchSession(K, t)] OBVIOUS
  <2>2. {f[t] : t \in E} = {PunchSession(K, t) : t \in E} BY <2>1
  <2>3. IsFiniteSet({f[t] : t \in E}) BY <1>11, ImagesAreFinite
  <2> QED BY <1>10, <2>2, <2>3
<1>13. Sessions(range) \subseteq Match(K) BY <1>1, <1>4 DEF Sessions
<1>14. IsFiniteSet(Sessions(range)) BY <1>12, <1>13, FS_Subset
<1>15. ASSUME NEW s \in Match(K)
       PROVE  s.entry \in punched /\ s.entry \in Nat /\ (s.exit = -1 \/ (s.exit \in Nat /\ s.entry < s.exit))
  <2>1. PICK t \in E : s = PunchSession(K, t) BY <1>10
  <2>2. t \in K BY <1>10
  <2>3. s.entry = t /\ s.exit \in {-1} \cup {u \in K : t < u} BY <1>8, <2>1, <2>2, MatchIs
  <2>4. s.exit = -1 \/ (s.exit \in K /\ t < s.exit) BY <2>3
  <2> QED BY <1>8, <2>2, <2>3, <2>4
<1> QED BY <1>13, <1>14, <1>15 DEF Plausible

\* Some of them, too.
LEMMA SomeArePlausible ==
  ASSUME NEW S, Plausible(S), NEW T, T \subseteq S PROVE Plausible(T)
BY FS_Subset DEF Plausible

\* What was worked is a number.
LEMMA WorkedIs ==
  ASSUME NEW S, Plausible(S) PROVE Worked(S) \in Nat /\ (S = {} => Worked(S) = 0)
<1>1. PICK f : f = [s \in S |-> IF s.exit >= 0 THEN s.exit - s.entry ELSE 0] OBVIOUS
<1>2. ASSUME NEW s \in S PROVE f[s] \in Nat
  <2>1. f[s] = IF s.exit >= 0 THEN s.exit - s.entry ELSE 0 BY <1>1
  <2>2. s.entry \in Nat /\ (s.exit = -1 \/ (s.exit \in Nat /\ s.entry < s.exit)) BY DEF Plausible
  <2>3. CASE s.exit = -1 BY <2>1, <2>3
  <2>4. CASE s.exit \in Nat /\ s.entry < s.exit BY <2>1, <2>2, <2>4
  <2> QED BY <2>2, <2>3, <2>4
<1>3. Worked(S) = SumFunctionOnSet(f, S) BY <1>1 DEF Worked
<1>4. IsFiniteSet(S) BY DEF Plausible
<1>5. SumFunctionOnSet(f, S) \in Nat BY <1>2, <1>4, SumIsNumber
<1>6. SumFunctionOnSet(f, {}) = 0 BY SumOfNone
<1> QED BY <1>3, <1>5, <1>6

\* The overtime of a day is a number, and nothing without sessions.
LEMMA OvertimeIs ==
  ASSUME NEW day \in Nat, NEW S, Plausible(S), NEW schedule \in Grid \cup {"none"}
  PROVE  /\ ComputeWorkday(day, S, schedule).extra \in Nat
         /\ S = {} => ComputeWorkday(day, S, schedule).extra = 0
<1>0. PICK extra : extra = ComputeWorkday(day, S, schedule).extra OBVIOUS
<1> SUFFICES extra \in Nat /\ (S = {} => extra = 0) BY <1>0
<1>1. PICK worked \in Nat : worked = Worked(S) BY WorkedIs
<1>2. S = {} => worked = 0 BY <1>1, WorkedIs
<1>3. CASE schedule = "none"
  <2>1. extra = 0 BY <1>0, <1>3 DEF ComputeWorkday, Workday
  <2> QED BY <2>1
<1>4. CASE schedule # "none" /\ day \in RestDay[schedule]
  <2>1. extra = IF worked >= Plan[schedule].minOvertime THEN worked ELSE 0
    BY <1>0, <1>1, <1>4 DEF ComputeWorkday, Workday
  <2> QED BY <1>2, <2>1
<1>5. CASE schedule # "none" /\ day \notin RestDay[schedule]
  <2>1. schedule \in Grid BY <1>5
  <2>2. PICK exits : exits = {s.exit : s \in S} \ {-1} OBVIOUS
  <2>3. PICK after : after = Positive(Max(exits) - ExitInstant(Plan[schedule], day) - Plan[schedule].exitTolerance)
    OBVIOUS
  <2>4. extra = IF exits # {} /\ after >= Plan[schedule].minOvertime THEN after ELSE 0
    BY <1>0, <1>1, <1>5, <2>2, <2>3 DEF ComputeWorkday, Workday
  <2>5. S = {} => exits = {} BY <2>2
  <2>6. ASSUME exits # {} PROVE after \in Nat
    <3>1. exits \in SUBSET Nat
      <4>1. ASSUME NEW s \in S, s.exit # -1 PROVE s.exit \in Nat BY <4>1 DEF Plausible
      <4> QED BY <2>2, <4>1
    <3>2. IsFiniteSet(exits)
      <4>1. PICK f : f = [s \in S |-> s.exit] OBVIOUS
      <4>2. IsFiniteSet({f[s] : s \in S}) BY ImagesAreFinite DEF Plausible
      <4>3. exits \subseteq {f[s] : s \in S} BY <2>2, <4>1
      <4> QED BY <4>2, <4>3, FS_Subset
    <3>3. Max(exits) \in Nat BY <2>6, <3>1, <3>2, LastInstants
    <3>4. Plan[schedule].start \in Nat /\ Plan[schedule].end \in Nat /\ Plan[schedule].splitEnd \in Nat
          /\ Plan[schedule].exitTolerance \in Nat
      BY <2>1, AttendanceAssumption
    <3>5. StartOfLocalDay(day) \in Nat /\ DAY \in Nat BY StartsOfDays
    <3>6. ExitInstant(Plan[schedule], day) \in Int
      <4>1. PICK end \in Nat : end = IF Plan[schedule].splitEnd > 0 THEN Plan[schedule].splitEnd ELSE Plan[schedule].end
        BY <3>4
      <4>2. ExitInstant(Plan[schedule], day) =
              StartOfLocalDay(day) + end
                + (IF Plan[schedule].crosses \/ end <= Plan[schedule].start THEN DAY ELSE 0)
        BY <4>1 DEF ExitInstant
      <4>3. PICK next \in Nat : next = IF Plan[schedule].crosses \/ end <= Plan[schedule].start THEN DAY ELSE 0
        BY <3>5
      <4> QED BY <3>5, <4>2, <4>3
    <3>7. PICK n \in Int : n = Max(exits) - ExitInstant(Plan[schedule], day) - Plan[schedule].exitTolerance
      BY <3>3, <3>4, <3>6
    <3>8. after = Positive(n) BY <2>3, <3>7
    <3> QED BY <3>8 DEF Positive
  <2> QED BY <2>4, <2>5, <2>6
<1> QED BY <1>3, <1>4, <1>5

\* Rows of the tables.
Assignments == [schedule : Schedule, from : Nat, to : Int]
Decisions == [status : {"APPROVED", "REJECTED"}, extra : Nat]
Lists == [active : BOOLEAN, grid : Grid]

\* Assignments are of schedules there are.
ScheduleTables ==
  /\ schedules \in [Schedule -> {NoSchedule, ScheduleGone} \cup Lists]
  /\ assigned \in Seq(Assignments)
  /\ \A k \in DOMAIN assigned : IsSchedule(assigned[k].schedule)

\* Decisions are yes or no.
DecisionTable == decided \in [LocalDays -> {NoDecision} \cup Decisions]

\* What a request holds.
BossKnows(b) ==
  /\ boss[b].pc \in {"count", "remove", "assign", "commit"} => boss[b].schedule \in Schedule
  /\ boss[b].pc \in {"assign", "commit"} => boss[b].from \in Nat
  /\ boss[b].pc = "end" => boss[b].to \in Int
  /\ boss[b].pc = "compute" => boss[b].days \in SUBSET LocalDays /\ Plausible(boss[b].sessions)
  /\ boss[b].pc = "write" => boss[b].left \in SUBSET LocalDays /\ \A d \in boss[b].left : boss[b].extra[d] \in Nat
  /\ boss[b].pc \in {"compute", "write"} => boss[b].status \in {"APPROVED", "REJECTED", "PENDING"}

\* The inductive invariant: a schedule with an assignment stays, nobody
\* punches in the future, and what is read and written is well formed.
AttendanceInv ==
  /\ PunchesKnown /\ clockTime \in Int
  /\ \A t \in punched : t <= clockTime
  /\ ScheduleTables /\ DecisionTable
  /\ boss = [b \in Boss |-> boss[b]]
  /\ \A b \in Boss : BossKnows(b)

\* A schedule in force says what its grid says.
LEMMA InForceIs ==
  ASSUME ScheduleTables, NEW range, NEW day PROVE ScheduleOn(range, day) \in Grid \cup {"none"}
<1> DEFINE inForce == {k \in LoadAssignments(range) : assigned[k].from <= day /\ day <= assigned[k].to}
           Before(k, j) == assigned[k].from < assigned[j].from \/ (assigned[k].from = assigned[j].from /\ k <= j)
<1>1. inForce \subseteq DOMAIN assigned BY DEF LoadAssignments
<1>2. \A k \in DOMAIN assigned : k \in Nat /\ assigned[k] \in Assignments BY DEF ScheduleTables
<1>3. CASE inForce = {} BY <1>3 DEF ScheduleOn
<1>4. CASE inForce # {}
  <2> DEFINE froms == {assigned[k].from : k \in inForce}
  <2>1. froms \in SUBSET Nat /\ froms # {}
    <3>1. \A k \in inForce : assigned[k].from \in Nat BY <1>1, <1>2 DEF Assignments
    <3> HIDE DEF inForce
    <3> QED BY <1>4, <3>1
  <2>2. PICK m \in froms : \A n \in froms : m <= n
    <3> HIDE DEF froms
    <3> QED BY <2>1, LeastNumber
  <2> DEFINE oldest == {k \in inForce : assigned[k].from = m}
  <2>3. oldest \in SUBSET Nat /\ oldest # {}
    <3>1. \A k \in inForce : k \in Nat BY <1>1, <1>2
    <3> HIDE DEF inForce
    <3> QED BY <2>2, <3>1
  <2>4. PICK k \in oldest : \A j \in oldest : k <= j
    <3> HIDE DEF oldest
    <3> QED BY <2>3, LeastNumber
  <2>5. k \in inForce /\ \A j \in inForce : Before(k, j)
    <3>1. k \in inForce /\ assigned[k].from = m OBVIOUS
    <3>2. ASSUME NEW j \in inForce PROVE Before(k, j)
      <4>1. assigned[j].from \in froms OBVIOUS
      <4>2. m <= assigned[j].from BY <2>2, <4>1
      <4>3. CASE assigned[j].from = m
        <5>1. k <= j BY <2>4, <4>3
        <5> QED BY <3>1, <4>3, <5>1
      <4>4. CASE assigned[j].from # m
        <5>1. assigned[j].from \in Nat /\ m \in Nat BY <2>1, <2>2, <4>1
        <5>2. m < assigned[j].from BY <4>2, <4>4, <5>1
        <5> QED BY <3>1, <5>2
      <4> QED BY <4>3, <4>4
    <3> QED BY <3>1, <3>2
  <2> DEFINE chosen == CHOOSE i \in inForce : \A j \in inForce : Before(i, j)
  <2>6. chosen \in inForce
    <3> HIDE DEF inForce, Before
    <3> QED BY <2>5
  <2>7. ScheduleOn(range, day) = schedules[assigned[chosen].schedule].grid BY <1>4 DEF ScheduleOn
  <2> HIDE DEF inForce, chosen
  <2>8. chosen \in DOMAIN assigned BY <1>1, <2>6
  <2>9. assigned[chosen].schedule \in Schedule BY <1>2, <2>8 DEF Assignments
  <2>10. IsSchedule(assigned[chosen].schedule) BY <2>8 DEF ScheduleTables
  <2>11. schedules[assigned[chosen].schedule] \in Lists BY <2>9, <2>10 DEF ScheduleTables, IsSchedule
  <2> QED BY <2>7, <2>11 DEF Lists
<1> QED BY <1>3, <1>4

\* The rows of a period.
LEMMA RowsAre ==
  ASSUME ScheduleTables, NEW S, Plausible(S), NEW range, NEW d \in LocalDays
  PROVE  LET line == DaysFrom(S, range)[d]
         IN  /\ line.sessions = {s \in S : LocalDay(s.entry) = d}
             /\ line.work.extra \in Nat
             /\ line.sessions = {} => line.work.extra = 0
<1>1. PICK T : T = {s \in S : LocalDay(s.entry) = d} OBVIOUS
<1>2. PICK schedule : schedule = ScheduleOn(range, d) OBVIOUS
<1>3. DaysFrom(S, range)[d] = [sessions |-> T, schedule |-> schedule, work |-> ComputeWorkday(d, T, schedule)]
  BY <1>1, <1>2 DEF DaysFrom
<1>4. Plausible(T)
  <2>1. T \subseteq S BY <1>1
  <2> QED BY <2>1, SomeArePlausible
<1>5. schedule \in Grid \cup {"none"} BY <1>2, InForceIs
<1>6. d \in Nat BY StartsOfDays DEF LocalDays
<1>7. PICK work : work = ComputeWorkday(d, T, schedule) OBVIOUS
<1>8. work.extra \in Nat /\ (T = {} => work.extra = 0) BY <1>4, <1>5, <1>6, <1>7, OvertimeIs
<1>9. DaysFrom(S, range)[d].sessions = T /\ DaysFrom(S, range)[d].work = work BY <1>3, <1>7
<1> QED BY <1>1, <1>8, <1>9

\* Sums over days with nothing but zero elsewhere are the same.
LEMMA SameDays ==
  ASSUME NEW f, \A d \in LocalDays : f[d] \in Int,
         NEW S \in SUBSET LocalDays, NEW T \in SUBSET LocalDays,
         \A d \in LocalDays : f[d] # 0 => (d \in S <=> d \in T)
  PROVE  SumFunctionOnSet(f, S) = SumFunctionOnSet(f, T)
<1>1. IsFiniteSet(LocalDays)
  <2>1. LastLocalDay \in Nat /\ 0 \in Int BY StartsOfDays
  <2> QED BY <2>1, FS_Interval DEF LocalDays
<1>2. IsFiniteSet(S) /\ IsFiniteSet(T) BY <1>1, FS_Subset
<1>3. PICK U : U = S \cap T OBVIOUS
<1>4. U \in SUBSET S /\ U \in SUBSET T BY <1>3
<1>5. \A d \in S \ U : f[d] = 0 BY <1>3
<1>6. \A d \in T \ U : f[d] = 0 BY <1>3
<1>7. \A d \in S : f[d] \in Int OBVIOUS
<1>8. \A d \in T : f[d] \in Int OBVIOUS
<1>9. SumFunctionOnSet(f, S) = SumFunctionOnSet(f, U) BY <1>2, <1>4, <1>5, <1>7, SumOfSupport
<1>10. SumFunctionOnSet(f, T) = SumFunctionOnSet(f, U) BY <1>2, <1>4, <1>6, <1>8, SumOfSupport
<1> QED BY <1>9, <1>10

\* A decision is one of three.
LEMMA DecisionsAre ==
  ASSUME DecisionTable, NEW d \in LocalDays
  PROVE  /\ decided[d].status \in {"none", "APPROVED", "REJECTED"} /\ decided[d].extra \in Nat
         /\ decided[d].status = "none" <=> decided[d] = NoDecision
<1>1. CASE decided[d] = NoDecision BY <1>1 DEF NoDecision
<1>2. CASE decided[d] \in Decisions BY <1>2 DEF Decisions, NoDecision
<1> QED BY <1>1, <1>2 DEF DecisionTable

\* The bosses, the weekly report and the view by person count alike.
LEMMA ReportsAgree == ASSUME AttendanceInv PROVE ThreeReportsAgree
<1>1. PunchesKnown /\ ScheduleTables /\ DecisionTable BY DEF AttendanceInv
<1>2. PICK S : S = LinkedSessions(TheWeek) OBVIOUS
<1>3. Plausible(S) /\ (\A s \in S : s.entry \in punched /\ linked)
  <2>1. CASE linked BY <1>1, <1>2, <2>1, SessionsArePlausible DEF LinkedSessions
  <2>2. CASE ~linked
    <3>1. S = {} BY <1>2, <2>2 DEF LinkedSessions
    <3> QED BY <3>1, FS_EmptySet DEF Plausible
  <2> QED BY <2>1, <2>2
<1>4. PICK rows : rows = DaysFrom(S, TheWeek) OBVIOUS
<1>5. ComputeDays(TheWeek) = rows BY <1>2, <1>4 DEF ComputeDays
<1>6. \A d \in LocalDays : /\ rows[d].sessions = {s \in S : LocalDay(s.entry) = d}
                           /\ rows[d].work.extra \in Nat
                           /\ rows[d].sessions = {} => rows[d].work.extra = 0
  BY <1>1, <1>3, <1>4, RowsAre
<1>7. \A d \in LocalDays : rows[d].sessions # {} => linked /\ d <= Today
  <2> SUFFICES ASSUME NEW d \in LocalDays, rows[d].sessions # {} PROVE linked /\ d <= Today OBVIOUS
  <2>1. PICK s \in S : LocalDay(s.entry) = d BY <1>6
  <2>2. s.entry \in punched /\ linked BY <1>3
  <2>3. s.entry \in Int /\ clockTime \in Int /\ s.entry <= clockTime BY <2>2 DEF AttendanceInv, PunchesKnown
  <2> QED BY <2>1, <2>2, <2>3, DayOfInstant DEF Today
<1>8. \A d \in LocalDays : rows[d].work.extra # 0 => d \in OvertimeDays(rows) BY <1>6 DEF OvertimeDays
<1>9. \A d \in LocalDays : /\ decided[d].status \in {"none", "APPROVED", "REJECTED"} /\ decided[d].extra \in Nat
                           /\ decided[d].status = "none" <=> decided[d] = NoDecision
  BY <1>1, DecisionsAre
<1>10. PICK extra : extra = [d \in LocalDays |-> rows[d].work.extra] OBVIOUS
<1>11. \A d \in LocalDays : extra[d] \in Int /\ extra[d] \in Nat /\ extra[d] = rows[d].work.extra BY <1>6, <1>10
<1>12. \A X : ExtraOf(rows, X) = SumFunctionOnSet(extra, X) BY <1>10 DEF ExtraOf
<1>13. PICK approved : approved = [d \in LocalDays |-> IF decided[d].status = "APPROVED" THEN decided[d].extra ELSE 0] OBVIOUS
<1>14. \A d \in LocalDays : approved[d] \in Int /\ (approved[d] # 0 => decided[d].status = "APPROVED") BY <1>9, <1>13
<1>15. \A X : ApprovedOn(X) = SumFunctionOnSet(approved, X) BY <1>13 DEF ApprovedOn
<1> DEFINE shown(status) == {d \in Materialized(rows) : StatusOf(d) = status}
           with(status) == {d \in OvertimeDays(rows) : decided[d].status = status}
           undecided == {d \in LocalDays : decided[d] = NoDecision}
           refused == {d \in LocalDays : decided[d].status = "REJECTED"}
           counting == {d \in LocalDays : WeeklyStatus(rows[d], d) \notin {"FUTURE", "NO_INFO"}}
<1>16. OvertimeDays(rows) \in SUBSET LocalDays BY DEF OvertimeDays
<1>17. \A status : shown(status) \in SUBSET LocalDays /\ with(status) \in SUBSET LocalDays
  BY <1>16 DEF Materialized
<1>18. undecided \in SUBSET LocalDays /\ refused \in SUBSET LocalDays /\ counting \in SUBSET LocalDays OBVIOUS
<1>19. \A d \in LocalDays : StatusOf(d) = IF decided[d].status = "none" THEN "PENDING" ELSE decided[d].status
  BY <1>9 DEF StatusOf
<1>20. ASSUME NEW d \in LocalDays, extra[d] # 0
       PROVE  /\ d \in shown("PENDING") <=> decided[d].status = "none"
              /\ d \in shown("REJECTED") <=> decided[d].status = "REJECTED"
              /\ d \in with("none") <=> decided[d].status = "none"
              /\ d \in counting
  <2>1. d \in OvertimeDays(rows) /\ rows[d].work.extra > 0 BY <1>8, <1>11, <1>20
  <2>2. d \in Materialized(rows) BY <2>1 DEF Materialized
  <2>3. rows[d].sessions # {} BY <2>1 DEF OvertimeDays
  <2>4. linked /\ d <= Today BY <1>7, <2>3
  <2>5. ~(d > Today)
    <3>1. d \in Int BY StartsOfDays DEF LocalDays
    <3>2. Today \in Int BY DayOfInstant DEF Today, AttendanceInv
    <3> QED BY <2>4, <3>1, <3>2
  <2>6. d \in counting BY <2>3, <2>4, <2>5 DEF WeeklyStatus
  <2>7. StatusOf(d) = "PENDING" <=> decided[d].status = "none" BY <1>9, <1>19
  <2>8. StatusOf(d) = "REJECTED" <=> decided[d].status = "REJECTED" BY <1>9, <1>19
  <2> HIDE DEF counting
  <2> QED BY <2>1, <2>2, <2>6, <2>7, <2>8
<1>21. ExtraOf(rows, shown("PENDING")) = ExtraOf(rows, with("none"))
  <2>1. \A d \in LocalDays : extra[d] # 0 => (d \in shown("PENDING") <=> d \in with("none")) BY <1>20
  <2> HIDE DEF shown, with
  <2> QED BY <1>11, <1>12, <1>17, <2>1, SameDays
<1>22. ExtraOf(rows, undecided) = ExtraOf(rows, with("none"))
  <2>1. \A d \in LocalDays : extra[d] # 0 => (d \in undecided <=> d \in with("none")) BY <1>9, <1>20
  <2> HIDE DEF undecided, with
  <2> QED BY <1>11, <1>12, <1>17, <1>18, <2>1, SameDays
<1>23. ExtraOf(rows, refused) = ExtraOf(rows, shown("REJECTED"))
  <2>1. \A d \in LocalDays : extra[d] # 0 => (d \in refused <=> d \in shown("REJECTED")) BY <1>20
  <2> HIDE DEF refused, shown
  <2> QED BY <1>11, <1>12, <1>17, <1>18, <2>1, SameDays
<1>24. ExtraOf(rows, counting) = ExtraOf(rows, OvertimeDays(rows))
  <2>1. \A d \in LocalDays : extra[d] # 0 => (d \in counting <=> d \in OvertimeDays(rows)) BY <1>8, <1>11, <1>20
  <2> HIDE DEF counting
  <2> QED BY <1>11, <1>12, <1>16, <1>18, <2>1, SameDays
<1>25. ASSUME \A d \in LocalDays : decided[d] # NoDecision => d \in OvertimeDays(rows)
       PROVE  /\ ApprovedOn(LocalDays) = ApprovedOn(shown("APPROVED"))
              /\ ApprovedOn(OvertimeDays(rows)) = ApprovedOn(shown("APPROVED"))
  <2>1. ASSUME NEW d \in LocalDays, approved[d] # 0
        PROVE  d \in shown("APPROVED") /\ d \in OvertimeDays(rows)
    <3>1. decided[d].status = "APPROVED" BY <1>14, <2>1
    <3>2. decided[d] # NoDecision BY <3>1 DEF NoDecision
    <3>3. d \in OvertimeDays(rows) BY <1>25, <3>2
    <3>4. StatusOf(d) = "APPROVED" BY <1>19, <3>1
    <3>5. d \in Materialized(rows) BY <3>2, <3>3 DEF Materialized
    <3> QED BY <3>3, <3>4, <3>5
  <2>2. \A d \in LocalDays : approved[d] # 0 => (d \in LocalDays <=> d \in shown("APPROVED")) BY <2>1
  <2>3. \A d \in LocalDays : approved[d] # 0 => (d \in OvertimeDays(rows) <=> d \in shown("APPROVED")) BY <2>1
  <2>4. LocalDays \in SUBSET LocalDays OBVIOUS
  <2>5. \A d \in LocalDays : approved[d] \in Int BY <1>14
  <2> HIDE DEF shown
  <2>6. ApprovedOn(LocalDays) = ApprovedOn(shown("APPROVED")) BY <1>15, <1>17, <2>2, <2>4, <2>5, SameDays
  <2>7. ApprovedOn(OvertimeDays(rows)) = ApprovedOn(shown("APPROVED")) BY <1>15, <1>16, <1>17, <2>3, <2>5, SameDays
  <2> QED BY <2>6, <2>7
<1>26. /\ SummaryOf(rows).pending = ExtraOf(rows, shown("PENDING"))
       /\ SummaryOf(rows).rejected = ExtraOf(rows, shown("REJECTED"))
       /\ SummaryOf(rows).approved = ApprovedOn(shown("APPROVED"))
  BY DEF SummaryOf
<1>27. /\ ComputeOvertime(rows).pending = ExtraOf(rows, with("none"))
       /\ ComputeOvertime(rows).extra = ExtraOf(rows, OvertimeDays(rows))
       /\ ComputeOvertime(rows).approved = ApprovedOn(OvertimeDays(rows))
  BY DEF ComputeOvertime
<1>28. /\ WeeklyTotals(rows).pending = ExtraOf(rows, undecided)
       /\ WeeklyTotals(rows).rejected = ExtraOf(rows, refused)
       /\ WeeklyTotals(rows).extra = ExtraOf(rows, counting)
       /\ WeeklyTotals(rows).approved = ApprovedOn(LocalDays)
       /\ WeeklyTotals(rows).absences = {d \in LocalDays : WeeklyStatus(rows[d], d) = "ABSENCE"}
  BY DEF WeeklyTotals
<1>29. ASSUME NEW d \in LocalDays, d < Today
       PROVE  WeeklyStatus(rows[d], d) = "ABSENCE" <=> linked /\ DayStatus(rows[d], d) = "ABSENCE"
  <2>1. d \in Int BY StartsOfDays DEF LocalDays
  <2>2. Today \in Int BY DayOfInstant DEF Today, AttendanceInv
  <2>3. ~(d > Today) /\ d <= Today /\ d # Today BY <1>29, <2>1, <2>2
  <2>4. PICK line : line = rows[d] OBVIOUS
  <2>5. line.sessions # {} => linked BY <1>7, <2>4
  <2>6. CASE line.sessions # {}
    <3>1. WeeklyStatus(line, d) # "ABSENCE" BY <2>3, <2>5, <2>6 DEF WeeklyStatus
    <3>2. DayStatus(line, d) # "ABSENCE" BY <2>6 DEF DayStatus
    <3> QED BY <2>4, <3>1, <3>2
  <2>7. CASE line.sessions = {} /\ linked
    <3>1. WeeklyStatus(line, d) = IF line.work.rest THEN "REST" ELSE IF ~line.work.known THEN "NO_INFO" ELSE "ABSENCE"
      BY <2>3, <2>7 DEF WeeklyStatus
    <3>2. DayStatus(line, d) = IF ~line.work.known THEN "NO_INFO" ELSE IF line.work.rest THEN "REST" ELSE "ABSENCE"
      BY <1>29, <2>3, <2>7 DEF DayStatus
    <3> QED BY <2>4, <2>7, <3>1, <3>2
  <2>8. CASE line.sessions = {} /\ ~linked
    <3>1. WeeklyStatus(line, d) = "NO_INFO" BY <2>3, <2>8 DEF WeeklyStatus
    <3> QED BY <2>4, <2>8, <3>1
  <2> QED BY <2>6, <2>7, <2>8
<1> HIDE DEF shown, with, undecided, refused, counting
<1>30. OvertimeAgrees(rows, WeeklyTotals(rows)) BY <1>21, <1>22, <1>23, <1>24, <1>25, <1>26, <1>27, <1>28 DEF OvertimeAgrees
<1>31. \A d \in LocalDays : d < Today =>
         (d \in WeeklyTotals(rows).absences <=> linked /\ DayStatus(rows[d], d) = "ABSENCE")
  BY <1>28, <1>29
<1> QED BY <1>5, <1>30, <1>31 DEF ThreeReportsAgree

\* It holds at the start.
LEMMA AttendanceStarts == AttendanceInit => AttendanceInv
<1> SUFFICES ASSUME AttendanceInit PROVE AttendanceInv OBVIOUS
<1>1. PunchesKnown /\ \A t \in punched : t <= clockTime
  <2>1. punched = {} BY DEF AttendanceInit
  <2>2. IsFiniteSet(punched) BY <2>1, FS_EmptySet
  <2> QED BY <2>1, <2>2 DEF PunchesKnown
<1>2. clockTime \in Int
  <2>1. PICK D \in Int : D = DAY BY AttendanceAssumption
  <2>2. PICK n \in Int : n = LastLocalDay - 1 BY StartsOfDays
  <2>3. n * D \in Int BY SMT
  <2>4. WEST \in Int BY StartsOfDays
  <2> QED BY <2>1, <2>2, <2>3, <2>4 DEF AttendanceInit, StartOfLocalDay
<1>3. schedules \in [Schedule -> {NoSchedule, ScheduleGone} \cup Lists]
  <2>1. schedules \in [Schedule -> {NoSchedule} \cup Lists] BY DEF AttendanceInit, Lists
  <2> HIDE DEF Lists
  <2> QED BY <2>1
<1>4. assigned \in Seq(Assignments) /\ \A k \in DOMAIN assigned : IsSchedule(assigned[k].schedule)
  <2>1. CASE assigned = <<>> BY <2>1
  <2>2. CASE assigned # <<>>
    <3>1. PICK s \in {u \in Schedule : IsSchedule(u)}, to \in {0, Forever} :
            assigned = <<[schedule |-> s, from |-> 0, to |-> to]>>
      BY <2>2 DEF AttendanceInit
    <3>2. PICK a : a = [schedule |-> s, from |-> 0, to |-> to] OBVIOUS
    <3>3. a \in Assignments /\ a.schedule = s /\ IsSchedule(s) BY <3>2 DEF Assignments, Forever
    <3>4. assigned = <<a>> BY <3>1, <3>2
    <3> QED BY <3>3, <3>4
  <2> QED BY <2>1, <2>2
<1>5. DecisionTable BY DEF AttendanceInit, DecisionTable
<1>6. boss = [b \in Boss |-> boss[b]] BY DEF AttendanceInit
<1>7. \A b \in Boss : BossKnows(b)
  <2> SUFFICES ASSUME NEW b \in Boss PROVE BossKnows(b) OBVIOUS
  <2>1. boss[b].pc = "idle" BY DEF AttendanceInit, NotAsking
  <2> QED BY <2>1 DEF BossKnows
<1> QED BY <1>1, <1>2, <1>3, <1>4, <1>5, <1>6, <1>7 DEF AttendanceInv, ScheduleTables

\* What a request may hold next.
AsksWell(request) ==
  /\ request.pc \in {"count", "remove", "assign", "commit"} => request.schedule \in Schedule
  /\ request.pc \in {"assign", "commit"} => request.from \in Nat
  /\ request.pc = "end" => request.to \in Int
  /\ request.pc = "compute" => request.days \in SUBSET LocalDays /\ Plausible(request.sessions)
  /\ request.pc = "write" => request.left \in SUBSET LocalDays /\ \A d \in request.left : request.extra[d] \in Nat
  /\ request.pc \in {"compute", "write"} => request.status \in {"APPROVED", "REJECTED", "PENDING"}

\* The requests, after one of them went on.
LEMMA BossGoesOn ==
  ASSUME AttendanceInv, NEW b \in Boss, NEW request, AsksWell(request), boss' = [boss EXCEPT ![b] = request]
  PROVE  boss' = [c \in Boss |-> boss'[c]] /\ \A c \in Boss : BossKnows(c)'
<1>1. \A c \in Boss : boss'[c] = IF c = b THEN request ELSE boss[c] BY DEF AttendanceInv
<1>2. boss' = [c \in Boss |-> boss'[c]] BY DEF AttendanceInv
<1>3. ASSUME NEW c \in Boss PROVE BossKnows(c)'
  <2>1. CASE c = b BY <1>1, <2>1 DEF BossKnows, AsksWell
  <2>2. CASE c # b
    <3>1. boss'[c] = boss[c] BY <1>1, <2>2
    <3>2. BossKnows(c) BY DEF AttendanceInv
    <3> QED BY <3>1, <3>2 DEF BossKnows
  <2> QED BY <2>1, <2>2
<1> QED BY <1>2, <1>3

\* A step of the requests alone, or of a table and the requests.
LEMMA TablesAndBoss ==
  ASSUME AttendanceInv, NEW b \in Boss, NEW request, AsksWell(request), boss' = [boss EXCEPT ![b] = request],
         UNCHANGED observed, ScheduleTables', DecisionTable'
  PROVE  AttendanceInv'
BY BossGoesOn DEF AttendanceInv, observed, PunchesKnown

\* A step that leaves the requests.
LEMMA TablesAlone ==
  ASSUME AttendanceInv, UNCHANGED boss, ScheduleTables', DecisionTable',
         PunchesKnown', clockTime' \in Int, (\A t \in punched : t <= clockTime)'
  PROVE  AttendanceInv'
BY DEF AttendanceInv, BossKnows

\* The schedules and their assignments stay as they are.
LEMMA SchedulesStay ==
  ASSUME AttendanceInv, UNCHANGED <<schedules, assigned>> PROVE ScheduleTables'
BY DEF AttendanceInv, ScheduleTables, IsSchedule

\* The decisions stay as they are.
LEMMA DecisionsStay == ASSUME AttendanceInv, UNCHANGED decided PROVE DecisionTable'
BY DEF AttendanceInv, DecisionTable

\* One schedule changes, and does not go while an assignment is of it.
LEMMA ScheduleChanges ==
  ASSUME AttendanceInv, UNCHANGED assigned, NEW s \in Schedule, NEW new \in {ScheduleGone} \cup Lists,
         schedules' = [schedules EXCEPT ![s] = new],
         new \in {NoSchedule, ScheduleGone} => Refers(s) = {}
  PROVE  ScheduleTables'
<1>1. ScheduleTables BY DEF AttendanceInv
<1>2. schedules' \in [Schedule -> {NoSchedule, ScheduleGone} \cup Lists] BY <1>1 DEF ScheduleTables
<1>3. ASSUME NEW k \in DOMAIN assigned PROVE schedules'[assigned[k].schedule] \notin {NoSchedule, ScheduleGone}
  <2>5. assigned[k] \in Assignments BY <1>1 DEF ScheduleTables
  <2>1. assigned[k].schedule \in Schedule BY <2>5 DEF Assignments
  <2>2. IsSchedule(assigned[k].schedule) BY <1>1 DEF ScheduleTables
  <2>3. CASE assigned[k].schedule = s
    <3>1. k \in Refers(s) BY <2>3 DEF Refers
    <3>2. schedules'[s] = new BY <1>1 DEF ScheduleTables
    <3> QED BY <2>3, <3>1, <3>2
  <2>4. CASE assigned[k].schedule # s
    <3>1. schedules'[assigned[k].schedule] = schedules[assigned[k].schedule] BY <1>1, <2>1, <2>4 DEF ScheduleTables
    <3> QED BY <2>2, <3>1 DEF IsSchedule
  <2> QED BY <2>3, <2>4
<1> QED BY <1>1, <1>2, <1>3 DEF ScheduleTables, IsSchedule

\* A schedule that is on offer is neither new nor gone.
LEMMA OnOffer == \A list \in Lists : list \notin {NoSchedule, ScheduleGone}
BY AttendanceAssumption DEF Lists, NoSchedule, ScheduleGone

\* Assignments that only change when they end are still of schedules.
LEMMA EndsChange ==
  ASSUME ScheduleTables, NEW to \in Int, NEW some,
         NEW new, new = [k \in DOMAIN assigned |-> IF k \in some THEN [assigned[k] EXCEPT !.to = to] ELSE assigned[k]]
  PROVE  new \in Seq(Assignments) /\ \A k \in DOMAIN new : IsSchedule(new[k].schedule)
<1>1. assigned \in Seq(Assignments) /\ \A k \in DOMAIN assigned : IsSchedule(assigned[k].schedule) BY DEF ScheduleTables
<1>2. PICK n \in Nat : n = Len(assigned) /\ DOMAIN assigned = 1..n BY <1>1
<1>3. ASSUME NEW k \in 1..n PROVE new[k] \in Assignments /\ new[k].schedule = assigned[k].schedule
  <2>1. assigned[k] \in Assignments BY <1>1, <1>2
  <2>2. new[k] = IF k \in some THEN [assigned[k] EXCEPT !.to = to] ELSE assigned[k] BY <1>2
  <2> QED BY <2>1, <2>2 DEF Assignments
<1>4. new = [k \in 1..n |-> new[k]] BY <1>2
<1>5. new \in [1..n -> Assignments] BY <1>3, <1>4
<1>6. new \in Seq(Assignments) BY <1>5, SeqDef
<1>7. DOMAIN new = 1..n BY <1>4
<1> QED BY <1>1, <1>2, <1>3, <1>6, <1>7

\* Every step of the week keeps it.
LEMMA AttendanceSteps == AttendanceInv /\ [AttendanceNext]_attendanceVars => AttendanceInv'
<1> SUFFICES ASSUME AttendanceInv, [AttendanceNext]_attendanceVars PROVE AttendanceInv' OBVIOUS
<1>1. /\ PunchesKnown /\ clockTime \in Int /\ (\A t \in punched : t <= clockTime)
      /\ ScheduleTables /\ DecisionTable /\ \A b \in Boss : BossKnows(b)
  BY DEF AttendanceInv
<1>2. ASSUME UNCHANGED observed
      PROVE  PunchesKnown' /\ clockTime' \in Int /\ (\A t \in punched : t <= clockTime)'
  BY <1>1, <1>2 DEF PunchesKnown, observed
<1>3. ASSUME NEW b \in Boss, NEW request, AsksWell(request), Asks(b, request) \/ Proceeds(b, request),
             UNCHANGED <<observed, schedules, assigned, decided>>
      PROVE  AttendanceInv'
  <2>1. boss' = [boss EXCEPT ![b] = request] BY <1>3 DEF Asks, Proceeds
  <2>2. ScheduleTables' /\ DecisionTable' BY <1>3, SchedulesStay, DecisionsStay
  <2> QED BY <1>3, <2>1, <2>2, TablesAndBoss
<1>4. AsksWell(NotAsking) BY DEF AsksWell, NotAsking
<1>5. ASSUME NEW b \in Boss, Ends(b), UNCHANGED observed, ScheduleTables', DecisionTable' PROVE AttendanceInv'
  <2>1. boss' = [boss EXCEPT ![b] = NotAsking] BY <1>5 DEF Ends, Proceeds
  <2> QED BY <1>4, <1>5, <2>1, TablesAndBoss
<1>6. ASSUME Asked, UNCHANGED observed, ScheduleTables', DecisionTable' PROVE AttendanceInv'
  <2>1. UNCHANGED boss BY <1>6 DEF Asked
  <2> QED BY <1>2, <1>6, <2>1, TablesAlone
<1>7. ASSUME NEW s \in Schedule, NEW grid \in Grid, CreateSchedule(s, grid) PROVE AttendanceInv'
  <2>1. PICK new : new = [active |-> TRUE, grid |-> grid] OBVIOUS
  <2>2. new \in Lists BY <2>1 DEF Lists
  <2>3. schedules' = [schedules EXCEPT ![s] = new] /\ UNCHANGED <<observed, assigned, decided>> /\ Asked
    BY <1>7, <2>1 DEF CreateSchedule
  <2>4. ScheduleTables' BY <2>2, <2>3, OnOffer, ScheduleChanges
  <2> QED BY <1>6, <2>3, <2>4, DecisionsStay
<1>8. ASSUME NEW s \in Schedule, NEW grid \in Grid, NEW active \in BOOLEAN, UpdateSchedule(s, grid, active)
      PROVE  AttendanceInv'
  <2>1. PICK new : new = [active |-> active, grid |-> grid] OBVIOUS
  <2>2. new \in Lists BY <2>1 DEF Lists
  <2>3. schedules' = [schedules EXCEPT ![s] = new] /\ UNCHANGED <<observed, assigned, decided>> /\ Asked
    BY <1>8, <2>1 DEF UpdateSchedule
  <2>4. ScheduleTables' BY <2>2, <2>3, OnOffer, ScheduleChanges
  <2> QED BY <1>6, <2>3, <2>4, DecisionsStay
<1>9. ASSUME NEW b \in Boss, NEW s \in Schedule, RemoveSchedule(b, s) PROVE AttendanceInv'
  <2>1. PICK request : request = [pc |-> "count", schedule |-> s, soft |-> schedules[s].active] OBVIOUS
  <2>2. AsksWell(request) BY <2>1 DEF AsksWell
  <2>3. Asks(b, request) /\ UNCHANGED <<observed, schedules, assigned, decided>> BY <1>9, <2>1 DEF RemoveSchedule
  <2> QED BY <1>3, <2>2, <2>3
<1>10. ASSUME NEW b \in Boss, CountAssigned(b) PROVE AttendanceInv'
  <2>1. PICK request : request = [boss[b] EXCEPT !.pc = "remove", !.soft = @ \/ StillOpen(boss[b].schedule) # {}] OBVIOUS
  <2>2. boss[b].pc = "count" /\ Proceeds(b, request) /\ UNCHANGED <<observed, schedules, assigned, decided>>
    BY <1>10, <2>1 DEF CountAssigned
  <2>3. boss[b].schedule \in Schedule BY <1>1, <2>2 DEF BossKnows
  <2>4. AsksWell(request)
    <3>1. request.schedule = boss[b].schedule /\ (request.pc = "remove" \/ request.pc = boss[b].pc) BY <2>1
    <3> QED BY <2>2, <2>3, <3>1 DEF AsksWell
  <2> QED BY <1>3, <2>2, <2>4
<1>11. ASSUME NEW b \in Boss, RemoveWrite(b) PROVE AttendanceInv'
  <2>1. PICK s \in Schedule : s = boss[b].schedule BY <1>1, <1>11 DEF RemoveWrite, BossKnows
  <2>2. Ends(b) /\ UNCHANGED <<observed, assigned, decided>> BY <1>11 DEF RemoveWrite
  <2>3. schedules' = IF ~IsSchedule(s) \/ (~boss[b].soft /\ Refers(s) # {}) THEN schedules
                     ELSE [schedules EXCEPT ![s] = IF boss[b].soft THEN [@ EXCEPT !.active = FALSE] ELSE ScheduleGone]
    BY <1>11, <2>1 DEF RemoveWrite
  <2>4. CASE schedules' = schedules
    <3>1. ScheduleTables' BY <2>2, <2>4, SchedulesStay
    <3> QED BY <1>5, <2>2, <3>1, DecisionsStay
  <2>5. CASE schedules' # schedules
    <3>1. IsSchedule(s) /\ (boss[b].soft \/ Refers(s) = {}) BY <2>3, <2>5
    <3>2. schedules[s] \in Lists BY <1>1, <3>1 DEF ScheduleTables, IsSchedule
    <3>3. PICK new : new = IF boss[b].soft THEN [schedules[s] EXCEPT !.active = FALSE] ELSE ScheduleGone OBVIOUS
    <3>4. schedules' = [schedules EXCEPT ![s] = new] BY <2>3, <2>5, <3>3
    <3>5. new \in {ScheduleGone} \cup Lists /\ (new \in {NoSchedule, ScheduleGone} => Refers(s) = {})
      <4>1. CASE boss[b].soft
        <5>1. new \in Lists BY <3>2, <3>3, <4>1 DEF Lists
        <5> QED BY <5>1, OnOffer
      <4>2. CASE ~boss[b].soft BY <3>1, <3>3, <4>2
      <4> QED BY <4>1, <4>2
    <3>6. ScheduleTables' BY <2>2, <3>4, <3>5, ScheduleChanges
    <3> QED BY <1>5, <2>2, <3>6, DecisionsStay
  <2> QED BY <2>4, <2>5
<1>12. ASSUME NEW b \in Boss, NEW s \in Schedule, NEW from \in LocalDays, AssignBulk(b, s, from) PROVE AttendanceInv'
  <2>1. PICK request : request = [pc |-> "assign", schedule |-> s, from |-> from] OBVIOUS
  <2>2. from \in Nat BY StartsOfDays DEF LocalDays
  <2>3. AsksWell(request) BY <2>1, <2>2 DEF AsksWell
  <2>4. Asks(b, request) /\ UNCHANGED <<observed, schedules, assigned, decided>> BY <1>12, <2>1 DEF AssignBulk
  <2> QED BY <1>3, <2>3, <2>4
<1>13. ASSUME NEW b \in Boss, AssignBegins(b) PROVE AttendanceInv'
  <2>1. PICK request :
          request = [pc |-> "commit", schedule |-> boss[b].schedule, from |-> boss[b].from, seen |-> Len(assigned)]
    OBVIOUS
  <2>2. boss[b].schedule \in Schedule /\ boss[b].from \in Nat BY <1>1, <1>13 DEF AssignBegins, BossKnows
  <2>3. AsksWell(request) BY <2>1, <2>2 DEF AsksWell
  <2>4. Proceeds(b, request) /\ UNCHANGED <<observed, schedules, assigned, decided>> BY <1>13, <2>1 DEF AssignBegins
  <2> QED BY <1>3, <2>3, <2>4
<1>14. ASSUME NEW b \in Boss, AssignCommits(b) PROVE AttendanceInv'
  <2>1. PICK s \in Schedule : s = boss[b].schedule BY <1>1, <1>14 DEF AssignCommits, BossKnows
  <2>2. PICK from \in Nat : from = boss[b].from BY <1>1, <1>14 DEF AssignCommits, BossKnows
  <2>3. PICK some : some = {k \in DOMAIN assigned : k <= boss[b].seen /\ CoversFrom(assigned[k], from)} OBVIOUS
  <2>4. PICK closed : closed = [k \in DOMAIN assigned |-> IF k \in some THEN [assigned[k] EXCEPT !.to = from - 1] ELSE assigned[k]]
    OBVIOUS
  <2>5. PICK line : line = [schedule |-> s, from |-> from, to |-> Forever] OBVIOUS
  <2>6. assigned' = IF IsSchedule(s) THEN Append(closed, line) ELSE assigned
    BY <1>14, <2>1, <2>2, <2>3, <2>4, <2>5 DEF AssignCommits
  <2>7. Ends(b) /\ UNCHANGED <<observed, schedules, decided>> BY <1>14 DEF AssignCommits
  <2>8. closed \in Seq(Assignments) /\ \A k \in DOMAIN closed : IsSchedule(closed[k].schedule)
    <3>1. from - 1 \in Int OBVIOUS
    <3> QED BY <1>1, <2>4, <3>1, EndsChange
  <2>9. line \in Assignments BY <2>5 DEF Assignments, Forever
  <2>10. ASSUME IsSchedule(s)
         PROVE  /\ Append(closed, line) \in Seq(Assignments)
                /\ \A k \in DOMAIN Append(closed, line) : IsSchedule(Append(closed, line)[k].schedule)
    <3>1. Append(closed, line) \in Seq(Assignments) BY <2>8, <2>9
    <3>2. PICK n \in Nat : n = Len(closed) BY <2>8
    <3>3. /\ DOMAIN closed = 1..n /\ DOMAIN Append(closed, line) = 1..(n + 1)
          /\ \A k \in 1..n : Append(closed, line)[k] = closed[k]
          /\ Append(closed, line)[n + 1] = line
      BY <2>8, <2>9, <3>2
    <3>4. ASSUME NEW k \in 1..(n + 1) PROVE IsSchedule(Append(closed, line)[k].schedule)
      <4>1. CASE k \in 1..n BY <2>8, <3>3, <4>1
      <4>2. CASE k = n + 1 BY <2>5, <2>10, <3>3, <4>2
      <4>3. k \in 1..n \/ k = n + 1 BY <3>2
      <4> QED BY <4>1, <4>2, <4>3
    <3> QED BY <3>1, <3>3, <3>4
  <2>11. ScheduleTables'
    <3>1. \A u : IsSchedule(u)' <=> IsSchedule(u) BY <2>7 DEF IsSchedule
    <3>2. assigned' \in Seq(Assignments) /\ \A k \in DOMAIN assigned' : IsSchedule(assigned'[k].schedule)
      BY <1>1, <2>6, <2>10 DEF ScheduleTables
    <3> QED BY <1>1, <2>7, <3>1, <3>2 DEF ScheduleTables, IsSchedule
  <2> QED BY <1>5, <2>7, <2>11, DecisionsStay
<1>15. ASSUME NEW b \in Boss, NEW s \in Schedule, RemoveBulk(b, s) PROVE AttendanceInv'
  <2>1. PICK request : request = [pc |-> "end", schedule |-> s, to |-> clockTime \div DAY - 1, seen |-> Len(assigned)] OBVIOUS
  <2>2. clockTime \div DAY - 1 \in Int
    <3>1. PICK D \in Nat \ {0} : D = DAY BY StartsOfDays
    <3>2. PICK t \in Int : t = clockTime BY <1>1
    <3>3. t \div D \in Int BY SMT
    <3> QED BY <3>1, <3>2, <3>3
  <2>3. AsksWell(request) BY <2>1, <2>2 DEF AsksWell
  <2>4. Asks(b, request) /\ UNCHANGED <<observed, schedules, assigned, decided>> BY <1>15, <2>1 DEF RemoveBulk
  <2> QED BY <1>3, <2>3, <2>4
<1>16. ASSUME NEW b \in Boss, RemoveCommits(b) PROVE AttendanceInv'
  <2>1. PICK to \in Int : to = boss[b].to BY <1>1, <1>16 DEF RemoveCommits, BossKnows
  <2>2. PICK some : some = {k \in DOMAIN assigned : k <= boss[b].seen /\ k \in StillOpen(boss[b].schedule)} OBVIOUS
  <2>3. PICK new : new = [k \in DOMAIN assigned |-> IF k \in some THEN [assigned[k] EXCEPT !.to = to] ELSE assigned[k]]
    OBVIOUS
  <2>4. assigned' = new BY <1>16, <2>1, <2>2, <2>3 DEF RemoveCommits
  <2>5. Ends(b) /\ UNCHANGED <<observed, schedules, decided>> BY <1>16 DEF RemoveCommits
  <2>6. new \in Seq(Assignments) /\ \A k \in DOMAIN new : IsSchedule(new[k].schedule) BY <1>1, <2>3, EndsChange
  <2>7. ScheduleTables' BY <1>1, <2>4, <2>5, <2>6 DEF ScheduleTables, IsSchedule
  <2> QED BY <1>5, <2>5, <2>7, DecisionsStay
<1>17. ASSUME NEW b \in Boss, NEW days \in Selection, NEW status \in {"APPROVED", "REJECTED", "PENDING"},
              NEW range, Decide(b, days, status, range)
       PROVE  AttendanceInv'
  <2>1. PICK S : S = LinkedSessions(range) OBVIOUS
  <2>2. Plausible(S)
    <3>1. CASE linked BY <1>1, <2>1, <3>1, SessionsArePlausible DEF LinkedSessions
    <3>2. CASE ~linked
      <4>1. S = {} BY <2>1, <3>2 DEF LinkedSessions
      <4> QED BY <4>1, FS_EmptySet DEF Plausible
    <3> QED BY <3>1, <3>2
  <2>3. days \in SUBSET LocalDays BY AttendanceAssumption DEF LocalDays
  <2>4. PICK request : request = [pc |-> "compute", days |-> days, status |-> status, range |-> range, sessions |-> S] OBVIOUS
  <2>5. AsksWell(request) BY <2>2, <2>3, <2>4 DEF AsksWell
  <2>6. Asks(b, request) /\ UNCHANGED <<observed, schedules, assigned, decided>> BY <1>17, <2>1, <2>4 DEF Decide
  <2> QED BY <1>3, <2>5, <2>6
<1>18. ASSUME NEW b \in Boss, DecideCompute(b) PROVE AttendanceInv'
  <2>1. /\ boss[b].days \in SUBSET LocalDays /\ Plausible(boss[b].sessions)
        /\ boss[b].status \in {"APPROVED", "REJECTED", "PENDING"}
    BY <1>1, <1>18 DEF DecideCompute, BossKnows
  <2>2. PICK rows : rows = DaysFrom(boss[b].sessions, boss[b].range) OBVIOUS
  <2>3. PICK some : some = {d \in boss[b].days : rows[d].sessions # {} /\ rows[d].work.extra > 0} OBVIOUS
  <2>4. PICK extra : extra = [d \in some |-> rows[d].work.extra] OBVIOUS
  <2>5. PICK request : request = [pc |-> "write", status |-> boss[b].status, left |-> some, extra |-> extra] OBVIOUS
  <2>6. (Ends(b) \/ Proceeds(b, request)) /\ UNCHANGED <<observed, schedules, assigned, decided>>
    BY <1>18, <2>2, <2>3, <2>4, <2>5 DEF DecideCompute
  <2>7. some \in SUBSET LocalDays BY <2>1, <2>3
  <2>8. \A d \in some : extra[d] \in Nat
    <3>1. \A d \in LocalDays : rows[d].work.extra \in Nat BY <1>1, <2>1, <2>2, RowsAre
    <3> QED BY <2>4, <2>7, <3>1
  <2>9. AsksWell(request) BY <2>1, <2>5, <2>7, <2>8 DEF AsksWell
  <2>10. CASE Ends(b) BY <1>3, <1>4, <2>6, <2>10 DEF Ends
  <2>11. CASE Proceeds(b, request) BY <1>3, <2>6, <2>9, <2>11
  <2> QED BY <2>6, <2>10, <2>11
<1>19. ASSUME NEW b \in Boss, DecideWrite(b) PROVE AttendanceInv'
  <2>1. /\ boss[b].left \in SUBSET LocalDays /\ (\A d \in boss[b].left : boss[b].extra[d] \in Nat)
        /\ boss[b].status \in {"APPROVED", "REJECTED", "PENDING"} /\ boss[b].pc = "write"
    BY <1>1, <1>19 DEF DecideWrite, BossKnows
  <2>2. PICK d \in boss[b].left :
          /\ decided' = [decided EXCEPT ![d] = IF boss[b].status = "PENDING" THEN NoDecision
                                                ELSE [status |-> boss[b].status, extra |-> boss[b].extra[d]]]
          /\ IF boss[b].left = {d} THEN Ends(b) ELSE Proceeds(b, [boss[b] EXCEPT !.left = @ \ {d}])
    BY <1>19 DEF DecideWrite
  <2>3. UNCHANGED <<observed, schedules, assigned>> BY <1>19 DEF DecideWrite
  <2>4. PICK new : new = IF boss[b].status = "PENDING" THEN NoDecision
                         ELSE [status |-> boss[b].status, extra |-> boss[b].extra[d]]
    OBVIOUS
  <2>5. new \in {NoDecision} \cup Decisions
    <3>1. CASE boss[b].status = "PENDING" BY <2>4, <3>1
    <3>2. CASE boss[b].status # "PENDING" BY <2>1, <2>4, <3>2 DEF Decisions
    <3> QED BY <3>1, <3>2
  <2>6. DecisionTable'
    <3>1. decided' = [decided EXCEPT ![d] = new] /\ d \in LocalDays BY <2>1, <2>2, <2>4
    <3> QED BY <1>1, <2>5, <3>1 DEF DecisionTable
  <2>7. ScheduleTables' BY <2>3, SchedulesStay
  <2>8. CASE boss[b].left = {d} BY <1>5, <2>2, <2>3, <2>6, <2>7, <2>8
  <2>9. CASE boss[b].left # {d}
    <3>1. PICK request : request = [boss[b] EXCEPT !.left = @ \ {d}] OBVIOUS
    <3>2. boss' = [boss EXCEPT ![b] = request] BY <2>2, <2>9, <3>1 DEF Proceeds
    <3>3. AsksWell(request)
      <4>1. request.left = boss[b].left \ {d} \/ request.left = boss[b].left BY <3>1
      <4>2. request.pc = boss[b].pc /\ request.status = boss[b].status /\ request.extra = boss[b].extra BY <3>1
      <4> QED BY <2>1, <4>1, <4>2 DEF AsksWell
    <3> QED BY <2>3, <2>6, <2>7, <3>2, <3>3, TablesAndBoss
  <2> QED BY <2>8, <2>9
<1>20. ASSUME NEW t \in PunchTime, PunchArrives(t) PROVE AttendanceInv'
  <2>1. punched' = punched \cup {t} /\ t <= clockTime /\ UNCHANGED <<clockTime, linked, schedules, assigned, decided, boss, paper>>
    BY <1>20 DEF PunchArrives
  <2>2. t \in Nat BY AttendanceAssumption
  <2>3. IsFiniteSet(punched') BY <1>1, <2>1, FS_AddElement DEF PunchesKnown
  <2>4. PunchesKnown' BY <1>1, <2>1, <2>2, <2>3 DEF PunchesKnown
  <2>5. clockTime' \in Int /\ (\A u \in punched : u <= clockTime)' BY <1>1, <2>1
  <2> QED BY <2>1, <2>4, <2>5, SchedulesStay, DecisionsStay, TablesAlone
<1>21. ASSUME HalfDayPasses PROVE AttendanceInv'
  <2>1. PICK half \in Nat : half = DAY \div 2
    <3>1. PICK D \in Nat : D = DAY BY StartsOfDays
    <3>2. D \div 2 \in Nat BY SMT
    <3> QED BY <3>1, <3>2
  <2>2. clockTime' = clockTime + half /\ UNCHANGED <<punched, linked, schedules, assigned, decided, boss, paper>>
    BY <1>21, <2>1 DEF HalfDayPasses
  <2>3. clockTime' \in Int /\ clockTime <= clockTime' BY <1>1, <2>2
  <2>4. PunchesKnown' BY <1>1, <2>2 DEF PunchesKnown
  <2>5. (\A u \in punched : u <= clockTime)'
    <3>1. \A u \in punched : u \in Int BY <1>1 DEF PunchesKnown
    <3> QED BY <1>1, <2>2, <2>3, <3>1
  <2> QED BY <2>2, <2>3, <2>4, <2>5, SchedulesStay, DecisionsStay, TablesAlone
<1>22. ASSUME Link PROVE AttendanceInv'
  <2>1. UNCHANGED <<boss, punched, clockTime, schedules, assigned, decided>> BY <1>22 DEF Link, Asked
  <2>2. PunchesKnown' /\ clockTime' \in Int /\ (\A u \in punched : u <= clockTime)' BY <1>1, <2>1 DEF PunchesKnown
  <2> QED BY <2>1, <2>2, SchedulesStay, DecisionsStay, TablesAlone
<1>23. ASSUME UNCHANGED attendanceVars PROVE AttendanceInv'
  <2>1. UNCHANGED <<boss, observed, schedules, assigned, decided>> BY <1>23 DEF attendanceVars, observed
  <2> QED BY <1>2, <2>1, SchedulesStay, DecisionsStay, TablesAlone
<1> QED BY <1>7, <1>8, <1>9, <1>10, <1>11, <1>12, <1>13, <1>14, <1>15, <1>16, <1>17, <1>18, <1>19, <1>20, <1>21,
          <1>22, <1>23 DEF AttendanceNext

\* The inductive invariant.
LEMMA AttendanceInvHolds == AttendanceSpec => []AttendanceInv
BY AttendanceStarts, AttendanceSteps, PTL DEF AttendanceSpec

\* Every report of a day or of a week counts the same sessions, overtime
\* and absences.
THEOREM ReportsOfAttendanceAgree == AttendanceSpec => []AttendanceAgrees
<1>1. AttendanceInv => AttendanceAgrees
  <2> SUFFICES ASSUME AttendanceInv PROVE AttendanceAgrees OBVIOUS
  <2>1. PunchesKnown BY DEF AttendanceInv
  <2> QED BY <2>1, DaysResynchronise, ReportsAgree DEF AttendanceAgrees
<1> QED BY <1>1, AttendanceInvHolds, PTL
=============================================================================
