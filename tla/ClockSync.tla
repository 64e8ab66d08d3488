----------------------------- MODULE ClockSync -----------------------------
(***************************************************************************)
(* Synchronisation of the punches of the time clocks                       *)
(* (time-clock.service.ts over isapi.client.ts). A clock numbers its       *)
(* events; the database keeps per clock the last number it has reviewed    *)
(* (the cursor) and the punches. A run reads window by window, and every   *)
(* request to the clock, page and database write of it is a step. What is  *)
(* in `memory` is lost when the process restarts.                          *)
(***************************************************************************)
EXTENDS Naturals, FiniteSets, SequencesExt

CONSTANTS
    Clock,
    Run,              \* runs of the synchronisation that may be in progress
    WINDOW_SERIAL,    \* serial numbers per window
    PAGE_SIZE,        \* events per page
    Script,           \* clock -> the sequences of events it may record
    Installed,        \* clocks that are registered at the start
    MaxFaults,        \* bound on lost connections, restarts and swapped addresses
    MaxConsole        \* bound on what people do from the console

ASSUME ClockAssumption ==
    /\ {WINDOW_SERIAL, PAGE_SIZE} \subseteq Nat \ {0}
    /\ DOMAIN Script = Clock /\ Installed \subseteq Clock
    /\ {MaxFaults, MaxConsole} \subseteq Nat

VARIABLES
    events,      \* clock -> what it recorded, by serial number
    answers,     \* clock -> the clock that answers at its address
    rejects,     \* clocks that reject our credentials
    row,         \* time_clocks: registered (it has a url) and lastSerialNo
    punch,       \* time_clock_punches: clock -> serial numbers
    memory,      \* clock -> inProgress, pausedByCredentials, stop
    run,         \* the runs in progress
    listed,      \* clocks the worker has read and not yet started
    importing,   \* clock -> serial numbers the import still has to read
    refusals,    \* clock -> automatic attempts refused since somebody asked:
                 \* by the synchronisation and by the roster
    faults, console

clockVars == <<events, answers, rejects, row, punch, memory, run, listed, importing, refusals, faults, console>>

METHOD_BY_MINOR == {"CARD", "FACE"}
(* A face without an employee number, and a door event.                    *)
EventKind == METHOD_BY_MINOR \cup {"ANON", "DOOR"}
MINORS_PUNCH == <<"CARD", "FACE">>
NoRun == [pc |-> "idle"]
Fresh == [inProgress |-> FALSE, pausedByCredentials |-> FALSE, stop |-> FALSE]

NoRefusals == [sync |-> 0, roster |-> 0]

LastEvent(c) == Len(events[c])
MinorOf(kind) == IF kind = "ANON" THEN "FACE" ELSE kind

(* toPunch and the filter of save: only identified people.                 *)
Savable(c, serials) == {s \in serials \cap 1..LastEvent(c) : events[c][s] \in METHOD_BY_MINOR}

(***************************************************************************)
(* What the clock answers                                                  *)
(***************************************************************************)
(* Newest event by time first, in a clock whose time may have been moved,  *)
(* so any event may be first; the count is exact.                          *)
LastSerialNo(c, from) ==
    LET matches == {s \in from..LastEvent(c) : TRUE}
    IN  {Max({from + Cardinality(matches) - 1, s}) : s \in matches}

AcsEvents(c, from, to, minor) ==
    {s \in from..to : s <= LastEvent(c) /\ MinorOf(events[c][s]) = minor}

(* A search answers page by page, in the order of the serial numbers.      *)
Page(found, position) ==
    {s \in found : Cardinality({t \in found : t < s}) \in position..position + PAGE_SIZE - 1}

(***************************************************************************)
(* Runs                                                                    *)
(***************************************************************************)
Unchanged == UNCHANGED <<events, answers, rejects, faults, console>>

Goto(r, step) == run' = [run EXCEPT ![r] = step]

(* run() takes the lock of the clock before its first await.               *)
Starting(r, c, trigger) ==
    /\ run[r] = NoRun
    /\ memory' = [memory EXCEPT ![c].inProgress = TRUE, ![c].stop = FALSE]
    /\ Goto(r, [pc |-> "connect", clock |-> c, trigger |-> trigger])

(* Mutant: only a run that reaches its end releases the lock.              *)
EndingLocked(r, paused) ==
    /\ Goto(r, NoRun)
    /\ memory' = [memory EXCEPT ![run[r].clock].inProgress = run[r].pc # "confirm",
                                ![run[r].clock].pausedByCredentials = paused]

Ending(r, paused) ==
    /\ Goto(r, NoRun)
    /\ memory' = [memory EXCEPT ![run[r].clock].inProgress = FALSE, ![run[r].clock].pausedByCredentials = paused]

VerifySerial(c) == answers[c] = c

Answering(r) == answers[run[r].clock]
Refused(r) == Answering(r) \in rejects

(* deviceInfo and verifySerial: another clock at the address ends the run; *)
(* otherwise the cursor is read, which only a run of this clock moves.     *)
Connect(r) ==
    LET c == run[r].clock
    IN  /\ run[r].pc = "connect" /\ ~Refused(r)
        /\ IF VerifySerial(c)
           THEN /\ Goto(r, [pc |-> "target", clock |-> c, trigger |-> run[r].trigger, end |-> row[c].lastSerialNo])
                /\ UNCHANGED memory
           ELSE Ending(r, memory[c].pausedByCredentials)
        /\ UNCHANGED <<row, punch, listed, importing, refusals>> /\ Unchanged

(* The next window starts after the last confirmed one.                    *)
Window(r, after, to) ==
    [pc |-> "read", clock |-> run[r].clock, trigger |-> run[r].trigger, to |-> to, from |-> after + 1,
     end |-> Min({after + WINDOW_SERIAL, to}), minor |-> 1, position |-> 0]

Target(r) ==
    /\ run[r].pc = "target" /\ ~Refused(r)
    /\ LET cursor == run[r].end
           found == LastSerialNo(Answering(r), cursor + 1)
       IN  \/ /\ found = {}
              /\ Goto(r, [pc |-> "confirm", clock |-> run[r].clock, trigger |-> run[r].trigger,
                          end |-> cursor, to |-> cursor])
           \/ \E to \in found : Goto(r, Window(r, cursor, to))
    /\ UNCHANGED <<row, punch, memory, listed, importing, refusals>> /\ Unchanged

(* Mutant: only the last kind of identification is read.                   *)
FirstMinorOnly(r) == [run[r] EXCEPT !.pc = "confirm"]

(* After the pages of a kind come those of the next, then the cursor.      *)
NextMinor(r) ==
    IF run[r].minor < Len(MINORS_PUNCH) THEN [run[r] EXCEPT !.minor = @ + 1, !.position = 0]
    ELSE [run[r] EXCEPT !.pc = "confirm"]

(* One page: a retired clock stops here, and only on a page with events.   *)
ReadPage(r) ==
    LET c == run[r].clock
        found == AcsEvents(Answering(r), run[r].from, run[r].end, MINORS_PUNCH[run[r].minor])
        page == Page(found, run[r].position)
    IN  /\ run[r].pc = "read" /\ ~Refused(r)
        /\ \/ /\ page # {} /\ memory[c].stop
              /\ Ending(r, memory[c].pausedByCredentials)
              /\ UNCHANGED punch
           \/ /\ page # {} => ~memory[c].stop
              /\ punch' = [punch EXCEPT ![c] = @ \cup Savable(Answering(r), page)]
              /\ Goto(r, IF run[r].position + Cardinality(page) < Cardinality(found)
                         THEN [run[r] EXCEPT !.position = @ + Cardinality(page)] ELSE NextMinor(r))
              /\ UNCHANGED memory
        /\ UNCHANGED <<row, listed, importing, refusals>> /\ Unchanged

(* The cursor moves to the end of the window; the last one ends the run.   *)
Confirm(r) ==
    LET c == run[r].clock
    IN  /\ run[r].pc = "confirm"
        /\ row' = [row EXCEPT ![c].lastSerialNo = run[r].end]
        /\ IF run[r].end < run[r].to THEN Goto(r, Window(r, run[r].end, run[r].to)) /\ UNCHANGED memory
           ELSE Ending(r, FALSE)
        /\ UNCHANGED <<punch, listed, importing, refusals>> /\ Unchanged

Asking == {"connect", "target", "read"}

(* IsapiAuthError: the clock is paused.                                    *)
Rejected(r) ==
    /\ run[r].pc \in Asking /\ Refused(r)
    /\ Ending(r, TRUE)
    /\ refusals' = [refusals EXCEPT ![run[r].clock].sync = @ + (IF run[r].trigger = "AUTO" THEN 1 ELSE 0)]
    /\ UNCHANGED <<row, punch, listed, importing>> /\ Unchanged

(* A timeout, a lost connection, an answer that cannot be read.            *)
Fails(r) ==
    /\ run[r].pc \in Asking /\ faults < MaxFaults
    /\ Ending(r, memory[run[r].clock].pausedByCredentials)
    /\ faults' = faults + 1
    /\ UNCHANGED <<events, answers, rejects, row, punch, listed, importing, refusals, console>>

(***************************************************************************)
(* The worker                                                              *)
(***************************************************************************)
Registered == {c \in Clock : row[c].registered}

TickRead ==
    /\ listed = {} /\ Registered # {}
    /\ listed' = Registered
    /\ UNCHANGED <<row, punch, memory, run, importing, refusals>> /\ Unchanged

IsFree(c) == ~memory[c].inProgress /\ ~memory[c].pausedByCredentials

TickStart(c) ==
    /\ c \in listed
    /\ listed' = listed \ {c}
    /\ IF IsFree(c) THEN \E r \in Run : Starting(r, c, "AUTO") ELSE UNCHANGED <<memory, run>>
    /\ UNCHANGED <<row, punch, importing, refusals>> /\ Unchanged

(***************************************************************************)
(* The console                                                             *)
(***************************************************************************)
Console == console < MaxConsole /\ console' = console + 1

(* An explicit attempt: every clock that is not running, paused or not.    *)
Sync ==
    LET free == {c \in Registered : ~memory[c].inProgress}
    IN  /\ Console
        /\ free # {}
        /\ \E pick \in Injection(free, {r \in Run : run[r] = NoRun}) :
             run' = [r \in Run |-> IF \E c \in free : pick[c] = r
                                   THEN [pc |-> "connect", clock |-> CHOOSE c \in free : pick[c] = r,
                                         trigger |-> "MANUAL"]
                                   ELSE run[r]]
        /\ memory' = [c \in Clock |-> IF c \in free THEN [memory[c] EXCEPT !.inProgress = TRUE, !.stop = FALSE]
                                      ELSE memory[c]]
        /\ refusals' = [c \in Clock |-> IF c \in free THEN NoRefusals ELSE refusals[c]]
        /\ UNCHANGED <<events, answers, rejects, row, punch, listed, importing, faults>>

(* The upsert by serial number does not touch the cursor.                  *)
RegisteredFrom(c) == [row[c] EXCEPT !.registered = TRUE]

Register(c) ==
    /\ Console
    /\ ~row[c].registered /\ answers[c] = c /\ c \notin rejects
    /\ row' = [row EXCEPT ![c] = RegisteredFrom(c)]
    /\ refusals' = [refusals EXCEPT ![c] = NoRefusals]
    /\ \/ /\ memory[c].inProgress
          /\ memory' = [memory EXCEPT ![c].pausedByCredentials = FALSE, ![c].stop = FALSE]
          /\ UNCHANGED run
       \/ /\ ~memory[c].inProgress
          /\ \E r \in Run :
               /\ run[r] = NoRun
               /\ Goto(r, [pc |-> "connect", clock |-> c, trigger |-> "REGISTER"])
          /\ memory' = [memory EXCEPT ![c] = [Fresh EXCEPT !.inProgress = TRUE]]
    /\ UNCHANGED <<events, answers, rejects, punch, listed, importing, faults>>

(* A registration of the bound pays for the retirement before it.          *)
Retire(c) ==
    /\ console < MaxConsole
    /\ row[c].registered
    /\ row' = [row EXCEPT ![c].registered = FALSE]
    /\ memory' = [memory EXCEPT ![c].stop = @ \/ memory[c].inProgress]
    /\ UNCHANGED <<events, answers, rejects, punch, run, listed, importing, refusals, faults, console>>

(* An import reads the events of some days, beside the runs and without    *)
(* the cursor; one at a time.                                              *)
StartImport(days) ==
    /\ Console
    /\ Registered # {} /\ \A c \in Clock : importing[c] = {}
    /\ importing' = [c \in Clock |-> IF c \in Registered /\ VerifySerial(c) THEN days \cap 1..LastEvent(c) ELSE {}]
    /\ refusals' = [c \in Clock |-> NoRefusals]
    /\ UNCHANGED <<events, answers, rejects, row, punch, memory, run, listed, faults>>

ImportPage(c) ==
    /\ importing[c] # {}
    /\ IF answers[c] \in rejects
       THEN /\ importing' = [importing EXCEPT ![c] = {}]
            /\ memory' = [memory EXCEPT ![c].pausedByCredentials = TRUE]
            /\ UNCHANGED punch
       ELSE /\ LET s == Min(importing[c])
               IN  /\ importing' = [importing EXCEPT ![c] = @ \ {s}]
                   /\ punch' = [punch EXCEPT ![c] = @ \cup Savable(answers[c], {s})]
            /\ UNCHANGED memory
    /\ UNCHANGED <<row, run, listed, refusals>> /\ Unchanged

(* update: whether the clock counts or may be written. settings, history   *)
(* and status only read.                                                   *)

(***************************************************************************)
(* The environment                                                         *)
(***************************************************************************)
Punch(c, kind) ==
    /\ \E script \in Script[c] : IsPrefix(Append(events[c], kind), script)
    /\ events' = [events EXCEPT ![c] = Append(@, kind)]
    /\ UNCHANGED <<answers, rejects, row, punch, memory, run, listed, importing, refusals, faults, console>>

Fault == faults < MaxFaults /\ faults' = faults + 1

(* The process ends and starts again.                                      *)
Restart ==
    /\ Fault
    /\ memory' = [c \in Clock |-> Fresh]
    /\ run' = [r \in Run |-> NoRun]
    /\ listed' = {}
    /\ importing' = [c \in Clock |-> {}]
    /\ refusals' = [c \in Clock |-> NoRefusals]
    /\ UNCHANGED <<events, answers, rejects, row, punch, console>>

(* Another clock gets the address, not in the middle of a conversation.    *)
Swap(c, other) ==
    /\ Fault
    /\ ~memory[c].inProgress /\ importing[c] = {}
    /\ answers' = [answers EXCEPT ![c] = other]
    /\ UNCHANGED <<events, rejects, row, punch, memory, run, listed, importing, refusals, console>>

(* The password of the clock is changed, or set right.                     *)
ChangePassword(c) ==
    /\ Fault
    /\ rejects' = IF c \in rejects THEN rejects \ {c} ELSE rejects \cup {c}
    /\ UNCHANGED <<events, answers, row, punch, memory, run, listed, importing, refusals, console>>

(* The worker of the roster asks every registered clock at its interval,   *)
(* with the same credentials and whether the clock is paused or not.       *)
RosterRefused(c) ==
    /\ row[c].registered /\ answers[c] \in rejects
    /\ refusals[c].roster < 2
    /\ refusals' = [refusals EXCEPT ![c].roster = @ + 1]
    /\ UNCHANGED <<row, punch, memory, run, listed, importing>> /\ Unchanged

(***************************************************************************)
(* The specification                                                       *)
(***************************************************************************)
ClockInit ==
    /\ events = [c \in Clock |-> <<>>]
    /\ answers = [c \in Clock |-> c]
    /\ rejects = {}
    /\ row = [c \in Clock |-> [registered |-> c \in Installed, lastSerialNo |-> 0]]
    /\ punch = [c \in Clock |-> {}]
    /\ memory = [c \in Clock |-> Fresh]
    /\ run = [r \in Run |-> NoRun]
    /\ listed = {}
    /\ importing = [c \in Clock |-> {}]
    /\ refusals = [c \in Clock |-> NoRefusals]
    /\ faults = 0 /\ console = 0

RunStep(r) == Connect(r) \/ Target(r) \/ ReadPage(r) \/ Confirm(r) \/ Rejected(r)

ClockNext ==
    \/ \E r \in Run : RunStep(r) \/ Fails(r)
    \/ TickRead \/ \E c \in Clock : TickStart(c) \/ ImportPage(c)
    \/ Sync
    \/ \E c \in Clock : Register(c) \/ Retire(c) \/ RosterRefused(c) \/ ChangePassword(c)
    \/ \E from, to \in 1..2 : StartImport(from..to)
    \/ \E c \in Clock, kind \in EventKind : Punch(c, kind)
    \/ Restart \/ \E c, other \in Clock : Swap(c, other)

(* setInterval keeps ticking, and every request to a clock ends: with an   *)
(* answer, a refusal or its timeout.                                       *)
ClockFairness ==
    /\ \A r \in Run : WF_clockVars(RunStep(r))
    /\ WF_clockVars(TickRead)
    /\ \A c \in Clock : WF_clockVars(TickStart(c))

ClockSpec == ClockInit /\ [][ClockNext]_clockVars /\ ClockFairness

(***************************************************************************)
(* Properties                                                              *)
(***************************************************************************)
(* run, confirm: every identified punch up to the cursor is stored, under  *)
(* its own clock, whatever failed, was retired or restarted in between;    *)
(* and nothing is stored that the clock did not record.                    *)
CursorIsSafe ==
    \A c \in Clock :
      /\ row[c].lastSerialNo <= LastEvent(c)
      /\ Savable(c, 1..row[c].lastSerialNo) \subseteq punch[c]
      /\ punch[c] \subseteq Savable(c, 1..LastEvent(c))

(* Runs of one clock do not overlap, so that no confirmation takes the     *)
(* cursor back (inProgress as the lock of run, sync, register, worker).    *)
CursorOnlyAdvances == [][\A c \in Clock : row'[c].lastSerialNo >= row[c].lastSerialNo]_clockVars

(* pausedByCredentials: between two explicit attempts, or restarts, the    *)
(* synchronisation is refused by a clock at most once.                     *)
WorkerGivesUp == \A c \in Clock : refusals[c].sync <= 1

(* startWorker: a clock that stays registered, at its address and not      *)
(* paused ends with every punch stored.                                    *)
CatchesUp ==
    \A c \in Clock :
      <>[](row[c].registered /\ answers[c] = c /\ c \notin rejects /\ ~memory[c].pausedByCredentials)
        => <>[](Savable(c, 1..LastEvent(c)) \subseteq punch[c])

(* run, confirm, pausedByCredentials: the cursor never passes a punch that *)
(* is not stored, and a clock that refuses is not asked on and on.         *)
SyncIsSafe == CursorIsSafe /\ WorkerGivesUp

(* The worker gets everywhere and never back: cursors only advance, and a  *)
(* clock that can be read ends with every punch stored.                    *)
SyncMovesOn == CursorOnlyAdvances /\ CatchesUp
=============================================================================
