---------------------------- MODULE PeopleProofs ----------------------------
(***************************************************************************)
(* Theorems about the records of people, machine-checked by TLAPS for      *)
(* every value of the constants:                                           *)
(*   - settings: what a client is told was stored no longer ago than the   *)
(*     cache lives (SettingsAreRecent);                                    *)
(*   - the people of the time clocks: what is written to a clock is right  *)
(*     (ClocksAreWrittenSafely);                                           *)
(*   - personnel records: deletions take nothing of others and notices     *)
(*     tell the truth (RecordsStay);                                       *)
(*   - accounts: removals end as they were decided (RemovalsEndClean);     *)
(*   - roles, cells and exceptions: a role stays usable, and an answer on  *)
(*     permissions comes from the tables (RolesRemainUsable,               *)
(*     AnswersComeFromTheTables);                                          *)
(*   - policies: nobody but ADMIN approves an order of their own while the *)
(*     seeded rules stand first (DutiesAreSegregated);                     *)
(*   - the weekly payroll: a closed week keeps the photograph of what it   *)
(*     was closed for (PhotographsStayComplete);                           *)
(*   - tickets: mirror, lists, notices and moves agree                     *)
(*     (TicketsStayConsistent).                                            *)
(***************************************************************************)
EXTENDS SystemConfig, ClockPeople, HumanResources, Accounts, AccessControl, Policies, Attendance,
        Tickets, Sums, FiniteSetTheorems, TLAPS

(***************************************************************************)
(* Settings                                                                *)
(***************************************************************************)
\* The states a request may be in, and what it holds there.
Steps == {"idle", "look", "read", "copy", "seed", "seedFound", "seedMade", "transport", "write", "written", "removed"}
Operations == {"none", "get", "send", "upsert", "remove", "sent", "unsent"}
Lookups == [op : Operations, key : Key, value : Stored, row : Stored, step : Steps, since : Int,
            asked : SUBSET {"resend", "smtp"}, answer : Stored]

\* What is stored, copied and under way is well formed.
ConfigTypes ==
  /\ table \in [Key -> Stored]
  /\ copy \in [Key -> [value : Stored, ts : Int]]
  /\ caller \in [Client -> Lookups]
  /\ clock \in Int
  /\ inForce \in [Key -> [Stored -> Int]]

\* The value a request is about to copy under its key, if it is about to.
Carries(l, k, v) ==
  \/ l.step = "copy" /\ k = l.key /\ v = l.row
  \/ l.step \in {"seedFound", "seedMade"} /\ k = RECIPIENTS /\ v = l.row
  \/ l.step = "written" /\ k = l.key /\ v = l.value

\* What a key holds is in force now, and nothing was in force later.
ForceIsRight(k) ==
  /\ inForce[k][table[k]] = clock
  /\ \A v \in Stored : inForce[k][v] <= clock

\* A copy was in force no longer ago than one answer takes before it was made.
CopyIsRight(k) ==
  copy[k].value # Absent =>
    /\ copy[k].ts <= clock
    /\ copy[k].ts - inForce[k][copy[k].value] <= REQUEST_TIME

\* A request has waited no longer than it may, and what it is about to copy was
\* in force since it began to wait.
LookupIsRight(c) ==
  caller[c].step # "idle" =>
    /\ caller[c].since <= clock /\ clock - caller[c].since <= REQUEST_TIME
    /\ \A k \in Key, v \in Setting : Carries(caller[c], k, v) => inForce[k][v] >= caller[c].since

\* The inductive invariant of the settings.
ConfigInv ==
  /\ ConfigTypes
  /\ \A k \in Key : ForceIsRight(k) /\ CopyIsRight(k)
  /\ \A c \in Client : LookupIsRight(c)

\* A request that is over is one.
LEMMA NoLookupIsLookup ==
  \A a \in Stored, o \in Operations, w \in SUBSET {"resend", "smtp"} :
    [NoLookup EXCEPT !.op = o, !.asked = w, !.answer = a] \in Lookups /\ [NoLookup EXCEPT !.answer = a] \in Lookups
    /\ NoLookup \in Lookups
<1> TAKE a \in Stored, o \in Operations, w \in SUBSET {"resend", "smtp"}
<1>1. "none" \in Operations /\ "idle" \in Steps /\ Absent \in Stored /\ RECIPIENTS \in Key /\ 0 \in Int
      /\ {} \in SUBSET {"resend", "smtp"}
  BY SettingsAssumption DEF Operations, Steps, Stored
<1>2. NoLookup \in Lookups
  BY <1>1, Zenon DEF NoLookup, Lookups
<1>3. [NoLookup EXCEPT !.answer = a] \in Lookups
  BY <1>2 DEF Lookups
<1>4. [NoLookup EXCEPT !.op = o, !.asked = w, !.answer = a] \in Lookups
  BY <1>2 DEF Lookups
<1> QED
  BY <1>2, <1>3, <1>4

\* Nothing is stored at first.
LEMMA ConfigInvInit == ConfigInit => ConfigInv
<1> SUFFICES ASSUME ConfigInit PROVE ConfigInv
  OBVIOUS
<1> USE SettingsAssumption
<1>1. NoLookup \in Lookups
  BY NoLookupIsLookup DEF Operations, Stored
<1>2. NoCopy \in [value : Stored, ts : Int]
  BY DEF NoCopy, Stored
<1>3. \A c \in Client : caller[c].step = "idle"
  BY DEF ConfigInit, NoLookup
<1>4. ConfigTypes
  BY <1>1, <1>2 DEF ConfigInit, ConfigTypes, Stored
<1>5. \A k \in Key : ForceIsRight(k) /\ CopyIsRight(k)
  BY DEF ConfigInit, ForceIsRight, CopyIsRight, NoCopy, Stored
<1> QED
  BY <1>3, <1>4, <1>5 DEF ConfigInv, LookupIsRight

\* What stays true of every request that does not act while the clock stands.
\* A value in force is never taken for older than it is.
ForceStands ==
  /\ clock' = clock
  /\ inForce' \in [Key -> [Stored -> Int]]
  /\ \A k \in Key, v \in Stored : inForce'[k][v] >= inForce[k][v]

\* Copies and requests that a step does not touch keep what is right about them.
LEMMA OthersStand ==
  ASSUME ConfigInv, ForceStands
  PROVE  /\ \A k \in Key : copy'[k] = copy[k] => CopyIsRight(k)'
         /\ \A c \in Client : caller'[c] = caller[c] => LookupIsRight(c)'
<1>1. ASSUME NEW k \in Key, copy'[k] = copy[k] PROVE CopyIsRight(k)'
  <2>1. copy[k].value \in Stored /\ copy[k].ts \in Int
    BY DEF ConfigInv, ConfigTypes
  <2>2. CopyIsRight(k)
    BY DEF ConfigInv
  <2> QED
    BY <1>1, <2>1, <2>2, SettingsAssumption DEF ForceStands, CopyIsRight, ConfigInv, ConfigTypes
<1>2. ASSUME NEW c \in Client, caller'[c] = caller[c] PROVE LookupIsRight(c)'
  <2>1. caller[c].since \in Int /\ LookupIsRight(c)
    BY DEF ConfigInv, ConfigTypes, Lookups
  <2>2. ASSUME NEW k \in Key, NEW v \in Setting, Carries(caller[c], k, v), caller[c].step # "idle"
        PROVE  inForce'[k][v] >= caller[c].since
    <3>1. inForce[k][v] >= caller[c].since /\ v \in Stored
      BY <2>1, <2>2 DEF LookupIsRight, Stored
    <3> QED
      BY <2>1, <3>1 DEF ForceStands, ConfigInv, ConfigTypes
  <2> QED
    BY <1>2, <2>1, <2>2 DEF ForceStands, LookupIsRight
<1> QED
  BY <1>1, <1>2

\* A step of one request that leaves table and copies alone is right when that
\* request stays right.
LEMMA OnlyTheRequest ==
  ASSUME ConfigInv, NEW c \in Client, NEW l \in Lookups,
         caller' = [caller EXCEPT ![c] = l],
         UNCHANGED <<table, copy, clock, inForce>>,
         l.step # "idle" =>
           /\ l.since <= clock /\ clock - l.since <= REQUEST_TIME
           /\ \A k \in Key, v \in Setting : Carries(l, k, v) => inForce[k][v] >= l.since
  PROVE  ConfigInv'
<1>1. ForceStands
  BY DEF ForceStands, ConfigInv, ConfigTypes
<1>2. \A d \in Client : d # c => caller'[d] = caller[d]
  BY DEF ConfigInv, ConfigTypes
<1>3. caller'[c] = l
  BY DEF ConfigInv, ConfigTypes
<1>4. LookupIsRight(c)'
  BY <1>3 DEF LookupIsRight
<1>5. ConfigTypes'
  BY DEF ConfigInv, ConfigTypes
<1>6. \A k \in Key : ForceIsRight(k)' /\ CopyIsRight(k)'
  BY DEF ConfigInv, ForceIsRight, CopyIsRight
<1> QED
  BY <1>1, <1>2, <1>4, <1>5, <1>6, OthersStand DEF ConfigInv

\* A step of one request that copies what it carries is right as well.
LEMMA TheRequestCopies ==
  ASSUME ConfigInv, NEW c \in Client, NEW l \in Lookups, NEW k \in Key, NEW v \in Stored,
         v # Absent => Carries(caller[c], k, v), caller[c].step # "idle",
         CacheSet(k, v),
         caller' = [caller EXCEPT ![c] = l],
         UNCHANGED <<table, clock, inForce>>,
         l.step # "idle" =>
           /\ l.since <= clock /\ clock - l.since <= REQUEST_TIME
           /\ \A i \in Key, w \in Setting : ~Carries(l, i, w)
  PROVE  ConfigInv'
<1> USE SettingsAssumption
<1>1. ForceStands
  BY DEF ForceStands, ConfigInv, ConfigTypes
<1>2. \A d \in Client : d # c => caller'[d] = caller[d]
  BY DEF ConfigInv, ConfigTypes
<1>3. caller'[c] = l
  BY DEF ConfigInv, ConfigTypes
<1>4. LookupIsRight(c)'
  BY <1>3 DEF LookupIsRight
<1>5. copy' \in [Key -> [value : Stored, ts : Int]] /\ copy'[k] = [value |-> v, ts |-> clock]
  BY DEF ConfigInv, ConfigTypes, CacheSet, Stored
<1>6. ConfigTypes'
  BY <1>5 DEF ConfigInv, ConfigTypes
<1>7. ASSUME v # Absent PROVE CopyIsRight(k)'
  <2>1. inForce[k][v] >= caller[c].since /\ clock - caller[c].since <= REQUEST_TIME
    BY <1>7 DEF ConfigInv, LookupIsRight, Stored
  <2>2. inForce[k][v] \in Int /\ caller[c].since \in Int /\ clock \in Int
    BY DEF ConfigInv, ConfigTypes, Lookups, Stored
  <2>3. clock - inForce[k][v] <= REQUEST_TIME
    BY <2>1, <2>2
  <2> QED
    BY <1>5, <2>2, <2>3 DEF CopyIsRight
<1>8. \A i \in Key : CopyIsRight(i)'
  <2>1. \A i \in Key : i # k => copy'[i] = copy[i]
    BY DEF ConfigInv, ConfigTypes, CacheSet
  <2>2. v = Absent => CopyIsRight(k)'
    BY <1>5 DEF CopyIsRight
  <2> QED
    BY <1>1, <1>7, <2>1, <2>2, OthersStand
<1>9. \A i \in Key : ForceIsRight(i)'
  BY DEF ConfigInv, ForceIsRight
<1> QED
  BY <1>1, <1>2, <1>4, <1>6, <1>8, <1>9, OthersStand DEF ConfigInv

\* A step of one request that drops a copy is right as well.
LEMMA TheRequestForgets ==
  ASSUME ConfigInv, NEW c \in Client, NEW l \in Lookups, NEW k \in Key,
         copy' = [copy EXCEPT ![k] = NoCopy],
         caller' = [caller EXCEPT ![c] = l],
         UNCHANGED <<table, clock, inForce>>,
         l.step # "idle" =>
           /\ l.since <= clock /\ clock - l.since <= REQUEST_TIME
           /\ \A i \in Key, w \in Setting : ~Carries(l, i, w)
  PROVE  ConfigInv'
<1>1. ForceStands
  BY DEF ForceStands, ConfigInv, ConfigTypes
<1>2. NoCopy \in [value : Stored, ts : Int] /\ NoCopy.value = Absent
  BY DEF NoCopy, Stored
<1>3. copy' \in [Key -> [value : Stored, ts : Int]] /\ copy'[k] = NoCopy
      /\ \A i \in Key : i # k => copy'[i] = copy[i]
  BY <1>2 DEF ConfigInv, ConfigTypes
<1>4. \A i \in Key : CopyIsRight(i)'
  <2>1. CopyIsRight(k)'
    BY <1>2, <1>3 DEF CopyIsRight
  <2> QED
    BY <1>1, <1>3, <2>1, OthersStand
<1>5. caller'[c] = l /\ caller' \in [Client -> Lookups] /\ \A d \in Client : d # c => caller'[d] = caller[d]
  BY DEF ConfigInv, ConfigTypes
<1>6. LookupIsRight(c)'
  BY <1>5 DEF LookupIsRight
<1>7. ConfigTypes'
  BY <1>3, <1>5 DEF ConfigInv, ConfigTypes
<1>8. \A i \in Key : ForceIsRight(i)'
  BY DEF ConfigInv, ForceIsRight
<1> QED
  BY <1>1, <1>4, <1>5, <1>6, <1>7, <1>8, OthersStand DEF ConfigInv

\* A write of the table, whatever the request that made it does next, is right
\* when that request is.
LEMMA TheRequestWrites ==
  ASSUME ConfigInv, NEW c \in Client, NEW l \in Lookups, NEW k \in Key, NEW v \in Stored,
         WriteRow(k, v),
         caller' = [caller EXCEPT ![c] = l],
         UNCHANGED <<copy, clock>>,
         l.step # "idle" =>
           /\ l.since <= clock /\ clock - l.since <= REQUEST_TIME
           /\ \A i \in Key, w \in Setting : Carries(l, i, w) => i = k /\ w = v
  PROVE  ConfigInv'
<1> USE SettingsAssumption
<1>1. PICK new : new = [[inForce[k] EXCEPT ![table[k]] = clock] EXCEPT ![v] = clock]
  OBVIOUS
<1>2. new \in [Stored -> Int] /\ new[v] = clock /\ \A w \in Stored : new[w] >= inForce[k][w] /\ new[w] <= clock
  <2>1. table[k] \in Stored /\ inForce[k] \in [Stored -> Int] /\ clock \in Int
    BY DEF ConfigInv, ConfigTypes
  <2>2. \A w \in Stored : new[w] = IF w = v \/ w = table[k] THEN clock ELSE inForce[k][w]
    BY <1>1, <2>1
  <2>3. \A w \in Stored : inForce[k][w] <= clock
    BY DEF ConfigInv, ForceIsRight
  <2> QED
    BY <1>1, <2>1, <2>2, <2>3
<1>3. inForce' = [inForce EXCEPT ![k] = new]
  BY <1>1 DEF WriteRow, ConfigInv, ConfigTypes
<1>4. inForce' \in [Key -> [Stored -> Int]] /\ inForce'[k] = new /\ \A i \in Key : i # k => inForce'[i] = inForce[i]
  BY <1>2, <1>3 DEF ConfigInv, ConfigTypes
<1>5. ForceStands
  <2>1. ASSUME NEW i \in Key, NEW w \in Stored PROVE inForce'[i][w] >= inForce[i][w]
    <3>1. CASE i = k
      BY <1>2, <1>4, <3>1
    <3>2. CASE i # k
      <4>1. inForce[i][w] \in Int
        BY DEF ConfigInv, ConfigTypes
      <4> QED
        BY <1>4, <3>2, <4>1
    <3> QED
      BY <3>1, <3>2
  <2> QED
    BY <1>4, <2>1 DEF ForceStands
<1>6. \A d \in Client : d # c => caller'[d] = caller[d]
  BY DEF ConfigInv, ConfigTypes
<1>7. caller'[c] = l /\ caller' \in [Client -> Lookups]
  BY DEF ConfigInv, ConfigTypes
<1>8. LookupIsRight(c)'
  <2>1. clock \in Int /\ l.since \in Int
    BY DEF ConfigInv, ConfigTypes, Lookups
  <2>2. ASSUME NEW i \in Key, NEW w \in Setting, Carries(l, i, w), l.step # "idle"
        PROVE  inForce'[i][w] >= l.since
    BY <1>2, <1>4, <2>1, <2>2
  <2> QED
    BY <1>7, <2>2 DEF LookupIsRight
<1>9. table' \in [Key -> Stored] /\ table'[k] = v /\ \A i \in Key : i # k => table'[i] = table[i]
  BY DEF WriteRow, ConfigInv, ConfigTypes
<1>10. ConfigTypes'
  BY <1>4, <1>7, <1>9 DEF ConfigInv, ConfigTypes
<1>11. \A i \in Key : CopyIsRight(i)'
  BY <1>5, OthersStand
<1>12. \A i \in Key : ForceIsRight(i)'
  <2>1. \A i \in Key : ForceIsRight(i)
    BY DEF ConfigInv
  <2>2. ForceIsRight(k)'
    BY <1>2, <1>4, <1>9 DEF ForceIsRight
  <2> QED
    BY <1>4, <1>9, <2>1, <2>2 DEF ForceIsRight
<1> QED
  BY <1>5, <1>6, <1>8, <1>10, <1>11, <1>12, OthersStand DEF ConfigInv

\* A request that went through Goto waits from now on.
LEMMA GotoGives ==
  ASSUME ConfigInv, NEW c \in Client, NEW step \in Steps, Goto(c, step)
  PROVE  \E l \in Lookups :
           /\ caller' = [caller EXCEPT ![c] = l]
           /\ l.step = step /\ l.since = clock
           /\ l.key = caller[c].key /\ l.value = caller[c].value
<1>. PICK l : l = [[caller[c] EXCEPT !.step = step] EXCEPT !.since = clock]
  OBVIOUS
<1>1. caller[c] \in Lookups /\ clock \in Int
  BY DEF ConfigInv, ConfigTypes
<1>2. l \in Lookups /\ l.step = step /\ l.since = clock /\ l.key = caller[c].key /\ l.value = caller[c].value
  BY <1>1 DEF Lookups
<1>3. caller' = [caller EXCEPT ![c] = l]
  BY <1>1 DEF Goto, ConfigInv, ConfigTypes
<1> QED
  BY <1>2, <1>3

\* The database answers request c with the row v, and it goes to a step.
RowAnswers(c, v, step) == caller' = [caller EXCEPT ![c].row = v, ![c].step = step]

\* A request that is answered with a row waits on.
LEMMA RowGives ==
  ASSUME ConfigInv, NEW c \in Client, NEW step \in Steps, NEW v \in Stored,
         RowAnswers(c, v, step)
  PROVE  \E l \in Lookups :
           /\ caller' = [caller EXCEPT ![c] = l]
           /\ l.step = step /\ l.since = caller[c].since /\ l.row = v /\ l.key = caller[c].key
<1>. PICK l : l = [[caller[c] EXCEPT !.row = v] EXCEPT !.step = step]
  OBVIOUS
<1>1. caller[c] \in Lookups
  BY DEF ConfigInv, ConfigTypes
<1>2. l \in Lookups /\ l.step = step /\ l.since = caller[c].since /\ l.row = v /\ l.key = caller[c].key
  BY <1>1 DEF Lookups
<1>3. caller' = [caller EXCEPT ![c] = l]
  BY <1>1 DEF RowAnswers, ConfigInv, ConfigTypes
<1> QED
  BY <1>2, <1>3

\* What get returns ends the request, or lets a send go on to the seed or to
\* the transport; it carries nothing to be copied then.
LEMMA GetReturnsGives ==
  ASSUME ConfigInv, NEW c \in Client, NEW v \in Stored, GetReturns(c, v), caller[c].step # "idle"
  PROVE  \E l \in Lookups :
           /\ caller' = [caller EXCEPT ![c] = l]
           /\ l.step # "idle" => l.since <= clock /\ clock - l.since <= REQUEST_TIME
           /\ \A k \in Key, w \in Setting : ~Carries(l, k, w)
<1> USE SettingsAssumption
<1>1. clock \in Int /\ clock <= clock /\ clock - clock <= REQUEST_TIME /\ Absent \in Stored
      /\ {"seed", "transport"} \subseteq Steps
  BY DEF ConfigInv, ConfigTypes, Stored, Steps
<1>2. caller[c].since <= clock /\ clock - caller[c].since <= REQUEST_TIME
  BY DEF ConfigInv, LookupIsRight
<1>3. CASE Answer(c, v)
  <2>1. [NoLookup EXCEPT !.answer = v] \in Lookups /\ [NoLookup EXCEPT !.answer = v].step = "idle"
    BY NoLookupIsLookup DEF NoLookup, Operations
  <2> QED
    BY <1>3, <2>1 DEF Answer, Carries
<1>4. CASE Goto(c, "seed")
  <2>. PICK l \in Lookups : caller' = [caller EXCEPT ![c] = l] /\ l.step = "seed" /\ l.since = clock
    BY <1>1, <1>4, GotoGives
  <2>1. \A k \in Key, w \in Setting : ~Carries(l, k, w)
    BY DEF Carries
  <2> QED
    BY <1>1, <2>1
<1>5. CASE \E w \in Stored : caller' = [caller EXCEPT ![c].step = "transport", ![c].row = w]
  <2>. PICK w \in Stored : caller' = [caller EXCEPT ![c].step = "transport", ![c].row = w]
    BY <1>5
  <2>. PICK l : l = [[caller[c] EXCEPT !.step = "transport"] EXCEPT !.row = w]
    OBVIOUS
  <2>1. caller[c] \in Lookups
    BY DEF ConfigInv, ConfigTypes
  <2>2. l \in Lookups /\ l.step = "transport" /\ l.since = caller[c].since
    BY <1>1, <2>1 DEF Lookups
  <2>3. caller' = [caller EXCEPT ![c] = l]
    BY <2>1 DEF ConfigInv, ConfigTypes
  <2>4. \A k \in Key, z \in Setting : ~Carries(l, k, z)
    BY <2>2 DEF Carries
  <2> QED
    BY <1>2, <2>2, <2>3, <2>4
<1> QED
  BY <1>1, <1>3, <1>4, <1>5 DEF GetReturns

-----------------------------------------------------------------------------
\* What a request does keeps the settings right.
LEMMA LookIsRight ==
  ASSUME ConfigInv, NEW c \in Client, Look(c)
  PROVE  ConfigInv'
<1> USE SettingsAssumption
<1>1. caller[c] \in Lookups /\ caller[c].step = "look" /\ caller[c].key \in Key /\ clock \in Int
  BY DEF Look, At, ConfigInv, ConfigTypes, Lookups
<1>2. CASE CacheGet(caller[c].key) # Absent
  <2>1. CacheGet(caller[c].key) \in Stored
    BY <1>1 DEF CacheGet, ConfigInv, ConfigTypes, Stored
  <2>2. GetReturns(c, CacheGet(caller[c].key)) /\ UNCHANGED <<table, copy, clock, inForce>>
    BY <1>2 DEF Look
  <2>3. PICK l \in Lookups : /\ caller' = [caller EXCEPT ![c] = l]
                             /\ l.step # "idle" => l.since <= clock /\ clock - l.since <= REQUEST_TIME
                             /\ \A k \in Key, w \in Setting : ~Carries(l, k, w)
    BY <1>1, <2>1, <2>2, GetReturnsGives
  <2>4. UNCHANGED copy
    BY <1>2 DEF Look
  <2> QED
    BY <2>2, <2>3, <2>4, OnlyTheRequest
<1>3. CASE CacheGet(caller[c].key) = Absent
  <2>1. Goto(c, "read") /\ copy' = [copy EXCEPT ![caller[c].key] = NoCopy] /\ UNCHANGED <<table, clock, inForce>>
    BY <1>3 DEF Look
  <2>. PICK l \in Lookups : caller' = [caller EXCEPT ![c] = l] /\ l.step = "read" /\ l.since = clock
    BY <2>1, GotoGives DEF Steps
  <2>2. l.since <= clock /\ clock - l.since <= REQUEST_TIME /\ \A k \in Key, v \in Setting : ~Carries(l, k, v)
    BY <1>1 DEF Carries
  <2> QED
    BY <1>1, <2>1, <2>2, TheRequestForgets
<1> QED
  BY <1>2, <1>3

\* A row is in force when it is read.
LEMMA ReadIsRight ==
  ASSUME ConfigInv, NEW c \in Client, ReadRow(c) \/ SeedFind(c)
  PROVE  ConfigInv'
<1>1. caller[c] \in Lookups /\ caller[c].step # "idle" /\ caller[c].key \in Key /\ clock \in Int
  BY DEF ReadRow, SeedFind, At, ConfigInv, ConfigTypes, Lookups
<1>2. caller[c].since <= clock /\ clock - caller[c].since <= REQUEST_TIME
  BY <1>1 DEF ConfigInv, LookupIsRight
<1>3. \A k \in Key : table[k] \in Stored /\ inForce[k][table[k]] = clock
  BY DEF ConfigInv, ConfigTypes, ForceIsRight
<1>4. CASE ReadRow(c)
  <2>1. RowAnswers(c, table[caller[c].key], "copy") /\ UNCHANGED <<table, copy, clock, inForce>>
    BY <1>4 DEF ReadRow, RowAnswers
  <2>2. "copy" \in Steps /\ table[caller[c].key] \in Stored /\ inForce[caller[c].key][table[caller[c].key]] = clock
    BY <1>1, <1>3 DEF Steps
  <2>3. PICK l \in Lookups : /\ caller' = [caller EXCEPT ![c] = l]
                             /\ l.step = "copy" /\ l.since = caller[c].since
                             /\ l.row = table[caller[c].key] /\ l.key = caller[c].key
    BY <2>1, <2>2, RowGives
  <2>4. \A k \in Key, v \in Setting : Carries(l, k, v) => k = caller[c].key /\ v = table[caller[c].key]
    BY <2>3 DEF Carries
  <2> QED
    BY <1>2, <2>1, <2>2, <2>3, <2>4, OnlyTheRequest
<1>5. CASE SeedFind(c)
  <2>1. RowAnswers(c, table[RECIPIENTS], "seedFound") /\ UNCHANGED <<table, copy, clock, inForce>>
    BY <1>5 DEF SeedFind, RowAnswers
  <2>2. "seedFound" \in Steps /\ table[RECIPIENTS] \in Stored /\ inForce[RECIPIENTS][table[RECIPIENTS]] = clock
    BY <1>3, SettingsAssumption DEF Steps
  <2>3. PICK l \in Lookups : /\ caller' = [caller EXCEPT ![c] = l]
                             /\ l.step = "seedFound" /\ l.since = caller[c].since
                             /\ l.row = table[RECIPIENTS] /\ l.key = caller[c].key
    BY <2>1, <2>2, RowGives
  <2>4. \A k \in Key, v \in Setting : Carries(l, k, v) => k = RECIPIENTS /\ v = table[RECIPIENTS]
    BY <2>3 DEF Carries
  <2> QED
    BY <1>2, <2>1, <2>2, <2>3, <2>4, OnlyTheRequest
<1> QED
  BY <1>4, <1>5

\* The copies of what was read or written.
LEMMA CopyRowIsRight ==
  ASSUME ConfigInv, NEW c \in Client, CopyRow(c)
  PROVE  ConfigInv'
<1>1. caller[c] \in Lookups /\ caller[c].step = "copy" /\ caller[c].key \in Key /\ caller[c].row \in Stored
  BY DEF CopyRow, At, ConfigInv, ConfigTypes, Lookups
<1>2. GetReturns(c, caller[c].row) /\ UNCHANGED <<table, clock, inForce>>
  BY DEF CopyRow
<1>3. PICK l \in Lookups : /\ caller' = [caller EXCEPT ![c] = l]
                           /\ l.step # "idle" => l.since <= clock /\ clock - l.since <= REQUEST_TIME
                           /\ \A k \in Key, w \in Setting : ~Carries(l, k, w)
  BY <1>1, <1>2, GetReturnsGives
<1>4. CASE caller[c].row = Absent
  <2>1. UNCHANGED copy
    BY <1>4 DEF CopyRow
  <2> QED
    BY <1>2, <1>3, <2>1, OnlyTheRequest
<1>5. CASE caller[c].row # Absent
  <2>1. CacheSet(caller[c].key, caller[c].row) /\ Carries(caller[c], caller[c].key, caller[c].row)
    BY <1>1, <1>5 DEF CopyRow, Carries
  <2> QED
    BY <1>1, <1>2, <1>3, <2>1, TheRequestCopies
<1> QED
  BY <1>4, <1>5

\* The seed that found a row, and the one that created it.
LEMMA SeedCopiesAreRight ==
  ASSUME ConfigInv, NEW c \in Client, SeedExists(c) \/ SeedCopy(c)
  PROVE  ConfigInv'
<1> USE SettingsAssumption
<1>1. caller[c] \in Lookups /\ caller[c].step \in {"seedFound", "seedMade"} /\ caller[c].row \in Stored /\ clock \in Int
  BY DEF SeedExists, SeedCopy, At, ConfigInv, ConfigTypes, Lookups
<1>2. Goto(c, "look") /\ CacheSet(RECIPIENTS, caller[c].row) /\ UNCHANGED <<table, clock, inForce>>
  BY DEF SeedExists, SeedCopy
<1>. PICK l \in Lookups : caller' = [caller EXCEPT ![c] = l] /\ l.step = "look" /\ l.since = clock
  BY <1>2, GotoGives DEF Steps
<1>3. Carries(caller[c], RECIPIENTS, caller[c].row)
  BY <1>1 DEF Carries
<1>4. l.since <= clock /\ clock - l.since <= REQUEST_TIME /\ \A k \in Key, v \in Setting : ~Carries(l, k, v)
  BY <1>1 DEF Carries
<1> QED
  BY <1>1, <1>2, <1>3, <1>4, TheRequestCopies

\* The seed that creates the row, unless another did.
LEMMA SeedCreateIsRight ==
  ASSUME ConfigInv, NEW c \in Client, SeedCreate(c)
  PROVE  ConfigInv'
<1> USE SettingsAssumption
<1>1. caller[c] \in Lookups /\ caller[c].step # "idle" /\ ENV_RECIPIENTS \in Stored
  BY DEF SeedCreate, At, ConfigInv, ConfigTypes, Stored
<1>2. caller[c].since <= clock /\ clock - caller[c].since <= REQUEST_TIME
  BY <1>1 DEF ConfigInv, LookupIsRight
<1>3. CASE table[RECIPIENTS] = Absent
  <2>1. WriteRow(RECIPIENTS, ENV_RECIPIENTS) /\ RowAnswers(c, ENV_RECIPIENTS, "seedMade") /\ UNCHANGED <<copy, clock>>
    BY <1>3 DEF SeedCreate, RowAnswers
  <2>2. PICK l \in Lookups : /\ caller' = [caller EXCEPT ![c] = l]
                             /\ l.step = "seedMade" /\ l.since = caller[c].since /\ l.row = ENV_RECIPIENTS
    BY <1>1, <2>1, RowGives DEF Steps
  <2>3. \A k \in Key, v \in Setting : Carries(l, k, v) => k = RECIPIENTS /\ v = ENV_RECIPIENTS
    BY <2>2 DEF Carries
  <2> QED
    BY <1>1, <1>2, <2>1, <2>2, <2>3, TheRequestWrites
<1>4. CASE table[RECIPIENTS] # Absent
  <2>1. caller' = [caller EXCEPT ![c].step = "transport"] /\ UNCHANGED <<table, copy, clock, inForce>>
    BY <1>4 DEF SeedCreate
  <2>2. PICK l : l = [caller[c] EXCEPT !.step = "transport"]
    OBVIOUS
  <2>3. l \in Lookups /\ l.step = "transport" /\ l.since = caller[c].since
    BY <1>1, <2>2 DEF Lookups, Steps
  <2>4. caller' = [caller EXCEPT ![c] = l]
    BY <2>1, <2>2
  <2>5. \A k \in Key, v \in Setting : ~Carries(l, k, v)
    BY <2>3 DEF Carries
  <2> QED
    BY <1>2, <2>1, <2>3, <2>4, <2>5, OnlyTheRequest
<1> QED
  BY <1>3, <1>4

\* get, upsert before its transaction, what was sent, and what is over.
LEMMA BeginningsAreRight ==
  ASSUME ConfigInv, NEW c \in Client,
         \/ \E k \in Key, op \in {"get", "send"} : Get(c, k, op)
         \/ \E k \in Key, v \in Setting : Upsert(c, k, v)
         \/ \E accepts \in SUBSET {"resend", "smtp"} : Transport(c, accepts)
         \/ Over(c)
  PROVE  ConfigInv'
<1> USE SettingsAssumption
<1>1. clock \in Int /\ NoLookup \in Lookups /\ caller[c] \in Lookups
  BY NoLookupIsLookup DEF ConfigInv, ConfigTypes, Stored, Operations
<1>2. clock <= clock /\ clock - clock <= REQUEST_TIME
  BY <1>1
<1>3. ASSUME NEW k \in Key, NEW op \in {"get", "send"}, Get(c, k, op) PROVE ConfigInv'
  <2>1. PICK l : l = [NoLookup EXCEPT !.op = op, !.key = k, !.step = "look", !.since = clock]
    OBVIOUS
  <2>2. l \in Lookups /\ l.step = "look" /\ l.since = clock
    BY <1>1, <2>1 DEF Lookups, Operations, Steps
  <2>3. caller' = [caller EXCEPT ![c] = l] /\ UNCHANGED <<table, copy, clock, inForce>>
    BY <1>3, <2>1 DEF Get
  <2>4. \A i \in Key, w \in Setting : ~Carries(l, i, w)
    BY <2>2 DEF Carries
  <2> QED
    BY <1>2, <2>2, <2>3, <2>4, OnlyTheRequest
<1>4. ASSUME NEW k \in Key, NEW v \in Setting, Upsert(c, k, v) PROVE ConfigInv'
  <2>1. PICK l : l = [NoLookup EXCEPT !.op = "upsert", !.key = k, !.value = v, !.row = table[k], !.step = "write",
                                      !.since = clock]
    OBVIOUS
  <2>2. l \in Lookups /\ l.step = "write" /\ l.since = clock
    <3>1. table[k] \in Stored /\ v \in Stored /\ "upsert" \in Operations /\ "write" \in Steps
      BY DEF ConfigInv, ConfigTypes, Stored, Operations, Steps
    <3> QED
      BY <1>1, <2>1, <3>1 DEF Lookups
  <2>3. caller' = [caller EXCEPT ![c] = l] /\ UNCHANGED <<table, copy, clock, inForce>>
    BY <1>4, <2>1 DEF Upsert
  <2>4. \A i \in Key, w \in Setting : ~Carries(l, i, w)
    BY <2>2 DEF Carries
  <2> QED
    BY <1>2, <2>2, <2>3, <2>4, OnlyTheRequest
<1>5. ASSUME NEW accepts \in SUBSET {"resend", "smtp"}, Transport(c, accepts) PROVE ConfigInv'
  <2>1. PICK o \in Operations, w \in SUBSET {"resend", "smtp"} :
          caller' = [caller EXCEPT ![c] = [NoLookup EXCEPT !.op = o, !.asked = w, !.answer = Recipients(caller[c].row)]]
    BY <1>5 DEF Transport, Providers, Operations
  <2>2. Recipients(caller[c].row) \in Stored
    BY <1>1 DEF Recipients, Stored, Lookups
  <2>3. PICK l : l = [NoLookup EXCEPT !.op = o, !.asked = w, !.answer = Recipients(caller[c].row)]
    OBVIOUS
  <2>4. l \in Lookups /\ l.step = "idle"
    BY <2>2, <2>3, NoLookupIsLookup DEF NoLookup
  <2>5. caller' = [caller EXCEPT ![c] = l] /\ UNCHANGED <<table, copy, clock, inForce>>
    BY <1>5, <2>1, <2>3 DEF Transport
  <2> QED
    BY <2>4, <2>5, OnlyTheRequest
<1>6. CASE Over(c)
  <2>1. caller' = [caller EXCEPT ![c] = NoLookup] /\ UNCHANGED <<table, copy, clock, inForce>>
    BY <1>6 DEF Over
  <2>2. NoLookup.step = "idle"
    BY DEF NoLookup
  <2> QED
    BY <1>1, <2>1, <2>2, OnlyTheRequest
<1> QED
  BY <1>3, <1>4, <1>5, <1>6

\* The transactions of upsert and remove.
LEMMA WritesAreRight ==
  ASSUME ConfigInv, NEW c \in Client, CommitUpsert(c) \/ \E k \in Key : RemoveSetting(c, k)
  PROVE  ConfigInv'
<1> USE SettingsAssumption
<1>1. clock \in Int /\ NoLookup \in Lookups /\ caller[c] \in Lookups /\ Absent \in Stored
  BY NoLookupIsLookup DEF ConfigInv, ConfigTypes, Stored, Operations
<1>2. clock <= clock /\ clock - clock <= REQUEST_TIME
  BY <1>1
<1>3. CASE CommitUpsert(c)
  <2>1. WriteRow(caller[c].key, caller[c].value) /\ Goto(c, "written") /\ UNCHANGED <<copy, clock>>
    BY <1>3 DEF CommitUpsert
  <2>2. caller[c].key \in Key /\ caller[c].value \in Stored
    BY <1>1 DEF Lookups
  <2>3. PICK l \in Lookups : /\ caller' = [caller EXCEPT ![c] = l]
                             /\ l.step = "written" /\ l.since = clock
                             /\ l.key = caller[c].key /\ l.value = caller[c].value
    BY <2>1, GotoGives DEF Steps
  <2>4. \A k \in Key, v \in Setting : Carries(l, k, v) => k = caller[c].key /\ v = caller[c].value
    BY <2>3 DEF Carries
  <2> QED
    BY <1>2, <2>1, <2>2, <2>3, <2>4, TheRequestWrites
<1>4. ASSUME NEW k \in Key, RemoveSetting(c, k) PROVE ConfigInv'
  <2>1. PICK l : l = [NoLookup EXCEPT !.op = "remove", !.key = k, !.step = "removed", !.since = clock]
    OBVIOUS
  <2>2. l \in Lookups /\ l.step = "removed" /\ l.since = clock
    BY <1>1, <2>1 DEF Lookups, Operations, Steps
  <2>3. caller' = [caller EXCEPT ![c] = l] /\ WriteRow(k, Absent) /\ UNCHANGED <<copy, clock>>
    BY <1>4, <2>1 DEF RemoveSetting
  <2>4. \A i \in Key, w \in Setting : ~Carries(l, i, w)
    BY <2>2 DEF Carries
  <2> QED
    BY <1>1, <1>2, <2>2, <2>3, <2>4, TheRequestWrites
<1> QED
  BY <1>3, <1>4

\* What follows the transactions: a copy, or none.
LEMMA CopiesAreRight ==
  ASSUME ConfigInv, NEW c \in Client, CopyUpsert(c) \/ Invalidate(c)
  PROVE  ConfigInv'
<1> USE SettingsAssumption
<1>1. caller[c] \in Lookups /\ caller[c].step \in {"written", "removed"} /\ caller[c].key \in Key
      /\ caller[c].value \in Stored /\ Absent \in Stored
  BY DEF CopyUpsert, Invalidate, At, ConfigInv, ConfigTypes, Lookups, Stored
<1>2. \A v \in Stored : [NoLookup EXCEPT !.answer = v] \in Lookups /\ [NoLookup EXCEPT !.answer = v].step = "idle"
  BY NoLookupIsLookup DEF NoLookup, Operations
<1>3. CASE CopyUpsert(c)
  <2>1. Carries(caller[c], caller[c].key, caller[c].value)
    BY <1>3 DEF CopyUpsert, At, Carries
  <2>2. /\ CacheSet(caller[c].key, caller[c].value)
        /\ caller' = [caller EXCEPT ![c] = [NoLookup EXCEPT !.answer = caller[c].value]]
        /\ UNCHANGED <<table, clock, inForce>>
    BY <1>3 DEF CopyUpsert, Answer
  <2> QED
    BY <1>1, <1>2, <2>1, <2>2, TheRequestCopies
<1>4. CASE Invalidate(c)
  <2>1. PICK l \in Lookups : l = [NoLookup EXCEPT !.answer = Absent] /\ l.step = "idle"
    BY <1>1, <1>2
  <2>2. caller' = [caller EXCEPT ![c] = l] /\ copy' = [copy EXCEPT ![caller[c].key] = NoCopy]
        /\ UNCHANGED <<table, clock, inForce>>
    BY <1>4, <2>1 DEF Invalidate, Answer
  <2> QED
    BY <1>1, <2>1, <2>2, TheRequestForgets
<1> QED
  BY <1>3, <1>4

\* Time passes: what is under way has not waited too long yet.
LEMMA TickIsRight ==
  ASSUME ConfigInv, Tick
  PROVE  ConfigInv'
<1> USE SettingsAssumption
<1>1. clock' = clock + 1 /\ clock \in Int /\ UNCHANGED <<table, copy, caller>>
  BY DEF Tick, ConfigInv, ConfigTypes
<1>2. ASSUME NEW k \in Key
      PROVE  /\ inForce'[k] \in [Stored -> Int]
             /\ inForce'[k][table[k]] = clock + 1
             /\ \A v \in Stored : inForce'[k][v] >= inForce[k][v] /\ inForce'[k][v] <= clock + 1
  <2>1. inForce'[k] = [inForce[k] EXCEPT ![table[k]] = clock + 1]
    BY DEF Tick
  <2>2. table[k] \in Stored /\ inForce[k] \in [Stored -> Int] /\ \A v \in Stored : inForce[k][v] <= clock
    BY DEF ConfigInv, ConfigTypes, ForceIsRight
  <2> QED
    BY <1>1, <2>1, <2>2
<1>3. inForce' \in [Key -> [Stored -> Int]]
  <2>1. inForce' = [k \in Key |-> inForce'[k]]
    BY DEF Tick
  <2> QED
    BY <1>2, <2>1
<1>4. ConfigTypes'
  BY <1>1, <1>3 DEF ConfigInv, ConfigTypes
<1>5. \A k \in Key : ForceIsRight(k)'
  BY <1>1, <1>2 DEF ForceIsRight
<1>6. ASSUME NEW k \in Key PROVE CopyIsRight(k)'
  <2>1. copy[k].value \in Stored /\ copy[k].ts \in Int /\ CopyIsRight(k) /\ inForce[k] \in [Stored -> Int]
    BY DEF ConfigInv, ConfigTypes
  <2>2. inForce'[k][copy[k].value] >= inForce[k][copy[k].value] /\ inForce'[k][copy[k].value] \in Int
    BY <1>2, <2>1
  <2> QED
    BY <1>1, <2>1, <2>2 DEF CopyIsRight
<1>7. ASSUME NEW c \in Client PROVE LookupIsRight(c)'
  <2>1. caller[c].since \in Int /\ LookupIsRight(c)
    BY DEF ConfigInv, ConfigTypes, Lookups
  <2>2. caller[c].step # "idle" => clock - caller[c].since < REQUEST_TIME
    BY DEF Tick, At
  <2>3. ASSUME NEW k \in Key, NEW v \in Setting, Carries(caller[c], k, v), caller[c].step # "idle"
        PROVE  inForce'[k][v] >= caller[c].since
    <3>1. v \in Stored /\ inForce[k] \in [Stored -> Int] /\ inForce[k][v] >= caller[c].since
      BY <2>1, <2>3 DEF LookupIsRight, Stored, ConfigInv, ConfigTypes
    <3>2. inForce'[k][v] >= inForce[k][v] /\ inForce'[k][v] \in Int /\ inForce[k][v] \in Int
      BY <1>2, <3>1
    <3> QED
      BY <2>1, <3>1, <3>2
  <2> QED
    BY <1>1, <2>1, <2>2, <2>3 DEF LookupIsRight
<1> QED
  BY <1>4, <1>5, <1>6, <1>7 DEF ConfigInv

\* A process that starts again has neither copies nor requests.
LEMMA RestartIsRight ==
  ASSUME ConfigInv, Restart
  PROVE  ConfigInv'
<1>1. NoLookup \in Lookups /\ NoLookup.step = "idle"
  BY NoLookupIsLookup DEF NoLookup, Stored, Operations
<1>2. NoCopy \in [value : Stored, ts : Int] /\ NoCopy.value = Absent
  BY DEF NoCopy, Stored
<1>3. caller' \in [Client -> Lookups] /\ \A c \in Client : caller'[c].step = "idle"
  BY <1>1 DEF Restart
<1>4. copy' \in [Key -> [value : Stored, ts : Int]] /\ \A k \in Key : copy'[k].value = Absent
  BY <1>2 DEF Restart
<1>5. ConfigTypes'
  BY <1>3, <1>4 DEF Restart, ConfigInv, ConfigTypes
<1>6. \A k \in Key : ForceIsRight(k)' /\ CopyIsRight(k)'
  BY <1>4 DEF Restart, ConfigInv, ForceIsRight, CopyIsRight
<1>7. \A c \in Client : LookupIsRight(c)'
  BY <1>3 DEF LookupIsRight
<1> QED
  BY <1>5, <1>6, <1>7 DEF ConfigInv

\* Every step keeps the settings right.
LEMMA ConfigInvNext == ConfigInv /\ [ConfigNext]_configVars => ConfigInv'
<1> SUFFICES ASSUME ConfigInv, [ConfigNext]_configVars PROVE ConfigInv'
  OBVIOUS
<1>1. ASSUME NEW c \in Client,
             \/ \E k \in Key, op \in {"get", "send"} : Get(c, k, op)
             \/ \E k \in Key, v \in Setting : Upsert(c, k, v)
             \/ \E accepts \in SUBSET {"resend", "smtp"} : Transport(c, accepts)
             \/ Over(c)
      PROVE  ConfigInv'
  BY <1>1, BeginningsAreRight
<1>2. ASSUME NEW c \in Client, Look(c) \/ ReadRow(c) \/ CopyRow(c) PROVE ConfigInv'
  BY <1>2, LookIsRight, ReadIsRight, CopyRowIsRight
<1>3. ASSUME NEW c \in Client, SeedFind(c) \/ SeedExists(c) \/ SeedCreate(c) \/ SeedCopy(c) PROVE ConfigInv'
  BY <1>3, ReadIsRight, SeedCopiesAreRight, SeedCreateIsRight
<1>4. ASSUME NEW c \in Client, CommitUpsert(c) \/ \E k \in Key : RemoveSetting(c, k) PROVE ConfigInv'
  BY <1>4, WritesAreRight
<1>5. ASSUME NEW c \in Client, CopyUpsert(c) \/ Invalidate(c) PROVE ConfigInv'
  BY <1>5, CopiesAreRight
<1>6. CASE Tick \/ Restart
  BY <1>6, TickIsRight, RestartIsRight
<1>7. CASE UNCHANGED configVars
  BY <1>7 DEF configVars, ConfigInv, ConfigTypes, ForceIsRight, CopyIsRight, LookupIsRight, Carries
<1> QED
  BY <1>1, <1>2, <1>3, <1>4, <1>5, <1>6, <1>7 DEF ConfigNext

\* get, upsert, remove, the seed and their cache: whatever overlaps, no copy
\* serves a setting that was replaced or removed longer ago than the TTL and one
\* answer of the database, for any settings, requests and times.
THEOREM SettingsAreRecent == ConfigSpec => []AnswersAreRecent
<1>1. ConfigInv => AnswersAreRecent
  <2> SUFFICES ASSUME ConfigInv, NEW k \in Key, CacheGet(k) # Absent
               PROVE  clock - inForce[k][CacheGet(k)] <= CACHE_TTL + REQUEST_TIME
    BY DEF AnswersAreRecent
  <2>1. CacheGet(k) = copy[k].value /\ ~(clock - copy[k].ts > CACHE_TTL)
    BY DEF CacheGet
  <2>2. copy[k].value \in Stored /\ copy[k].ts \in Int /\ clock \in Int /\ inForce[k] \in [Stored -> Int]
    BY DEF ConfigInv, ConfigTypes
  <2>3. copy[k].ts - inForce[k][copy[k].value] <= REQUEST_TIME
    BY <2>1 DEF ConfigInv, CopyIsRight
  <2> QED
    BY <2>1, <2>2, <2>3, SettingsAssumption
<1> QED
  BY <1>1, ConfigInvInit, ConfigInvNext, PTL DEF ConfigSpec

(***************************************************************************)
(* The people of the time clocks                                           *)
(***************************************************************************)
\* An operation between two requests to a clock, and one that is about to write.
Holder == Worker \cup {"none"}
Thing == Card \cup Finger \cup {"none"}
JobNames == {"create", "remove", "addCard", "removeCard", "apply"}
WellNamed(r) ==
  /\ r.op \in {"create", "remove", "addCard"} => r.worker \in Worker
  /\ r.op = "addCard" => r.card \in Card
Reading ==
  {r \in [op : JobNames, pc : {"read"}, todo : SUBSET Device, worker : Holder, card : Thing] : WellNamed(r)}
AboutToWrite ==
  {r \in [op : JobNames, pc : {"write"}, todo : SUBSET Device, worker : Holder, card : Thing,
          clock : Device, seen : SUBSET Card] : WellNamed(r)}

\* Clocks, captures and operations are well formed.
PeopleTypes ==
  /\ held \in [Device -> SUBSET Holder]
  /\ cards \subseteq Device \X Card \X Worker
  /\ \A p \in capture : p.worker \in Worker
  /\ job \in [Job -> {NoJob} \cup Reading \cup AboutToWrite]

\* Nothing is on a clock that was never enabled.
UntouchedClocks ==
  \A c \in Device \ everEnabled :
    held[c] = {} /\ {t \in cards : t[1] = c} = {} /\ {t \in fingers : t[1] = c} = {}

\* Whatever may be written, or is about to be, was enabled once.
EnabledOnce ==
  /\ enabled \cup Mock \subseteq everEnabled
  /\ \A j \in Job : job[j] \in AboutToWrite => job[j].clock \in everEnabled

\* As long as operations do not overlap there is one at a time.
OneAtATime == ~mixed => \A j, k \in Job : job[j] # NoJob /\ job[k] # NoJob => j = k

\* A removal about to write knows every card the person has left.
RemovalSawTheCards(j) ==
  ~mixed /\ job[j] \in AboutToWrite /\ job[j].op = "remove" =>
    CardsOf(job[j].clock, job[j].worker) \subseteq job[j].seen

\* A card is of somebody its clock holds.
CardsAreHeld == ~mixed => \A t \in cards : t[3] \in held[t[1]]

\* The inductive invariant of people in the clocks.
PeopleInv ==
  /\ PeopleTypes
  /\ UntouchedClocks
  /\ EnabledOnce
  /\ OneAtATime
  /\ \A j \in Job : RemovalSawTheCards(j)
  /\ CardsAreHeld

\* No clock holds anybody at first.
LEMMA PeopleInvInit == PeopleInit => PeopleInv
<1> SUFFICES ASSUME PeopleInit PROVE PeopleInv
  OBVIOUS
<1>1. \A j \in Job : job[j] = NoJob
  BY DEF PeopleInit
<1>2. NoJob \notin AboutToWrite
  BY DEF NoJob, AboutToWrite, JobNames
<1>3. PeopleTypes
  BY DEF PeopleInit, PeopleTypes
<1>4. UntouchedClocks /\ EnabledOnce /\ OneAtATime /\ CardsAreHeld
  BY <1>1, <1>2 DEF PeopleInit, UntouchedClocks, EnabledOnce, OneAtATime, CardsAreHeld
<1> QED
  BY <1>1, <1>2, <1>3, <1>4 DEF PeopleInv, RemovalSawTheCards

\* An operation that is reading, and one that writes, are what they look like.
LEMMA Readers ==
  ASSUME PeopleInv, NEW j \in Job, job[j] # NoJob, job[j].pc = "read"
  PROVE  job[j] \in Reading
BY DEF PeopleInv, PeopleTypes, AboutToWrite

\* So is an operation that writes, and its clock was enabled.
LEMMA Writers ==
  ASSUME PeopleInv, NEW j \in Job, NEW op \in JobNames, Writing(j, op)
  PROVE  job[j] \in AboutToWrite /\ job[j] # NoJob /\ job[j].op = op /\ job[j].clock \in everEnabled
<1>1. NoJob.op = "none"
  BY DEF NoJob
<1>2. job[j] # NoJob
  BY <1>1 DEF Writing, JobNames
<1>3. job[j] \in AboutToWrite
  BY <1>2 DEF Writing, PeopleInv, PeopleTypes, Reading
<1> QED
  BY <1>2, <1>3 DEF Writing, PeopleInv, EnabledOnce

\* After its write an operation reads again.
LEMMA WrittenReads ==
  ASSUME NEW j, job[j] \in AboutToWrite
  PROVE  Written(j) \in Reading
<1>1. Written(j) \in [op : JobNames, pc : {"read"}, todo : SUBSET Device, worker : Holder, card : Thing]
  BY DEF Written, AboutToWrite
<1>2. WellNamed(Written(j))
  BY DEF Written, AboutToWrite, WellNamed
<1> QED
  BY <1>1, <1>2 DEF Reading

\* No shape of an operation is another.
LEMMA ShapesDiffer ==
  NoJob \notin Reading /\ NoJob \notin AboutToWrite /\ \A r \in Reading : r \notin AboutToWrite
BY DEF NoJob, Reading, AboutToWrite, JobNames

\* What a step of one operation needs to show: the clocks it changed were
\* enabled, its own next state is founded, and cards stay with people.
LEMMA OneJobActs ==
  ASSUME PeopleInv, NEW j \in Job, NEW s \in {NoJob} \cup Reading \cup AboutToWrite,
         job[j] # NoJob, SetJob(j, s), UNCHANGED <<enabled, capture, everEnabled, mixed>>,
         held' \in [Device -> SUBSET Holder], cards' \subseteq Device \X Card \X Worker,
         UntouchedClocks', CardsAreHeld',
         s \in AboutToWrite =>
           /\ s.clock \in everEnabled
           /\ ~mixed /\ s.op = "remove" => CardsOf(s.clock, s.worker)' \subseteq s.seen
  PROVE  PeopleInv'
<1>1. job' \in [Job -> {NoJob} \cup Reading \cup AboutToWrite] /\ job'[j] = s
      /\ \A k \in Job : k # j => job'[k] = job[k]
  BY DEF SetJob, PeopleInv, PeopleTypes
<1>2. PeopleTypes'
  BY <1>1 DEF PeopleInv, PeopleTypes
<1>3. EnabledOnce'
  BY <1>1 DEF PeopleInv, EnabledOnce
<1>4. OneAtATime'
  BY <1>1 DEF PeopleInv, OneAtATime
<1>5. ASSUME NEW k \in Job PROVE RemovalSawTheCards(k)'
  <2>1. CASE k = j
    BY <1>1, <2>1 DEF RemovalSawTheCards, CardsOf
  <2>2. CASE k # j
    BY <1>1, <2>2, ShapesDiffer DEF RemovalSawTheCards, PeopleInv, OneAtATime
  <2> QED
    BY <2>1, <2>2
<1> QED
  BY <1>2, <1>3, <1>4, <1>5 DEF PeopleInv

\* The same when it leaves the clocks alone.
LEMMA OneJobThinks ==
  ASSUME PeopleInv, NEW j \in Job, NEW s \in {NoJob} \cup Reading \cup AboutToWrite,
         job[j] # NoJob, SetJob(j, s), UNCHANGED <<enabled, capture, everEnabled, mixed, devices>>,
         s \in AboutToWrite =>
           /\ s.clock \in everEnabled
           /\ ~mixed /\ s.op = "remove" => CardsOf(s.clock, s.worker) \subseteq s.seen
  PROVE  PeopleInv'
<1>1. UNCHANGED <<held, cards, fingers>>
  BY DEF devices
<1>2. UntouchedClocks' /\ CardsAreHeld'
  BY <1>1 DEF PeopleInv, UntouchedClocks, CardsAreHeld
<1>3. s \in AboutToWrite => CardsOf(s.clock, s.worker)' = CardsOf(s.clock, s.worker)
  BY <1>1 DEF CardsOf
<1>4. held' \in [Device -> SUBSET Holder] /\ cards' \subseteq Device \X Card \X Worker
  BY <1>1 DEF PeopleInv, PeopleTypes
<1> QED
  BY <1>2, <1>3, <1>4, OneJobActs

-----------------------------------------------------------------------------
\* An operation begins: if another runs, the two overlap from now on.
LEMMA OperationBeginKeeps ==
  ASSUME PeopleInv, NEW j \in Job, NEW s \in Reading, Begin(j, s)
  PROVE  PeopleInv'
<1>1. job' \in [Job -> {NoJob} \cup Reading \cup AboutToWrite] /\ job'[j] = s
      /\ \A k \in Job : k # j => job'[k] = job[k]
  BY DEF Begin, SetJob, PeopleInv, PeopleTypes
<1>2. UNCHANGED <<held, cards, fingers, enabled, capture, everEnabled>>
  BY DEF Begin, devices
<1>3. s \notin AboutToWrite
  BY ShapesDiffer
<1>4. ~mixed' => ~mixed /\ \A k \in Job : job[k] = NoJob
  BY DEF Begin
<1>5. PeopleTypes' /\ UntouchedClocks'
  BY <1>1, <1>2 DEF PeopleInv, PeopleTypes, UntouchedClocks
<1>6. EnabledOnce'
  BY <1>1, <1>2, <1>3 DEF PeopleInv, EnabledOnce
<1>7. OneAtATime'
  BY <1>1, <1>4 DEF OneAtATime
<1>8. \A k \in Job : RemovalSawTheCards(k)'
  BY <1>1, <1>3, <1>4, ShapesDiffer DEF RemovalSawTheCards
<1>9. CardsAreHeld'
  BY <1>2, <1>4 DEF PeopleInv, CardsAreHeld
<1> QED
  BY <1>5, <1>6, <1>7, <1>8, <1>9 DEF PeopleInv

\* What an operation begins as names its person and its card.
LEMMA OperationBeginningsKeep ==
  ASSUME PeopleInv, NEW j \in Job, Begins(j)
  PROVE  PeopleInv'
<1>1. PICK s \in Reading : Begin(j, s)
  <2>1. \A op \in JobNames, todo \in SUBSET Device, w \in Holder, k \in Thing :
          /\ op \in {"create", "remove", "addCard"} => w \in Worker
          /\ op = "addCard" => k \in Card
          => Step(op, todo, w, k) \in Reading
    BY DEF Step, Reading, WellNamed
  <2>2. \A w \in Worker : w \in Holder /\ "none" \in Holder /\ "none" \in Thing
    BY DEF Holder, Thing
  <2>3. ASSUME NEW c \in Device, NEW w \in Worker, CreatePerson(j, c, w) \/ RemovePerson(j, c, w)
        PROVE  \E s \in Reading : Begin(j, s)
    BY <2>1, <2>2, <2>3 DEF CreatePerson, RemovePerson, JobNames, Thing
  <2>4. ASSUME NEW c \in Device, NEW w \in Worker, NEW k \in Card, AddCard(j, c, w, k)
        PROVE  \E s \in Reading : Begin(j, s)
    BY <2>1, <2>2, <2>4 DEF AddCard, JobNames, Thing
  <2>5. ASSUME NEW c \in Device, NEW k \in Card, RemoveCard(j, c, k)
        PROVE  \E s \in Reading : Begin(j, s)
    BY <2>1, <2>5 DEF RemoveCard, JobNames, Thing, Holder
  <2>6. ASSUME NEW c \in Device, NEW f \in Finger, Apply(j, c, f)
        PROVE  \E s \in Reading : Begin(j, s)
    BY <2>1, <2>6 DEF Apply, JobNames, Thing, Holder
  <2>7. ASSUME NEW w \in Worker, NEW online \in SUBSET Device,
               EmployeeClockAltaAll(j, w, online) \/ EmployeeClockBajaAll(j, w, online)
        PROVE  \E s \in Reading : Begin(j, s)
    <3>1. {c \in Counting \cap online : w \notin held[c] /\ CanWriteClock(c)} \in SUBSET Device
          /\ {c \in online : w \in held[c] /\ CanWriteClock(c)} \in SUBSET Device
      OBVIOUS
    <3> QED
      BY <2>1, <2>2, <2>7, <3>1 DEF EmployeeClockAltaAll, EmployeeClockBajaAll, JobNames, Thing
  <2> QED
    BY <2>3, <2>4, <2>5, <2>6, <2>7 DEF Begins
<1> QED
  BY <1>1, OperationBeginKeeps

\* A clock is read: what may be written there is noted.
LEMMA ReadKeeps ==
  ASSUME PeopleInv, NEW j \in Job, NEW c \in Device, ReadPerson(j, c)
  PROVE  PeopleInv'
<1> DEFINE r == job[j]
<1>1. r \in Reading /\ r # NoJob
  BY Readers DEF ReadPerson
<1>2. UNCHANGED <<enabled, capture, everEnabled, mixed, devices>>
  BY DEF ReadPerson
<1>3. CASE Applicable(j, c)
  <2>1. PICK w \in (IF r.op = "apply" THEN {p.worker : p \in {q \in capture : q.finger = r.card /\ q.good}}
                    ELSE {r.worker}) :
          SetJob(j, [op |-> r.op, pc |-> "write", todo |-> r.todo \ {c}, worker |-> w, card |-> r.card,
                     clock |-> c, seen |-> IF w = "none" THEN {} ELSE CardsOf(c, w)])
    BY <1>3 DEF ReadPerson
  <2>2. w \in Holder /\ (r.op # "apply" => w = r.worker)
    BY <1>1, <2>1 DEF PeopleInv, PeopleTypes, Holder, Reading
  <2> DEFINE seen == IF w = "none" THEN {} ELSE CardsOf(c, w)
             s == [op |-> r.op, pc |-> "write", todo |-> r.todo \ {c}, worker |-> w, card |-> r.card,
                   clock |-> c, seen |-> seen]
  <2>3. SetJob(j, s)
    BY <2>1
  <2>4. s \in AboutToWrite
    <3>1. seen \in SUBSET Card
      BY DEF CardsOf
    <3>2. WellNamed(s)
      BY <1>1, <2>2 DEF WellNamed, Reading
    <3> HIDE DEF seen
    <3> QED
      BY <1>1, <2>2, <3>1, <3>2 DEF AboutToWrite, Reading
  <2>5. c \in everEnabled
    BY <1>3 DEF Applicable, CanWriteClock, PeopleInv, EnabledOnce
  <2>6. s.op = "remove" => CardsOf(c, w) \subseteq seen
    BY <1>1, <2>2, ClockPeopleAssumption DEF Reading, WellNamed
  <2> QED
    BY <1>1, <1>2, <2>1, <2>3, <2>4, <2>5, <2>6, OneJobThinks
<1>4. CASE ~Applicable(j, c)
  <2>1. SetJob(j, [r EXCEPT !.todo = @ \ {c}])
    BY <1>4 DEF ReadPerson
  <2>2. [r EXCEPT !.todo = @ \ {c}] \in Reading
    BY <1>1 DEF Reading, WellNamed
  <2> QED
    BY <1>1, <1>2, <2>1, <2>2, ShapesDiffer, OneJobThinks
<1> QED
  BY <1>3, <1>4

\* The device takes a person, a card or a finger, or loses a card.
LEMMA AddingKeeps ==
  ASSUME PeopleInv, NEW j \in Job, UserAdd(j) \/ CardAdd(j) \/ FingerprintAdd(j) \/ CardDeleteOne(j)
  PROVE  PeopleInv'
<1> DEFINE r == job[j]
           c == job[j].clock
<1>1. r \in AboutToWrite /\ r # NoJob /\ c \in everEnabled
  BY Writers DEF UserAdd, CardAdd, FingerprintAdd, CardDeleteOne, JobNames
<1>2. c \in Device /\ r.worker \in Holder
  BY <1>1 DEF AboutToWrite
<1>3. Written(j) \in Reading /\ Written(j) \notin AboutToWrite
  BY <1>1, WrittenReads, ShapesDiffer
<1>4. UNCHANGED <<enabled, capture, everEnabled, mixed>> /\ SetJob(j, Written(j))
  BY DEF UserAdd, CardAdd, FingerprintAdd, CardDeleteOne
<1>5. CASE UserAdd(j)
  <2>1. held' = [held EXCEPT ![c] = @ \cup {r.worker}] /\ UNCHANGED <<cards, fingers>>
    BY <1>5 DEF UserAdd
  <2>2. held' \in [Device -> SUBSET Holder] /\ \A d \in Device : held[d] \subseteq held'[d] /\ (d # c => held'[d] = held[d])
    BY <1>2, <2>1 DEF PeopleInv, PeopleTypes
  <2>3. UntouchedClocks'
    BY <1>1, <1>4, <2>1, <2>2 DEF PeopleInv, UntouchedClocks
  <2>4. CardsAreHeld'
    BY <1>4, <2>1, <2>2 DEF PeopleInv, PeopleTypes, CardsAreHeld
  <2> QED
    BY <1>1, <1>3, <1>4, <2>1, <2>2, <2>3, <2>4, OneJobActs DEF PeopleInv, PeopleTypes
<1>6. CASE CardAdd(j)
  <2>1. cards' = (IF r.worker \in held[c] /\ r.card \notin Taken(c) THEN cards \cup {<<c, r.card, r.worker>>} ELSE cards)
        /\ UNCHANGED <<held, fingers>>
    BY <1>6 DEF CardAdd
  <2>2. r.worker \in Worker /\ r.card \in Card
    BY <1>1, <1>6 DEF CardAdd, Writing, AboutToWrite, WellNamed
  <2>3. cards' \subseteq Device \X Card \X Worker
    BY <1>2, <2>1, <2>2 DEF PeopleInv, PeopleTypes
  <2>4. UntouchedClocks'
    BY <1>1, <1>4, <2>1 DEF PeopleInv, UntouchedClocks
  <2>5. CardsAreHeld'
    BY <1>4, <2>1 DEF PeopleInv, CardsAreHeld
  <2> QED
    BY <1>1, <1>3, <1>4, <2>1, <2>3, <2>4, <2>5, OneJobActs DEF PeopleInv, PeopleTypes
<1>7. CASE FingerprintAdd(j)
  <2>1. fingers' \subseteq fingers \cup {<<c, r.worker, r.card>>} /\ UNCHANGED <<held, cards>>
    BY <1>7 DEF FingerprintAdd
  <2>2. UntouchedClocks'
    BY <1>1, <1>4, <2>1 DEF PeopleInv, UntouchedClocks
  <2>3. CardsAreHeld'
    BY <1>4, <2>1 DEF PeopleInv, CardsAreHeld
  <2> QED
    BY <1>1, <1>3, <1>4, <2>1, <2>2, <2>3, OneJobActs DEF PeopleInv, PeopleTypes
<1>8. CASE CardDeleteOne(j)
  <2>1. cards' \subseteq cards /\ UNCHANGED <<held, fingers>>
    BY <1>8 DEF CardDeleteOne
  <2>2. UntouchedClocks'
    BY <1>4, <2>1 DEF PeopleInv, UntouchedClocks
  <2>3. CardsAreHeld'
    BY <1>4, <2>1 DEF PeopleInv, CardsAreHeld
  <2> QED
    BY <1>1, <1>3, <1>4, <2>1, <2>2, <2>3, OneJobActs DEF PeopleInv, PeopleTypes
<1> QED
  BY <1>5, <1>6, <1>7, <1>8

\* A removal takes the cards it saw, and then the person.
LEMMA RemovingKeeps ==
  ASSUME PeopleInv, NEW j \in Job, UserDelete(j) \/ \E k \in Card : CardDelete(j, k)
  PROVE  PeopleInv'
<1> DEFINE r == job[j]
           c == job[j].clock
<1>1. r \in AboutToWrite /\ r # NoJob /\ c \in everEnabled /\ r.op = "remove"
  BY Writers DEF UserDelete, CardDelete, JobNames
<1>2. c \in Device /\ r.worker \in Worker
  BY <1>1 DEF AboutToWrite, WellNamed
<1>3. ~mixed => CardsOf(c, r.worker) \subseteq r.seen
  BY <1>1 DEF PeopleInv, RemovalSawTheCards
<1>4. UNCHANGED <<enabled, capture, everEnabled, mixed>>
  BY DEF UserDelete, CardDelete
<1>5. ASSUME NEW k \in Card, CardDelete(j, k) PROVE PeopleInv'
  <2>1. PICK s : s = [r EXCEPT !.seen = @ \ {k}]
    OBVIOUS
  <2>2. cards' = {t \in cards : ~(t[1] = c /\ t[2] = k)} /\ SetJob(j, s) /\ UNCHANGED <<held, fingers>>
    BY <1>5, <2>1 DEF CardDelete
  <2>3. s \in AboutToWrite /\ s.clock = c /\ s.worker = r.worker /\ s.seen = r.seen \ {k}
    BY <1>1, <2>1 DEF AboutToWrite, WellNamed
  <2>4. ~mixed => CardsOf(s.clock, s.worker)' \subseteq s.seen
    <3>1. CardsOf(s.clock, s.worker)' \subseteq CardsOf(s.clock, s.worker) \ {k}
      BY <2>2, <2>3 DEF CardsOf
    <3> QED
      BY <1>3, <2>3, <3>1
  <2>5. UntouchedClocks'
    BY <1>4, <2>2 DEF PeopleInv, UntouchedClocks
  <2>6. CardsAreHeld'
    BY <1>4, <2>2 DEF PeopleInv, CardsAreHeld
  <2>7. held' \in [Device -> SUBSET Holder] /\ cards' \subseteq Device \X Card \X Worker
    BY <2>2 DEF PeopleInv, PeopleTypes
  <2> QED
    BY <1>1, <1>4, <2>2, <2>3, <2>4, <2>5, <2>6, <2>7, OneJobActs
<1>6. CASE UserDelete(j)
  <2>1. held' = [held EXCEPT ![c] = @ \ {r.worker}]
        /\ fingers' \subseteq fingers /\ UNCHANGED cards /\ SetJob(j, Written(j)) /\ r.seen = {}
    BY <1>6 DEF UserDelete, MayDeletePerson
  <2>2. Written(j) \in Reading /\ Written(j) \notin AboutToWrite
    BY <1>1, WrittenReads, ShapesDiffer
  <2>3. held' \in [Device -> SUBSET Holder] /\ held'[c] = held[c] \ {r.worker}
        /\ \A d \in Device : d # c => held'[d] = held[d]
    BY <1>2, <2>1 DEF PeopleInv, PeopleTypes
  <2>4. UntouchedClocks'
    BY <1>4, <2>1, <2>3 DEF PeopleInv, UntouchedClocks
  <2>5. CardsAreHeld'
    <3> SUFFICES ASSUME ~mixed, NEW t \in cards PROVE t[3] \in held'[t[1]]
      BY <1>4, <2>1 DEF CardsAreHeld
    <3>1. t \in Device \X Card \X Worker /\ t[3] \in held[t[1]]
      BY DEF PeopleInv, PeopleTypes, CardsAreHeld
    <3>2. CASE t[1] = c /\ t[3] = r.worker
      <4>1. t = <<c, t[2], r.worker>> /\ t[2] \in Card
        BY <3>1, <3>2
      <4>2. t[2] \in CardsOf(c, r.worker)
        BY <4>1 DEF CardsOf
      <4> QED
        BY <1>3, <2>1, <4>2
    <3>3. CASE ~(t[1] = c /\ t[3] = r.worker)
      BY <2>3, <3>1, <3>3
    <3> QED
      BY <3>2, <3>3
  <2> QED
    BY <1>1, <1>4, <2>1, <2>2, <2>3, <2>4, <2>5, OneJobActs DEF PeopleInv, PeopleTypes
<1> QED
  BY <1>5, <1>6

\* A write that fails, the end of an operation, and what happens around it.
LEMMA LapsesKeep ==
  ASSUME PeopleInv,
         \/ \E j \in Job : EndJob(j) \/ DeviceWriteFails(j)
         \/ \E c \in Device, w \in Worker, f \in Finger, good \in BOOLEAN : CaptureFingerprint(c, w, f, good)
         \/ \E p \in capture : CaptureExpires(p)
         \/ \E c \in Device : SetWriteEnabled(c)
  PROVE  PeopleInv'
<1>1. ASSUME NEW j \in Job, EndJob(j) PROVE PeopleInv'
  BY <1>1, ShapesDiffer, OneJobThinks DEF EndJob
<1>2. ASSUME NEW j \in Job, DeviceWriteFails(j) PROVE PeopleInv'
  <2>1. job[j] \in AboutToWrite /\ job[j] # NoJob
    BY <1>2 DEF DeviceWriteFails, PeopleInv, PeopleTypes, Reading
  <2>2. Written(j) \in Reading /\ Written(j) \notin AboutToWrite
    BY <2>1, WrittenReads, ShapesDiffer
  <2> QED
    BY <1>2, <2>1, <2>2, OneJobThinks DEF DeviceWriteFails
<1>3. ASSUME UNCHANGED <<held, cards, fingers, job, mixed>>, everEnabled \subseteq everEnabled',
             enabled' \cup Mock \subseteq everEnabled', \A p \in capture' : p.worker \in Worker
      PROVE  PeopleInv'
  <2>1. PeopleTypes' /\ UntouchedClocks' /\ EnabledOnce'
    BY <1>3 DEF PeopleInv, PeopleTypes, UntouchedClocks, EnabledOnce
  <2>2. OneAtATime' /\ CardsAreHeld'
    BY <1>3 DEF PeopleInv, OneAtATime, CardsAreHeld
  <2>3. \A j \in Job : RemovalSawTheCards(j)'
    BY <1>3 DEF PeopleInv, RemovalSawTheCards, CardsOf
  <2> QED
    BY <2>1, <2>2, <2>3 DEF PeopleInv
<1>4. ASSUME NEW c \in Device, NEW w \in Worker, NEW f \in Finger, NEW good \in BOOLEAN, CaptureFingerprint(c, w, f, good)
      PROVE  PeopleInv'
  BY <1>3, <1>4 DEF CaptureFingerprint, devices, PeopleInv, PeopleTypes, EnabledOnce
<1>5. ASSUME NEW p \in capture, CaptureExpires(p) PROVE PeopleInv'
  BY <1>3, <1>5 DEF CaptureExpires, devices, PeopleInv, PeopleTypes, EnabledOnce
<1>6. ASSUME NEW c \in Device, SetWriteEnabled(c) PROVE PeopleInv'
  BY <1>3, <1>6 DEF SetWriteEnabled, devices, PeopleInv, PeopleTypes, EnabledOnce
<1> QED
  BY <1>1, <1>2, <1>4, <1>5, <1>6

\* Every step keeps people in the clocks right.
LEMMA PeopleInvNext == PeopleInv /\ [PeopleNext]_peopleVars => PeopleInv'
<1> SUFFICES ASSUME PeopleInv, [PeopleNext]_peopleVars PROVE PeopleInv'
  OBVIOUS
<1>1. ASSUME NEW j \in Job, Begins(j) \/ \E c \in Device : ReadPerson(j, c) PROVE PeopleInv'
  BY <1>1, OperationBeginningsKeep, ReadKeeps
<1>2. ASSUME NEW j \in Job, UserAdd(j) \/ CardAdd(j) \/ FingerprintAdd(j) \/ CardDeleteOne(j) PROVE PeopleInv'
  BY <1>2, AddingKeeps
<1>3. ASSUME NEW j \in Job, UserDelete(j) \/ \E k \in Card : CardDelete(j, k) PROVE PeopleInv'
  BY <1>3, RemovingKeeps
<1>4. CASE UNCHANGED peopleVars
  BY <1>4 DEF peopleVars, PeopleInv, PeopleTypes, UntouchedClocks, EnabledOnce, OneAtATime, CardsAreHeld,
     RemovalSawTheCards, CardsOf
<1> QED
  BY <1>1, <1>2, <1>3, <1>4, LapsesKeep DEF PeopleNext

\* create, remove, cards, fingerprints and the operations on all clocks: a clock
\* whose writing was never enabled is never written, and while operations do not
\* overlap, whatever fails, a card is of somebody its clock holds.
THEOREM ClocksAreWrittenSafely == PeopleSpec => []ClockWritesAreSafe
<1>1. PeopleInv => ClockWritesAreSafe
  BY DEF PeopleInv, UntouchedClocks, CardsAreHeld, ClockWritesAreSafe
<1> QED
  BY <1>1, PeopleInvInit, PeopleInvNext, PTL DEF PeopleSpec

(***************************************************************************)
(* Personnel records                                                       *)
(***************************************************************************)
\* What a notice lists.
GapLists == [required : SUBSET DocType, others : SUBSET DocType, fields : SUBSET (ProfileField \cup {NoValue})]

\* Records, catalogues and notices are well formed.
RecordTypes ==
  /\ docType \in [DocType -> [state : {"absent", "inactive", "active"}, required : BOOLEAN]]
  /\ catalog \in [CatalogValue -> {"absent", "inactive", "active"}]
  /\ person \in [Employee -> [active : BOOLEAN, filled : SUBSET ProfileField, value : CatalogValue \cup {NoValue}]]
  /\ notices \in Seq([to : Employee, gaps : GapLists])
  /\ request = [c \in Clerks |-> request[c]]

\* Every document has its type and its object.
DocumentsHaveTypes ==
  \A d \in documents : d.type \in DocType /\ docType[d.type].state # "absent" /\ d.key \in bucket

\* What a request under way will write: a document whose object is stored, the
\* removal of a value, the profile of an employee.
RequestIsFounded(c) ==
  /\ request[c].pc = "stored" => request[c].type \in DocType /\ request[c].key \in bucket
  /\ request[c].pc = "removing" => request[c].value \in CatalogValue /\ request[c].hard \in BOOLEAN
  /\ request[c].pc = "profile" =>
       /\ request[c].of \in Employee
       /\ request[c].filled \in SUBSET ProfileField /\ request[c].value \in CatalogValue \cup {NoValue}

\* A value about to be deleted belongs only to whom it was given meanwhile.
RemovedValueIsContended(c) ==
  request[c].pc = "removing" /\ request[c].hard /\ request[c].value # NoValue =>
    \A e \in Employee : person[e].value = request[c].value => e \in contended

\* The inductive invariant of the records.
RecordsInv ==
  /\ RecordTypes
  /\ DocumentsHaveTypes
  /\ \A c \in Clerks : RequestIsFounded(c) /\ RemovedValueIsContended(c)

\* No request runs at first and nobody has a document.
LEMMA RecordsInvInit == HRInit => RecordsInv
<1> SUFFICES ASSUME HRInit PROVE RecordsInv
  OBVIOUS
<1>1. \A c \in Clerks : request[c].pc = "idle"
  BY DEF HRInit, NoRequest
<1>2. RecordTypes
  <2>1. docType \in [DocType -> [state : {"absent", "inactive", "active"}, required : BOOLEAN]]
    BY DEF HRInit
  <2>2. person \in [Employee -> [active : BOOLEAN, filled : SUBSET ProfileField, value : CatalogValue \cup {NoValue}]]
    BY Zenon DEF HRInit
  <2>3. request = [c \in Clerks |-> request[c]]
    BY DEF HRInit
  <2> QED
    BY <2>1, <2>2, <2>3 DEF HRInit, RecordTypes
<1>3. DocumentsHaveTypes
  BY DEF HRInit, DocumentsHaveTypes
<1> QED
  BY <1>1, <1>2, <1>3 DEF RecordsInv, RequestIsFounded, RemovedValueIsContended

\* What a step may do to a record and its catalogues, and to the notices.
TakesNothing ==
  \A e \in Employee :
    (catalog' # catalog /\ person[e].value # NoValue /\ person'[e].value = NoValue) => e \in contended
NoticesTellTheTruth ==
  \A i \in DOMAIN notices' \ DOMAIN notices :
    LET n == notices'[i]
    IN  person[n.to].active /\ n.gaps = Gaps(n.to) /\ ~IsComplete(n.gaps)

\* What a step of a clerk that leaves people alone needs to show of its request.
LEMMA OneClerkActs ==
  ASSUME RecordsInv, NEW c \in Clerks, NEW r, Goes(c, r),
         UNCHANGED <<person, notices, contended>>,
         docType' \in [DocType -> [state : {"absent", "inactive", "active"}, required : BOOLEAN]],
         catalog' \in [CatalogValue -> {"absent", "inactive", "active"}],
         DocumentsHaveTypes', bucket \subseteq bucket',
         r.pc = "stored" => r.type \in DocType /\ r.key \in bucket',
         r.pc = "removing" =>
           /\ r.value \in CatalogValue /\ r.hard \in BOOLEAN
           /\ r.hard /\ r.value # NoValue => \A e \in Employee : person[e].value = r.value => e \in contended,
         r.pc = "profile" =>
           r.of \in Employee /\ r.filled \in SUBSET ProfileField /\ r.value \in CatalogValue \cup {NoValue}
  PROVE  RecordsInv'
<1>1. request' = [d \in Clerks |-> request'[d]] /\ request'[c] = r /\ \A d \in Clerks : d # c => request'[d] = request[d]
  BY DEF Goes, RecordsInv, RecordTypes
<1>2. RecordTypes'
  BY <1>1 DEF RecordsInv, RecordTypes
<1>3. ASSUME NEW d \in Clerks PROVE RequestIsFounded(d)' /\ RemovedValueIsContended(d)'
  BY <1>1 DEF RecordsInv, RequestIsFounded, RemovedValueIsContended
<1> QED
  BY <1>2, <1>3 DEF RecordsInv

\* The same of a step without one.
LEMMA NoClerkActs ==
  ASSUME RecordsInv, UNCHANGED <<request, person, notices, contended>>,
         docType' \in [DocType -> [state : {"absent", "inactive", "active"}, required : BOOLEAN]],
         catalog' \in [CatalogValue -> {"absent", "inactive", "active"}],
         DocumentsHaveTypes', bucket \subseteq bucket'
  PROVE  RecordsInv'
<1>1. RecordTypes'
  BY DEF RecordsInv, RecordTypes
<1>2. ASSUME NEW d \in Clerks PROVE RequestIsFounded(d)' /\ RemovedValueIsContended(d)'
  BY DEF RecordsInv, RequestIsFounded, RemovedValueIsContended
<1> QED
  BY <1>1, <1>2 DEF RecordsInv

\* Steps that leave catalogues, people and notices alone keep the properties.
LEMMA QuietSteps ==
  ASSUME notices' = notices, catalog' = catalog \/ person' = person
  PROVE  TakesNothing /\ NoticesTellTheTruth
BY DEF TakesNothing, NoticesTellTheTruth

-----------------------------------------------------------------------------
\* Documents are written under types that exist, with objects that are stored.
LEMMA DocumentsKeep ==
  ASSUME RecordsInv, NEW c \in Clerks,
         \/ \E e \in Employee, t \in DocType : UploadObject(c, e, t)
         \/ CreateDocument(c) \/ RequestDies(c) \/ \E d \in documents : RemoveDocument(c, d)
  PROVE  RecordsInv' /\ TakesNothing /\ NoticesTellTheTruth
<1>1. notices' = notices /\ person' = person /\ contended' = contended /\ docType' = docType /\ catalog' = catalog
  BY DEF UploadObject, CreateDocument, RequestDies, RemoveDocument
<1>2. TakesNothing /\ NoticesTellTheTruth
  BY <1>1, QuietSteps
<1>3. docType \in [DocType -> [state : {"absent", "inactive", "active"}, required : BOOLEAN]]
      /\ catalog \in [CatalogValue -> {"absent", "inactive", "active"}]
  BY DEF RecordsInv, RecordTypes
<1>4. NoRequest.pc = "idle"
  BY DEF NoRequest
<1>5. ASSUME NEW e \in Employee, NEW t \in DocType, UploadObject(c, e, t) PROVE RecordsInv'
  <2>1. PICK r : r = [pc |-> "stored", of |-> e, type |-> t, key |-> Cardinality(bucket) + 1]
    OBVIOUS
  <2>2. Goes(c, r) /\ bucket' = bucket \cup {r.key} /\ documents' = documents
    BY <1>5, <2>1 DEF UploadObject
  <2>3. DocumentsHaveTypes'
    BY <1>1, <2>2 DEF RecordsInv, DocumentsHaveTypes
  <2> QED
    BY <1>1, <1>3, <2>1, <2>2, <2>3, OneClerkActs
<1>6. CASE CreateDocument(c)
  <2>1. request[c].type \in DocType /\ request[c].key \in bucket
    BY <1>6 DEF CreateDocument, RecordsInv, RequestIsFounded
  <2>2. DocumentsHaveTypes'
    <3>1. CASE docType[request[c].type].state = "absent"
      BY <1>1, <1>6, <3>1 DEF CreateDocument, RecordsInv, DocumentsHaveTypes
    <3>2. CASE docType[request[c].type].state # "absent"
      BY <1>1, <1>6, <2>1, <3>2 DEF CreateDocument, RecordsInv, DocumentsHaveTypes
    <3> QED
      BY <3>1, <3>2
  <2>3. Goes(c, NoRequest) /\ UNCHANGED bucket
    BY <1>6 DEF CreateDocument
  <2> QED
    <3>1. PICK r : r = NoRequest /\ r.pc = "idle"
      BY <1>4
    <3> QED
      BY <1>1, <1>2, <1>3, <2>2, <2>3, <3>1, OneClerkActs
<1>7. CASE RequestDies(c)
  <2>1. DocumentsHaveTypes'
    BY <1>1, <1>7 DEF RequestDies, RecordsInv, DocumentsHaveTypes
  <2>2. Goes(c, NoRequest) /\ UNCHANGED bucket
    BY <1>7 DEF RequestDies
  <2> QED
    <3>1. PICK r : r = NoRequest /\ r.pc = "idle"
      BY <1>4
    <3> QED
      BY <1>1, <1>2, <1>3, <2>1, <2>2, <3>1, OneClerkActs
<1>8. ASSUME NEW d \in documents, RemoveDocument(c, d) PROVE RecordsInv'
  <2>1. DocumentsHaveTypes'
    BY <1>1, <1>8 DEF RemoveDocument, RecordsInv, DocumentsHaveTypes
  <2> QED
    BY <1>1, <1>3, <1>8, <2>1, NoClerkActs DEF RemoveDocument
<1> QED
  BY <1>2, <1>5, <1>6, <1>7, <1>8

\* The types of documents: one that a document names stays.
LEMMA TypesKeep ==
  ASSUME RecordsInv, NEW c \in Clerks, NEW t \in DocType,
         \/ \E active, required \in BOOLEAN : UpsertDocumentType(c, t, active, required)
         \/ RemoveDocumentType(c, t)
  PROVE  RecordsInv' /\ TakesNothing /\ NoticesTellTheTruth
<1>1. UNCHANGED <<notices, person, contended, catalog, request, bucket, documents>>
  BY DEF UpsertDocumentType, RemoveDocumentType
<1>2. TakesNothing /\ NoticesTellTheTruth
  BY <1>1, QuietSteps
<1>3. catalog \in [CatalogValue -> {"absent", "inactive", "active"}]
  BY DEF RecordsInv, RecordTypes
<1>4. PICK new \in [state : {"absent", "inactive", "active"}, required : BOOLEAN] :
        /\ docType' = [docType EXCEPT ![t] = new]
        /\ new.state = "absent" => \A d \in documents : d.type # t
  <2>1. docType[t] \in [state : {"absent", "inactive", "active"}, required : BOOLEAN]
    BY DEF RecordsInv, RecordTypes
  <2>2. ASSUME NEW active \in BOOLEAN, NEW required \in BOOLEAN, UpsertDocumentType(c, t, active, required)
        PROVE  \E new \in [state : {"absent", "inactive", "active"}, required : BOOLEAN] :
                 docType' = [docType EXCEPT ![t] = new] /\ new.state # "absent"
    <3>1. PICK state \in {"inactive", "active"} : docType' = [docType EXCEPT ![t] = [state |-> state, required |-> required]]
      BY <2>2 DEF UpsertDocumentType
    <3>2. PICK new : new = [state |-> state, required |-> required]
      OBVIOUS
    <3>3. new \in [state : {"absent", "inactive", "active"}, required : BOOLEAN]
      <4>1. state \in {"absent", "inactive", "active"}
        OBVIOUS
      <4> QED
        BY <3>2, <4>1, Zenon
    <3> QED
      BY <3>1, <3>2, <3>3
  <2>3. CASE RemoveDocumentType(c, t)
    <3>1. PICK new : new = [docType[t] EXCEPT !.state = IF @ = "active" THEN "inactive" ELSE "absent"]
      OBVIOUS
    <3>2. new \in [state : {"absent", "inactive", "active"}, required : BOOLEAN]
          /\ new.state = IF docType[t].state = "active" THEN "inactive" ELSE "absent"
      BY <2>1, <3>1
    <3>3. docType' = [docType EXCEPT ![t] = new]
      BY <2>3, <3>1 DEF RemoveDocumentType
    <3>4. new.state = "absent" => \A d \in documents : d.type # t
      BY <2>1, <2>3, <3>2 DEF RemoveDocumentType
    <3> QED
      BY <3>2, <3>3, <3>4
  <2> QED
    BY <2>2, <2>3
<1>5. docType' \in [DocType -> [state : {"absent", "inactive", "active"}, required : BOOLEAN]]
  BY <1>4 DEF RecordsInv, RecordTypes
<1>6. DocumentsHaveTypes'
  BY <1>1, <1>4 DEF RecordsInv, RecordTypes, DocumentsHaveTypes
<1> QED
  BY <1>1, <1>2, <1>3, <1>5, <1>6, NoClerkActs

\* The catalogues of values: what is counted and what is deleted.
LEMMA ValuesKeep ==
  ASSUME RecordsInv, NEW c \in Clerks, NEW v \in CatalogValue,
         ReadValue(c, v) \/ \E active \in BOOLEAN : UpsertValue(c, v, active)
  PROVE  RecordsInv' /\ TakesNothing /\ NoticesTellTheTruth
<1>1. UNCHANGED <<notices, person, contended, bucket, documents, docType>>
  BY DEF ReadValue, UpsertValue
<1>2. TakesNothing /\ NoticesTellTheTruth
  BY <1>1, QuietSteps
<1>3. docType \in [DocType -> [state : {"absent", "inactive", "active"}, required : BOOLEAN]]
      /\ catalog \in [CatalogValue -> {"absent", "inactive", "active"}]
  BY DEF RecordsInv, RecordTypes
<1>4. DocumentsHaveTypes'
  BY <1>1 DEF RecordsInv, DocumentsHaveTypes
<1>5. CASE ReadValue(c, v)
  <2>1. PICK r : r = [pc |-> "removing", value |-> v, hard |-> catalog[v] = "inactive"]
    OBVIOUS
  <2>2. Goes(c, r) /\ UNCHANGED catalog
    BY <1>5, <2>1 DEF ReadValue
  <2>3. r.pc = "removing" /\ r.value = v /\ r.hard \in BOOLEAN /\ (r.hard <=> catalog[v] = "inactive")
    BY <2>1
  <2>4. r.hard => \A e \in Employee : person[e].value # v
    BY <1>5, <2>3 DEF ReadValue, InUse
  <2> QED
    BY <1>1, <1>2, <1>3, <1>4, <2>2, <2>3, <2>4, OneClerkActs
<1>6. ASSUME NEW active \in BOOLEAN, UpsertValue(c, v, active) PROVE RecordsInv'
  <2>1. catalog' \in [CatalogValue -> {"absent", "inactive", "active"}] /\ UNCHANGED request
    BY <1>3, <1>6 DEF UpsertValue
  <2> QED
    BY <1>1, <1>3, <1>4, <2>1, NoClerkActs
<1> QED
  BY <1>2, <1>5, <1>6

\* The deletion of a value clears it in the records that took it meanwhile.
LEMMA RemoveValueKeeps ==
  ASSUME RecordsInv, NEW c \in Clerks, RemoveValue(c)
  PROVE  RecordsInv' /\ TakesNothing /\ NoticesTellTheTruth
<1> DEFINE v == request[c].value
           hard == request[c].hard
<1>1. v \in CatalogValue /\ hard \in BOOLEAN
  BY DEF RemoveValue, RecordsInv, RequestIsFounded
<1>2. UNCHANGED <<notices, contended, bucket, documents, docType>> /\ Goes(c, NoRequest)
  BY DEF RemoveValue
<1>3. request' = [d \in Clerks |-> request'[d]] /\ request'[c] = NoRequest
      /\ \A d \in Clerks : d # c => request'[d] = request[d]
  BY <1>2 DEF Goes, RecordsInv, RecordTypes
<1>4. NoRequest.pc = "idle"
  BY DEF NoRequest
<1>5. catalog' \in [CatalogValue -> {"absent", "inactive", "active"}]
  BY <1>1 DEF RemoveValue, RecordsInv, RecordTypes
<1>6. ASSUME NEW e \in Employee
      PROVE  /\ person'[e] \in [active : BOOLEAN, filled : SUBSET ProfileField, value : CatalogValue \cup {NoValue}]
             /\ person'[e].value = IF hard /\ person[e].value = v THEN NoValue ELSE person[e].value
  <2>1. person[e] \in [active : BOOLEAN, filled : SUBSET ProfileField, value : CatalogValue \cup {NoValue}]
    BY DEF RecordsInv, RecordTypes
  <2>2. person'[e] = IF hard /\ person[e].value = v THEN [person[e] EXCEPT !.value = NoValue] ELSE person[e]
    BY DEF RemoveValue
  <2>3. CASE hard /\ person[e].value = v
    <3>1. PICK new : new = [person[e] EXCEPT !.value = NoValue]
      OBVIOUS
    <3>2. new \in [active : BOOLEAN, filled : SUBSET ProfileField, value : CatalogValue \cup {NoValue}]
          /\ new.value = NoValue
      BY <2>1, <3>1
    <3> QED
      BY <2>2, <2>3, <3>1, <3>2
  <2>4. CASE ~(hard /\ person[e].value = v)
    BY <2>1, <2>2, <2>4
  <2> QED
    BY <2>3, <2>4
<1>7. person' \in [Employee -> [active : BOOLEAN, filled : SUBSET ProfileField, value : CatalogValue \cup {NoValue}]]
  <2>1. person' = [e \in Employee |-> person'[e]]
    BY DEF RemoveValue
  <2> QED
    BY <1>6, <2>1
<1>8. RecordTypes'
  BY <1>2, <1>3, <1>5, <1>7 DEF RecordsInv, RecordTypes
<1>9. DocumentsHaveTypes'
  BY <1>2 DEF RecordsInv, DocumentsHaveTypes
<1>10. ASSUME NEW d \in Clerks PROVE RequestIsFounded(d)' /\ RemovedValueIsContended(d)'
  <2>1. RequestIsFounded(d) /\ RemovedValueIsContended(d)
    BY DEF RecordsInv
  <2>2. CASE d = c
    BY <1>3, <1>4, <2>2 DEF RequestIsFounded, RemovedValueIsContended
  <2>3. CASE d # c
    BY <1>2, <1>3, <1>6, <2>1, <2>3 DEF RequestIsFounded, RemovedValueIsContended
  <2> QED
    BY <2>2, <2>3
<1>11. TakesNothing
  <2> SUFFICES ASSUME NEW e \in Employee, person[e].value # NoValue, person'[e].value = NoValue PROVE e \in contended
    BY DEF TakesNothing
  <2>1. hard /\ person[e].value = v
    BY <1>6
  <2> QED
    BY <2>1 DEF RemoveValue, RecordsInv, RemovedValueIsContended
<1>12. NoticesTellTheTruth
  BY <1>2 DEF NoticesTellTheTruth
<1> QED
  BY <1>8, <1>9, <1>10, <1>11, <1>12 DEF RecordsInv

\* The personal data: what was read is written, if its value still exists.
LEMMA ProfilesKeep ==
  ASSUME RecordsInv, NEW c \in Clerks,
         \/ \E e \in Employee, filled \in SUBSET ProfileField, v \in CatalogValue \cup {NoValue} :
              ReadProfile(c, e, filled, v)
         \/ \E e \in Employee, active \in BOOLEAN : SetActive(c, e, active)
  PROVE  RecordsInv' /\ TakesNothing /\ NoticesTellTheTruth
<1>1. UNCHANGED <<notices, contended, bucket, documents, docType, catalog>>
  BY DEF ReadProfile, SetActive
<1>2. TakesNothing /\ NoticesTellTheTruth
  BY <1>1, QuietSteps
<1>3. docType \in [DocType -> [state : {"absent", "inactive", "active"}, required : BOOLEAN]]
      /\ catalog \in [CatalogValue -> {"absent", "inactive", "active"}]
  BY DEF RecordsInv, RecordTypes
<1>4. DocumentsHaveTypes'
  BY <1>1 DEF RecordsInv, DocumentsHaveTypes
<1>5. ASSUME NEW e \in Employee, NEW filled \in SUBSET ProfileField, NEW v \in CatalogValue \cup {NoValue},
             ReadProfile(c, e, filled, v)
      PROVE  RecordsInv'
  <2>1. PICK r : r = [pc |-> "profile", of |-> e, filled |-> filled, value |-> v]
    OBVIOUS
  <2>2. Goes(c, r) /\ UNCHANGED person
    BY <1>5, <2>1 DEF ReadProfile
  <2> QED
    BY <1>1, <1>3, <1>4, <2>1, <2>2, OneClerkActs
<1>6. ASSUME NEW e \in Employee, NEW active \in BOOLEAN, SetActive(c, e, active) PROVE RecordsInv'
  <2>1. PICK new : new = [person[e] EXCEPT !.active = active]
    OBVIOUS
  <2>2. person[e] \in [active : BOOLEAN, filled : SUBSET ProfileField, value : CatalogValue \cup {NoValue}]
    BY DEF RecordsInv, RecordTypes
  <2>3. new = [active |-> active, filled |-> person[e].filled, value |-> person[e].value]
    BY <2>1, <2>2, Zenon
  <2>4. new \in [active : BOOLEAN, filled : SUBSET ProfileField, value : CatalogValue \cup {NoValue}]
        /\ new.value = person[e].value
    BY <2>2, <2>3, Zenon
  <2>5. person' = [person EXCEPT ![e] = new] /\ UNCHANGED request
    BY <1>6, <2>1 DEF SetActive
  <2>6. person' \in [Employee -> [active : BOOLEAN, filled : SUBSET ProfileField, value : CatalogValue \cup {NoValue}]]
        /\ \A x \in Employee : person'[x].value = person[x].value
    BY <2>4, <2>5 DEF RecordsInv, RecordTypes
  <2>7. RecordTypes'
    BY <1>1, <2>5, <2>6 DEF RecordsInv, RecordTypes
  <2>8. \A d \in Clerks : RequestIsFounded(d)' /\ RemovedValueIsContended(d)'
    BY <1>1, <2>5, <2>6 DEF RecordsInv, RequestIsFounded, RemovedValueIsContended
  <2> QED
    BY <1>4, <2>7, <2>8 DEF RecordsInv
<1> QED
  BY <1>2, <1>5, <1>6

\* What a clerk writes of a profile deletes no record, and its notice lists what
\* is missing when it is written.
LEMMA WriteProfileKeeps ==
  ASSUME RecordsInv, NEW c \in Clerks, WriteProfile(c)
  PROVE  RecordsInv' /\ TakesNothing /\ NoticesTellTheTruth
<1> DEFINE r == request[c]
           Data == [active : BOOLEAN, filled : SUBSET ProfileField, value : CatalogValue \cup {NoValue}]
<1>1. UNCHANGED <<notices, bucket, documents, docType, catalog>> /\ Goes(c, NoRequest)
  BY DEF WriteProfile
<1>2. TakesNothing /\ NoticesTellTheTruth
  BY <1>1 DEF TakesNothing, NoticesTellTheTruth
<1>3. r.of \in Employee /\ r.filled \in SUBSET ProfileField /\ r.value \in CatalogValue \cup {NoValue}
  BY DEF WriteProfile, RecordsInv, RequestIsFounded
<1>4. request' = [d \in Clerks |-> request'[d]] /\ request'[c] = NoRequest
      /\ \A d \in Clerks : d # c => request'[d] = request[d]
  BY <1>1 DEF Goes, RecordsInv, RecordTypes
<1>5. NoRequest.pc = "idle"
  BY DEF NoRequest
<1>6. person \in [Employee -> Data]
  BY DEF RecordsInv, RecordTypes
<1>7. /\ person' \in [Employee -> Data]
      /\ \A e \in Employee : e # r.of => person'[e] = person[e]
      /\ person'[r.of].value \in {person[r.of].value, r.value}
  <2>1. CASE person' = person
    BY <1>3, <1>6, <2>1
  <2>2. CASE person' = [person EXCEPT ![r.of].filled = r.filled, ![r.of].value = r.value]
    <3>1. PICK new : new = [[person[r.of] EXCEPT !.filled = r.filled] EXCEPT !.value = r.value]
      OBVIOUS
    <3>2. person[r.of] \in Data
      BY <1>3, <1>6
    <3>3. new = [active |-> person[r.of].active, filled |-> r.filled, value |-> r.value]
      BY <3>1, <3>2, Zenon
    <3>4. new \in Data /\ new.value = r.value
      BY <1>3, <3>2, <3>3, Zenon
    <3>5. person' = [person EXCEPT ![r.of] = new]
      BY <1>3, <1>6, <2>2, <3>1
    <3> HIDE DEF Data, r
    <3> QED
      BY <1>3, <1>6, <3>4, <3>5
  <2> QED
    BY <2>1, <2>2 DEF WriteProfile
<1>8. /\ contended \subseteq contended'
      /\ (\E d \in Clerks : request[d].pc = "removing" /\ request[d].value = r.value) => r.of \in contended'
  BY DEF WriteProfile
<1>9. RecordTypes'
  BY <1>1, <1>4, <1>7 DEF RecordsInv, RecordTypes
<1>10. DocumentsHaveTypes'
  BY <1>1 DEF RecordsInv, DocumentsHaveTypes
<1>11. ASSUME NEW d \in Clerks PROVE RequestIsFounded(d)' /\ RemovedValueIsContended(d)'
  <2>1. RequestIsFounded(d) /\ RemovedValueIsContended(d)
    BY DEF RecordsInv
  <2>2. CASE d = c
    BY <1>4, <1>5, <2>2 DEF RequestIsFounded, RemovedValueIsContended
  <2>3. CASE d # c
    <3>1. RequestIsFounded(d)'
      BY <1>1, <1>4, <2>1, <2>3 DEF RequestIsFounded
    <3>2. request'[d] = request[d]
      BY <1>4, <2>3
    <3>3. ASSUME request[d].pc = "removing", request[d].hard, request[d].value # NoValue,
                 NEW e \in Employee, person'[e].value = request[d].value
          PROVE  e \in contended'
      <4>1. CASE person[e].value = request[d].value
        BY <1>8, <2>1, <3>3, <4>1 DEF RemovedValueIsContended
      <4>2. CASE person[e].value # request[d].value
        BY <1>7, <1>8, <3>3, <4>2
      <4> QED
        BY <4>1, <4>2
    <3> QED
      BY <3>1, <3>2, <3>3 DEF RemovedValueIsContended
  <2> QED
    BY <2>2, <2>3
<1> QED
  BY <1>2, <1>9, <1>10, <1>11 DEF RecordsInv

-----------------------------------------------------------------------------
\* A batch of notices tells everybody what is missing at that moment.
LEMMA NotifyKeeps ==
  ASSUME RecordsInv, NEW c \in Clerks,
         \/ \E people \in SUBSET Employee : NotifyMany(c, people)
         \/ \E e \in Employee : NotifyMissing(c, e)
  PROVE  RecordsInv' /\ TakesNothing /\ NoticesTellTheTruth
<1>1. UNCHANGED <<docType, catalog, bucket, documents, person, contended>>
  BY DEF NotifyMany, NotifyMissing
<1>2. TakesNothing
  BY <1>1 DEF TakesNothing
<1>3. PICK r : Goes(c, r) /\ r.pc \in {"idle", "notifying"}
  <2>1. ASSUME NEW people \in SUBSET Employee, NotifyMany(c, people)
        PROVE  \E r : Goes(c, r) /\ r.pc \in {"idle", "notifying"}
    <3>1. PICK r : r = [pc |-> "notifying", todo |-> [e \in Pending(people) |-> Gaps(e)]]
      OBVIOUS
    <3>2. r.pc = "notifying" /\ Goes(c, r)
      BY <2>1, <3>1 DEF NotifyMany
    <3> QED
      BY <3>2
  <2>2. ASSUME NEW e \in Employee, NotifyMissing(c, e)
        PROVE  \E r : Goes(c, r) /\ r.pc \in {"idle", "notifying"}
    <3>1. NoRequest.pc = "idle"
      BY DEF NoRequest
    <3>2. PICK s : s = [pc |-> "notifying", todo |-> [x \in DOMAIN request[c].todo \ {e} |-> request[c].todo[x]]]
      OBVIOUS
    <3>3. Goes(c, NoRequest) \/ Goes(c, s)
      BY <2>2, <3>2 DEF NotifyMissing
    <3>4. s.pc = "notifying"
      BY <3>2
    <3> QED
      BY <3>1, <3>3, <3>4
  <2> QED
    BY <2>1, <2>2
<1>4. PICK e : \/ notices' = notices
               \/ e \in Employee /\ notices' = notices \o Notice(e, request[c].todo)
  BY DEF NotifyMany, NotifyMissing
<1>5. e \in Employee => Gaps(e) \in GapLists
  BY DEF Gaps, GapLists
<1>6. \/ notices' = notices
      \/ /\ e \in Employee /\ notices' = notices \o <<[to |-> e, gaps |-> Gaps(e)]>>
         /\ person[e].active /\ ~IsComplete(Gaps(e))
      \/ notices' = notices \o <<>>
  BY <1>4 DEF Notice, Pending
<1> DEFINE n == [to |-> e, gaps |-> Gaps(e)]
           Notes == [to : Employee, gaps : GapLists]
<1>7. notices \in Seq(Notes) /\ (e \in Employee => n \in Notes) /\ n.to = e /\ n.gaps = Gaps(e)
  BY <1>5 DEF RecordsInv, RecordTypes
<1>8. notices' \in Seq(Notes) /\ \A i \in DOMAIN notices' \ DOMAIN notices : notices'[i] = n /\ person[e].active /\ ~IsComplete(Gaps(e))
  <2> HIDE DEF n, Notes
  <2>1. CASE notices' = notices
    BY <1>7, <2>1
  <2>2. CASE notices' = notices \o <<>>
    BY <1>7, <2>2
  <2>3. CASE e \in Employee /\ notices' = notices \o <<n>> /\ person[e].active /\ ~IsComplete(Gaps(e))
    BY <1>7, <2>3
  <2> QED
    BY <1>6, <2>1, <2>2, <2>3 DEF n
<1>9. NoticesTellTheTruth
  BY <1>7, <1>8 DEF NoticesTellTheTruth
<1>10. request' = [d \in Clerks |-> request'[d]] /\ request'[c] = r
      /\ \A d \in Clerks : d # c => request'[d] = request[d]
  BY <1>3 DEF Goes, RecordsInv, RecordTypes
<1>11. RecordTypes'
  BY <1>1, <1>8, <1>10 DEF RecordsInv, RecordTypes
<1>12. DocumentsHaveTypes'
  BY <1>1 DEF RecordsInv, DocumentsHaveTypes
<1>13. \A d \in Clerks : RequestIsFounded(d)' /\ RemovedValueIsContended(d)'
  BY <1>1, <1>3, <1>10 DEF RecordsInv, RequestIsFounded, RemovedValueIsContended
<1> QED
  BY <1>2, <1>9, <1>11, <1>12, <1>13 DEF RecordsInv

\* Every step keeps the records and tells the truth about them.
LEMMA RecordsInvNext ==
  ASSUME RecordsInv, HRNext
  PROVE  RecordsInv' /\ TakesNothing /\ NoticesTellTheTruth
BY DocumentsKeep, TypesKeep, ValuesKeep, RemoveValueKeeps, ProfilesKeep, WriteProfileKeeps, NotifyKeeps DEF HRNext

\* removeGender, removeBloodType, DocumentTypeService.remove and notifyMissing:
\* no value or type that goes takes anything from a record it was not given to
\* meanwhile, documents keep type and object, and a notice lists what is missing
\* when it is sent, for any employees, types, values and overlapping requests.
THEOREM RecordsStay == HRSpec => RecordsAreKept
<1>1. RecordsInv /\ [HRNext]_hrVars => RecordsInv'
  <2> SUFFICES ASSUME RecordsInv, [HRNext]_hrVars PROVE RecordsInv'
    OBVIOUS
  <2>1. CASE UNCHANGED hrVars
    BY <2>1 DEF hrVars, RecordsInv, RecordTypes, DocumentsHaveTypes, RequestIsFounded, RemovedValueIsContended
  <2> QED
    BY <2>1, RecordsInvNext
<1>2. RecordsInv /\ RecordsInv' /\ [HRNext]_hrVars =>
        [/\ \A e \in Employee :
              (catalog' # catalog /\ person[e].value # NoValue /\ person'[e].value = NoValue) => e \in contended
         /\ \A d \in documents' : docType'[d.type].state # "absent" /\ d.key \in bucket']_hrVars
  BY RecordsInvNext DEF TakesNothing, RecordsInv, DocumentsHaveTypes
<1>3. RecordsInv /\ [HRNext]_hrVars =>
        [\A i \in DOMAIN notices' \ DOMAIN notices :
           LET n == notices'[i]
           IN  person[n.to].active /\ n.gaps = Gaps(n.to) /\ ~IsComplete(n.gaps)]_hrVars
  BY RecordsInvNext DEF NoticesTellTheTruth
<1> QED
  BY <1>1, <1>2, <1>3, RecordsInvInit, PTL DEF HRSpec, RecordsAreKept, RemovalTakesNothing, NoticesAreCurrent

(***************************************************************************)
(* Accounts, departments and subareas                                      *)
(***************************************************************************)
\* The row of an account, and the account that was removed.
AccountRows ==
  [row : {TRUE}, active : BOOLEAN, department : Departments \cup {None}, subarea : Subareas \cup {None},
   stamped : BOOLEAN, reason : {None, "resigned"}, mustChangePassword : BOOLEAN]

\* Accounts, columns and removals are well formed.
AccountTypes ==
  /\ account \in [User -> AccountRows \cup {NoAccount}]
  /\ owner = [c \in Column |-> owner[c]]
  /\ removal = [r \in Removals |-> removal[r]]
  /\ accountOps \in Nat
  /\ overtaken \in BOOLEAN

\* A removal under way knows its account, or its department and subarea.
WellMeant(s) ==
  /\ s.pc \in {"reassign", "deactivate", "count", "delete"} =>
       s = [pc |-> s.pc, user |-> s.user, forced |-> s.forced] /\ s.user \in User /\ s.forced \in BOOLEAN
  /\ s.pc = "reassign" => s.user # Admin
  /\ s.pc = "count" => s.forced = FALSE
  /\ s.pc \in {"close", "drop"} =>
       s.department \in Departments /\ s.subarea \in SubareasOf[s.department] \cup {None}

\* What a removal is about to delete is free: of history, or of people.
Free(s) ==
  /\ s.pc = "delete" => ~Names(s.user, Counted) /\ (s.forced = TRUE => ~Names(s.user, Reassigned))
  /\ s.pc = "drop" => PeopleOf(s.department, s.subarea) = {}

\* The inductive invariant of the accounts: a removal that was not overtaken is
\* alone, and what it is about to delete is free.
AccountsInv ==
  /\ AccountTypes
  /\ \A r \in Removals : WellMeant(removal[r])
  /\ ~overtaken =>
       /\ \A r, q \in Removals : removal[r] # NoRemoval /\ removal[q] # NoRemoval => r = q
       /\ \A r \in Removals : Free(removal[r])

\* A step takes no account away.
AccountsStay == \A u \in User : Is(u) => account'[u].row

\* An active person keeps the department, and the subarea of it.
PeopleKeepTheirPlaces ==
  \A u \in User, d \in Departments :
    ActiveIn(u) /\ account'[u].active /\ accountOps' = accountOps /\ account[u].department = d =>
      /\ account'[u].department = d
      /\ account[u].subarea \in SubareasOf[d] => account'[u].subarea = account[u].subarea

\* What RemovalsAreClean says of one step.
CleanStep ==
  /\ \A u \in User : Is(u) /\ ~account'[u].row =>
       ~Names(u, IF overtaken THEN Counted \cap Restricting ELSE Counted)
  /\ ~overtaken => PeopleKeepTheirPlaces
  /\ \A r \in Removals : removal[r].pc = "delete" /\ removal'[r] = NoRemoval /\ ~overtaken =>
       \/ ~account'[removal[r].user].row
       \/ Names(removal[r].user, Restricting \ (IF removal[r].forced THEN Reassigned ELSE Counted))

\* Who was removed has no row and is not active.
LEMMA NobodysRow == ~NoAccount.row /\ ~NoAccount.active
BY Zenon DEF NoAccount

\* No removal runs at first.
LEMMA AccountsInvInit == AccountsInit => AccountsInv
<1> SUFFICES ASSUME AccountsInit PROVE AccountsInv
  OBVIOUS
<1>1. NewAccount(None, None) \in AccountRows
  <2>1. None \in Departments \cup {None} /\ None \in Subareas \cup {None} /\ None \in {None, "resigned"}
    OBVIOUS
  <2> QED
    BY <2>1, Zenon DEF NewAccount, AccountRows
<1>2. \A r \in Removals : removal[r] = NoRemoval /\ removal[r].pc = "idle"
  BY DEF AccountsInit, NoRemoval
<1>3. AccountTypes
  BY <1>1 DEF AccountsInit, AccountTypes
<1> QED
  BY <1>2, <1>3 DEF AccountsInv, WellMeant, Free

\* An operation of the console, or a row of another module, overtakes whatever
\* removal is under way.
LEMMA ConsoleKeeps ==
  ASSUME AccountsInv, UNCHANGED removal,
         overtaken' = (overtaken \/ \E r \in Removals : removal[r] # NoRemoval),
         account' \in [User -> AccountRows \cup {NoAccount}],
         owner' = [c \in Column |-> owner'[c]], accountOps' \in Nat
  PROVE  AccountsInv'
<1>1. AccountTypes' /\ \A r \in Removals : WellMeant(removal[r])'
  BY DEF AccountsInv, AccountTypes, WellMeant
<1>2. ~overtaken' => \A r \in Removals : removal'[r] = NoRemoval
  OBVIOUS
<1>3. NoRemoval.pc = "idle"
  BY DEF NoRemoval
<1> QED
  BY <1>1, <1>2, <1>3 DEF AccountsInv, Free

\* So does a removal that begins.
LEMMA RemovalBeginKeeps ==
  ASSUME AccountsInv, NEW r \in Removals, NEW s, RemovalGoto(r, s), UNCHANGED <<account, owner>>,
         WellMeant(s), ~overtaken => Free(s),
         overtaken' = (overtaken \/ \E q \in Removals : removal[q] # NoRemoval), accountOps' \in Nat
  PROVE  AccountsInv'
<1>1. removal' = [q \in Removals |-> removal'[q]] /\ removal'[r] = s /\ \A q \in Removals : q # r => removal'[q] = removal[q]
  BY DEF RemovalGoto, AccountsInv, AccountTypes
<1>2. AccountTypes'
  BY <1>1 DEF AccountsInv, AccountTypes
<1>3. \A q \in Removals : WellMeant(removal[q])'
  BY ZenonT(30), <1>1 DEF AccountsInv, WellMeant
<1>4. ~overtaken' => ~overtaken /\ \A q \in Removals : removal[q] = NoRemoval
  OBVIOUS
<1>5. Free(s) => Free(s)'
  BY DEF Free, Names, PeopleOf, ActiveIn, Is
<1>6. NoRemoval.pc = "idle"
  BY DEF NoRemoval
<1> QED
  BY <1>1, <1>2, <1>3, <1>4, <1>5, <1>6 DEF AccountsInv, Free

\* A step of a removal is right when what it leaves to do is free.
LEMMA RemovalKeeps ==
  ASSUME AccountsInv, NEW r \in Removals, NEW s, removal[r] # NoRemoval, RemovalGoto(r, s),
         UNCHANGED <<accountOps, overtaken>>,
         account' \in [User -> AccountRows \cup {NoAccount}], owner' = [c \in Column |-> owner'[c]],
         WellMeant(s), ~overtaken => Free(s)'
  PROVE  AccountsInv'
<1>1. removal' = [q \in Removals |-> removal'[q]] /\ removal'[r] = s /\ \A q \in Removals : q # r => removal'[q] = removal[q]
  BY DEF RemovalGoto, AccountsInv, AccountTypes
<1>2. AccountTypes'
  BY <1>1 DEF AccountsInv, AccountTypes
<1>3. \A q \in Removals : WellMeant(removal[q])'
  BY ZenonT(30), <1>1 DEF AccountsInv, WellMeant
<1>4. ~overtaken => \A q \in Removals : q # r => removal[q] = NoRemoval /\ removal[q].pc = "idle"
  BY DEF AccountsInv, NoRemoval
<1> QED
  BY <1>1, <1>2, <1>3, <1>4 DEF AccountsInv, Free

\* A step that keeps every account, ends no deletion, and moves nobody or counts
\* as an operation, is clean.
LEMMA CleanSteps ==
  ASSUME AccountsInv, AccountsStay,
         \A r \in Removals : removal[r].pc = "delete" => removal'[r] # NoRemoval,
         account' = account \/ accountOps' # accountOps \/ (~overtaken => PeopleKeepTheirPlaces)
  PROVE  CleanStep
<1>1. ~overtaken => PeopleKeepTheirPlaces
  BY DEF PeopleKeepTheirPlaces
<1> QED
  BY <1>1 DEF CleanStep, AccountsStay

-----------------------------------------------------------------------------
\* The operations of the console on accounts.
LEMMA AccountOperationsKeep ==
  ASSUME AccountsInv,
         \/ \E u \in User, d \in Departments \cup {None}, s \in Subareas \cup {None} :
              CreateUser(u, d, s) \/ \E active \in BOOLEAN : Update(u, active, d, s)
         \/ \E us \in SUBSET User : Import(us)
         \/ \E u, actor \in User : Deactivate(actor, u, "resigned") \/ Reactivate(actor, u)
         \/ \E u \in User : ResetPassword(u) \/ ChangePassword(u)
  PROVE  AccountsInv' /\ CleanStep
<1>1. UNCHANGED removal /\ owner' = owner /\ Operates
  BY DEF CreateUser, Update, Import, Deactivate, Reactivate, ResetPassword, ChangePassword
<1>2. account \in [User -> AccountRows \cup {NoAccount}] /\ accountOps \in Nat
  BY DEF AccountsInv, AccountTypes
<1>3. \A u \in User : Is(u) => account[u] \in AccountRows
  BY <1>2, NobodysRow, Zenon DEF Is
<1>4. ASSUME NEW d \in Departments \cup {None}, NEW s \in Subareas \cup {None}
      PROVE  NewAccount(d, s) \in AccountRows /\ NewAccount(d, s).row
  <2>1. None \in {None, "resigned"}
    OBVIOUS
  <2> QED
    BY <2>1, Zenon DEF NewAccount, AccountRows
<1>5. ASSUME NEW u \in User, NEW row \in AccountRows, row.row, Set(u, row)
      PROVE  account' \in [User -> AccountRows \cup {NoAccount}] /\ AccountsStay
  <2> HIDE DEF AccountRows
  <2>1. account'[u] = row /\ \A v \in User : v # u => account'[v] = account[v]
    BY <1>2, <1>5 DEF Set
  <2> QED
    BY <1>2, <1>5, <2>1 DEF Set, AccountsStay, Is
<1>6. ASSUME NEW row \in AccountRows
      PROVE  /\ row.row
             /\ \A a \in BOOLEAN, d \in Departments \cup {None}, s \in Subareas \cup {None} :
                  [row EXCEPT !.active = a, !.department = d, !.subarea = s] \in AccountRows
             /\ [row EXCEPT !.active = FALSE, !.stamped = TRUE, !.reason = "resigned"] \in AccountRows
             /\ [row EXCEPT !.active = TRUE, !.stamped = FALSE] \in AccountRows
             /\ \A b \in BOOLEAN : [row EXCEPT !.mustChangePassword = b] \in AccountRows
             /\ [row EXCEPT !.active = FALSE] \in AccountRows
  BY Zenon DEF AccountRows
<1>7. account' \in [User -> AccountRows \cup {NoAccount}] /\ AccountsStay
  <2>1. ASSUME NEW us \in SUBSET User, Import(us) PROVE account' \in [User -> AccountRows \cup {NoAccount}] /\ AccountsStay
    <3>1. account' = [u \in User |-> IF u \in us /\ ~Is(u) THEN NewAccount(None, None) ELSE account[u]]
      BY <2>1 DEF Import
    <3>2. NewAccount(None, None) \in AccountRows
      BY <1>4
    <3> QED
      BY <1>2, <3>1, <3>2 DEF AccountsStay, Is
  <2>2. ASSUME NEW u \in User, NEW d \in Departments \cup {None}, NEW s \in Subareas \cup {None}, CreateUser(u, d, s)
        PROVE  account' \in [User -> AccountRows \cup {NoAccount}] /\ AccountsStay
    BY <1>4, <1>5, <2>2 DEF CreateUser
  <2>3. ASSUME NEW u \in User, NEW d \in Departments \cup {None}, NEW s \in Subareas \cup {None},
               NEW active \in BOOLEAN, Update(u, active, d, s)
        PROVE  account' \in [User -> AccountRows \cup {NoAccount}] /\ AccountsStay
    <3>1. PICK row : row = [account[u] EXCEPT !.active = active, !.department = d, !.subarea = s]
      OBVIOUS
    <3>2. row \in AccountRows
      BY <1>3, <1>6, <2>3, <3>1, Zenon DEF Update
    <3> QED
      BY <1>5, <1>6, <2>3, <3>1, <3>2 DEF Update
  <2>4. ASSUME NEW u \in User, NEW actor \in User, Deactivate(actor, u, "resigned")
        PROVE  account' \in [User -> AccountRows \cup {NoAccount}] /\ AccountsStay
    <3>1. PICK row : row = [account[u] EXCEPT !.active = FALSE, !.stamped = TRUE, !.reason = "resigned"]
      OBVIOUS
    <3>2. row \in AccountRows
      BY <1>3, <1>6, <2>4, <3>1, Zenon DEF Deactivate, ActiveIn
    <3> QED
      BY <1>5, <1>6, <2>4, <3>1, <3>2 DEF Deactivate
  <2>5. ASSUME NEW u \in User, NEW actor \in User, Reactivate(actor, u)
        PROVE  account' \in [User -> AccountRows \cup {NoAccount}] /\ AccountsStay
    <3>1. PICK row : row = [account[u] EXCEPT !.active = TRUE, !.stamped = FALSE]
      OBVIOUS
    <3>2. row \in AccountRows
      BY <1>3, <1>6, <2>5, <3>1, Zenon DEF Reactivate
    <3> QED
      BY <1>5, <1>6, <2>5, <3>1, <3>2 DEF Reactivate
  <2>6. ASSUME NEW u \in User, ResetPassword(u) \/ ChangePassword(u)
        PROVE  account' \in [User -> AccountRows \cup {NoAccount}] /\ AccountsStay
    <3>1. PICK b \in BOOLEAN : Set(u, [account[u] EXCEPT !.mustChangePassword = b])
      BY <2>6 DEF ResetPassword, ChangePassword
    <3>2. PICK row : row = [account[u] EXCEPT !.mustChangePassword = b]
      OBVIOUS
    <3>3. row \in AccountRows
      BY <1>3, <1>6, <2>6, <3>2, Zenon DEF ResetPassword, ChangePassword, ActiveIn
    <3> QED
      BY <1>5, <1>6, <3>1, <3>2, <3>3
  <2> QED
    BY <2>1, <2>2, <2>3, <2>4, <2>5, <2>6
<1>8. AccountsInv'
  <2>1. owner' = [c \in Column |-> owner'[c]]
    BY <1>1 DEF AccountsInv, AccountTypes
  <2> QED
    BY <1>1, <1>2, <1>7, <2>1, ConsoleKeeps DEF Operates
<1>9. CleanStep
  <2>1. accountOps' # accountOps
    BY <1>1, <1>2 DEF Operates
  <2>2. \A r \in Removals : removal[r].pc = "delete" => removal'[r] # NoRemoval
    <3>1. NoRemoval.pc = "idle"
      BY DEF NoRemoval
    <3> QED
      BY <1>1, <3>1
  <2> QED
    BY <1>7, <2>1, <2>2, CleanSteps
<1> QED
  BY <1>8, <1>9

\* What else the console and other modules do, and removals that begin.
LEMMA OthersKeep ==
  ASSUME AccountsInv,
         \/ \E u \in User, c \in Column : Refer(u, c)
         \/ \E d \in Departments : CreateDepartment(d) \/ \E s \in SubareasOf[d] : CreateSubarea(d, s)
         \/ \E d \in Departments : \E s \in SubareasOf[d] \cup {None}, status \in {"active", "inactive"} : UpdateArea(d, s, status)
  PROVE  AccountsInv' /\ CleanStep
<1>1. UNCHANGED <<removal, account>> /\ overtaken' = (overtaken \/ \E r \in Removals : removal[r] # NoRemoval)
  BY DEF Refer, CreateDepartment, CreateSubarea, UpdateArea, Operates
<1>2. account \in [User -> AccountRows \cup {NoAccount}] /\ accountOps' \in Nat
  BY DEF AccountsInv, AccountTypes, Refer, CreateDepartment, CreateSubarea, UpdateArea, Operates
<1>3. owner' = [c \in Column |-> owner'[c]]
  <2>1. owner = [c \in Column |-> owner[c]]
    BY DEF AccountsInv, AccountTypes
  <2>2. owner' = owner \/ \E u \in User, c \in Column : owner' = [owner EXCEPT ![c] = u]
    BY DEF Refer, CreateDepartment, CreateSubarea, UpdateArea
  <2> QED
    BY <2>1, <2>2
<1>4. AccountsInv'
  BY <1>1, <1>2, <1>3, ConsoleKeeps
<1>5. NoRemoval.pc = "idle"
  BY DEF NoRemoval
<1>6. CleanStep
  BY <1>1, <1>5, CleanSteps DEF AccountsStay, Is
<1> QED
  BY <1>4, <1>6

\* A removal that begins has just read that nobody is in the way.
LEMMA RemovalBeginningsKeep ==
  ASSUME AccountsInv, NEW r \in Removals,
         \/ \E u \in User, force \in BOOLEAN : RemoveUser(r, u, force)
         \/ \E d \in Departments : \E s \in SubareasOf[d] \cup {None} : RemoveArea(r, d, s)
  PROVE  AccountsInv' /\ CleanStep
<1>1. UNCHANGED <<account, owner>> /\ overtaken' = (overtaken \/ \E q \in Removals : removal[q] # NoRemoval)
      /\ removal[r] = NoRemoval /\ accountOps' \in Nat
  <2>1. accountOps \in Nat
    BY DEF AccountsInv, AccountTypes
  <2>2. Operates /\ UNCHANGED <<account, owner>> /\ removal[r] = NoRemoval
    BY DEF RemoveUser, RemoveArea
  <2> QED
    BY <2>1, <2>2 DEF Operates
<1>2. PICK s : RemovalGoto(r, s) /\ WellMeant(s) /\ Free(s)
  <2>1. ASSUME NEW u \in User, NEW force \in BOOLEAN, RemoveUser(r, u, force)
        PROVE  \E s : RemovalGoto(r, s) /\ WellMeant(s) /\ Free(s)
    <3>1. PICK pc \in {"reassign", "deactivate", "count"} :
            /\ RemovalGoto(r, [pc |-> pc, user |-> u, forced |-> force])
            /\ pc = "reassign" => u # Admin
            /\ pc = "count" => force = FALSE
      BY <2>1 DEF RemoveUser
    <3>2. PICK s : s = [pc |-> pc, user |-> u, forced |-> force]
      OBVIOUS
    <3>3. s.pc = pc /\ s.user = u /\ s.forced = force
      BY <3>2
    <3>4. WellMeant(s) /\ Free(s)
      BY <3>1, <3>2, <3>3 DEF WellMeant, Free
    <3> QED
      BY <3>1, <3>2, <3>4
  <2>2. ASSUME NEW d \in Departments, NEW a \in SubareasOf[d] \cup {None}, RemoveArea(r, d, a)
        PROVE  \E s : RemovalGoto(r, s) /\ WellMeant(s) /\ Free(s)
    <3>1. PICK pc \in {"close", "drop"} : RemovalGoto(r, [pc |-> pc, department |-> d, subarea |-> a]) /\ PeopleOf(d, a) = {}
      BY <2>2 DEF RemoveArea
    <3>2. PICK s : s = [pc |-> pc, department |-> d, subarea |-> a]
      OBVIOUS
    <3>3. s.pc = pc /\ s.department = d /\ s.subarea = a
      BY <3>2
    <3>4. WellMeant(s) /\ Free(s)
      BY <3>1, <3>3 DEF WellMeant, Free
    <3> QED
      BY <3>1, <3>2, <3>4
  <2> QED
    BY <2>1, <2>2
<1>3. AccountsInv'
  BY <1>1, <1>2, RemovalBeginKeeps
<1>4. \A q \in Removals : removal[q].pc = "delete" => removal'[q] # NoRemoval
  <2>1. NoRemoval.pc = "idle"
    BY DEF NoRemoval
  <2>2. \A q \in Removals : q # r => removal'[q] = removal[q]
    BY <1>2 DEF RemovalGoto, AccountsInv, AccountTypes
  <2> QED
    BY <1>1, <2>1, <2>2
<1>5. CleanStep
  BY <1>1, <1>4, CleanSteps DEF AccountsStay, Is
<1> QED
  BY <1>3, <1>5

-----------------------------------------------------------------------------
\* A removal that ends or goes on leaves the deletions of the others alone.
LEMMA OthersDoNotEnd ==
  ASSUME AccountsInv, NEW r \in Removals, NEW s, RemovalGoto(r, s), removal[r].pc # "delete"
  PROVE  \A q \in Removals : removal[q].pc = "delete" => removal'[q] # NoRemoval
<1>1. NoRemoval.pc = "idle"
  BY DEF NoRemoval
<1>2. \A q \in Removals : q # r => removal'[q] = removal[q]
  BY DEF RemovalGoto, AccountsInv, AccountTypes
<1> QED
  BY <1>1, <1>2

\* The end of a removal is well meant.
LEMMA NoRemovalIsFree == WellMeant(NoRemoval) /\ Free(NoRemoval) /\ Free(NoRemoval)' /\ NoRemoval.pc = "idle"
<1>1. NoRemoval.pc = "idle"
  BY DEF NoRemoval
<1> QED
  BY <1>1 DEF WellMeant, Free

\* The removal that puts an active account out of use.
LEMMA RemoveSoftKeeps ==
  ASSUME AccountsInv, NEW r \in Removals, RemoveSoft(r)
  PROVE  AccountsInv' /\ CleanStep
<1> DEFINE u == removal[r].user
<1>1. u \in User /\ removal[r] # NoRemoval
  BY NoRemovalIsFree DEF RemoveSoft, AccountsInv, WellMeant
<1>2. account \in [User -> AccountRows \cup {NoAccount}]
  BY DEF AccountsInv, AccountTypes
<1>3. account' = account \/ (Is(u) /\ Set(u, [account[u] EXCEPT !.active = FALSE]))
  BY DEF RemoveSoft
<1>4. account' \in [User -> AccountRows \cup {NoAccount}] /\ AccountsStay /\ PeopleKeepTheirPlaces
  <2>1. CASE account' = account
    BY <1>2, <2>1 DEF AccountsStay, Is, PeopleKeepTheirPlaces
  <2>2. CASE Is(u) /\ Set(u, [account[u] EXCEPT !.active = FALSE])
    <3>1. account[u] \in AccountRows
      BY <1>1, <1>2, <2>2, NobodysRow, Zenon DEF Is
    <3>2. PICK row : row = [account[u] EXCEPT !.active = FALSE]
      OBVIOUS
    <3>3. row \in AccountRows /\ row.row /\ ~row.active
      BY <3>1, <3>2, Zenon DEF AccountRows
    <3>4. account' = [account EXCEPT ![u] = row]
      BY <2>2, <3>2 DEF Set
    <3> HIDE DEF u, AccountRows
    <3>5. account'[u] = row /\ \A v \in User : v # u => account'[v] = account[v]
      BY <1>1, <1>2, <3>4
    <3> QED
      BY <1>1, <1>2, <3>3, <3>4, <3>5 DEF AccountsStay, Is, PeopleKeepTheirPlaces
  <2> QED
    BY <1>3, <2>1, <2>2
<1>5. AccountsInv'
  <2>1. owner' = [c \in Column |-> owner'[c]]
    BY DEF RemoveSoft, AccountsInv, AccountTypes
  <2> QED
    BY <1>1, <1>4, <2>1, NoRemovalIsFree, RemovalKeeps DEF RemoveSoft
<1>6. CleanStep
  BY <1>4, OthersDoNotEnd, CleanSteps DEF RemoveSoft
<1> QED
  BY <1>5, <1>6

\* The count: it goes on to delete only an account without history.
LEMMA CountHistoryKeeps ==
  ASSUME AccountsInv, NEW r \in Removals, CountHistory(r)
  PROVE  AccountsInv' /\ CleanStep
<1>1. PICK u, forced : removal[r] = [pc |-> "count", user |-> u, forced |-> forced]
  BY ZenonT(30) DEF CountHistory, AccountsInv, WellMeant
<1>2. /\ removal[r].pc = "count" /\ removal[r].user = u /\ removal[r].forced = forced
      /\ u \in User /\ forced = FALSE /\ removal[r] # NoRemoval
  <2>1. removal[r].pc = "count" /\ removal[r].user = u /\ removal[r].forced = forced
    BY <1>1
  <2> QED
    BY <2>1, NoRemovalIsFree DEF AccountsInv, WellMeant
<1>3. PICK s : RemovalGoto(r, s) /\ WellMeant(s) /\ Free(s)
  <2>1. CASE Blockers(u)
    <3>1. RemovalGoto(r, NoRemoval)
      BY <1>2, <2>1 DEF CountHistory
    <3> QED
      BY <3>1, NoRemovalIsFree
  <2>2. CASE ~Blockers(u)
    <3>1. RemovalGoto(r, [removal[r] EXCEPT !.pc = "delete"])
      BY <1>2, <2>2 DEF CountHistory
    <3>2. [removal[r] EXCEPT !.pc = "delete"] = [pc |-> "delete", user |-> u, forced |-> forced]
      BY <1>1
    <3>3. PICK s : s = [pc |-> "delete", user |-> u, forced |-> forced]
      OBVIOUS
    <3>4. s.pc = "delete" /\ s.user = u /\ s.forced = forced
      BY <3>3
    <3>5. WellMeant(s) /\ Free(s)
      BY <1>2, <2>2, <3>3, <3>4 DEF WellMeant, Free, Blockers
    <3> QED
      BY <3>1, <3>2, <3>3, <3>5
  <2> QED
    BY <2>1, <2>2
<1>4. AccountsInv'
  <2>1. account' \in [User -> AccountRows \cup {NoAccount}] /\ owner' = [c \in Column |-> owner'[c]]
    BY DEF CountHistory, AccountsInv, AccountTypes
  <2>2. Free(s)'
    BY <1>3 DEF CountHistory, Free, Names, PeopleOf, ActiveIn, Is
  <2> QED
    BY <1>2, <1>3, <2>1, <2>2, RemovalKeeps DEF CountHistory
<1>5. \A q \in Removals : removal[q].pc = "delete" => removal'[q] # NoRemoval
  BY <1>2, <1>3, OthersDoNotEnd
<1>6. CleanStep
  BY <1>5, CleanSteps DEF CountHistory, AccountsStay, Is
<1> QED
  BY <1>4, <1>6

\* Once the history is handed over the tables that count name the person no more.
LEMMA TakenOverNamesNobody ==
  ASSUME NEW u \in User, u # Admin, owner' = TakenOver(u)
  PROVE  ~Names(u, Counted)' /\ ~Names(u, Reassigned)'
<1>1. Counted \subseteq Reassigned \cup Cleared
  BY DEF Counted, Reassigned, Cleared
<1>2. u # None
  BY AccountsAssumption
<1>3. ASSUME NEW c \in Column, c \in Reassigned \cup Cleared PROVE owner'[c] # u
  BY <1>2, <1>3 DEF TakenOver
<1> QED
  BY <1>1, <1>3 DEF Names

\* The history of a forced removal.
LEMMA ReassignHistoryKeeps ==
  ASSUME AccountsInv, NEW r \in Removals, ReassignHistory(r)
  PROVE  AccountsInv' /\ CleanStep
<1>1. PICK u, forced : removal[r] = [pc |-> "reassign", user |-> u, forced |-> forced]
  BY ZenonT(30) DEF ReassignHistory, AccountsInv, WellMeant
<1>2. /\ removal[r].pc = "reassign" /\ removal[r].user = u /\ removal[r].forced = forced
      /\ u \in User /\ u # Admin /\ forced \in BOOLEAN /\ removal[r] # NoRemoval
  <2>1. removal[r].pc = "reassign" /\ removal[r].user = u /\ removal[r].forced = forced
    BY <1>1
  <2> QED
    BY <2>1, NoRemovalIsFree DEF AccountsInv, WellMeant
<1>3. PICK s : s = [pc |-> "delete", user |-> u, forced |-> forced]
  OBVIOUS
<1>4. RemovalGoto(r, s) /\ s.pc = "delete" /\ s.user = u /\ s.forced = forced
  <2>1. [removal[r] EXCEPT !.pc = "delete"] = s
    BY <1>1, <1>3
  <2> QED
    BY <1>3, <2>1 DEF ReassignHistory
<1>5. AccountsInv'
  <2>1. account' \in [User -> AccountRows \cup {NoAccount}] /\ owner' = [c \in Column |-> owner'[c]]
    BY DEF ReassignHistory, TakenOver, AccountsInv, AccountTypes
  <2>2. ~Names(u, Counted)' /\ ~Names(u, Reassigned)'
    BY <1>2, TakenOverNamesNobody DEF ReassignHistory
  <2>3. Free(s)'
    BY <1>4, <2>2 DEF Free, Names
  <2>4. WellMeant(s)
    BY <1>2, <1>3, <1>4 DEF WellMeant
  <2> QED
    BY <1>2, <1>4, <2>1, <2>3, <2>4, RemovalKeeps DEF ReassignHistory
<1>6. \A q \in Removals : removal[q].pc = "delete" => removal'[q] # NoRemoval
  BY <1>2, <1>4, OthersDoNotEnd
<1>7. CleanStep
  BY <1>6, CleanSteps DEF ReassignHistory, AccountsStay, Is
<1> QED
  BY <1>5, <1>7

\* The deletion: what restricts it refuses it, and what counts is free.
LEMMA DeleteUserKeeps ==
  ASSUME AccountsInv, NEW r \in Removals, DeleteUser(r)
  PROVE  AccountsInv' /\ CleanStep
<1>1. PICK u \in User : u = removal[r].user
  BY DEF DeleteUser, AccountsInv, WellMeant
<1>2. removal[r].pc = "delete" /\ removal[r] # NoRemoval /\ RemovalGoto(r, NoRemoval)
  BY NoRemovalIsFree DEF DeleteUser
<1>3. account \in [User -> AccountRows \cup {NoAccount}] /\ owner = [c \in Column |-> owner[c]]
  BY DEF AccountsInv, AccountTypes
<1>4. \/ Is(u) /\ ~Names(u, Restricting) /\ account' = [account EXCEPT ![u] = NoAccount] /\ owner' = Deleted(u)
      \/ (~Is(u) \/ Names(u, Restricting)) /\ UNCHANGED <<account, owner>>
  BY <1>1 DEF DeleteUser, Set
<1>5. account' \in [User -> AccountRows \cup {NoAccount}] /\ owner' = [c \in Column |-> owner'[c]]
  BY <1>3, <1>4 DEF Deleted
<1>6. AccountsInv'
  BY <1>2, <1>5, NoRemovalIsFree, RemovalKeeps DEF DeleteUser
<1>7. \A v \in User : v # u => account'[v] = account[v]
  BY <1>3, <1>4
<1>8. ASSUME NEW v \in User, Is(v), ~account'[v].row
      PROVE  ~Names(v, IF overtaken THEN Counted \cap Restricting ELSE Counted)
  <2>1. v = u /\ ~Names(u, Restricting)
    BY <1>4, <1>7, <1>8 DEF Is
  <2>2. ~overtaken => ~Names(u, Counted)
    BY <1>1, <1>2 DEF AccountsInv, Free
  <2> QED
    BY <2>1, <2>2 DEF Names
<1>9. PeopleKeepTheirPlaces
  <2>1. account'[u] = account[u] \/ ~account'[u].active
    BY <1>3, <1>4, NobodysRow
  <2> QED
    BY <1>7, <2>1 DEF PeopleKeepTheirPlaces
<1>10. ASSUME NEW q \in Removals, removal[q].pc = "delete", removal'[q] = NoRemoval, ~overtaken
       PROVE  \/ ~account'[removal[q].user].row
              \/ Names(removal[q].user, Restricting \ (IF removal[q].forced THEN Reassigned ELSE Counted))
  <2>1. q = r
    BY <1>2, <1>10, NoRemovalIsFree DEF AccountsInv
  <2>2. ~Names(u, Counted) /\ (removal[r].forced = TRUE => ~Names(u, Reassigned)) /\ removal[r].forced \in BOOLEAN
    BY <1>1, <1>2, <1>10 DEF AccountsInv, Free, WellMeant
  <2>3. CASE Names(u, Restricting) /\ UNCHANGED <<account, owner>>
    BY <1>1, <2>1, <2>2, <2>3 DEF Names
  <2>4. CASE ~Is(u) /\ UNCHANGED <<account, owner>>
    BY <1>1, <2>1, <2>4 DEF Is
  <2>5. CASE account' = [account EXCEPT ![u] = NoAccount]
    BY <1>1, <1>3, <2>1, <2>5, NobodysRow
  <2> QED
    BY <1>4, <2>3, <2>4, <2>5
<1> QED
  BY <1>6, <1>8, <1>9, <1>10 DEF CleanStep

\* What goes out of use touches nobody.
LEMMA CloseAreaKeeps ==
  ASSUME AccountsInv, NEW r \in Removals, CloseArea(r)
  PROVE  AccountsInv' /\ CleanStep
<1>1. removal[r].pc = "close" /\ removal[r] # NoRemoval /\ RemovalGoto(r, NoRemoval)
      /\ UNCHANGED <<account, owner, accountOps, overtaken>>
  BY NoRemovalIsFree DEF CloseArea
<1>2. account' \in [User -> AccountRows \cup {NoAccount}] /\ owner' = [c \in Column |-> owner'[c]]
  BY <1>1 DEF AccountsInv, AccountTypes
<1>3. AccountsInv'
  BY <1>1, <1>2, NoRemovalIsFree, RemovalKeeps
<1>4. CleanStep
  BY <1>1, OthersDoNotEnd, CleanSteps DEF AccountsStay, Is
<1> QED
  BY <1>3, <1>4

\* What is dropped had nobody: its people are those of no department.
LEMMA DropAreaKeeps ==
  ASSUME AccountsInv, NEW r \in Removals, DropArea(r)
  PROVE  AccountsInv' /\ CleanStep
<1>1. removal[r].pc = "drop" /\ removal[r] # NoRemoval /\ RemovalGoto(r, NoRemoval)
      /\ UNCHANGED <<owner, accountOps, overtaken>>
  BY NoRemovalIsFree DEF DropArea
<1>2. PICK d, s : d \in Departments /\ s \in SubareasOf[d] \cup {None} /\ d = removal[r].department /\ s = removal[r].subarea
  BY <1>1 DEF AccountsInv, WellMeant
<1>3. PICK gone : gone = IF s = None THEN SubareasOf[d] ELSE {s}
  OBVIOUS
<1>4. account' = [u \in User |-> IF ~Is(u) THEN account[u]
        ELSE [account[u] EXCEPT !.department = IF s = None /\ @ = d THEN None ELSE @,
                                !.subarea = IF @ \in gone THEN None ELSE @]]
  BY <1>2, <1>3 DEF DropArea
<1>5. account \in [User -> AccountRows \cup {NoAccount}]
  BY DEF AccountsInv, AccountTypes
<1>6. ASSUME NEW u \in User, Is(u)
      PROVE  /\ account'[u] \in AccountRows
             /\ account'[u].row /\ account'[u].active = account[u].active
             /\ account'[u].department = IF s = None /\ account[u].department = d THEN None ELSE account[u].department
             /\ account'[u].subarea = IF account[u].subarea \in gone THEN None ELSE account[u].subarea
  <2>1. account[u] \in AccountRows
    BY <1>5, <1>6, NobodysRow, Zenon DEF Is
  <2>2. PICK a, b : /\ a = IF s = None /\ account[u].department = d THEN None ELSE account[u].department
                    /\ b = IF account[u].subarea \in gone THEN None ELSE account[u].subarea
    OBVIOUS
  <2>3. a \in Departments \cup {None} /\ b \in Subareas \cup {None}
    BY <2>1, <2>2 DEF AccountRows
  <2>4. account'[u] = [account[u] EXCEPT !.department = a, !.subarea = b]
    BY <1>4, <1>6, <2>2
  <2>5. PICK row : row = account[u]
    OBVIOUS
  <2>6. /\ [row EXCEPT !.department = a, !.subarea = b] \in AccountRows
        /\ [row EXCEPT !.department = a, !.subarea = b].row
        /\ [row EXCEPT !.department = a, !.subarea = b].active = row.active
        /\ [row EXCEPT !.department = a, !.subarea = b].department = a
        /\ [row EXCEPT !.department = a, !.subarea = b].subarea = b
    BY <2>1, <2>3, <2>5, Zenon DEF AccountRows
  <2> QED
    BY <2>2, <2>4, <2>5, <2>6
<1>7. \A u \in User : ~Is(u) => account'[u] = account[u]
  BY <1>4
<1>8. AccountsInv'
  <2>1. account' \in [User -> AccountRows \cup {NoAccount}]
    <3>1. account' = [u \in User |-> account'[u]]
      BY <1>4
    <3>2. \A u \in User : account'[u] \in AccountRows \cup {NoAccount}
      BY <1>5, <1>6, <1>7
    <3> QED
      BY <3>1, <3>2
  <2>2. owner' = [c \in Column |-> owner'[c]]
    BY <1>1 DEF AccountsInv, AccountTypes
  <2> QED
    BY <1>1, <2>1, <2>2, NoRemovalIsFree, RemovalKeeps
<1>9. ~overtaken => PeopleKeepTheirPlaces
  <2> SUFFICES ASSUME ~overtaken, NEW u \in User, NEW e \in Departments, ActiveIn(u), account[u].department = e
               PROVE  /\ account'[u].department = e
                      /\ account[u].subarea \in SubareasOf[e] => account'[u].subarea = account[u].subarea
    BY DEF PeopleKeepTheirPlaces
  <2>1. PeopleOf(d, s) = {}
    BY <1>1, <1>2 DEF AccountsInv, Free
  <2>2. IF s = None THEN e # d ELSE account[u].subarea # s
    BY <2>1 DEF PeopleOf
  <2>3. account[u].subarea \in SubareasOf[e] => account[u].subarea \notin gone
    BY <1>2, <1>3, <2>2, AccountsAssumption
  <2> QED
    BY <1>6, <2>2, <2>3 DEF ActiveIn
<1>10. \A q \in Removals : removal[q].pc = "delete" => removal'[q] # NoRemoval
  BY <1>1, OthersDoNotEnd
<1>11. CleanStep
  BY <1>6, <1>9, <1>10, CleanSteps DEF AccountsStay
<1> QED
  BY <1>8, <1>11

\* Every step keeps the invariant, and is clean.
LEMMA AccountsInvNext ==
  ASSUME AccountsInv, [AccountsNext]_accountVars
  PROVE  AccountsInv' /\ CleanStep
<1>1. CASE UNCHANGED accountVars
  <2>1. UNCHANGED <<account, owner, removal, accountOps, overtaken>>
    BY <1>1 DEF accountVars
  <2>2. AccountsInv'
    <3>1. AccountTypes' /\ \A r \in Removals : WellMeant(removal[r])'
      BY <2>1 DEF AccountsInv, AccountTypes, WellMeant
    <3>2. ~overtaken' => \A r \in Removals : Free(removal[r])'
      BY <2>1 DEF AccountsInv, Free, Names, PeopleOf, ActiveIn, Is
    <3> QED
      BY <2>1, <3>1, <3>2 DEF AccountsInv
  <2>3. CleanStep
    BY <2>1, NoRemovalIsFree, CleanSteps DEF AccountsStay, Is
  <2> QED
    BY <2>2, <2>3
<1>2. CASE AccountsNext
  <2>1. ASSUME NEW r \in Removals, RemoveSoft(r) \/ CountHistory(r) \/ ReassignHistory(r) \/ DeleteUser(r) \/ CloseArea(r) \/ DropArea(r)
        PROVE  AccountsInv' /\ CleanStep
    BY <2>1, RemoveSoftKeeps, CountHistoryKeeps, ReassignHistoryKeeps, DeleteUserKeeps, CloseAreaKeeps, DropAreaKeeps
  <2>2. CASE \/ \E r \in Removals, u \in User, force \in BOOLEAN : RemoveUser(r, u, force)
             \/ \E r \in Removals, d \in Departments : \E s \in SubareasOf[d] \cup {None} : RemoveArea(r, d, s)
    BY <2>2, RemovalBeginningsKeep
  <2>3. CASE \/ \E u \in User, c \in Column : Refer(u, c)
             \/ \E d \in Departments : CreateDepartment(d) \/ \E s \in SubareasOf[d] : CreateSubarea(d, s)
             \/ \E d \in Departments : \E s \in SubareasOf[d] \cup {None}, status \in {"active", "inactive"} :
                  UpdateArea(d, s, status)
    BY <2>3, OthersKeep
  <2>4. CASE \/ \E u \in User, d \in Departments \cup {None}, s \in Subareas \cup {None} :
                  CreateUser(u, d, s) \/ \E active \in BOOLEAN : Update(u, active, d, s)
             \/ \E us \in SUBSET User : us # {} /\ Import(us)
             \/ \E u, actor \in User : Deactivate(actor, u, "resigned") \/ Reactivate(actor, u)
             \/ \E u \in User : ResetPassword(u) \/ ChangePassword(u)
    BY <2>4, AccountOperationsKeep
  <2> QED
    BY <1>2, <2>1, <2>2, <2>3, <2>4 DEF AccountsNext
<1> QED
  BY <1>1, <1>2

\* Deleting an account takes nobody's name off the tables that count as
\* history, no active person loses the department or a subarea of it, and a
\* removal that got past its count deletes the account, unless something
\* changed while it was in flight (remove of accounts, departments, subareas).
THEOREM RemovalsEndClean == AccountsSpec => RemovalsAreClean
<1>1. AccountsInit => AccountsInv
  BY AccountsInvInit
<1>2. AccountsInv /\ [AccountsNext]_accountVars => AccountsInv' /\ CleanStep
  BY AccountsInvNext
<1>3. CleanStep =>
        /\ \A u \in User : Is(u) /\ ~account'[u].row =>
             ~Names(u, IF overtaken THEN Counted \cap Restricting ELSE Counted)
        /\ ~overtaken => \A u \in User, d \in Departments :
             ActiveIn(u) /\ account'[u].active /\ accountOps' = accountOps /\ account[u].department = d =>
               /\ account'[u].department = d
               /\ account[u].subarea \in SubareasOf[d] => account'[u].subarea = account[u].subarea
  BY DEF CleanStep, PeopleKeepTheirPlaces
<1>4. CleanStep =>
        \A r \in Removals : removal[r].pc = "delete" /\ removal'[r] = NoRemoval /\ ~overtaken =>
          \/ ~account'[removal[r].user].row
          \/ Names(removal[r].user, Restricting \ (IF removal[r].forced THEN Reassigned ELSE Counted))
  BY DEF CleanStep
<1> QED
  BY <1>1, <1>2, <1>3, <1>4, PTL DEF AccountsSpec, RemovalsAreClean, DeletionsLoseNothing, RemovalsComplete

(***************************************************************************)
(* Roles, cells and exceptions                                             *)
(***************************************************************************)
(* What a request of the administration is, by its kind.                   *)
LEMMA BodyOfARequest ==
    ASSUME NEW op \in Ops
    PROVE  /\ op.kind \in {"createRole", "updateRole", "deleteRole", "addMember", "removeMember",
                           "updateUser"} => op.role \in Roles
           /\ op.kind = "createRole" => op.copyFrom \in Roles \cup {Nobody}
           /\ op.kind \in {"createCatalog", "updateCatalog", "setException", "removeException"} =>
                op.permission \in Permissions
           /\ op.kind = "createCatalog" => op.scopes \in SUBSET SCOPES
           /\ op.kind = "updateCatalog" =>
                op.scopes \in SUBSET SCOPES /\ op.status \in {"keep", "active", "inactive"}
           /\ op.kind = "saveMatrix" => op.changes \in SUBSET Changes
           /\ op.kind \in {"addMember", "removeMember", "updateUser", "setException",
                           "removeException"} => op.user \in Users
           /\ op.kind = "updateUser" => op.roles \in SUBSET Roles
           /\ op.kind = "setException" => op.scope \in SCOPES
<1>1. op.kind \in {"createRole", "updateRole", "deleteRole"} => op \in RoleOps
  BY DEF Ops, CatalogOps, MatrixOps, MemberOps, ExceptionOps
<1>2. op.kind \in {"createCatalog", "updateCatalog"} => op \in CatalogOps
  BY DEF Ops, RoleOps, MatrixOps, MemberOps, ExceptionOps
<1>3. op.kind = "saveMatrix" => op \in MatrixOps
  BY DEF Ops, RoleOps, CatalogOps, MemberOps, ExceptionOps
<1>4. op.kind \in {"addMember", "removeMember", "updateUser"} => op \in MemberOps
  BY DEF Ops, RoleOps, CatalogOps, MatrixOps, ExceptionOps
<1>5. op.kind \in {"setException", "removeException"} => op \in ExceptionOps
  BY DEF Ops, RoleOps, CatalogOps, MatrixOps, MemberOps
<1>6. op \in RoleOps => op.role \in Roles /\ (op.kind = "createRole" => op.copyFrom \in Roles \cup {Nobody})
  BY DEF RoleOps
<1>7. op \in CatalogOps => /\ op.permission \in Permissions
                           /\ op.scopes \in SUBSET SCOPES
                           /\ op.kind = "updateCatalog" => op.status \in {"keep", "active", "inactive"}
  BY BodiesAssumption DEF CatalogOps
<1>8. op \in MatrixOps => op.changes \in SUBSET Changes
  BY BodiesAssumption DEF MatrixOps
<1>9. op \in MemberOps => /\ op.role \in Roles /\ op.user \in Users
                          /\ op.kind = "updateUser" => op.roles \in SUBSET Roles
  BY DEF MemberOps
<1>10. op \in ExceptionOps => /\ op.permission \in Permissions /\ op.user \in Users
                              /\ op.kind = "setException" => op.scope \in SCOPES
  BY BodiesAssumption DEF ExceptionOps
<1> QED BY <1>1, <1>2, <1>3, <1>4, <1>5, <1>6, <1>7, <1>8, <1>9, <1>10

(***************************************************************************)
(* The invariant                                                           *)
(***************************************************************************)
Catalogues ==
    [pc : {"catalog"}, roles : SUBSET Roles, known : SUBSET Roles, keys : SUBSET Permissions,
     scopes : [Permissions -> SUBSET SCOPES]]

AdminStates ==
    {Idle} \cup [pc : {"write"}, op : Ops] \cup [pc : {"load", "matrix"}] \cup Catalogues
      \cup [pc : {"rows"}, rows : [Roles -> [Permissions -> SCOPES]]]

PermissionRows == [status : Statuses, scopes : SUBSET SCOPES]
Grants == {Unset} \cup [scope : SCOPES, current : BOOLEAN]

DbShapes ==
    /\ roleRow \in [Roles -> Statuses]
    /\ permRow \in [Permissions -> PermissionRows]
    /\ cell \in [Roles -> [Permissions -> SCOPES]]
    /\ mainRole \in [Users -> Roles]
    /\ extraRoles \in [Users -> SUBSET Roles]
    /\ grant \in [Users -> [Permissions -> Grants]]

AccessShapes ==
    /\ DbShapes
    /\ cache \in [roles : SUBSET Roles, known : SUBSET Roles, keys : SUBSET Permissions,
                  scopes : [Permissions -> SUBSET SCOPES], matrix : [Roles -> [Permissions -> SCOPES]]]
    /\ req \in [Requests -> AdminStates]
    /\ raced \in BOOLEAN /\ overlap \in BOOLEAN

(* A role that somebody holds besides the main one exists.                 *)
HeldRolesExist == \A u \in Users : \A r \in extraRoles[u] : roleRow[r] # "absent"

AtMostOne == \A q1, q2 \in Requests : req[q1] # Idle /\ req[q2] # Idle => q1 = q2

(* What a request about roles, the catalogue or the matrix validated.      *)
Stands(op) ==
    op.kind \in {"updateRole", "deleteRole", "updateCatalog", "saveMatrix"} => Valid(op)

WritesStand == \A q \in Requests : req[q].pc = "write" => Stands(req[q].op)

EmptyIfAbsent == \A p \in Permissions : permRow[p].status = "absent" => permRow[p].scopes = {}

(* Without a race there is one request, what it validated still holds when *)
(* it writes, and a permission that is not installed declares nothing.     *)
RaceFree ==
    ~raced =>
      /\ AtMostOne
      /\ WritesStand
      /\ EmptyIfAbsent

CatalogCached ==
    cache.roles = ActiveRoles /\ cache.known = KnownRoles /\ cache.keys = ActiveKeys
      /\ cache.scopes = ScopesOfRows

(* What a request that nothing overlaps knows of the tables.               *)
Fresh(q) ==
    /\ req[q].pc = "write" => cache = CacheOfRows
    /\ req[q].pc = "catalog" => /\ req[q].roles = ActiveRoles /\ req[q].known = KnownRoles
                                /\ req[q].keys = ActiveKeys /\ req[q].scopes = ScopesOfRows
    /\ req[q].pc \in {"matrix", "rows"} => CatalogCached
    /\ req[q].pc = "rows" => req[q].rows = ActiveCells

CachesFresh ==
    ~overlap =>
      /\ AtMostOne
      /\ (\A q \in Requests : req[q] = Idle) => cache = CacheOfRows
      /\ \A q \in Requests : Fresh(q)

AccessInv ==
    AccessShapes /\ HeldRolesExist /\ RaceFree /\ NoLockout /\ CellsFitTheCatalog /\ CachesFresh

(* The shape of a request, from its program counter.                       *)
LEMMA StatesOfARequest ==
    ASSUME NEW s \in AdminStates
    PROVE  /\ s.pc = "idle" <=> s = Idle
           /\ s.pc = "write" => s.op \in Ops
           /\ s.pc = "catalog" => s \in Catalogues
           /\ s.pc = "rows" => s.rows \in [Roles -> [Permissions -> SCOPES]]
BY DEF AdminStates, Catalogues, Idle

(* What the caches are filled with has their shape.                        *)
LEMMA ShapeOfTheTables ==
    ASSUME DbShapes
    PROVE  /\ ActiveRoles \subseteq Roles /\ KnownRoles \subseteq Roles /\ ActiveKeys \subseteq Permissions
           /\ ScopesOfRows \in [Permissions -> SUBSET SCOPES]
           /\ ActiveCells \in [Roles -> [Permissions -> SCOPES]]
           /\ \A read \in [Roles -> [Permissions -> SCOPES]] : \A keys :
                MatrixFromRows(read, keys) \in [Roles -> [Permissions -> SCOPES]]
<1>1. "NONE" \in SCOPES BY DEF SCOPES
<1>2. ScopesOfRows \in [Permissions -> SUBSET SCOPES] BY DEF DbShapes, ScopesOfRows, PermissionRows
<1>3. ActiveCells \in [Roles -> [Permissions -> SCOPES]] BY <1>1 DEF DbShapes, ActiveCells
<1>4. \A read \in [Roles -> [Permissions -> SCOPES]] : \A keys :
        MatrixFromRows(read, keys) \in [Roles -> [Permissions -> SCOPES]]
  BY <1>1 DEF MatrixFromRows
<1> QED BY <1>2, <1>3, <1>4 DEF ActiveRoles, KnownRoles, ActiveKeys

(* The tables of roles, permissions and cells decide what a reload reads.  *)
LEMMA SameRowsSameCache ==
    ASSUME roleRow' = roleRow, permRow' = permRow, cell' = cell
    PROVE  /\ ActiveRoles' = ActiveRoles /\ KnownRoles' = KnownRoles /\ ActiveKeys' = ActiveKeys
           /\ ScopesOfRows' = ScopesOfRows /\ ActiveCells' = ActiveCells /\ CacheOfRows' = CacheOfRows
BY DEF ActiveRoles, KnownRoles, ActiveKeys, ScopesOfRows, ActiveCells, CacheOfRows, MatrixFromRows

(***************************************************************************)
(* Transactions                                                            *)
(***************************************************************************)
(* What the database demands of each kind of transaction.                  *)
LEMMA DatabaseDemands ==
    ASSUME NEW op \in Ops, DatabaseAccepts(op)
    PROVE  /\ op.kind = "createRole" => roleRow[op.role] = "absent"
           /\ op.kind = "updateRole" => roleRow[op.role] # "absent"
           /\ op.kind = "createCatalog" => permRow[op.permission].status = "absent"
           /\ op.kind = "saveMatrix" => \A c \in op.changes : roleRow[c.role] # "absent"
           /\ op.kind = "addMember" => roleRow[op.role] # "absent"
           /\ op.kind = "updateUser" => \A r \in {op.role} \cup op.roles : roleRow[r] # "absent"
BY DEF DatabaseAccepts

(* A transaction keeps the shape of the tables.                            *)
LEMMA TransactionKeepsShapes ==
    ASSUME DbShapes, NEW op \in Ops, Transaction(op)
    PROVE  DbShapes'
<1> USE DEF DbShapes
<1>0. "NONE" \in SCOPES /\ NoCells \in [Permissions -> SCOPES] BY DEF SCOPES, NoCells
<1>1. CASE op.kind = "createRole" /\ CreateRole(op)
  <2>1. op.role \in Roles BY <1>1, BodyOfARequest
  <2> DEFINE copied == IF op.copyFrom \in Roles THEN cell[op.copyFrom] ELSE NoCells
  <2>2. copied \in [Permissions -> SCOPES] BY <1>0
  <2>3. roleRow' \in [Roles -> Statuses] BY <1>1, <2>1 DEF CreateRole, Statuses
  <2>4. cell' = [cell EXCEPT ![op.role] = copied] BY <1>1 DEF CreateRole
  <2>5. cell' \in [Roles -> [Permissions -> SCOPES]] BY <2>2, <2>4
  <2> QED BY <1>1, <2>3, <2>5 DEF CreateRole
<1>2. CASE op.kind = "updateRole" /\ UpdateRole(op)
  BY <1>2, BodyOfARequest DEF UpdateRole, Statuses
<1>3. CASE op.kind = "deleteRole" /\ DeleteRole(op)
  <2>1. op.role \in Roles BY <1>3, BodyOfARequest
  <2>2. roleRow' \in [Roles -> Statuses] BY <1>3, <2>1 DEF DeleteRole, Statuses
  <2>3. cell' \in [Roles -> [Permissions -> SCOPES]] BY <1>0, <1>3, <2>1 DEF DeleteRole
  <2>4. extraRoles' \in [Users -> SUBSET Roles] BY <1>3 DEF DeleteRole
  <2> QED BY <1>3, <2>2, <2>3, <2>4 DEF DeleteRole
<1>4. CASE op.kind = "createCatalog" /\ CreateCatalog(op)
  <2>1. op.permission \in Permissions /\ op.scopes \in SUBSET SCOPES BY <1>4, BodyOfARequest
  <2>2. [status |-> "active", scopes |-> op.scopes] \in PermissionRows
    BY <2>1 DEF PermissionRows, Statuses
  <2>3. permRow' \in [Permissions -> PermissionRows] BY <1>4, <2>1, <2>2 DEF CreateCatalog
  <2> QED BY <1>4, <2>3 DEF CreateCatalog
<1>5. CASE op.kind = "updateCatalog" /\ UpdateCatalog(op)
  <2>1. /\ op.permission \in Permissions /\ op.scopes \in SUBSET SCOPES
        /\ op.status \in {"keep", "active", "inactive"}
    BY <1>5, BodyOfARequest
  <2>2. permRow[op.permission] \in PermissionRows BY <2>1
  <2>3. permRow'[op.permission] \in PermissionRows
    BY <1>5, <2>1, <2>2 DEF UpdateCatalog, PermissionRows, Statuses
  <2>4. \A p \in Permissions : p # op.permission => permRow'[p] = permRow[p]
    BY <1>5, <2>1 DEF UpdateCatalog
  <2>5. permRow' = [p \in Permissions |-> permRow'[p]] BY <1>5, <2>1 DEF UpdateCatalog
  <2>6. permRow' \in [Permissions -> PermissionRows] BY <2>3, <2>4, <2>5
  <2> QED BY <1>5, <2>6 DEF UpdateCatalog
<1>6. CASE op.kind = "saveMatrix" /\ SaveMatrix(op)
  <2>1. ASSUME NEW r \in Roles, NEW p \in Permissions PROVE cell'[r][p] \in SCOPES
    <3> DEFINE mine == {c \in op.changes : c.role = r /\ c.permission = p}
    <3>1. cell'[r][p] = IF mine = {} THEN cell[r][p] ELSE (CHOOSE c \in mine : TRUE).scope
      BY <1>6 DEF SaveMatrix
    <3>2. mine # {} => (CHOOSE c \in mine : TRUE) \in mine OBVIOUS
    <3>3. \A c \in mine : c.scope \in SCOPES
      BY <1>6, BodyOfARequest, BodiesAssumption DEF Changes
    <3> QED BY <3>1, <3>2, <3>3
  <2>2. cell' \in [Roles -> [Permissions -> SCOPES]]
    <3>1. /\ DOMAIN cell' = Roles
          /\ \A r \in Roles : DOMAIN cell'[r] = Permissions
          /\ cell' = [r \in Roles |-> cell'[r]]
          /\ \A r \in Roles : cell'[r] = [p \in Permissions |-> cell'[r][p]]
      BY <1>6 DEF SaveMatrix
    <3>2. \A r \in Roles : cell'[r] \in [Permissions -> SCOPES] BY <2>1, <3>1
    <3> QED BY <3>1, <3>2
  <2> QED BY <1>6, <2>2 DEF SaveMatrix
<1>7. CASE op.kind = "addMember" /\ AddRoleMember(op)
  BY <1>7, BodyOfARequest DEF AddRoleMember
<1>8. CASE op.kind = "removeMember" /\ RemoveRoleMember(op)
  BY <1>8, BodyOfARequest DEF RemoveRoleMember
<1>9. CASE op.kind = "updateUser" /\ UpdateUserRoles(op)
  BY <1>9, BodyOfARequest DEF UpdateUserRoles
<1>10. ASSUME NEW new \in Grants, op.user \in Users, op.permission \in Permissions,
              grant' = [grant EXCEPT ![op.user][op.permission] = new]
       PROVE  grant' \in [Users -> [Permissions -> Grants]]
  <2>1. PICK mine : mine = [grant[op.user] EXCEPT ![op.permission] = new] OBVIOUS
  <2>2. grant' = [grant EXCEPT ![op.user] = mine] BY <1>10, <2>1
  <2>3. mine \in [Permissions -> Grants] BY <1>10, <2>1
  <2> QED BY <1>10, <2>2, <2>3
<1>11. CASE op.kind = "setException" /\ SetException(op)
  <2>1. op.user \in Users /\ op.permission \in Permissions /\ op.scope \in SCOPES
    BY <1>11, BodyOfARequest
  <2>2. [scope |-> op.scope, current |-> TRUE] \in Grants BY <2>1 DEF Grants
  <2> QED BY <1>10, <1>11, <2>1, <2>2 DEF SetException
<1>12. CASE op.kind = "removeException" /\ RemoveException(op)
  <2>1. op.user \in Users /\ op.permission \in Permissions /\ Unset \in Grants
    BY <1>12, BodyOfARequest DEF Grants
  <2> QED BY <1>10, <1>12, <2>1 DEF RemoveException
<1>13. CASE op.kind = "reload" /\ UNCHANGED dbVars BY <1>13 DEF dbVars
<1> QED BY <1>1, <1>2, <1>3, <1>4, <1>5, <1>6, <1>7, <1>8, <1>9, <1>11, <1>12, <1>13 DEF Transaction

(* A transaction gives roles that exist, and takes those of a role away.   *)
LEMMA TransactionKeepsHolders ==
    ASSUME DbShapes, HeldRolesExist, NEW op \in Ops, Transaction(op), DatabaseAccepts(op)
    PROVE  HeldRolesExist'
<1> USE DEF DbShapes, HeldRolesExist
<1>1. CASE op.kind = "createRole" /\ CreateRole(op)
  BY <1>1, BodyOfARequest DEF CreateRole
<1>2. CASE op.kind = "updateRole" /\ UpdateRole(op)
  BY <1>2, BodyOfARequest DEF UpdateRole
<1>3. CASE op.kind = "deleteRole" /\ DeleteRole(op)
  BY <1>3, BodyOfARequest DEF DeleteRole
<1>4. CASE op.kind = "addMember" /\ AddRoleMember(op)
  BY <1>4, BodyOfARequest, DatabaseDemands DEF AddRoleMember
<1>5. CASE op.kind = "removeMember" /\ RemoveRoleMember(op)
  BY <1>5, BodyOfARequest DEF RemoveRoleMember
<1>6. CASE op.kind = "updateUser" /\ UpdateUserRoles(op)
  BY <1>6, BodyOfARequest, DatabaseDemands DEF UpdateUserRoles
<1>7. CASE UNCHANGED <<roleRow, extraRoles>> BY <1>7
<1> QED
  BY <1>1, <1>2, <1>3, <1>4, <1>5, <1>6, <1>7
  DEF Transaction, CreateCatalog, UpdateCatalog, SaveMatrix, SetException, RemoveException, dbVars

(* What validation of the four kinds means.                                *)
LEMMA WhatStands ==
    ASSUME NEW op \in Ops, Stands(op)
    PROVE  /\ op.kind = "updateRole" => ValidUpdateRole(op)
           /\ op.kind = "deleteRole" => ValidDeleteRole(op)
           /\ op.kind = "updateCatalog" => ValidUpdateCatalog(op)
           /\ op.kind = "saveMatrix" => ValidSaveMatrix(op)
BY DEF Stands, Valid

(* A change of the matrix lands in the cell of its role and permission.    *)
LEMMA CellAfterSave ==
    ASSUME NEW op, SaveMatrix(op), NEW r \in Roles, NEW p \in Permissions
    PROVE  \/ cell'[r][p] = cell[r][p]
           \/ \E c \in op.changes : c.role = r /\ c.permission = p /\ cell'[r][p] = c.scope
<1> DEFINE mine == {c \in op.changes : c.role = r /\ c.permission = p}
<1>1. cell'[r][p] = IF mine = {} THEN cell[r][p] ELSE (CHOOSE c \in mine : TRUE).scope
  BY DEF SaveMatrix
<1>2. mine # {} => (CHOOSE c \in mine : TRUE) \in mine OBVIOUS
<1> QED BY <1>1, <1>2

(* A transaction whose validation still holds leaves somebody with         *)
(* roles.manage.                                                           *)
LEMMA TransactionKeepsManage ==
    ASSUME DbShapes, NEW op \in Ops, Transaction(op), DatabaseAccepts(op), Stands(op),
           SomeRoleKeepsManage({})
    PROVE  SomeRoleKeepsManage({})'
<1> USE DEF DbShapes, SomeRoleKeepsManage, ActiveRoles
<1>1. CASE op.kind = "createRole" /\ CreateRole(op)
  <2>1. op.role \in Roles /\ roleRow[op.role] = "absent" BY <1>1, BodyOfARequest, DatabaseDemands
  <2>2. PICK r \in Roles : roleRow[r] = "active" /\ cell[r][Manage] # "NONE" OBVIOUS
  <2>3. r # op.role BY <2>1, <2>2
  <2>4. roleRow'[r] = "active" /\ cell'[r] = cell[r] BY <1>1, <2>2, <2>3 DEF CreateRole
  <2> QED BY <2>2, <2>4
<1>2. CASE op.kind = "updateRole" /\ UpdateRole(op)
  <2>1. op.role \in Roles /\ ValidUpdateRole(op) BY <1>2, BodyOfARequest, WhatStands
  <2>2. PICK r \in Roles : /\ roleRow[r] = "active" /\ cell[r][Manage] # "NONE"
                           /\ op.active \/ r # op.role
    BY <2>1 DEF ValidUpdateRole
  <2>3. roleRow'[r] = "active" /\ cell'[r] = cell[r] BY <1>2, <2>1, <2>2 DEF UpdateRole
  <2> QED BY <2>2, <2>3
<1>3. CASE op.kind = "deleteRole" /\ DeleteRole(op)
  <2>1. op.role \in Roles /\ ValidDeleteRole(op) BY <1>3, BodyOfARequest, WhatStands
  <2>2. PICK r \in Roles : roleRow[r] = "active" /\ cell[r][Manage] # "NONE" /\ r # op.role
    BY <2>1 DEF ValidDeleteRole
  <2>3. roleRow'[r] = "active" /\ cell'[r] = cell[r] BY <1>3, <2>1, <2>2 DEF DeleteRole
  <2> QED BY <2>2, <2>3
<1>4. CASE op.kind = "saveMatrix" /\ SaveMatrix(op)
  <2> DEFINE removed == {c.role : c \in {d \in op.changes : d.permission = Manage /\ d.scope = "NONE"}}
  <2>1. SomeRoleKeepsManage(removed) BY <1>4, WhatStands DEF ValidSaveMatrix
  <2>2. PICK r \in Roles : roleRow[r] = "active" /\ cell[r][Manage] # "NONE" /\ r \notin removed
    BY <2>1
  <2>3. Manage \in Permissions BY AccessAssumption
  <2>4. cell'[r][Manage] # "NONE" BY <1>4, <2>2, <2>3, CellAfterSave
  <2>5. roleRow'[r] = "active" BY <1>4, <2>2 DEF SaveMatrix
  <2> QED BY <2>2, <2>4, <2>5
<1>5. CASE UNCHANGED <<roleRow, cell>> BY <1>5
<1> QED
  BY <1>1, <1>2, <1>3, <1>4, <1>5
  DEF Transaction, CreateCatalog, UpdateCatalog, AddRoleMember, RemoveRoleMember, UpdateUserRoles,
      SetException, RemoveException, dbVars

CellsFit == \A r \in Roles, p \in Permissions : cell[r][p] \in permRow[p].scopes \cup {"NONE"}

(* ... and every cell within what its permission declares.                 *)
LEMMA TransactionKeepsFit ==
    ASSUME DbShapes, NEW op \in Ops, Transaction(op), DatabaseAccepts(op), Stands(op),
           EmptyIfAbsent, CellsFit
    PROVE  EmptyIfAbsent' /\ CellsFit'
<1> USE DEF DbShapes, EmptyIfAbsent, CellsFit
<1>1. CASE op.kind = "createRole" /\ CreateRole(op)
  <2>1. op.role \in Roles BY <1>1, BodyOfARequest
  <2>2. permRow' = permRow BY <1>1 DEF CreateRole
  <2>3. \A r \in Roles : r # op.role => cell'[r] = cell[r] BY <1>1, <2>1 DEF CreateRole
  <2>4. cell'[op.role] = IF op.copyFrom \in Roles THEN cell[op.copyFrom] ELSE NoCells
    BY <1>1, <2>1 DEF CreateRole
  <2>5. \A p \in Permissions : cell'[op.role][p] \in permRow[p].scopes \cup {"NONE"}
    BY <2>4 DEF NoCells
  <2> QED BY <2>2, <2>3, <2>5
<1>2. CASE op.kind = "deleteRole" /\ DeleteRole(op)
  <2>1. op.role \in Roles BY <1>2, BodyOfARequest
  <2>2. permRow' = permRow BY <1>2 DEF DeleteRole
  <2>3. \A r \in Roles : r # op.role => cell'[r] = cell[r] BY <1>2, <2>1 DEF DeleteRole
  <2>4. \A p \in Permissions : cell'[op.role][p] = "NONE" BY <1>2, <2>1 DEF DeleteRole, NoCells
  <2> QED BY <2>2, <2>3, <2>4
<1>3. CASE op.kind = "createCatalog" /\ CreateCatalog(op)
  <2>1. op.permission \in Permissions /\ permRow[op.permission].status = "absent"
    BY <1>3, BodyOfARequest, DatabaseDemands
  <2>2. \A p \in Permissions : p # op.permission => permRow'[p] = permRow[p]
    BY <1>3, <2>1 DEF CreateCatalog
  <2>3. permRow'[op.permission].status = "active" BY <1>3, <2>1 DEF CreateCatalog
  <2>4. \A r \in Roles : cell[r][op.permission] = "NONE" BY <2>1
  <2>5. cell' = cell BY <1>3 DEF CreateCatalog
  <2> QED BY <2>2, <2>3, <2>4, <2>5
<1>4. CASE op.kind = "updateCatalog" /\ UpdateCatalog(op)
  <2>1. /\ op.permission \in Permissions /\ ValidUpdateCatalog(op)
        /\ op.status \in {"keep", "active", "inactive"}
    BY <1>4, BodyOfARequest, WhatStands
  <2>2. permRow[op.permission] \in PermissionRows BY <2>1
  <2>3. \A p \in Permissions : p # op.permission => permRow'[p] = permRow[p]
    BY <1>4, <2>1 DEF UpdateCatalog
  <2>4. /\ permRow'[op.permission].status =
             IF op.status = "keep" THEN permRow[op.permission].status ELSE op.status
        /\ permRow'[op.permission].scopes =
             IF op.scopes = {} THEN permRow[op.permission].scopes ELSE op.scopes
    BY <1>4, <2>1, <2>2 DEF UpdateCatalog, PermissionRows
  <2>5. permRow'[op.permission].status # "absent" BY <2>1, <2>4 DEF ValidUpdateCatalog
  <2>6. \A r \in Roles : cell[r][op.permission] \in permRow'[op.permission].scopes \cup {"NONE"}
    BY <2>1, <2>4 DEF ValidUpdateCatalog
  <2>7. cell' = cell BY <1>4 DEF UpdateCatalog
  <2> QED BY <2>3, <2>5, <2>6, <2>7
<1>5. CASE op.kind = "saveMatrix" /\ SaveMatrix(op)
  <2>1. permRow' = permRow BY <1>5 DEF SaveMatrix
  <2>2. ASSUME NEW r \in Roles, NEW p \in Permissions
        PROVE  cell'[r][p] \in permRow[p].scopes \cup {"NONE"}
    <3>1. \A c \in op.changes : c.scope \in permRow[c.permission].scopes \cup {"NONE"}
      BY <1>5, WhatStands DEF ValidSaveMatrix
    <3>2. CASE cell'[r][p] = cell[r][p] BY <3>2
    <3>3. CASE \E c \in op.changes : c.role = r /\ c.permission = p /\ cell'[r][p] = c.scope
      BY <3>1, <3>3
    <3> QED BY <1>5, <3>2, <3>3, CellAfterSave
  <2> QED BY <2>1, <2>2
<1>6. CASE UNCHANGED <<permRow, cell>> BY <1>6
<1> QED
  BY <1>1, <1>2, <1>3, <1>4, <1>5, <1>6
  DEF Transaction, UpdateRole, AddRoleMember, RemoveRoleMember, UpdateUserRoles,
      SetException, RemoveException, dbVars

(* Requests that need no reload leave what a reload reads.                 *)
LEMMA NoReloadNoChange ==
    ASSUME NEW op, Transaction(op), ~Reloads(op)
    PROVE  roleRow' = roleRow /\ permRow' = permRow /\ cell' = cell
BY DEF Transaction, Reloads, AddRoleMember, RemoveRoleMember, UpdateUserRoles, SetException, RemoveException

(***************************************************************************)
(* Steps                                                                   *)
(***************************************************************************)
(* What validation reads, besides the exceptions, decides it for the four  *)
(* kinds that are followed.                                                *)
LEMMA StandsWhileNothingMoves ==
    ASSUME NEW op, Stands(op), NEW q \in Requests, req'[q].op = op,
           UNCHANGED <<roleRow, permRow, cell, mainRole, extraRoles, cache>>
    PROVE  Stands(req[q].op)'
<1>1. CASE op.kind = "updateRole"
  BY <1>1 DEF Stands, Valid, ValidUpdateRole, SomeRoleKeepsManage, ActiveRoles
<1>2. CASE op.kind = "deleteRole"
  BY <1>2 DEF Stands, Valid, ValidDeleteRole, HasRole, SomeRoleKeepsManage, ActiveRoles
<1>3. CASE op.kind = "updateCatalog"
  BY <1>3 DEF Stands, Valid, ValidUpdateCatalog
<1>4. CASE op.kind = "saveMatrix"
  BY <1>4 DEF Stands, Valid, ValidSaveMatrix, SomeRoleKeepsManage, ActiveRoles, ActiveKeys
<1>5. CASE op.kind \notin {"updateRole", "deleteRole", "updateCatalog", "saveMatrix"}
  BY <1>5 DEF Stands
<1> QED BY <1>1, <1>2, <1>3, <1>4, <1>5

(* The states of a request that its actions give it.                       *)
LEMMA StatesThatAreGiven ==
    /\ Idle \in AdminStates
    /\ \A op \in Ops : [pc |-> "write", op |-> op] \in AdminStates
    /\ [pc |-> "load"] \in AdminStates /\ [pc |-> "matrix"] \in AdminStates
    /\ \A read \in [Roles -> [Permissions -> SCOPES]] : [pc |-> "rows", rows |-> read] \in AdminStates
    /\ \A roles, known \in SUBSET Roles, keys \in SUBSET Permissions,
          scopes \in [Permissions -> SUBSET SCOPES] :
         [pc |-> "catalog", roles |-> roles, known |-> known, keys |-> keys, scopes |-> scopes]
           \in AdminStates
BY DEF AdminStates, Catalogues

Caches ==
    [roles : SUBSET Roles, known : SUBSET Roles, keys : SUBSET Permissions,
     scopes : [Permissions -> SUBSET SCOPES], matrix : [Roles -> [Permissions -> SCOPES]]]

(* Every step keeps the shapes.                                            *)
LEMMA AccessShapesKept ==
    ASSUME AccessShapes, [AccessNext]_accessVars
    PROVE  AccessShapes'
<1> USE DEF AccessShapes
<1>1. ASSUME NEW q \in Requests, BeginEdit(q) PROVE AccessShapes'
  <2>1. DbShapes' BY <1>1 DEF BeginEdit, DbShapes, dbVars
  <2>2. PICK op \in Ops : req' = [req EXCEPT ![q] = [pc |-> "write", op |-> op]] BY <1>1 DEF BeginEdit
  <2>3. req' \in [Requests -> AdminStates] BY <2>2, StatesThatAreGiven
  <2> QED BY <1>1, <2>1, <2>3 DEF BeginEdit
<1>2. ASSUME NEW q \in Requests, Write(q) PROVE AccessShapes'
  <2>1. req[q] \in AdminStates /\ req[q].pc = "write" BY <1>2 DEF Write
  <2>2. req[q].op \in Ops BY <2>1, StatesOfARequest
  <2>3. DbShapes' BY <1>2, <2>2, TransactionKeepsShapes DEF Write
  <2>4. req' \in [Requests -> AdminStates] BY <1>2, StatesThatAreGiven DEF Write
  <2> QED BY <1>2, <2>3, <2>4 DEF Write
<1>3. ASSUME NEW q \in Requests, WriteRefused(q) PROVE AccessShapes'
  BY <1>3, StatesThatAreGiven DEF WriteRefused, DbShapes, dbVars
<1>4. ASSUME NEW q \in Requests, LoadCatalog(q) PROVE AccessShapes'
  <2>1. DbShapes' BY <1>4 DEF LoadCatalog, DbShapes, dbVars
  <2>2. req' \in [Requests -> AdminStates] BY <1>4, StatesThatAreGiven, ShapeOfTheTables DEF LoadCatalog
  <2> QED BY <1>4, <2>1, <2>2 DEF LoadCatalog
<1>5. ASSUME NEW q \in Requests, SetCatalog(q) PROVE AccessShapes'
  <2>1. DbShapes' BY <1>5 DEF SetCatalog, DbShapes, dbVars
  <2>2. req[q] \in Catalogues BY <1>5, StatesOfARequest DEF SetCatalog
  <2>3. cache' = [roles |-> req[q].roles, known |-> req[q].known, keys |-> req[q].keys,
                  scopes |-> req[q].scopes, matrix |-> cache.matrix]
    BY <1>5 DEF SetCatalog
  <2>4. cache' \in Caches BY <2>2, <2>3 DEF Catalogues, Caches
  <2>5. req' \in [Requests -> AdminStates] BY <1>5, StatesThatAreGiven DEF SetCatalog
  <2> QED BY <1>5, <2>1, <2>4, <2>5 DEF SetCatalog, Caches
<1>6. ASSUME NEW q \in Requests, LoadMatrix(q) PROVE AccessShapes'
  <2>1. DbShapes' BY <1>6 DEF LoadMatrix, DbShapes, dbVars
  <2>2. req' \in [Requests -> AdminStates] BY <1>6, StatesThatAreGiven, ShapeOfTheTables DEF LoadMatrix
  <2> QED BY <1>6, <2>1, <2>2 DEF LoadMatrix
<1>7. ASSUME NEW q \in Requests, SetMatrix(q) PROVE AccessShapes'
  <2>1. DbShapes' BY <1>7 DEF SetMatrix, DbShapes, dbVars
  <2>2. req[q].rows \in [Roles -> [Permissions -> SCOPES]] BY <1>7, StatesOfARequest DEF SetMatrix
  <2>3. MatrixFromRows(req[q].rows, cache.keys) \in [Roles -> [Permissions -> SCOPES]]
    BY <2>2, ShapeOfTheTables
  <2>4. cache' = [roles |-> cache.roles, known |-> cache.known, keys |-> cache.keys,
                  scopes |-> cache.scopes, matrix |-> MatrixFromRows(req[q].rows, cache.keys)]
    BY <1>7 DEF SetMatrix
  <2>5. cache' \in Caches BY <2>3, <2>4 DEF Caches
  <2>6. req' \in [Requests -> AdminStates] BY <1>7, StatesThatAreGiven DEF SetMatrix
  <2> QED BY <1>7, <2>1, <2>5, <2>6 DEF SetMatrix, Caches
<1>8. ASSUME NEW u \in Users, NEW p \in Permissions, Expire(u, p) PROVE AccessShapes'
  <2>1. grant[u][p] \in Grants /\ grant[u][p].current BY <1>8 DEF Expire, DbShapes
  <2>2. PICK row : row = [grant[u][p] EXCEPT !.current = FALSE] OBVIOUS
  <2>a. grant[u][p] \in [scope : SCOPES, current : BOOLEAN] BY <2>1 DEF Grants, Unset
  <2>b. row \in [scope : SCOPES, current : BOOLEAN] BY <2>2, <2>a
  <2>3. row \in Grants BY <2>b DEF Grants
  <2>4. PICK mine : mine = [grant[u] EXCEPT ![p] = row] OBVIOUS
  <2>5. mine \in [Permissions -> Grants] BY <2>3, <2>4 DEF DbShapes
  <2>6. grant' = [grant EXCEPT ![u] = mine] BY <1>8, <2>2, <2>4 DEF Expire
  <2>7. grant' \in [Users -> [Permissions -> Grants]] BY <2>5, <2>6 DEF DbShapes
  <2> QED BY <1>8, <2>7 DEF Expire, DbShapes
<1>9. CASE UNCHANGED accessVars BY <1>9 DEF accessVars, dbVars, DbShapes
<1> QED BY <1>1, <1>2, <1>3, <1>4, <1>5, <1>6, <1>7, <1>8, <1>9 DEF AccessNext

(* Steps that are no transaction leave the tables of roles, permissions,   *)
(* cells and holders as they are.                                          *)
LEMMA OnlyWritesMoveTheTables ==
    ASSUME [AccessNext]_accessVars
    PROVE  \/ \E q \in Requests : Write(q)
           \/ UNCHANGED <<roleRow, permRow, cell, mainRole, extraRoles>>
BY DEF AccessNext, BeginEdit, WriteRefused, LoadCatalog, SetCatalog, LoadMatrix, SetMatrix, Expire,
       accessVars, dbVars

(* Roles that are held exist, whatever races.                              *)
LEMMA HoldersKept ==
    ASSUME AccessShapes, HeldRolesExist, [AccessNext]_accessVars
    PROVE  HeldRolesExist'
<1>1. ASSUME NEW q \in Requests, Write(q) PROVE HeldRolesExist'
  <2>1. req[q].op \in Ops BY <1>1, StatesOfARequest DEF Write, AccessShapes
  <2> QED BY <1>1, <2>1, TransactionKeepsHolders DEF Write, AccessShapes
<1>2. CASE UNCHANGED <<roleRow, permRow, cell, mainRole, extraRoles>> BY <1>2 DEF HeldRolesExist
<1> QED BY <1>1, <1>2, OnlyWritesMoveTheTables

(* A request that moves on and is not about to write leaves nobody else in *)
(* flight where nothing raced.                                             *)
LEMMA OneMovesOn ==
    ASSUME AccessShapes, AtMostOne, NEW q \in Requests, req[q] # Idle,
           NEW new, req' = [req EXCEPT ![q] = new]
    PROVE  /\ AtMostOne'
           /\ \A r \in Requests : r # q => req[r] = Idle /\ req'[r] = Idle
           /\ req'[q] = new
BY DEF AccessShapes, AtMostOne

(* What a transaction does where nothing raced.                            *)
LEMMA WriteKeepsRaceFree ==
    ASSUME AccessInv, NEW q \in Requests, Write(q)
    PROVE  RaceFree' /\ NoLockout' /\ CellsFitTheCatalog'
<1>1. req[q].op \in Ops /\ req[q] # Idle BY StatesOfARequest DEF AccessInv, Write, AccessShapes, Idle
<1>2. SUFFICES ASSUME ~raced' PROVE RaceFree' /\ NoLockout' /\ CellsFitTheCatalog'
  BY DEF RaceFree, NoLockout, CellsFitTheCatalog
<1>3. ~raced /\ raced' = raced BY <1>2 DEF Write
<1>4. AtMostOne /\ Stands(req[q].op) /\ EmptyIfAbsent /\ CellsFit /\ SomeRoleKeepsManage({})
  BY <1>3 DEF AccessInv, RaceFree, WritesStand, Write, EmptyIfAbsent, CellsFit, CellsFitTheCatalog, NoLockout
<1>5. SomeRoleKeepsManage({})' BY <1>1, <1>4, TransactionKeepsManage DEF Write, AccessInv, AccessShapes
<1>6. EmptyIfAbsent' /\ CellsFit' BY <1>1, <1>4, TransactionKeepsFit DEF Write, AccessInv, AccessShapes
<1>7. PICK new : /\ new = IF Reloads(req[q].op) THEN [pc |-> "load"] ELSE Idle
                 /\ req' = [req EXCEPT ![q] = new]
  BY DEF Write
<1>8. new.pc # "write" BY <1>7 DEF Idle
<1>9. AtMostOne' /\ req'[q] = new /\ \A r \in Requests : r # q => req'[r] = Idle
  BY <1>1, <1>4, <1>7, OneMovesOn DEF AccessInv
<1>10. WritesStand' BY <1>8, <1>9 DEF Idle, WritesStand
<1> QED BY <1>5, <1>6, <1>9, <1>10 DEF RaceFree, NoLockout, CellsFitTheCatalog, EmptyIfAbsent, CellsFit

(* Steps that leave the tables keep what is said of them.                  *)
LEMMA RaceFreeKept ==
    ASSUME AccessInv, [AccessNext]_accessVars
    PROVE  RaceFree' /\ NoLockout' /\ CellsFitTheCatalog'
<1>0. (raced => raced') BY DEF AccessNext, BeginEdit, Write, WriteRefused, LoadCatalog, SetCatalog,
                               LoadMatrix, SetMatrix, Expire, accessVars, AccessInv, AccessShapes
<1>1. ASSUME NEW q \in Requests, Write(q) PROVE RaceFree' /\ NoLockout' /\ CellsFitTheCatalog'
  BY <1>1, WriteKeepsRaceFree
<1>2. ASSUME UNCHANGED <<roleRow, permRow, cell, mainRole, extraRoles>>
      PROVE  NoLockout' /\ CellsFitTheCatalog' /\ (~raced' => EmptyIfAbsent')
  BY <1>0, <1>2
  DEF AccessInv, RaceFree, NoLockout, CellsFitTheCatalog, EmptyIfAbsent, SomeRoleKeepsManage, ActiveRoles
<1>3. ASSUME NEW q \in Requests, BeginEdit(q), ~raced'
      PROVE  AtMostOne' /\ WritesStand'
  <2>1. PICK op \in Ops : Valid(op) /\ req' = [req EXCEPT ![q] = [pc |-> "write", op |-> op]]
    BY <1>3 DEF BeginEdit
  <2>2. \A r \in Requests : req[r] = Idle BY <1>3 DEF BeginEdit, Busy
  <2>3. Stands(op) /\ UNCHANGED <<roleRow, permRow, cell, mainRole, extraRoles, cache>>
    BY <1>3, <2>1 DEF BeginEdit, dbVars, Stands
  <2>4. \A r \in Requests : r # q => req'[r] = Idle BY <2>1, <2>2 DEF AccessInv, AccessShapes
  <2>5. req'[q] = [pc |-> "write", op |-> op] BY <2>1 DEF AccessInv, AccessShapes
  <2>6. AtMostOne' BY <2>4 DEF AtMostOne
  <2>7. \A r \in Requests : req'[r].pc = "write" => req'[r].op = op BY <2>4, <2>5 DEF Idle
  <2>8. ASSUME NEW r \in Requests, req'[r].pc = "write" PROVE Stands(req[r].op)'
    BY <2>3, <2>7, <2>8, StandsWhileNothingMoves
  <2>9. WritesStand' BY <2>8 DEF WritesStand
  <2> QED BY <2>6, <2>9
<1>4. ASSUME NEW q \in Requests, req[q] # Idle, NEW new, new.pc # "write", ~raced',
             req' = [req EXCEPT ![q] = new]
      PROVE  AtMostOne' /\ WritesStand'
  <2>1. AtMostOne BY <1>0, <1>4 DEF AccessInv, RaceFree
  <2>2. AtMostOne' /\ req'[q] = new /\ \A r \in Requests : r # q => req'[r] = Idle
    BY <1>4, <2>1, OneMovesOn DEF AccessInv
  <2>3. WritesStand' BY <1>4, <2>2 DEF Idle, WritesStand
  <2> QED BY <2>2, <2>3
<1>5. ASSUME req' = req, UNCHANGED <<roleRow, permRow, cell, mainRole, extraRoles, cache>>, ~raced'
      PROVE  AtMostOne' /\ WritesStand'
  <2>1. AtMostOne /\ WritesStand BY <1>0, <1>5 DEF AccessInv, RaceFree
  <2>2. ASSUME NEW r \in Requests, req'[r].pc = "write" PROVE Stands(req[r].op)'
    <3>1. Stands(req[r].op) /\ req'[r].op = req[r].op BY <1>5, <2>1, <2>2 DEF WritesStand
    <3> QED BY <1>5, <3>1, StandsWhileNothingMoves
  <2>3. WritesStand' BY <2>2 DEF WritesStand
  <2>4. AtMostOne' BY <1>5, <2>1 DEF AtMostOne
  <2> QED BY <2>3, <2>4
<1>6. ASSUME NEW q \in Requests,
             \/ WriteRefused(q) \/ LoadCatalog(q) \/ SetCatalog(q) \/ LoadMatrix(q) \/ SetMatrix(q)
      PROVE  req[q] # Idle /\ \E new : new.pc # "write" /\ req' = [req EXCEPT ![q] = new]
  BY <1>6 DEF WriteRefused, LoadCatalog, SetCatalog, LoadMatrix, SetMatrix, Idle
<1>7. ASSUME UNCHANGED <<roleRow, permRow, cell, mainRole, extraRoles>>,
             \A q \in Requests : ~Write(q), ~raced'
      PROVE  AtMostOne' /\ WritesStand'
  <2>1. CASE \E q \in Requests : BeginEdit(q) BY <1>3, <1>7, <2>1
  <2>2. CASE \E q \in Requests : \/ WriteRefused(q) \/ LoadCatalog(q) \/ SetCatalog(q)
                                 \/ LoadMatrix(q) \/ SetMatrix(q)
    BY <1>4, <1>6, <1>7, <2>2
  <2>3. CASE \E u \in Users, p \in Permissions : Expire(u, p)
    BY <1>5, <1>7, <2>3 DEF Expire
  <2>4. CASE UNCHANGED accessVars BY <1>5, <1>7, <2>4 DEF accessVars
  <2> QED BY <1>7, <2>1, <2>2, <2>3, <2>4 DEF AccessNext
<1>8. CASE UNCHANGED <<roleRow, permRow, cell, mainRole, extraRoles>> /\ \A q \in Requests : ~Write(q)
  BY <1>2, <1>7, <1>8 DEF RaceFree, EmptyIfAbsent
<1> QED BY <1>1, <1>8, OnlyWritesMoveTheTables

(* The request that reads the catalogue alone is the one whose reading is  *)
(* of the tables as they are; then it fills the caches, step by step.      *)
LEMMA FreshKept ==
    ASSUME AccessInv, [AccessNext]_accessVars
    PROVE  CachesFresh'
<1> USE DEF AccessInv
<1> DEFINE Rows == <<roleRow, permRow, cell>>
<1>0. SUFFICES ASSUME ~overlap' PROVE /\ AtMostOne'
                                      /\ ((\A q \in Requests : req[q] = Idle) => cache = CacheOfRows)'
                                      /\ \A q \in Requests : Fresh(q)'
  BY DEF CachesFresh
<1> DEFINE Goal == /\ AtMostOne'
                   /\ ((\A q \in Requests : req[q] = Idle) => cache = CacheOfRows)'
                   /\ \A q \in Requests : Fresh(q)'
<1>1. ASSUME NEW q \in Requests, BeginEdit(q) PROVE Goal
  <2>1. PICK op \in Ops : req' = [req EXCEPT ![q] = [pc |-> "write", op |-> op]] BY <1>1 DEF BeginEdit
  <2>2. ~overlap /\ \A r \in Requests : req[r] = Idle
    BY <1>0, <1>1 DEF BeginEdit, Busy, AccessShapes
  <2>3. cache = CacheOfRows BY <2>2 DEF CachesFresh
  <2>4. cache' = CacheOfRows' BY <1>1, <2>3, SameRowsSameCache DEF BeginEdit, dbVars
  <2>5. /\ req'[q] = [pc |-> "write", op |-> op]
        /\ \A r \in Requests : r # q => req'[r] = Idle
    BY <2>1, <2>2 DEF AccessShapes
  <2>6. AtMostOne' BY <2>5 DEF AtMostOne
  <2>7. \A r \in Requests : req'[r].pc \in {"idle", "write"} BY <2>5 DEF Idle
  <2>8. \A r \in Requests : Fresh(r)' BY <2>4, <2>7 DEF Fresh
  <2> QED BY <2>4, <2>6, <2>8
<1>2. ASSUME NEW q \in Requests, req[q] # Idle, ~overlap \/ Busy = {q},
             NEW new, req' = [req EXCEPT ![q] = new]
      PROVE  AtMostOne' /\ req'[q] = new /\ \A r \in Requests : r # q => req'[r] = Idle
  <2>1. AtMostOne BY <1>2 DEF CachesFresh, AtMostOne, Busy
  <2> QED BY <1>2, <2>1, OneMovesOn
<1>3. ASSUME NEW q \in Requests, Write(q) PROVE Goal
  <2>1. req[q] # Idle /\ ~overlap BY <1>0, <1>3 DEF Write, Idle
  <2>2. cache = CacheOfRows BY <1>3, <2>1 DEF CachesFresh, Fresh, Write
  <2>3. PICK new : /\ new = IF Reloads(req[q].op) THEN [pc |-> "load"] ELSE Idle
                   /\ req' = [req EXCEPT ![q] = new]
    BY <1>3 DEF Write
  <2>4. AtMostOne' /\ req'[q] = new /\ \A r \in Requests : r # q => req'[r] = Idle
    BY <1>2, <2>1, <2>3
  <2>5. \A r \in Requests : req'[r].pc \in {"idle", "load"} BY <2>3, <2>4 DEF Idle
  <2>6. \A r \in Requests : Fresh(r)' BY <2>5 DEF Fresh
  <2>7. CASE Reloads(req[q].op)
    <3>1. req'[q] # Idle BY <2>3, <2>4, <2>7 DEF Idle
    <3> QED BY <2>4, <2>6, <3>1
  <2>8. CASE ~Reloads(req[q].op)
    <3>1. CacheOfRows' = CacheOfRows BY <1>3, <2>8, NoReloadNoChange, SameRowsSameCache DEF Write
    <3>2. cache' = CacheOfRows' BY <1>3, <2>2, <3>1 DEF Write
    <3> QED BY <2>4, <2>6, <3>2
  <2> QED BY <2>7, <2>8
<1>4. ASSUME NEW q \in Requests, WriteRefused(q) PROVE Goal
  <2>1. req[q] # Idle /\ ~overlap BY <1>0, <1>4 DEF WriteRefused, Idle
  <2>2. cache = CacheOfRows BY <1>4, <2>1 DEF CachesFresh, Fresh, WriteRefused
  <2>3. cache' = CacheOfRows' BY <1>4, <2>2, SameRowsSameCache DEF WriteRefused, dbVars
  <2>4. AtMostOne' /\ req'[q] = Idle /\ \A r \in Requests : r # q => req'[r] = Idle
    BY <1>2, <1>4, <2>1 DEF WriteRefused
  <2>5. \A r \in Requests : Fresh(r)' BY <2>4 DEF Fresh, Idle
  <2> QED BY <2>3, <2>4, <2>5
<1>5. ASSUME NEW q \in Requests, LoadCatalog(q) PROVE Goal
  <2>1. req[q] # Idle /\ (~overlap \/ Busy = {q}) BY <1>0, <1>5 DEF LoadCatalog, Idle, AccessShapes
  <2>2. PICK new : /\ new = [pc |-> "catalog", roles |-> ActiveRoles, known |-> KnownRoles,
                             keys |-> ActiveKeys, scopes |-> ScopesOfRows]
                   /\ req' = [req EXCEPT ![q] = new]
    BY <1>5 DEF LoadCatalog
  <2>3. AtMostOne' /\ req'[q] = new /\ \A r \in Requests : r # q => req'[r] = Idle
    BY <1>2, <2>1, <2>2
  <2>4. /\ ActiveRoles' = ActiveRoles /\ KnownRoles' = KnownRoles /\ ActiveKeys' = ActiveKeys
        /\ ScopesOfRows' = ScopesOfRows
    BY <1>5, SameRowsSameCache DEF LoadCatalog, dbVars
  <2>5. Fresh(q)' BY <2>2, <2>3, <2>4 DEF Fresh
  <2>6. \A r \in Requests : r # q => Fresh(r)' BY <2>3 DEF Fresh, Idle
  <2>7. req'[q] # Idle BY <2>2, <2>3 DEF Idle
  <2> QED BY <2>3, <2>5, <2>6, <2>7
<1>6. ASSUME NEW q \in Requests, SetCatalog(q) PROVE Goal
  <2>1. req[q] # Idle /\ ~overlap BY <1>0, <1>6 DEF SetCatalog, Idle
  <2>2. Fresh(q) /\ req[q].pc = "catalog" BY <1>6, <2>1 DEF SetCatalog, CachesFresh
  <2>3. AtMostOne' /\ req'[q] = [pc |-> "matrix"] /\ \A r \in Requests : r # q => req'[r] = Idle
    BY <1>2, <1>6, <2>1 DEF SetCatalog
  <2>4. /\ cache'.roles = req[q].roles /\ cache'.known = req[q].known
        /\ cache'.keys = req[q].keys /\ cache'.scopes = req[q].scopes
    BY <1>6 DEF SetCatalog, AccessShapes
  <2>5. CatalogCached'
    <3>1. /\ ActiveRoles' = ActiveRoles /\ KnownRoles' = KnownRoles /\ ActiveKeys' = ActiveKeys
          /\ ScopesOfRows' = ScopesOfRows
      BY <1>6, SameRowsSameCache DEF SetCatalog, dbVars
    <3> QED BY <2>2, <2>4, <3>1 DEF Fresh, CatalogCached
  <2>6. \A r \in Requests : Fresh(r)' BY <2>3, <2>5 DEF Fresh, Idle
  <2>7. req'[q] # Idle BY <2>3 DEF Idle
  <2> QED BY <2>3, <2>6, <2>7
<1>7. ASSUME NEW q \in Requests, LoadMatrix(q) PROVE Goal
  <2>1. req[q] # Idle /\ ~overlap BY <1>0, <1>7 DEF LoadMatrix, Idle
  <2>2. CatalogCached BY <1>7, <2>1 DEF LoadMatrix, CachesFresh, Fresh
  <2>3. AtMostOne' /\ req'[q] = [pc |-> "rows", rows |-> ActiveCells]
          /\ \A r \in Requests : r # q => req'[r] = Idle
    BY <1>2, <1>7, <2>1 DEF LoadMatrix
  <2>4. ActiveCells' = ActiveCells /\ CatalogCached'
    BY <1>7, <2>2, SameRowsSameCache DEF LoadMatrix, dbVars, CatalogCached
  <2>5. Fresh(q)' BY <2>3, <2>4 DEF Fresh
  <2>6. \A r \in Requests : r # q => Fresh(r)' BY <2>3 DEF Fresh, Idle
  <2>7. req'[q] # Idle BY <2>3 DEF Idle
  <2> QED BY <2>3, <2>5, <2>6, <2>7
<1>8. ASSUME NEW q \in Requests, SetMatrix(q) PROVE Goal
  <2>1. req[q] # Idle /\ ~overlap BY <1>0, <1>8 DEF SetMatrix, Idle
  <2>2. CatalogCached /\ req[q].rows = ActiveCells BY <1>8, <2>1 DEF SetMatrix, CachesFresh, Fresh
  <2>3. AtMostOne' /\ req'[q] = Idle /\ \A r \in Requests : r # q => req'[r] = Idle
    BY <1>2, <1>8, <2>1 DEF SetMatrix
  <2>4. cache' = [roles |-> cache.roles, known |-> cache.known, keys |-> cache.keys,
                  scopes |-> cache.scopes, matrix |-> MatrixFromRows(req[q].rows, cache.keys)]
    BY <1>8 DEF SetMatrix, AccessShapes
  <2>5. cache' = CacheOfRows BY <2>2, <2>4 DEF CatalogCached, CacheOfRows
  <2>6. cache' = CacheOfRows' BY <1>8, <2>5, SameRowsSameCache DEF SetMatrix, dbVars
  <2>7. \A r \in Requests : Fresh(r)' BY <2>3 DEF Fresh, Idle
  <2> QED BY <2>3, <2>6, <2>7
<1>9. ASSUME UNCHANGED <<roleRow, permRow, cell, cache, req, overlap>> PROVE Goal
  <2>1. /\ CacheOfRows' = CacheOfRows /\ CatalogCached' = CatalogCached
        /\ ActiveRoles' = ActiveRoles /\ KnownRoles' = KnownRoles /\ ActiveKeys' = ActiveKeys
        /\ ScopesOfRows' = ScopesOfRows /\ ActiveCells' = ActiveCells
    BY <1>9, SameRowsSameCache DEF CatalogCached
  <2>2. AtMostOne' BY <1>0, <1>9 DEF CachesFresh, AtMostOne
  <2>3. \A q \in Requests : Fresh(q)' BY <1>0, <1>9, <2>1 DEF CachesFresh, Fresh
  <2> QED BY <1>0, <1>9, <2>1, <2>2, <2>3 DEF CachesFresh
<1>10. CASE \E u \in Users, p \in Permissions : Expire(u, p) BY <1>9, <1>10 DEF Expire
<1>11. CASE UNCHANGED accessVars BY <1>9, <1>11 DEF accessVars, dbVars
<1> QED BY <1>1, <1>3, <1>4, <1>5, <1>6, <1>7, <1>8, <1>10, <1>11 DEF AccessNext

(* The seed: every role holds roles.manage, nobody anything else.          *)
LEMMA AccessInvInit == AccessInit => AccessInv
<1> SUFFICES ASSUME AccessInit PROVE AccessInv OBVIOUS
<1> USE DEF AccessInit
<1>1. PICK catalogue \in SUBSET Permissions : Manage \in catalogue /\ permRow = Installed(catalogue)
  OBVIOUS
<1>2. UNION ScopeChoices \in SUBSET SCOPES BY BodiesAssumption
<1>3. permRow \in [Permissions -> PermissionRows] BY <1>1, <1>2 DEF Installed, PermissionRows, Statuses
<1>4. cell \in [Roles -> [Permissions -> SCOPES]] BY DEF SCOPES
<1>5. mainRole \in [Users -> Roles] BY AccessAssumption
<1>6. grant \in [Users -> [Permissions -> Grants]] BY DEF Grants
<1>7. DbShapes BY <1>3, <1>4, <1>5, <1>6 DEF DbShapes, Statuses
<1>8. CacheOfRows \in Caches BY <1>7, ShapeOfTheTables DEF CacheOfRows, Caches
<1>9. req \in [Requests -> AdminStates] BY StatesThatAreGiven
<1>10. AccessShapes BY <1>7, <1>8, <1>9 DEF AccessShapes, Caches
<1>11. RaceFree
  <2>1. EmptyIfAbsent BY <1>1 DEF Installed, EmptyIfAbsent
  <2> QED BY <2>1 DEF RaceFree, AtMostOne, WritesStand, Idle, EmptyIfAbsent
<1>12. NoLockout
  <2>1. PICK r \in SystemRoles : r \in Roles BY AccessAssumption
  <2>2. cell[r][Manage] = "ALL" /\ roleRow[r] = "active" BY <2>1, AccessAssumption
  <2> QED BY <2>1, <2>2 DEF NoLockout, SomeRoleKeepsManage, ActiveRoles
<1>13. CellsFitTheCatalog
  <2>1. ASSUME NEW r \in Roles, NEW p \in Permissions PROVE cell[r][p] \in permRow[p].scopes \cup {"NONE"}
    <3>1. cell[r][p] = IF p = Manage THEN "ALL" ELSE "NONE" OBVIOUS
    <3>2. permRow[Manage].scopes = UNION ScopeChoices BY <1>1 DEF Installed
    <3> QED BY <3>1, <3>2, BodiesAssumption
  <2> QED BY <2>1 DEF CellsFitTheCatalog
<1>14. CachesFresh BY DEF CachesFresh, AtMostOne, Fresh, Idle
<1> QED BY <1>10, <1>11, <1>12, <1>13, <1>14 DEF AccessInv, HeldRolesExist

(* The invariant holds of every behaviour.                                 *)
LEMMA AccessInvHolds == AccessSpec => []AccessInv
<1>1. AccessInv /\ [AccessNext]_accessVars => AccessInv'
  BY AccessShapesKept, HoldersKept, RaceFreeKept, FreshKept DEF AccessInv
<1> QED BY <1>1, AccessInvInit, PTL DEF AccessSpec

(* A role that stops being held was taken by a request, or was held by     *)
(* nobody when it was deleted.                                             *)
LEMMA DeletionStep ==
    ASSUME AccessInv, [AccessNext]_accessVars, ~raced,
           NEW u \in Users, NEW r \in extraRoles[u] \ extraRoles'[u]
    PROVE  roleRow'[r] # "absent"
<1>1. r \in Roles /\ roleRow[r] # "absent"
  BY DEF AccessInv, AccessShapes, DbShapes, HeldRolesExist
<1>2. PICK q \in Requests : Write(q) BY OnlyWritesMoveTheTables
<1>3. req[q].op \in Ops BY <1>2, StatesOfARequest DEF Write, AccessInv, AccessShapes
<1>4. PICK op : op = req[q].op OBVIOUS
<1>5. op \in Ops /\ Transaction(op) /\ Stands(op)
  BY <1>2, <1>3, <1>4 DEF Write, AccessInv, RaceFree, WritesStand
<1>6. CASE op.kind = "deleteRole" /\ DeleteRole(op)
  <2>1. r = op.role BY <1>6 DEF DeleteRole
  <2>2. ~HasRole(u, op.role) BY <1>5, <1>6, WhatStands DEF ValidDeleteRole
  <2> QED BY <2>1, <2>2 DEF HasRole
<1>7. CASE UNCHANGED roleRow BY <1>1, <1>7
<1>8. CASE UNCHANGED extraRoles BY <1>8
<1> QED
  BY <1>5, <1>6, <1>7, <1>8
  DEF Transaction, CreateRole, UpdateRole, CreateCatalog, UpdateCatalog, SaveMatrix, AddRoleMember,
      RemoveRoleMember, UpdateUserRoles, SetException, RemoveException, dbVars

(* Whatever roles, permissions, cells, members and exceptions there are:   *)
(* while requests do not overlap some active role keeps roles.manage       *)
(* (assertSomeRoleKeepsManage), every cell is within what its permission   *)
(* declares (saveMatrix, updateCatalog) and deleting a role takes it from  *)
(* nobody (deleteRole).                                                    *)
THEOREM RolesRemainUsable == AccessSpec => RolesStayUsable
<1>1. AccessInv => NoLockout /\ CellsFitTheCatalog BY DEF AccessInv
<1>2. AccessInv /\ [AccessNext]_accessVars =>
        [~raced => \A u \in Users : \A r \in extraRoles[u] \ extraRoles'[u] : roleRow'[r] # "absent"]_accessVars
  BY DeletionStep
<1> QED BY <1>1, <1>2, AccessInvHolds, PTL DEF AccessSpec, RolesStayUsable, DeletionTakesNoRole

(* The subject of the user's page and the one of the guard carry the same  *)
(* roles and the same exceptions in force.                                 *)
LEMMA PageAndGuardAgree ==
    ASSUME DbShapes, NEW u \in Users, NEW p \in cache.keys
    PROVE  PermissionView(u)[p].effective = EffectiveScope(u, p)
<1> DEFINE listed == {[permission |-> q, scope |-> grant[u][q].scope, current |-> grant[u][q].current] :
                         q \in {x \in Permissions : grant[u][x] # Unset}}
<1> DEFINE subject == [UserOf(u) EXCEPT !.exceptions = listed]
<1>1. PermissionView(u)[p].effective = ScopeOf(subject, p, cache.keys, cache.matrix)
  BY DEF PermissionView
<1>2. subject.role = UserOf(u).role /\ subject.roles = UserOf(u).roles /\ subject.exceptions = listed
  BY DEF UserOf
<1>3. CurrentException(subject, p) = CurrentException(UserOf(u), p)
  <2> DEFINE granted == {[permission |-> q, scope |-> grant[u][q].scope, current |-> TRUE] :
                            q \in {x \in Permissions : grant[u][x].current}}
  <2>1. UserOf(u).exceptions = granted BY DEF UserOf
  <2>2. \A q \in Permissions : grant[u][q] \in Grants BY DEF DbShapes
  <2>3. \A q \in Permissions : grant[u][q].current => grant[u][q] # Unset BY DEF Unset
  <2>4. ASSUME NEW q \in Permissions
        PROVE  grant[u][q].current = FALSE \/ grant[u][q].current = TRUE
    <3>1. CASE grant[u][q] = Unset BY <3>1 DEF Unset
    <3>2. CASE grant[u][q] \in [scope : SCOPES, current : BOOLEAN]
      <4>1. grant[u][q].current \in BOOLEAN BY <3>2
      <4> QED BY <4>1
    <3> QED BY <2>2, <3>1, <3>2 DEF Grants
  <2> DEFINE Listed1(q) == [permission |-> q, scope |-> grant[u][q].scope, current |-> grant[u][q].current]
             Current1(q) == [permission |-> q, scope |-> grant[u][q].scope, current |-> TRUE]
  <2>5. ASSUME NEW e \in listed, e.permission = p, e.current PROVE e \in granted
    <3>1. PICK q \in Permissions : grant[u][q] # Unset /\ e = Listed1(q) OBVIOUS
    <3>2. e.current = grant[u][q].current BY <3>1
    <3>3. grant[u][q].current = TRUE BY <2>4, <2>5, <3>2
    <3>4. e = Current1(q) BY <3>1, <3>3
    <3> QED BY <3>3, <3>4
  <2>6. ASSUME NEW e \in granted, e.permission = p, e.current PROVE e \in listed
    <3>1. PICK q \in Permissions : grant[u][q].current /\ e = Current1(q) OBVIOUS
    <3>2. grant[u][q].current = TRUE BY <2>4, <3>1
    <3>3. e = Listed1(q) BY <3>1, <3>2
    <3> QED BY <2>3, <3>1, <3>3
  <2>7. {e \in listed : e.permission = p /\ e.current} = {e \in granted : e.permission = p /\ e.current}
    <3> HIDE DEF listed, granted
    <3> QED BY <2>5, <2>6
  <2> QED BY <1>2, <2>1, <2>7 DEF CurrentException
<1>4. RolesOf(subject) = RolesOf(UserOf(u)) BY <1>2 DEF RolesOf
<1>5. ScopeOf(subject, p, cache.keys, cache.matrix) = ScopeOf(UserOf(u), p, cache.keys, cache.matrix)
  <2> HIDE DEF subject
  <2> QED BY <1>3, <1>4 DEF ScopeOf
<1> QED BY <1>1, <1>5 DEF EffectiveScope

(* A reload that nothing overlaps leaves the tables in memory, and the     *)
(* console, the page of a user and the guard of a route answer alike.      *)
THEOREM AnswersComeFromTheTables == AccessSpec => []PermissionAnswersAgree
<1>1. AccessInv => QuietCacheIsTheDatabase
  BY DEF AccessInv, CachesFresh, QuietCacheIsTheDatabase, Busy
<1>2. ASSUME AccessInv PROVE ConsoleAgrees
  <2>1. DbShapes BY <1>2 DEF AccessInv, AccessShapes
  <2>2. ASSUME NEW u \in Users, NEW p \in Permissions PROVE Simulated(u, p) = Admitted(u, p)
    BY DEF Simulated, Admitted, EffectiveScope, RequiresPermission
  <2>3. ASSUME NEW u \in Users, NEW p \in Permissions, p \in cache.keys
        PROVE  (PermissionView(u)[p].effective # "NONE") = Admitted(u, p)
    <3>1. PermissionView(u)[p].effective = EffectiveScope(u, p) BY <2>1, <2>3, PageAndGuardAgree
    <3> QED BY <2>3, <3>1 DEF Admitted, EffectiveScope, RequiresPermission
  <2> QED BY <2>2, <2>3 DEF ConsoleAgrees
<1>3. AccessInv => PermissionAnswersAgree BY <1>1, <1>2 DEF PermissionAnswersAgree
<1> QED BY <1>3, AccessInvHolds, PTL

(***************************************************************************)
(* The weekly payroll                                                      *)
(***************************************************************************)
(* A close() that is about to write found the review of every department   *)
(* it was asked for among those it took the photograph of.                 *)
PayrollInv ==
    /\ closure \in [closed : BOOLEAN, asked : SUBSET Area, snapshot : SUBSET Area]
    /\ payer = [o \in Payer |-> payer[o]]
    /\ \A o \in Payer : payer[o].pc = "close" =>
         payer[o].asked \subseteq payer[o].snapshot /\ payer[o].snapshot \subseteq Area
    /\ PhotographIsComplete

(* What a request leaves to do. *)
LEMMA RequestsOfPayroll ==
    ASSUME PayrollInv, NEW o \in Payer, NEW filing, payer' = [payer EXCEPT ![o] = filing],
           filing.pc = "close" => filing.asked \subseteq filing.snapshot /\ filing.snapshot \subseteq Area,
           closure' \in [closed : BOOLEAN, asked : SUBSET Area, snapshot : SUBSET Area],
           PhotographIsComplete'
    PROVE  PayrollInv'
<1>1. \A q \in Payer : payer'[q] = IF q = o THEN filing ELSE payer[q] BY DEF PayrollInv
<1>2. payer' = [q \in Payer |-> payer'[q]] BY DEF PayrollInv
<1>3. ASSUME NEW q \in Payer, payer'[q].pc = "close"
      PROVE  payer'[q].asked \subseteq payer'[q].snapshot /\ payer'[q].snapshot \subseteq Area
  <2>1. CASE q = o BY <1>1, <1>3, <2>1
  <2>2. CASE q # o BY <1>1, <1>3, <2>2 DEF PayrollInv
  <2> QED BY <2>1, <2>2
<1> QED BY <1>2, <1>3 DEF PayrollInv

(* Whatever requests overlap, reviews are withdrawn and departments go,    *)
(* the photograph of a closed week holds the review of every department it *)
(* was closed for (close, reopen).                                         *)
THEOREM PhotographsStayComplete == PayrollSpec => []PhotographIsComplete
<1>1. PayrollInit => PayrollInv
  <2> SUFFICES ASSUME PayrollInit PROVE PayrollInv OBVIOUS
  <2>1. payer = [o \in Payer |-> payer[o]] BY DEF PayrollInit
  <2>2. \A o \in Payer : payer[o].pc # "close" BY DEF PayrollInit, NotFiling
  <2> QED BY <2>1, <2>2 DEF PayrollInit, PayrollInv, OpenWeek, PhotographIsComplete
<1>2. ASSUME PayrollInv, [PayrollNext]_payrollVars PROVE PayrollInv'
  <2> DEFINE Closures == [closed : BOOLEAN, asked : SUBSET Area, snapshot : SUBSET Area]
  <2>1. closure \in Closures /\ PhotographIsComplete BY <1>2 DEF PayrollInv
  <2>2. ASSUME NEW o \in Payer, NEW filing, Files(o, filing),
               filing.pc = "close" => filing.asked \subseteq filing.snapshot /\ filing.snapshot \subseteq Area
        PROVE  PayrollInv'
    BY <1>2, <2>1, <2>2, RequestsOfPayroll DEF Files, PhotographIsComplete
  <2>3. ASSUME NEW o \in Payer, Filed(o), closure' \in Closures, PhotographIsComplete'
        PROVE  PayrollInv'
    BY <1>2, <2>3, RequestsOfPayroll DEF Filed, NotFiling
  <2>4. ASSUME UNCHANGED <<closure, payer>> PROVE PayrollInv'
    BY <1>2, <2>4 DEF PayrollInv, PhotographIsComplete
  <2>5. ASSUME NEW o \in Payer, NEW area \in Area, SetReviewed(o, area) PROVE PayrollInv'
    <3>1. CASE reviews[area] = 0
      <4> DEFINE filing == [pc |-> "create", areas |-> {area}, id |-> clerk + 1]
      <4>1. Files(o, filing) BY <2>5, <3>1 DEF SetReviewed
      <4>2. filing.pc # "close" OBVIOUS
      <4> HIDE DEF filing
      <4> QED BY <4>1, <4>2, <2>2
    <3>2. CASE reviews[area] # 0
      <4> DEFINE filing == [pc |-> "delete", area |-> area, id |-> reviews[area]]
      <4>1. Files(o, filing) BY <2>5, <3>2 DEF SetReviewed
      <4>2. filing.pc # "close" OBVIOUS
      <4> HIDE DEF filing
      <4> QED BY <4>1, <4>2, <2>2
    <3> QED BY <3>1, <3>2
  <2>6. ASSUME NEW o \in Payer, NEW asked \in SUBSET Area, ReviewAll(o, asked) PROVE PayrollInv'
    <3> DEFINE filing == [pc |-> "create", areas |-> asked \ Reviewed, id |-> clerk + 1]
    <3>1. Files(o, filing) BY <2>6 DEF ReviewAll
    <3>2. filing.pc # "close" OBVIOUS
    <3> HIDE DEF filing
    <3> QED BY <3>1, <3>2, <2>2
  <2>7. ASSUME NEW o \in Payer, NEW asked \in SUBSET Area, Close(o, asked) PROVE PayrollInv'
    <3> DEFINE filing == [pc |-> "close", asked |-> asked, snapshot |-> Reviewed]
    <3>1. Files(o, filing) BY <2>7 DEF Close
    <3>2. asked \subseteq Reviewed BY <2>7 DEF Close, Missing
    <3>3. filing.asked \subseteq filing.snapshot /\ filing.snapshot \subseteq Area BY <3>2 DEF Reviewed
    <3> HIDE DEF filing
    <3> QED BY <3>1, <3>3, <2>2
  <2>8. ASSUME NEW o \in Payer, ReviewCreates(o) \/ ReviewDeletes(o) PROVE PayrollInv'
    BY <2>1, <2>3, <2>8 DEF ReviewCreates, ReviewDeletes, PhotographIsComplete
  <2>9. ASSUME NEW o \in Payer, CloseWrite(o) PROVE PayrollInv'
    <3>1. payer[o].asked \subseteq payer[o].snapshot /\ payer[o].snapshot \subseteq Area
      BY <1>2, <2>9 DEF CloseWrite, PayrollInv
    <3>2. closure' \in Closures /\ PhotographIsComplete' BY <2>9, <3>1 DEF CloseWrite, PhotographIsComplete
    <3> QED BY <2>3, <2>9, <3>2 DEF CloseWrite
  <2>10. ASSUME NEW o \in Payer, Reopen(o) PROVE PayrollInv'
    <3> DEFINE filing == [pc |-> "reopen"]
    <3>1. Files(o, filing) BY <2>10 DEF Reopen
    <3>2. filing.pc # "close" OBVIOUS
    <3> HIDE DEF filing
    <3> QED BY <3>1, <3>2, <2>2
  <2>11. ASSUME NEW o \in Payer, ReopenWrite(o) PROVE PayrollInv'
    <3>1. closure' \in Closures /\ PhotographIsComplete' BY <2>1, <2>11 DEF ReopenWrite, PhotographIsComplete
    <3> QED BY <2>3, <2>11, <3>1 DEF ReopenWrite
  <2>12. ASSUME NEW area \in Area, DepartmentGoes(area) PROVE PayrollInv'
    BY <2>4, <2>12 DEF DepartmentGoes
  <2>13. CASE UNCHANGED payrollVars BY <2>4, <2>13 DEF payrollVars
  <2> QED BY <1>2, <2>5, <2>6, <2>7, <2>8, <2>9, <2>10, <2>11, <2>12, <2>13 DEF PayrollNext
<1>3. PayrollInv => PhotographIsComplete BY DEF PayrollInv
<1> QED BY <1>1, <1>2, <1>3, PTL DEF PayrollSpec

(***************************************************************************)
(* Tickets                                                                 *)
(***************************************************************************)
(* The cells of tickets.view and tasks.view that the seed installs: every  *)
(* role sees its own tickets at least, and no task of a ticket it may not  *)
(* open. An administrator may change them.                                 *)
SeededViews ==
    \A u \in Person :
      /\ Scope(u, "tickets.view") # "NONE"
      /\ SCOPE_RANK[Scope(u, "tasks.view")] <= SCOPE_RANK[Scope(u, "tickets.view")]

TicketRows ==
    [status : {"OPEN", "IN_PROGRESS", "CLOSED"}, createdById : Person,
     assignedToId : Person \cup {Nobody}, departmentId : Department \cup {Nobody},
     category : Category \cup {Nobody}, closedAt : BOOLEAN, deleted : BOOLEAN,
     tasks : [Person -> TaskStatus \cup {NoTask}]]

TicketShapes ==
    /\ ticket \in [Ticket -> TicketRows \cup {NoTicket}]
    /\ call \in [TicketRequests -> {NoCall} \cup [pc : {"writing"}, op : TicketOps, seen : TicketRows]]
    /\ byHand \subseteq Ticket
    /\ crossed \in BOOLEAN

(* What a request checked was checked of the row it holds, which is the    *)
(* row as it is unless two writes crossed.                                 *)
CallsPassed == \A r \in TicketRequests : call[r] # NoCall => Passes(call[r].op, call[r].seen)
SeenIsNow ==
    ~crossed => \A r \in TicketRequests : call[r] # NoCall =>
      /\ ticket[call[r].op.ticket] = call[r].seen
      /\ \A other \in TicketRequests : call[other] # NoCall => other = r

NoticesOpen == \A n \in told : Exists(n[3]) /\ CanView(n[1], ticket[n[3]])

TicketsInv ==
    TicketShapes /\ CallsPassed /\ SeenIsNow /\ MirrorNamesATask /\ NoticesOpen

(* A scope is one of the four.                                             *)
LEMMA ScopesOfPeople ==
    ASSUME NEW u \in Person, NEW permission
    PROVE  Scope(u, permission) \in SCOPES
<1>1. RoleOf[u] \in DOMAIN Matrix BY TicketsAssumption
<1>2. CurrentException(Actor(u), permission) = {} BY DEF CurrentException, Actor
<1>3. CASE permission \notin Keys
  BY <1>2, <1>3 DEF Scope, ScopeOf, SCOPES
<1>4. CASE permission \in Keys
  <2>1. Matrix[RoleOf[u]][permission] \in SCOPES BY <1>1, <1>4, TicketsAssumption DEF Keys
  <2>2. RolesOf(Actor(u)) = {RoleOf[u]} BY DEF RolesOf, Actor
  <2> DEFINE m == Matrix[RoleOf[u]][permission]
  <2> DEFINE given == {Matrix[r][permission] : r \in {RoleOf[u]} \cap DOMAIN Matrix} \cup {"NONE"}
  <2>3. given = {m, "NONE"} BY <1>1
  <2>4. \A other \in given : MaxScope(m, other) = m
    BY <2>1, <2>3 DEF MaxScope, SCOPES, SCOPE_RANK
  <2>5. (CHOOSE s \in given : \A other \in given : MaxScope(s, other) = s) \in given
    BY <2>3, <2>4
  <2>6. RolesScopeOf({RoleOf[u]}, permission, Matrix) \in given BY <2>5 DEF RolesScopeOf
  <2>7. Scope(u, permission) = RolesScopeOf({RoleOf[u]}, permission, Matrix)
    BY <1>2, <1>4, <2>2 DEF Scope, ScopeOf
  <2> QED BY <2>1, <2>3, <2>6, <2>7 DEF SCOPES
<1> QED BY <1>3, <1>4

(* The OR list of a scope finds the rows the predicate of the scope lets   *)
(* through (ticketsInScopeWhere, withinScope).                             *)
LEMMA ListIsPredicate ==
    ASSUME NEW u, NEW scope \in SCOPES, NEW row \in TicketRows
    PROVE  (\E c \in TicketsInScopeWhere(Actor(u), scope) : Satisfies(Actor(u), Reachable(row), c))
             <=> WithinScope(Actor(u), scope, Reachable(row))
<1> DEFINE res == Reachable(row)
<1>1. /\ Actor(u).id = u /\ Actor(u).departmentId = DepartmentOf[u]
      /\ res.createdById = row.createdById /\ res.assignedToId = row.assignedToId
      /\ res.departmentId = row.departmentId /\ res.assignments = Assignees(row)
      /\ res["createdById"] = row.createdById /\ res["assignedToId"] = row.assignedToId
  BY DEF Actor, Reachable
<1> HIDE DEF res
<1>2. CASE scope = "ALL" BY <1>2 DEF TicketsInScopeWhere, Satisfies, WithinScope
<1>3. CASE scope = "NONE" BY <1>3 DEF TicketsInScopeWhere, Satisfies, WithinScope
<1>4. CASE scope \in {"OWN", "AREA"}
  <2>1. /\ Satisfies(Actor(u), res, "createdById") <=> row.createdById = u
        /\ Satisfies(Actor(u), res, "assignedToId") <=> row.assignedToId = u
        /\ Satisfies(Actor(u), res, "assignments") <=> u \in Assignees(row)
        /\ Satisfies(Actor(u), res, "departmentId") <=> row.departmentId = DepartmentOf[u]
    <3>1. Satisfies(Actor(u), res, "createdById") <=> row.createdById = u BY <1>1 DEF Satisfies
    <3>2. Satisfies(Actor(u), res, "assignedToId") <=> row.assignedToId = u BY <1>1 DEF Satisfies
    <3>3. Satisfies(Actor(u), res, "assignments") <=> u \in Assignees(row) BY <1>1 DEF Satisfies
    <3>4. Satisfies(Actor(u), res, "departmentId") <=> row.departmentId = DepartmentOf[u]
      BY <1>1 DEF Satisfies
    <3> QED BY <3>1, <3>2, <3>3, <3>4
  <2>2. TicketsInScopeWhere(Actor(u), scope) =
          {"createdById", "assignedToId", "assignments"}
            \cup (IF scope = "AREA" /\ DepartmentOf[u] # Nobody THEN {"departmentId"} ELSE {})
    BY <1>1, <1>4 DEF TicketsInScopeWhere
  <2>3. WithinScope(Actor(u), scope, res) <=>
          \/ row.createdById = u \/ row.assignedToId = u \/ u \in Assignees(row)
          \/ scope = "AREA" /\ DepartmentOf[u] # Nobody /\ row.departmentId = DepartmentOf[u]
    BY <1>1, <1>4 DEF WithinScope, IsOwn
  <2> QED BY <2>1, <2>2, <2>3 DEF res
<1> QED BY <1>2, <1>3, <1>4 DEF SCOPES, res

(* A wider scope reaches what a narrower one reaches.                      *)
LEMMA WiderReachesMore ==
    ASSUME NEW user, NEW res, NEW a \in SCOPES, NEW b \in SCOPES, SCOPE_RANK[a] <= SCOPE_RANK[b],
           WithinScope(user, a, res)
    PROVE  WithinScope(user, b, res)
BY DEF WithinScope, SCOPES, SCOPE_RANK

(* Whoever opened a ticket, is its assignee or holds a task of it may open *)
(* it, where every role sees its own.                                      *)
LEMMA OwnersMayOpen ==
    ASSUME SeededViews, NEW row \in TicketRows, NEW u \in Person,
           u = row.createdById \/ u = row.assignedToId \/ row.tasks[u] # NoTask
    PROVE  CanView(u, row)
<1>1. IsOwn(Actor(u), Reachable(row)) BY DEF IsOwn, Actor, Reachable, Assignees
<1>2. Scope(u, "tickets.view") \in {"OWN", "AREA", "ALL"}
  BY ScopesOfPeople DEF SeededViews, SCOPES
<1>3. WithinScope(Actor(u), Scope(u, "tickets.view"), Reachable(row)) BY <1>1, <1>2 DEF WithinScope
<1> QED BY <1>3 DEF CanView, CanViewTicket, Scope

(* Lists and the board show what the page opens.                           *)
LEMMA ListsAreOpenable ==
    ASSUME SeededViews, TicketShapes, NEW u \in Person
    PROVE  /\ ListTickets(u) = {t \in Ticket : Exists(t) /\ ~ticket[t].deleted /\ CanView(u, ticket[t])}
           /\ \A shown \in ListKanbanAssignments(u) : CanView(u, ticket[shown[1]])
<1>1. ASSUME NEW t \in Ticket, Exists(t) PROVE ticket[t] \in TicketRows
  BY <1>1 DEF Exists, TicketShapes
<1>2. ASSUME NEW row \in TicketRows
      PROVE  CanView(u, row) <=> WithinScope(Actor(u), Scope(u, "tickets.view"), Reachable(row))
  BY DEF CanView, CanViewTicket, Scope
<1>3. \A t \in Ticket : Exists(t) =>
        ((\E c \in TicketsInScopeWhere(Actor(u), Scope(u, "tickets.view")) :
            Satisfies(Actor(u), Reachable(ticket[t]), c)) <=> CanView(u, ticket[t]))
  BY <1>1, <1>2, ScopesOfPeople, ListIsPredicate
<1>4. ListTickets(u) = {t \in Ticket : Exists(t) /\ ~ticket[t].deleted /\ CanView(u, ticket[t])}
  BY <1>3 DEF ListTickets
<1>5. ASSUME NEW shown \in ListKanbanAssignments(u) PROVE CanView(u, ticket[shown[1]])
  <2> DEFINE scope == Scope(u, "tasks.view")
  <2>1. PICK t \in Ticket, v \in Person :
          /\ shown[1] = t /\ shown[2] = v
          /\ scope # "NONE" /\ Exists(t) /\ ticket[t].tasks[v] # NoTask
          /\ \/ scope = "ALL"
             \/ RoleOf[u] = "EMPLOYEE" /\ v = u
             \/ /\ RoleOf[u] # "EMPLOYEE"
                /\ \E c \in TicketsInScopeWhere(Actor(u), scope) : Satisfies(Actor(u), Reachable(ticket[t]), c)
    BY <1>5 DEF ListKanbanAssignments
  <2>2. ticket[t] \in TicketRows /\ scope \in SCOPES /\ Scope(u, "tickets.view") \in SCOPES
    BY <1>1, <2>1, ScopesOfPeople
  <2>3. SCOPE_RANK[scope] <= SCOPE_RANK[Scope(u, "tickets.view")] BY DEF SeededViews
  <2>4. CASE RoleOf[u] = "EMPLOYEE" /\ v = u
    <3>1. CanView(u, ticket[t]) BY <2>1, <2>2, <2>4, OwnersMayOpen
    <3> QED BY <2>1, <3>1
  <2>5. CASE scope = "ALL" \/ \E c \in TicketsInScopeWhere(Actor(u), scope) : Satisfies(Actor(u), Reachable(ticket[t]), c)
    <3>1. WithinScope(Actor(u), scope, Reachable(ticket[t]))
      <4>1. CASE scope = "ALL" BY <4>1 DEF WithinScope
      <4>2. CASE \E c \in TicketsInScopeWhere(Actor(u), scope) : Satisfies(Actor(u), Reachable(ticket[t]), c)
        BY <2>2, <4>2, ListIsPredicate
      <4> QED BY <2>5, <4>1, <4>2
    <3> HIDE DEF scope
    <3>2. WithinScope(Actor(u), Scope(u, "tickets.view"), Reachable(ticket[t]))
      BY <2>2, <2>3, <3>1, WiderReachesMore
    <3>3. CanView(u, ticket[t]) BY <1>2, <2>2, <3>2
    <3> QED BY <2>1, <3>3
  <2> QED BY <2>1, <2>4, <2>5
<1> QED BY <1>4, <1>5

(* The body of a request, by its kind.                                     *)
LEMMA BodyOfATicketRequest ==
    ASSUME NEW op \in TicketOps
    PROVE  /\ op.kind \in {"update", "addTask", "removeTask", "moveTask", "delete"}
           /\ op.actor \in Person /\ op.ticket \in Ticket
           /\ op.kind \in {"addTask", "removeTask", "moveTask"} => op.user \in Person
           /\ op.kind = "moveTask" => op.status \in TaskStatus
           /\ op.kind = "update" =>
                \/ op.field = "status" /\ op.value \in {"OPEN", "IN_PROGRESS", "CLOSED"}
                \/ op.field = "assignedToId" /\ op.value \in Person
                \/ op.field = "departmentId" /\ op.value \in Department
                \/ op.field = "category" /\ op.value \in Category \cup {Nobody}
<1>1. op \in UpdateOps \/ op \in TaskOps \/ op \in [kind : {"delete"}, actor : Person, ticket : Ticket]
  BY DEF TicketOps
<1>2. CASE op \in UpdateOps BY <1>2 DEF UpdateOps
<1>3. CASE op \in TaskOps BY <1>3 DEF TaskOps
<1>4. CASE op \in [kind : {"delete"}, actor : Person, ticket : Ticket] BY <1>4
<1> QED BY <1>1, <1>2, <1>3, <1>4

(* A request in flight carries a body and a row.                           *)
LEMMA CallsInFlight ==
    ASSUME TicketShapes, NEW r \in TicketRequests, call[r] # NoCall
    PROVE  call[r].op \in TicketOps /\ call[r].seen \in TicketRows
BY DEF TicketShapes

(* A row with another value in one field, or in one task, is a row.        *)
LEMMA RowWithAField ==
    ASSUME NEW row \in TicketRows
    PROVE  /\ \A v \in {"OPEN", "IN_PROGRESS", "CLOSED"} : [row EXCEPT !["status"] = v] \in TicketRows
           /\ \A v \in Person : [row EXCEPT !["assignedToId"] = v] \in TicketRows
           /\ \A v \in Department : [row EXCEPT !["departmentId"] = v] \in TicketRows
           /\ \A v \in Category \cup {Nobody} : [row EXCEPT !["category"] = v] \in TicketRows
           /\ [row EXCEPT !.deleted = TRUE] \in TicketRows
           /\ \A u \in Person, v \in TaskStatus \cup {NoTask}, a \in Person \cup {Nobody} :
                [row EXCEPT !.tasks = [row.tasks EXCEPT ![u] = v], !.assignedToId = a] \in TicketRows
           /\ \A tasks \in [Person -> TaskStatus \cup {NoTask}] :
                [row EXCEPT !.closedAt = TRUE, !.tasks = tasks] \in TicketRows
<1> USE DEF TicketRows
<1>1. \A v \in {"OPEN", "IN_PROGRESS", "CLOSED"} : [row EXCEPT !["status"] = v] \in TicketRows OBVIOUS
<1>2. \A v \in Person : [row EXCEPT !["assignedToId"] = v] \in TicketRows OBVIOUS
<1>3. \A v \in Department : [row EXCEPT !["departmentId"] = v] \in TicketRows OBVIOUS
<1>4. \A v \in Category \cup {Nobody} : [row EXCEPT !["category"] = v] \in TicketRows OBVIOUS
<1>5. [row EXCEPT !.deleted = TRUE] \in TicketRows OBVIOUS
<1>6. \A u \in Person, v \in TaskStatus \cup {NoTask}, a \in Person \cup {Nobody} :
        [row EXCEPT !.tasks = [row.tasks EXCEPT ![u] = v], !.assignedToId = a] \in TicketRows
  OBVIOUS
<1>7. \A tasks \in [Person -> TaskStatus \cup {NoTask}] :
        [row EXCEPT !.closedAt = TRUE, !.tasks = tasks] \in TicketRows
  OBVIOUS
<1> QED BY <1>1, <1>2, <1>3, <1>4, <1>5, <1>6, <1>7

(* The mirror of one row.                                                  *)
Mirrored(row) ==
    IF row.assignedToId = Nobody THEN Assignees(row) = {} ELSE row.assignedToId \in Assignees(row)

(* What an operation of a request writes: one row, which the people it     *)
(* tells own, and whose mirror is true if it was, the row was the one the  *)
(* request had seen, and nobody chose the assignee.                        *)
RowWritten(r, row) ==
    LET t == call[r].op.ticket
    IN  /\ t \in Ticket /\ Exists(t)
        /\ row \in TicketRows \cup {NoTicket}
        /\ ticket' = [ticket EXCEPT ![t] = row]
        /\ byHand \subseteq byHand' /\ byHand' \subseteq Ticket
        /\ \A n \in told' : /\ row # NoTicket /\ n[3] = t /\ n[1] \in Person
                            /\ \/ n[1] = row.createdById \/ n[1] = row.assignedToId
                               \/ row.tasks[n[1]] # NoTask
        /\ (/\ call[r].seen = ticket[t] /\ t \notin byHand' /\ row # NoTicket
            /\ Mirrored(ticket[t])) => Mirrored(row)

(* A change of fields: the assignee is chosen by hand, tasks keep holders. *)
LEMMA UpdateWritesARow ==
    ASSUME TicketShapes, NEW r \in TicketRequests, call[r] # NoCall, UpdateTicket(r)
    PROVE  \E row : RowWritten(r, row)
<1> DEFINE op == call[r].op
           t == call[r].op.ticket
           old == ticket[t]
           changes == call[r].seen[op.field] # op.value
           row == [old EXCEPT ![op.field] = op.value]
           done == [row EXCEPT !.closedAt = TRUE,
                               !.tasks = [u \in Person |-> IF row.tasks[u] = NoTask THEN NoTask ELSE "COMPLETED"]]
           new == IF ~changes THEN old ELSE IF op.value = "CLOSED" THEN done ELSE row
<1>1. op \in TicketOps /\ call[r].seen \in TicketRows /\ op.kind = "update" /\ Exists(t)
  BY CallsInFlight DEF UpdateTicket
<1>2. /\ t \in Ticket /\ op.actor \in Person
      /\ \/ op.field = "status" /\ op.value \in {"OPEN", "IN_PROGRESS", "CLOSED"}
         \/ op.field = "assignedToId" /\ op.value \in Person
         \/ op.field = "departmentId" /\ op.value \in Department
         \/ op.field = "category" /\ op.value \in Category \cup {Nobody}
  BY <1>1, BodyOfATicketRequest
<1>3. old \in TicketRows BY <1>1, <1>2 DEF Exists, TicketShapes
<1>4. row \in TicketRows BY <1>2, <1>3, RowWithAField
<1>5. /\ row.createdById = old.createdById /\ row.tasks = old.tasks
      /\ row.assignedToId = IF op.field = "assignedToId" THEN op.value ELSE old.assignedToId
  BY <1>2, <1>3 DEF TicketRows
<1>6. ticket' = [ticket EXCEPT ![t] = new] BY DEF UpdateTicket
<1> HIDE DEF row
<1>7. /\ done \in TicketRows
      /\ done.createdById = row.createdById /\ done.assignedToId = row.assignedToId
      /\ Assignees(done) = Assignees(row)
  <2> DEFINE tasks == [u \in Person |-> IF row.tasks[u] = NoTask THEN NoTask ELSE "COMPLETED"]
  <2>1. tasks \in [Person -> TaskStatus \cup {NoTask}] BY DEF TaskStatus
  <2>2. done \in TicketRows BY <1>4, <2>1, RowWithAField
  <2>3. done.createdById = row.createdById /\ done.assignedToId = row.assignedToId /\ done.tasks = tasks
    BY <1>4 DEF TicketRows
  <2>4. \A u \in Person : tasks[u] # NoTask <=> row.tasks[u] # NoTask BY DEF NoTask
  <2> QED BY <2>2, <2>3, <2>4 DEF Assignees
<1> HIDE DEF done
<1>8. /\ new \in TicketRows /\ new.createdById = old.createdById
      /\ Assignees(new) = Assignees(old)
      /\ new.assignedToId = IF changes /\ op.field = "assignedToId" THEN op.value ELSE old.assignedToId
  BY <1>3, <1>4, <1>5, <1>7 DEF Assignees
<1> HIDE DEF new, changes, old
<1>9. byHand' = IF op.field = "assignedToId" /\ changes THEN byHand \cup {t} ELSE byHand
  BY DEF UpdateTicket, changes
<1>10. byHand \subseteq byHand' /\ byHand' \subseteq Ticket BY <1>2, <1>9 DEF TicketShapes
<1>11. ASSUME NEW n \in told'
       PROVE  /\ n[3] = t /\ n[1] \in Person
              /\ n[1] = new.createdById \/ n[1] = new.assignedToId
  <2>1. told' = IF changes /\ op.field = "status"
                THEN {<<u, "TICKET_UPDATED", t>> : u \in Others(old, op.actor)}
                ELSE IF changes /\ op.field = "assignedToId" THEN {<<op.value, "ASSIGNED", t>>} ELSE {}
    BY DEF UpdateTicket, changes, old
  <2>2. CASE changes /\ op.field = "status"
    <3>1. PICK u \in Others(old, op.actor) : n = <<u, "TICKET_UPDATED", t>> BY <1>11, <2>1, <2>2
    <3>2. u \in Person /\ (u = old.createdById \/ u = old.assignedToId) BY <1>3, <3>1 DEF Others, TicketRows
    <3> QED BY <1>8, <2>2, <3>1, <3>2
  <2>3. CASE changes /\ op.field = "assignedToId" BY <1>2, <1>8, <1>11, <2>1, <2>3
  <2> QED BY <1>11, <2>1, <2>2, <2>3
<1>12. t \notin byHand' /\ Mirrored(old) => Mirrored(new) BY <1>8, <1>9 DEF Mirrored
<1>13. new # NoTicket /\ new.tasks = new.tasks BY <1>8 DEF TicketRows, NoTicket
<1> QED BY <1>1, <1>2, <1>6, <1>8, <1>10, <1>11, <1>12, <1>13 DEF RowWritten, old

(* A row with a task more, less or moved.                                  *)
WithTask(row, u, v, a) == [row EXCEPT !.tasks = [row.tasks EXCEPT ![u] = v], !.assignedToId = a]

(* Its holders are the ones it had, but for the one of the task.           *)
LEMMA RowWithATask ==
    ASSUME NEW row \in TicketRows, NEW u \in Person, NEW v \in TaskStatus \cup {NoTask},
           NEW a \in Person \cup {Nobody}
    PROVE  /\ WithTask(row, u, v, a) \in TicketRows /\ WithTask(row, u, v, a) # NoTicket
           /\ WithTask(row, u, v, a).createdById = row.createdById /\ WithTask(row, u, v, a).assignedToId = a
           /\ WithTask(row, u, v, a).tasks[u] = v
           /\ Assignees(WithTask(row, u, v, a)) = IF v = NoTask THEN Assignees(row) \ {u} ELSE Assignees(row) \cup {u}
<1>1. WithTask(row, u, v, a) \in TicketRows BY RowWithAField DEF WithTask
<1>2. /\ WithTask(row, u, v, a).createdById = row.createdById /\ WithTask(row, u, v, a).assignedToId = a
      /\ WithTask(row, u, v, a).tasks = [row.tasks EXCEPT ![u] = v]
  BY DEF TicketRows, WithTask
<1>3. WithTask(row, u, v, a).tasks[u] = v /\ \A x \in Person : x # u => WithTask(row, u, v, a).tasks[x] = row.tasks[x]
  BY <1>2 DEF TicketRows
<1>4. WithTask(row, u, v, a) # NoTicket BY <1>1 DEF TicketRows, NoTicket
<1> QED BY <1>1, <1>2, <1>3, <1>4 DEF Assignees

(* The first task becomes the assignee, if there was none.                 *)
LEMMA AddingWritesARow ==
    ASSUME TicketShapes, NEW r \in TicketRequests, call[r] # NoCall, AddTicketAssignment(r)
    PROVE  \E row : RowWritten(r, row)
<1> DEFINE op == call[r].op
           t == call[r].op.ticket
           old == ticket[t]
<1>a. PICK a : a = IF call[r].seen.assignedToId = Nobody THEN op.user ELSE old.assignedToId OBVIOUS
<1>n. PICK new : new = WithTask(old, op.user, "PENDING", a) OBVIOUS
<1>1. op \in TicketOps /\ op.kind = "addTask" /\ Exists(t) BY CallsInFlight DEF AddTicketAssignment
<1>2. t \in Ticket /\ op.user \in Person BY <1>1, BodyOfATicketRequest
<1>3. old \in TicketRows BY <1>1, <1>2 DEF Exists, TicketShapes
<1>4. a \in Person \cup {Nobody} /\ "PENDING" \in TaskStatus \cup {NoTask}
  BY <1>a, <1>2, <1>3 DEF TicketRows, TaskStatus
<1>5. /\ new \in TicketRows /\ new # NoTicket /\ new.assignedToId = a /\ new.tasks[op.user] = "PENDING"
      /\ Assignees(new) = Assignees(old) \cup {op.user}
  <2>1. "PENDING" # NoTask BY DEF NoTask
  <2> QED BY <1>n, <1>2, <1>3, <1>4, <2>1, RowWithATask
<1>6. ticket' = [ticket EXCEPT ![t] = new]
  BY <1>a, <1>n, <1>2, <1>3 DEF AddTicketAssignment, TicketShapes, TicketRows, WithTask
<1>7. told' = {<<op.user, "ASSIGNED", t>>} /\ byHand' = byHand BY DEF AddTicketAssignment
<1>8. call[r].seen = old /\ Mirrored(old) => Mirrored(new)
  BY <1>a, <1>2, <1>5, TicketsAssumption DEF Mirrored
<1>9. \A n \in told' : n[3] = t /\ n[1] \in Person /\ new.tasks[n[1]] # NoTask
  BY <1>2, <1>5, <1>7 DEF NoTask
<1>10. byHand' \subseteq Ticket BY <1>7 DEF TicketShapes
<1> QED BY <1>1, <1>2, <1>5, <1>6, <1>7, <1>8, <1>9, <1>10 DEF RowWritten

(* Moving a task gives and takes none.                                     *)
LEMMA MovingWritesARow ==
    ASSUME TicketShapes, NEW r \in TicketRequests, call[r] # NoCall, UpdateTicketAssignment(r)
    PROVE  \E row : RowWritten(r, row)
<1> DEFINE op == call[r].op
           t == call[r].op.ticket
           old == ticket[t]
<1>n. PICK new : new = WithTask(old, op.user, op.status, old.assignedToId) OBVIOUS
<1>1. /\ op \in TicketOps /\ op.kind = "moveTask" /\ Exists(t)
      /\ old.tasks[op.user] # NoTask
  BY CallsInFlight DEF UpdateTicketAssignment
<1>2. t \in Ticket /\ op.user \in Person /\ op.status \in TaskStatus BY <1>1, BodyOfATicketRequest
<1>3. old \in TicketRows BY <1>1, <1>2 DEF Exists, TicketShapes
<1>4. old.assignedToId \in Person \cup {Nobody} /\ op.status # NoTask
  BY <1>2, <1>3 DEF TicketRows, TaskStatus, NoTask
<1>5. /\ new \in TicketRows /\ new # NoTicket /\ new.assignedToId = old.assignedToId
      /\ Assignees(new) = Assignees(old) \cup {op.user}
  BY <1>n, <1>2, <1>3, <1>4, RowWithATask
<1>6. Assignees(new) = Assignees(old) BY <1>1, <1>2, <1>5 DEF Assignees
<1>7. ticket' = [ticket EXCEPT ![t] = new]
  BY <1>n, <1>2, <1>3 DEF UpdateTicketAssignment, TicketShapes, TicketRows, WithTask
<1>8. told' = {} /\ byHand' = byHand BY DEF UpdateTicketAssignment
<1>9. Mirrored(old) => Mirrored(new) BY <1>5, <1>6 DEF Mirrored
<1> QED BY <1>1, <1>2, <1>5, <1>7, <1>8, <1>9 DEF RowWritten, TicketShapes

(* The assignee goes with the task, to another holder or to nobody.        *)
LEMMA RemovingWritesARow ==
    ASSUME TicketShapes, NEW r \in TicketRequests, call[r] # NoCall, RemoveTicketAssignment(r)
    PROVE  \E row : RowWritten(r, row)
<1> DEFINE op == call[r].op
           t == call[r].op.ticket
           old == ticket[t]
           rest == IF Exists(t) THEN Assignees(old) \ {op.user} ELSE {}
<1>1. /\ op \in TicketOps /\ op.kind = "removeTask" /\ Exists(t)
      /\ old.tasks[op.user] # NoTask
  BY CallsInFlight DEF RemoveTicketAssignment
<1>2. t \in Ticket /\ op.user \in Person BY <1>1, BodyOfATicketRequest
<1>3. old \in TicketRows BY <1>1, <1>2 DEF Exists, TicketShapes
<1>4. PICK next \in (IF rest = {} THEN {Nobody} ELSE rest) :
        ticket' = [ticket EXCEPT
          ![t].tasks[op.user] = NoTask,
          ![t].assignedToId = IF call[r].seen.assignedToId = op.user THEN next ELSE @]
  BY DEF RemoveTicketAssignment
<1>a. PICK a : a = IF call[r].seen.assignedToId = op.user THEN next ELSE old.assignedToId OBVIOUS
<1>n. PICK new : new = WithTask(old, op.user, NoTask, a) OBVIOUS
<1>5. rest \subseteq Person BY DEF Assignees
<1>6. a \in Person \cup {Nobody} BY <1>a, <1>3, <1>5 DEF TicketRows
<1>7. /\ new \in TicketRows /\ new # NoTicket /\ new.assignedToId = a
      /\ Assignees(new) = Assignees(old) \ {op.user}
  <2>1. PICK none \in TaskStatus \cup {NoTask} : none = NoTask OBVIOUS
  <2>2. new = WithTask(old, op.user, none, a) BY <1>n, <2>1
  <2>3. /\ new \in TicketRows /\ new # NoTicket /\ new.assignedToId = a
        /\ Assignees(new) = IF none = NoTask THEN Assignees(old) \ {op.user} ELSE Assignees(old) \cup {op.user}
    <3>1. PICK u \in Person : u = op.user BY <1>2
    <3>2. PICK before \in TicketRows : before = old BY <1>3
    <3>3. new = WithTask(before, u, none, a) BY <2>2, <3>1, <3>2
    <3> HIDE DEF op, old
    <3>4. /\ WithTask(before, u, none, a) \in TicketRows /\ WithTask(before, u, none, a) # NoTicket
          /\ WithTask(before, u, none, a).assignedToId = a
          /\ Assignees(WithTask(before, u, none, a)) =
               IF none = NoTask THEN Assignees(before) \ {u} ELSE Assignees(before) \cup {u}
      BY <1>6, <2>1, RowWithATask
    <3> QED BY <3>1, <3>2, <3>3, <3>4
  <2> QED BY <2>1, <2>3
<1>8. ticket' = [ticket EXCEPT ![t] = new] BY <1>a, <1>n, <1>2, <1>3, <1>4 DEF TicketShapes, TicketRows, WithTask
<1>9. told' = {} /\ byHand' = byHand BY DEF RemoveTicketAssignment
<1>10. op.user \in Assignees(old) BY <1>1, <1>2 DEF Assignees
<1>11. call[r].seen = old /\ Mirrored(old) => Mirrored(new)
  <2> SUFFICES ASSUME call[r].seen = old, Mirrored(old) PROVE Mirrored(new) OBVIOUS
  <2>1. Assignees(new) = rest BY <1>1, <1>7
  <2>2. CASE old.assignedToId = op.user
    <3>1. new.assignedToId = next BY <1>a, <1>7, <2>2
    <3>2. rest = {} => next = Nobody OBVIOUS
    <3>3. rest # {} => next \in rest /\ next # Nobody BY <1>5, TicketsAssumption
    <3> HIDE DEF rest
    <3> QED BY <2>1, <3>1, <3>2, <3>3 DEF Mirrored
  <2>3. CASE old.assignedToId # op.user
    <3>1. new.assignedToId = old.assignedToId BY <1>a, <1>7, <2>3
    <3>2. old.assignedToId \in Assignees(old) BY <1>10 DEF Mirrored
    <3>3. old.assignedToId # Nobody BY <1>10 DEF Mirrored
    <3> QED BY <1>7, <2>3, <3>1, <3>2, <3>3 DEF Mirrored
  <2> QED BY <2>2, <2>3
<1> QED BY <1>1, <1>2, <1>7, <1>8, <1>9, <1>11 DEF RowWritten, TicketShapes

(* The trash keeps the row, and deletion leaves none.                      *)
LEMMA DeletingWritesARow ==
    ASSUME TicketShapes, NEW r \in TicketRequests, call[r] # NoCall, DeleteTicket(r)
    PROVE  \E row : RowWritten(r, row)
<1> DEFINE op == call[r].op
           t == call[r].op.ticket
           old == ticket[t]
           trashed == [old EXCEPT !.deleted = TRUE]
           new == IF call[r].seen.deleted THEN NoTicket ELSE trashed
<1>1. op \in TicketOps /\ Exists(t) BY CallsInFlight DEF DeleteTicket
<1>2. t \in Ticket BY <1>1, BodyOfATicketRequest
<1>3. old \in TicketRows BY <1>1, <1>2 DEF Exists, TicketShapes
<1>4. trashed \in TicketRows BY <1>3, RowWithAField
<1>5. trashed.assignedToId = old.assignedToId /\ trashed.tasks = old.tasks BY <1>3 DEF TicketRows
<1> HIDE DEF trashed
<1>6. Mirrored(old) => Mirrored(trashed) BY <1>5 DEF Mirrored, Assignees
<1>7. ticket' = [ticket EXCEPT ![t] = new] /\ told' = {} /\ byHand' = byHand BY DEF DeleteTicket, trashed
<1>8. new \in TicketRows \cup {NoTicket} BY <1>4
<1> QED BY <1>1, <1>2, <1>6, <1>7, <1>8 DEF RowWritten, TicketShapes

(* A write leaves the invariant: the request that wrote was alone unless   *)
(* two crossed.                                                            *)
LEMMA WriteTicketKeeps ==
    ASSUME SeededViews, TicketsInv, NEW r \in TicketRequests, WriteTicket(r)
    PROVE  TicketsInv'
<1> USE DEF TicketsInv
<1>1. PICK row : RowWritten(r, row)
  BY UpdateWritesARow, AddingWritesARow, MovingWritesARow, RemovingWritesARow, DeletingWritesARow
  DEF WriteTicket
<1>2. call[r] # NoCall /\ call' = [call EXCEPT ![r] = NoCall] /\ crossed' = crossed
  BY DEF WriteTicket, Finish
<1> DEFINE t == call[r].op.ticket
<1>3. /\ t \in Ticket /\ Exists(t) /\ row \in TicketRows \cup {NoTicket}
      /\ ticket' = [ticket EXCEPT ![t] = row]
  BY <1>1 DEF RowWritten
<1>4. ticket'[t] = row /\ \A other \in Ticket : other # t => ticket'[other] = ticket[other]
  BY <1>3 DEF TicketShapes
<1>5. TicketShapes' BY <1>1, <1>2, <1>3 DEF TicketShapes, RowWritten
<1>6. CallsPassed' BY <1>2 DEF CallsPassed, TicketShapes
<1>7. ~crossed => \A other \in TicketRequests : call'[other] = NoCall
  BY <1>2 DEF SeenIsNow, TicketShapes
<1>8. SeenIsNow' BY <1>2, <1>7 DEF SeenIsNow
<1>9. MirrorNamesATask'
  <2> SUFFICES ASSUME ~crossed', NEW u \in Ticket, Exists(u)', u \notin byHand'
               PROVE  Mirrored(ticket'[u])
    BY DEF MirrorNamesATask, Mirrored, Exists, Assignees
  <2>1. u \notin byHand /\ ~crossed BY <1>1, <1>2 DEF RowWritten
  <2>2. CASE u # t
    <3>1. Exists(u) /\ ticket'[u] = ticket[u] BY <1>4, <2>2 DEF Exists
    <3> QED BY <2>1, <3>1 DEF MirrorNamesATask, Mirrored
  <2>3. CASE u = t
    <3>1. Mirrored(ticket[t]) BY <1>3, <2>1, <2>3 DEF MirrorNamesATask, Mirrored
    <3>2. call[r].seen = ticket[t] BY <1>2, <2>1 DEF SeenIsNow
    <3>3. row # NoTicket BY <1>4, <2>3 DEF Exists
    <3> QED BY <1>1, <1>4, <2>3, <3>1, <3>2, <3>3 DEF RowWritten
  <2> QED BY <2>2, <2>3
<1>10. NoticesOpen'
  <2> SUFFICES ASSUME NEW n \in told' PROVE Exists(n[3])' /\ CanView(n[1], ticket'[n[3]])
    BY DEF NoticesOpen, CanView
  <2>1. /\ row # NoTicket /\ n[3] = t /\ n[1] \in Person
        /\ n[1] = row.createdById \/ n[1] = row.assignedToId \/ row.tasks[n[1]] # NoTask
    BY <1>1 DEF RowWritten
  <2>2. row \in TicketRows BY <1>3, <2>1
  <2>3. CanView(n[1], row) BY <2>1, <2>2, OwnersMayOpen
  <2>4. ticket'[n[3]] = row BY <1>4, <2>1
  <2> QED BY <2>1, <2>3, <2>4 DEF Exists
<1> QED BY <1>5, <1>6, <1>8, <1>9, <1>10

(* A ticket that is opened belongs to nobody's request.                    *)
LEMMA CreateTicketKeeps ==
    ASSUME SeededViews, TicketsInv, NEW actor \in Person, NEW t \in Ticket, NEW author \in Person,
           NEW assignee \in Person \cup {Nobody}, NEW chosen \in Department \cup {Nobody},
           NEW c \in Category \cup {Nobody}, CreateTicket(actor, t, author, assignee, chosen, c)
    PROVE  TicketsInv'
<1> USE DEF TicketsInv
<1>1. PICK row :
        /\ row = [status |-> "OPEN", createdById |-> author, assignedToId |-> assignee,
                  departmentId |-> OwnerDepartment(actor, author, chosen), category |-> c,
                  closedAt |-> FALSE, deleted |-> FALSE, tasks |-> [u \in Person |-> NoTask]]
        /\ ticket' = [ticket EXCEPT ![t] = row]
  BY DEF CreateTicket
<1>2. OwnerDepartment(actor, author, chosen) \in Department \cup {Nobody}
  BY TicketsAssumption DEF OwnerDepartment
<1>3. row \in TicketRows BY <1>1, <1>2 DEF TicketRows
<1>4. row.createdById = author /\ row.assignedToId = assignee /\ Assignees(row) = {}
  BY <1>1 DEF Assignees
<1>5. /\ ticket[t] = NoTicket /\ ticket'[t] = row
      /\ \A other \in Ticket : other # t => ticket'[other] = ticket[other]
  BY <1>1 DEF TicketShapes, CreateTicket, Exists
<1>6. /\ call' = call /\ crossed' = crossed
      /\ byHand' = IF assignee = Nobody THEN byHand \ {t} ELSE byHand \cup {t}
      /\ told' = (IF assignee # Nobody THEN {<<assignee, "ASSIGNED", t>>} ELSE {})
                 \cup (IF author # actor THEN {<<author, "TICKET_CREATED", t>>} ELSE {})
  BY DEF CreateTicket
<1>7. TicketShapes' BY <1>1, <1>3, <1>6 DEF TicketShapes
<1>8. CallsPassed' BY <1>6 DEF CallsPassed
<1>9. SeenIsNow'
  <2>1. ASSUME ~crossed, NEW r \in TicketRequests, call[r] # NoCall
        PROVE  ticket'[call[r].op.ticket] = call[r].seen
    <3>1. call[r].op.ticket \in Ticket BY <2>1, CallsInFlight, BodyOfATicketRequest
    <3>2. call[r].seen # NoTicket BY <2>1, CallsInFlight DEF TicketRows, NoTicket
    <3>3. ticket[call[r].op.ticket] = call[r].seen BY <2>1 DEF SeenIsNow
    <3> QED BY <1>5, <3>1, <3>2, <3>3
  <2> QED BY <1>6, <2>1 DEF SeenIsNow
<1>10. MirrorNamesATask'
  <2> SUFFICES ASSUME ~crossed', NEW u \in Ticket, Exists(u)', u \notin byHand'
               PROVE  Mirrored(ticket'[u])
    BY DEF MirrorNamesATask, Mirrored, Exists, Assignees
  <2>1. CASE u # t
    <3>1. Exists(u) /\ ticket'[u] = ticket[u] BY <1>5, <2>1 DEF Exists
    <3>2. u \notin byHand /\ ~crossed BY <1>6, <2>1
    <3> QED BY <3>1, <3>2 DEF MirrorNamesATask, Mirrored
  <2>2. CASE u = t BY <1>4, <1>5, <1>6, <2>2 DEF Mirrored
  <2> QED BY <2>1, <2>2
<1>11. NoticesOpen'
  <2> SUFFICES ASSUME NEW n \in told' PROVE Exists(n[3])' /\ CanView(n[1], ticket'[n[3]])
    BY DEF NoticesOpen, CanView
  <2>1. n[3] = t /\ n[1] \in Person /\ (n[1] = row.createdById \/ n[1] = row.assignedToId)
    BY <1>4, <1>6
  <2>2. CanView(n[1], row) BY <1>3, <2>1, OwnersMayOpen
  <2>3. row # NoTicket BY <1>3 DEF TicketRows, NoTicket
  <2> QED BY <1>5, <2>1, <2>2, <2>3 DEF Exists
<1> QED BY <1>7, <1>8, <1>9, <1>10, <1>11

(* A request that has read its ticket.                                     *)
LEMMA ReadTicketKeeps ==
    ASSUME TicketsInv, NEW r \in TicketRequests, ReadTicket(r)
    PROVE  TicketsInv'
<1> USE DEF TicketsInv
<1>1. PICK op \in TicketOps :
        /\ Exists(op.ticket) /\ Passes(op, ticket[op.ticket])
        /\ call' = [call EXCEPT ![r] = [pc |-> "writing", op |-> op, seen |-> ticket[op.ticket]]]
  BY DEF ReadTicket
<1>2. op.ticket \in Ticket BY BodyOfATicketRequest
<1>3. ticket[op.ticket] \in TicketRows BY <1>1, <1>2 DEF Exists, TicketShapes
<1>4. /\ ticket' = ticket /\ byHand' = byHand /\ told' = {}
      /\ crossed' = (crossed \/ InFlight # {}) /\ call[r] = NoCall
  BY DEF ReadTicket
<1>5. PICK new : new = [pc |-> "writing", op |-> op, seen |-> ticket[op.ticket]] OBVIOUS
<1>6. /\ new \in [pc : {"writing"}, op : TicketOps, seen : TicketRows]
      /\ new.op = op /\ new.seen = ticket[op.ticket] /\ call' = [call EXCEPT ![r] = new]
  BY <1>1, <1>3, <1>5
<1>7. call'[r] = new /\ \A other \in TicketRequests : other # r => call'[other] = call[other]
  BY <1>6 DEF TicketShapes
<1>8. TicketShapes' BY <1>4, <1>6 DEF TicketShapes
<1>9. CallsPassed'
  <2> SUFFICES ASSUME NEW q \in TicketRequests, call'[q] # NoCall
               PROVE  Passes(call'[q].op, call'[q].seen)
    BY DEF CallsPassed, Passes, MayUpdate, MayAddTask, MayRemoveTask, MayMoveTask, MayDelete, CanView, May
  <2> QED BY <1>1, <1>6, <1>7 DEF CallsPassed
<1>10. SeenIsNow'
  <2> SUFFICES ASSUME ~crossed', NEW q \in TicketRequests, call'[q] # NoCall
               PROVE  /\ ticket'[call'[q].op.ticket] = call'[q].seen
                      /\ \A other \in TicketRequests : call'[other] # NoCall => other = q
    BY DEF SeenIsNow
  <2>1. \A other \in TicketRequests : call[other] = NoCall BY <1>4 DEF InFlight
  <2>2. q = r /\ \A other \in TicketRequests : call'[other] # NoCall => other = r
    BY <1>7, <2>1
  <2> QED BY <1>4, <1>6, <1>7, <2>2
<1>11. MirrorNamesATask' BY <1>4 DEF MirrorNamesATask, Exists, Assignees
<1>12. NoticesOpen' BY <1>4 DEF NoticesOpen
<1> QED BY <1>8, <1>9, <1>10, <1>11, <1>12

(* What leaves tickets and requests as they are, and tells what may be     *)
(* opened.                                                                 *)
LEMMA SameTicketsKeep ==
    ASSUME TicketsInv, UNCHANGED <<ticket, call, byHand, crossed>>, NoticesOpen'
    PROVE  TicketsInv'
<1>1. TicketShapes' /\ SeenIsNow' /\ MirrorNamesATask'
  BY DEF TicketsInv, TicketShapes, SeenIsNow, MirrorNamesATask, Exists, Assignees
<1>2. CallsPassed'
  BY ZenonT(30) DEF TicketsInv, CallsPassed, Passes, MayUpdate, MayAddTask, MayRemoveTask, MayMoveTask, MayDelete,
         CanView, May
<1> QED BY <1>1, <1>2 DEF TicketsInv

(* A request that ends without a write.                                    *)
LEMMA WriteFailsKeeps ==
    ASSUME TicketsInv, NEW r \in TicketRequests, WriteFails(r)
    PROVE  TicketsInv'
<1> USE DEF TicketsInv
<1>1. /\ ticket' = ticket /\ byHand' = byHand /\ crossed' = crossed /\ told' = {}
      /\ call' = [call EXCEPT ![r] = NoCall]
  BY DEF WriteFails, Finish
<1>2. \A q \in TicketRequests : call'[q] # NoCall => call'[q] = call[q] BY <1>1 DEF TicketShapes
<1>3. TicketShapes' BY <1>1 DEF TicketShapes
<1>4. CallsPassed'
  BY ZenonT(30), <1>2 DEF CallsPassed, Passes, MayUpdate, MayAddTask, MayRemoveTask, MayMoveTask, MayDelete, CanView, May
<1>5. SeenIsNow' BY <1>1, <1>2 DEF SeenIsNow
<1>6. MirrorNamesATask' BY <1>1 DEF MirrorNamesATask, Exists, Assignees
<1>7. NoticesOpen' BY <1>1 DEF NoticesOpen
<1> QED BY <1>3, <1>4, <1>5, <1>6, <1>7

(* A comment is told to those who own the ticket.                          *)
LEMMA AddCommentKeeps ==
    ASSUME SeededViews, TicketsInv, NEW actor \in Person, NEW t \in Ticket, AddComment(actor, t)
    PROVE  TicketsInv'
<1>1. UNCHANGED <<ticket, call, byHand, crossed>> /\ Exists(t)
      /\ told' = {<<u, "COMMENT", t>> : u \in Others(ticket[t], actor)}
  BY DEF AddComment
<1>2. ticket[t] \in TicketRows BY <1>1 DEF TicketsInv, TicketShapes, Exists
<1>3. ASSUME NEW n \in told' PROVE Exists(n[3])' /\ CanView(n[1], ticket'[n[3]])
  <2>1. PICK u \in Others(ticket[t], actor) : n = <<u, "COMMENT", t>> BY <1>1, <1>3
  <2>2. u \in Person /\ (u = ticket[t].createdById \/ u = ticket[t].assignedToId)
    BY <1>2, <2>1 DEF Others, TicketRows
  <2>3. CanView(u, ticket[t]) BY <1>2, <2>2, OwnersMayOpen
  <2> QED BY <1>1, <2>1, <2>3 DEF Exists
<1>4. NoticesOpen' BY <1>3 DEF NoticesOpen, CanView
<1> QED BY <1>1, <1>4, SameTicketsKeep

(* Every step keeps the invariant.                                         *)
LEMMA TicketsInvNext ==
    ASSUME SeededViews, TicketsInv, [TicketsNext]_ticketVars
    PROVE  TicketsInv'
<1>1. ASSUME UNCHANGED <<ticket, call, byHand, crossed>>, told' = {} PROVE TicketsInv'
  BY <1>1, SameTicketsKeep DEF NoticesOpen
<1>2. ASSUME NEW u \in Person, NEW v \in Person, NEW t \in Ticket, AddAssignmentComment(u, t, v)
      PROVE  TicketsInv'
  BY <1>1, <1>2 DEF AddAssignmentComment
<1>3. ASSUME NEW c \in Category,
             CreateCategory(c) \/ RemoveCategory(c) \/ \E active \in BOOLEAN : UpdateCategory(c, active)
      PROVE  TicketsInv'
  BY <1>1, <1>3 DEF CreateCategory, RemoveCategory, UpdateCategory, SetCategory
<1>4. CASE UNCHANGED ticketVars
  <2>1. UNCHANGED <<ticket, call, byHand, crossed, told>> BY <1>4 DEF ticketVars
  <2>2. NoticesOpen' BY <2>1 DEF TicketsInv, NoticesOpen, Exists, CanView
  <2> QED BY <2>1, <2>2, SameTicketsKeep
<1>5. ASSUME NEW u \in Person, NEW author \in Person, NEW t \in Ticket, NEW assignee \in Person \cup {Nobody},
             NEW d \in Department \cup {Nobody}, NEW c \in Category \cup {Nobody},
             CreateTicket(u, t, author, assignee, d, c)
      PROVE  TicketsInv'
  BY <1>5, CreateTicketKeeps
<1>6. ASSUME NEW u \in Person, NEW t \in Ticket, AddComment(u, t) PROVE TicketsInv'
  BY <1>6, AddCommentKeeps
<1>7. ASSUME NEW r \in TicketRequests, ReadTicket(r) \/ WriteTicket(r) \/ WriteFails(r) PROVE TicketsInv'
  BY <1>7, ReadTicketKeeps, WriteTicketKeeps, WriteFailsKeeps
<1> QED BY <1>2, <1>3, <1>4, <1>5, <1>6, <1>7 DEF TicketsNext

(* Nothing is open at first.                                               *)
LEMMA TicketsInvInit == TicketsInit => TicketsInv
BY DEF TicketsInit, TicketsInv, TicketShapes, CallsPassed, SeenIsNow, MirrorNamesATask, NoticesOpen, Exists

(* What a move of a task may do, when the request saw the row as it is.    *)
HolderAdvances(op, row) ==
    \/ May(op.actor, "tasks.assign", row) \/ May(op.actor, "tasks.complete", row)
    \/ /\ op.actor = op.user /\ op.status # "COMPLETED"
       /\ Rank[op.status] > Rank[row.tasks[op.user]]

(* Who passed as the holder alone asks for a later state, not the last.    *)
LEMMA PassedAsHolder ==
    ASSUME TicketsInv, NEW r \in TicketRequests, call[r] # NoCall, call[r].op.kind = "moveTask", ~crossed
    PROVE  HolderAdvances(call[r].op, ticket[call[r].op.ticket])
<1> DEFINE op == call[r].op
           row == ticket[op.ticket]
<1>1. op \in TicketOps /\ row = call[r].seen /\ row \in TicketRows /\ Passes(op, row)
  BY CallsInFlight DEF TicketsInv, SeenIsNow, CallsPassed
<1>2. op.user \in Person /\ op.status \in TaskStatus BY <1>1, BodyOfATicketRequest
<1>3. MayMoveTask(op, row) BY <1>1 DEF Passes
<1>4. row.tasks[op.user] \in TaskStatus BY <1>1, <1>2, <1>3 DEF MayMoveTask, TicketRows
<1>5. CASE ~May(op.actor, "tasks.assign", row) /\ ~May(op.actor, "tasks.complete", row)
  <2>1. /\ op.actor = op.user /\ op.status # "COMPLETED"
        /\ op.status \in AllowedTransitions[row.tasks[op.user]]
    BY <1>3, <1>5 DEF MayMoveTask
  <2>2. Rank[op.status] > Rank[row.tasks[op.user]]
    <3>1. PICK asked, before \in TaskStatus : asked = op.status /\ before = row.tasks[op.user]
      BY <1>2, <1>4
    <3>2. asked \in AllowedTransitions[before] BY <2>1, <3>1
    <3>3. Rank["PENDING"] = 0 /\ Rank["IN_PROGRESS"] = 1 /\ Rank["IN_REVIEW"] = 2 /\ Rank["COMPLETED"] = 3
      BY DEF Rank
    <3>4. \/ before = "PENDING" /\ asked \in {"IN_PROGRESS", "IN_REVIEW"}
          \/ before = "IN_PROGRESS" /\ asked \in {"IN_REVIEW"}
      <4>1. /\ AllowedTransitions["PENDING"] = {"IN_PROGRESS", "IN_REVIEW"}
            /\ AllowedTransitions["IN_PROGRESS"] = {"IN_REVIEW"}
            /\ AllowedTransitions["IN_REVIEW"] = {} /\ AllowedTransitions["COMPLETED"] = {}
        BY DEF AllowedTransitions
      <4> QED BY <3>2, <4>1 DEF TaskStatus
    <3>5. Rank[asked] > Rank[before] BY <3>3, <3>4
    <3> QED BY <3>1, <3>5
  <2> QED BY <2>1, <2>2 DEF HolderAdvances
<1> QED BY <1>5 DEF HolderAdvances

(* With the cells of the seed, for any tickets, people and requests: the   *)
(* mirror of a ticket names a holder of a task (addTicketAssignment,       *)
(* removeTicketAssignment), the list, the page, the board and the notices  *)
(* agree on who may open a ticket (visibleTickets, canViewTicket), and who *)
(* only holds a task moves it forward (updateTicketAssignment).            *)
THEOREM TicketsStayConsistent == SeededViews => (TicketsSpec => TicketsAreConsistent)
<1> SUFFICES ASSUME SeededViews PROVE TicketsSpec => TicketsAreConsistent OBVIOUS
<1>1. TicketsInit => TicketsInv BY TicketsInvInit
<1>2. TicketsInv /\ [TicketsNext]_ticketVars => TicketsInv' BY TicketsInvNext
<1>3. TicketsInv => MirrorNamesATask /\ ListedIsOpenable
  BY ListsAreOpenable DEF TicketsInv, NoticesOpen, ListedIsOpenable
<1>4. TicketsInv =>
        [\A r \in TicketRequests :
           (call[r] # NoCall /\ call'[r] = NoCall /\ call[r].op.kind = "moveTask" /\ ~crossed /\ ticket' # ticket)
           => LET op == call[r].op  row == ticket[op.ticket]
              IN  \/ May(op.actor, "tasks.assign", row) \/ May(op.actor, "tasks.complete", row)
                  \/ /\ op.actor = op.user /\ op.status # "COMPLETED"
                     /\ Rank[op.status] > Rank[row.tasks[op.user]]]_ticketVars
  BY PassedAsHolder DEF HolderAdvances
<1> QED BY <1>1, <1>2, <1>3, <1>4, PTL DEF TicketsSpec, TicketsAreConsistent, HoldersOnlyAdvance

(***************************************************************************)
(* Policies                                                                *)
(***************************************************************************)
\* What a row of the table may hold.
PolicyRows ==
    [action : {"purchase_orders.approve"}, effect : {"ALLOW", "DENY"}, priority : Nat, active : BOOLEAN,
     roles : SUBSET (CustomRoles \cup {"ADMIN"}), conditions : Conditions \cup {{[field |-> "total", operator |-> "gt", value |-> Num(3)]}}]

PolicyShapes ==
    /\ policy \in [PolicyId -> PolicyRows \cup {NoPolicy}]
    /\ \A p \in Base \ touched : policy[p] = SEEDED[p]

\* A cached rule decides as the row it was read from, but for roles that were
\* deleted since from a row that somebody touched.
ReadFrom(rule, p) ==
    /\ policy[p] # NoPolicy
    /\ rule \in PolicyRows
    /\ rule.effect = policy[p].effect /\ rule.priority = policy[p].priority
    /\ p \notin touched => rule = policy[p]

CacheMirrors ==
    /\ DOMAIN rules \subseteq Nat
    /\ \A i \in DOMAIN rules : \E p \in PolicyId : ReadFrom(rules[i], p)
    /\ \A p \in PolicyId \ touched : policy[p] # NoPolicy => \E i \in DOMAIN rules : rules[i] = policy[p]

PoliciesInv == PolicyShapes /\ CacheMirrors

\* A tuple of seven as a sequence.
LEMMA FirstOfSeven ==
  ASSUME NEW a, NEW b, NEW c, NEW d, NEW e, NEW f, NEW g, NEW D, D = <<a, b, c, d, e, f, g>>
  PROVE  D \in Seq({D[n] : n \in 1..7}) /\ Len(D) = 7 /\ D[1] = a /\ D[2] = b /\ D[3] = c
OBVIOUS

\* The three rules the seed writes for the approval of an order.
LEMMA SeededRules ==
  /\ Base = 1..3
  /\ SEEDED[1] = Policy("purchase_orders.approve", "ALLOW", 10, TRUE, {"ADMIN"}, {})
  /\ SEEDED[2] = Policy("purchase_orders.approve", "DENY", 20, TRUE, {}, {IsUser("createdById")})
  /\ SEEDED[3] = Policy("purchase_orders.approve", "DENY", 30, FALSE, {}, {[field |-> "total", operator |-> "gt", value |-> Num(3)]})
  /\ \A p \in Base : SEEDED[p] \in PolicyRows
<1>1. PICK D : D = DEFAULT_POLICIES(3) OBVIOUS
<1>2. /\ D \in Seq({D[n] : n \in 1..7}) /\ Len(D) = 7
      /\ D[1] = Policy("purchase_orders.approve", "ALLOW", 10, TRUE, {"ADMIN"}, {})
      /\ D[2] = Policy("purchase_orders.approve", "DENY", 20, TRUE, {}, {IsUser("createdById")})
      /\ D[3] = Policy("purchase_orders.approve", "DENY", 30, FALSE, {}, {[field |-> "total", operator |-> "gt", value |-> Num(3)]})
  <2> DEFINE P1 == Policy("purchase_orders.approve", "ALLOW", 10, TRUE,  {"ADMIN"}, {})
             P2 == Policy("purchase_orders.approve", "DENY",  20, TRUE,  {}, {IsUser("createdById")})
             P3 == Policy("purchase_orders.approve", "DENY",  30, FALSE, {},
                          {[field |-> "total", operator |-> "gt", value |-> Num(3)]})
             P4 == Policy("purchase_orders.receive", "ALLOW", 10, TRUE,  {"ADMIN"}, {})
             P5 == Policy("purchase_orders.receive", "DENY",  20, TRUE,  {}, {IsUser("approvedById")})
             P6 == Policy("invoices.register",       "ALLOW", 10, TRUE,  {"ADMIN"}, {})
             P7 == Policy("invoices.register",       "DENY",  20, TRUE,  {}, {IsUser("approvedById")})
  <2>1. D = <<P1, P2, P3, P4, P5, P6, P7>> BY <1>1, Zenon DEF DEFAULT_POLICIES
  <2>2. D \in Seq({D[n] : n \in 1..7}) /\ Len(D) = 7 /\ D[1] = P1 /\ D[2] = P2 /\ D[3] = P3
    <3> HIDE DEF P1, P2, P3, P4, P5, P6, P7
    <3> QED BY <2>1, FirstOfSeven
  <2> QED BY <2>2
<1>3. Base = 1..3 /\ \A n \in 1..3 : SEEDED[n] = D[n]
  BY <1>1, <1>2 DEF Base, SEEDED
<1>4. /\ Policy("purchase_orders.approve", "ALLOW", 10, TRUE, {"ADMIN"}, {}) \in PolicyRows
      /\ Policy("purchase_orders.approve", "DENY", 20, TRUE, {}, {IsUser("createdById")}) \in PolicyRows
      /\ Policy("purchase_orders.approve", "DENY", 30, FALSE, {}, {[field |-> "total", operator |-> "gt", value |-> Num(3)]}) \in PolicyRows
  BY DEF Policy, PolicyRows, Conditions
<1>5. \A p \in 1..3 : p = 1 \/ p = 2 \/ p = 3 OBVIOUS
<1>6. 1 \in 1..3 /\ 2 \in 1..3 /\ 3 \in 1..3 OBVIOUS
<1>7. SEEDED[1] = D[1] /\ SEEDED[2] = D[2] /\ SEEDED[3] = D[3] BY <1>3, <1>6
<1>8. \A p \in Base : SEEDED[p] \in PolicyRows BY ZenonT(30), <1>2, <1>3, <1>4, <1>5, <1>7
<1> QED BY <1>2, <1>3, <1>7, <1>8

\* A row is never the mark of an absent one.
LEMMA RowsArePresent == \A r \in PolicyRows : r # NoPolicy
BY DEF PolicyRows, NoPolicy

\* Whatever order equal priorities take, a cache that was just read mirrors the
\* table.
LEMMA FreshCacheMirrors ==
  ASSUME NEW tableRows \in [PolicyId -> PolicyRows \cup {NoPolicy}], NEW cached \in CacheOf(tableRows)
  PROVE  /\ DOMAIN cached \subseteq Nat
         /\ \A i \in DOMAIN cached : \E p \in PolicyId : tableRows[p] # NoPolicy /\ cached[i] = tableRows[p] /\ cached[i] \in PolicyRows
         /\ \A p \in PolicyId : tableRows[p] # NoPolicy => \E i \in DOMAIN cached : cached[i] = tableRows[p]
<1> DEFINE present == {p \in PolicyId : tableRows[p] # NoPolicy}
           n == Cardinality(present)
<1>1. n \in Nat BY PoliciesAssumption, FS_Subset, FS_CardinalityType
<1>2. PICK order \in [1..n -> present] : present = {order[i] : i \in 1..n} /\ cached = [i \in 1..n |-> tableRows[order[i]]]
  BY DEF CacheOf
<1>3. DOMAIN cached = 1..n BY <1>2
<1> HIDE DEF n
<1> QED BY <1>1, <1>2, <1>3

\* A request that writes a row and reads the cache again leaves the two alike.
LEMMA WritesKeepThePolicies ==
  ASSUME PolicyShapes, NEW p \in PolicyId, NEW row \in PolicyRows \cup {NoPolicy},
         policy' = [policy EXCEPT ![p] = row], LoadPoliciesFromDb, Edit(p)
  PROVE  PoliciesInv'
<1>1. policy' \in [PolicyId -> PolicyRows \cup {NoPolicy}] BY DEF PolicyShapes
<1>2. touched' = touched \cup {p} BY DEF Edit
<1>3. PolicyShapes' BY <1>1, <1>2 DEF PolicyShapes
<1>4. rules' \in CacheOf(policy') BY DEF LoadPoliciesFromDb
<1> DEFINE tableRows == policy'
<1>5. /\ DOMAIN rules' \subseteq Nat
      /\ \A i \in DOMAIN rules' : \E q \in PolicyId : tableRows[q] # NoPolicy /\ rules'[i] = tableRows[q] /\ rules'[i] \in PolicyRows
      /\ \A q \in PolicyId : tableRows[q] # NoPolicy => \E i \in DOMAIN rules' : rules'[i] = tableRows[q]
  <2>1. tableRows \in [PolicyId -> PolicyRows \cup {NoPolicy}] /\ rules' \in CacheOf(tableRows) BY <1>1, <1>4
  <2> HIDE DEF tableRows
  <2> QED BY <2>1, FreshCacheMirrors
<1>6. CacheMirrors' BY <1>5 DEF CacheMirrors, ReadFrom
<1> QED BY <1>3, <1>6 DEF PoliciesInv

\* The seed.
LEMMA PoliciesStart == PoliciesInit => PoliciesInv
<1> SUFFICES ASSUME PoliciesInit PROVE PoliciesInv OBVIOUS
<1>1. policy \in [PolicyId -> PolicyRows \cup {NoPolicy}] /\ \A p \in Base : policy[p] = SEEDED[p]
  BY SeededRules, PoliciesAssumption DEF PoliciesInit
<1>2. PolicyShapes BY <1>1 DEF PolicyShapes
<1>3. rules \in CacheOf(policy) BY DEF PoliciesInit
<1>4. /\ DOMAIN rules \subseteq Nat
      /\ \A i \in DOMAIN rules : \E q \in PolicyId : policy[q] # NoPolicy /\ rules[i] = policy[q] /\ rules[i] \in PolicyRows
      /\ \A q \in PolicyId : policy[q] # NoPolicy => \E i \in DOMAIN rules : rules[i] = policy[q]
  BY <1>1, <1>3, FreshCacheMirrors
<1>5. CacheMirrors BY <1>4 DEF CacheMirrors, ReadFrom
<1> QED BY <1>2, <1>5 DEF PoliciesInv

\* What a client may send is a row.
LEMMA InputsAreRows ==
  /\ \A dto \in PolicyCreateInput : dto \in PolicyRows
  /\ \A row \in PolicyRows :
       /\ \A c \in Conditions : [row EXCEPT !.conditions = c] \in PolicyRows
       /\ \A b \in BOOLEAN : [row EXCEPT !.active = b] \in PolicyRows
       /\ \A n \in Priorities : [row EXCEPT !.priority = n] \in PolicyRows
       /\ \A r \in {{}} \cup {{x} : x \in CustomRoles} : [row EXCEPT !.roles = r] \in PolicyRows
       /\ \A e \in {"ALLOW", "DENY"} : [row EXCEPT !.effect = e] \in PolicyRows
<1>1. Priorities \subseteq Nat BY PoliciesAssumption
<1>2. \A dto \in PolicyCreateInput : dto \in PolicyRows
  <2> SUFFICES ASSUME NEW dto \in PolicyCreateInput PROVE dto \in PolicyRows OBVIOUS
  <2>1. PICK a \in {"purchase_orders.approve"}, e \in {"ALLOW", "DENY"}, p \in Priorities,
             r \in {{}} \cup {{x} : x \in CustomRoles}, c \in Conditions : dto = Policy(a, e, p, TRUE, r, c)
    BY DEF PolicyCreateInput, Policy
  <2> QED BY <1>1, <2>1 DEF Policy, PolicyRows
<1>3. ASSUME NEW row \in PolicyRows
      PROVE  /\ \A c \in Conditions : [row EXCEPT !.conditions = c] \in PolicyRows
             /\ \A b \in BOOLEAN : [row EXCEPT !.active = b] \in PolicyRows
             /\ \A n \in Priorities : [row EXCEPT !.priority = n] \in PolicyRows
             /\ \A r \in {{}} \cup {{x} : x \in CustomRoles} : [row EXCEPT !.roles = r] \in PolicyRows
             /\ \A e \in {"ALLOW", "DENY"} : [row EXCEPT !.effect = e] \in PolicyRows
  BY <1>1 DEF PolicyRows
<1> QED BY <1>2, <1>3

\* Every step keeps table and cache alike.
LEMMA PoliciesStep == PoliciesInv /\ [PoliciesNext]_policyVars => PoliciesInv'
<1> SUFFICES ASSUME PoliciesInv, [PoliciesNext]_policyVars PROVE PoliciesInv' OBVIOUS
<1>0. PolicyShapes /\ CacheMirrors BY DEF PoliciesInv
<1>1. ASSUME NEW p \in PolicyId, NEW dto \in PolicyCreateInput, CreatePolicy(p, dto) PROVE PoliciesInv'
  BY <1>0, <1>1, InputsAreRows, WritesKeepThePolicies DEF CreatePolicy
<1>2. ASSUME NEW p \in PolicyId, policy[p] # NoPolicy, NEW field, NEW value, UpdatePolicy(p, field, value),
             [policy[p] EXCEPT ![field] = value] \in PolicyRows
      PROVE  PoliciesInv'
  <2>1. PICK row \in PolicyRows : row = [policy[p] EXCEPT ![field] = value] BY <1>2
  <2>2. policy' = [policy EXCEPT ![p] = row] BY <1>2, <2>1 DEF UpdatePolicy
  <2> QED BY <1>0, <1>2, <2>2, WritesKeepThePolicies DEF UpdatePolicy
<1>3. ASSUME NEW p \in PolicyId, RemovePolicy(p) PROVE PoliciesInv'
  BY <1>0, <1>3, WritesKeepThePolicies DEF RemovePolicy
<1>4. ASSUME NEW p \in Present,
             \/ \E c \in Conditions : UpdatePolicy(p, "conditions", c)
             \/ \E b \in BOOLEAN : UpdatePolicy(p, "active", b)
             \/ \E n \in Priorities : UpdatePolicy(p, "priority", n)
             \/ \E r \in {{}} \cup {{x} : x \in CustomRoles} : UpdatePolicy(p, "roles", r)
             \/ \E e \in {"ALLOW", "DENY"} : UpdatePolicy(p, "effect", e)
             \/ RemovePolicy(p)
      PROVE  PoliciesInv'
  <2>1. p \in PolicyId /\ policy[p] # NoPolicy /\ policy[p] \in PolicyRows BY <1>0 DEF Present, PolicyShapes
  <2>2. ASSUME NEW c \in Conditions, UpdatePolicy(p, "conditions", c) PROVE PoliciesInv'
    BY <1>2, <2>1, <2>2, InputsAreRows
  <2>3. ASSUME NEW b \in BOOLEAN, UpdatePolicy(p, "active", b) PROVE PoliciesInv'
    BY <1>2, <2>1, <2>3, InputsAreRows
  <2>4. ASSUME NEW n \in Priorities, UpdatePolicy(p, "priority", n) PROVE PoliciesInv'
    BY <1>2, <2>1, <2>4, InputsAreRows
  <2>5. ASSUME NEW r \in {{}} \cup {{x} : x \in CustomRoles}, UpdatePolicy(p, "roles", r) PROVE PoliciesInv'
    BY <1>2, <2>1, <2>5, InputsAreRows
  <2>6. ASSUME NEW e \in {"ALLOW", "DENY"}, UpdatePolicy(p, "effect", e) PROVE PoliciesInv'
    BY <1>2, <2>1, <2>6, InputsAreRows
  <2> QED BY <1>3, <1>4, <2>1, <2>2, <2>3, <2>4, <2>5, <2>6
<1>5. ASSUME NEW role \in CustomRoles, CascadeDeleteRole(role) PROVE PoliciesInv'
  <2> DEFINE named == {p \in Present : role \in policy[p].roles}
  <2>1. /\ policy' = [p \in PolicyId |-> IF p \in named THEN [policy[p] EXCEPT !.roles = @ \ {role}] ELSE policy[p]]
        /\ touched' = touched \cup named /\ rules' = rules
    BY <1>5 DEF CascadeDeleteRole
  <2>2. \A p \in PolicyId : p \in named => policy[p] \in PolicyRows BY <1>0 DEF Present, PolicyShapes
  <2>3. ASSUME NEW row \in PolicyRows
        PROVE  /\ [row EXCEPT !.roles = @ \ {role}] \in PolicyRows
               /\ [row EXCEPT !.roles = @ \ {role}].effect = row.effect
               /\ [row EXCEPT !.roles = @ \ {role}].priority = row.priority
    BY DEF PolicyRows
  <2>4. \A p \in PolicyId : policy[p] \in PolicyRows \cup {NoPolicy} BY <1>0 DEF PolicyShapes
  <2> HIDE DEF named
  <2>5. ASSUME NEW p \in PolicyId
        PROVE  /\ policy'[p] \in PolicyRows \cup {NoPolicy}
               /\ p \notin named => policy'[p] = policy[p]
               /\ p \in named => /\ policy'[p] \in PolicyRows
                                 /\ policy'[p].effect = policy[p].effect /\ policy'[p].priority = policy[p].priority
    <3>1. CASE p \in named
      <4>1. policy'[p] = [policy[p] EXCEPT !.roles = @ \ {role}] BY <2>1, <3>1
      <4>2. policy[p] \in PolicyRows BY <2>2, <3>1
      <4> QED BY <2>3, <3>1, <4>1, <4>2
    <3>2. CASE p \notin named BY <2>1, <2>4, <3>2
    <3> QED BY <3>1, <3>2
  <2>6. policy' \in [PolicyId -> PolicyRows \cup {NoPolicy}]
    <3>1. \A p \in PolicyId : policy'[p] \in PolicyRows \cup {NoPolicy} BY <2>5
    <3> QED BY <2>1, <3>1
  <2>7. \A p \in Base \ touched' : policy'[p] = SEEDED[p]
    <3>1. Base \subseteq PolicyId BY SeededRules, PoliciesAssumption
    <3> QED BY <1>0, <2>1, <2>5, <3>1 DEF PolicyShapes
  <2>8. PolicyShapes' BY <2>6, <2>7 DEF PolicyShapes
  <2>9. CacheMirrors'
    <3>1. ASSUME NEW i \in DOMAIN rules PROVE \E p \in PolicyId : ReadFrom(rules[i], p)'
      <4>1. PICK p \in PolicyId : ReadFrom(rules[i], p) BY <1>0 DEF CacheMirrors
      <4>2. ReadFrom(rules[i], p)' BY <2>1, <2>5, <4>1, RowsArePresent DEF ReadFrom
      <4> QED BY <4>2
    <3>2. \A p \in PolicyId \ touched' : policy'[p] # NoPolicy => \E i \in DOMAIN rules : rules[i] = policy'[p]
      BY <1>0, <2>1, <2>5 DEF CacheMirrors
    <3> QED BY <1>0, <2>1, <3>1, <3>2 DEF CacheMirrors
  <2> QED BY <2>8, <2>9 DEF PoliciesInv
<1>6. ASSUME ReloadPolicies PROVE PoliciesInv'
  <2>1. policy' = policy /\ touched' = touched /\ rules' \in CacheOf(policy) BY <1>6 DEF ReloadPolicies, LoadPoliciesFromDb
  <2>2. PolicyShapes' BY <1>0, <2>1 DEF PolicyShapes
  <2>3. /\ DOMAIN rules' \subseteq Nat
        /\ \A i \in DOMAIN rules' : \E q \in PolicyId : policy[q] # NoPolicy /\ rules'[i] = policy[q] /\ rules'[i] \in PolicyRows
        /\ \A q \in PolicyId : policy[q] # NoPolicy => \E i \in DOMAIN rules' : rules'[i] = policy[q]
    BY <1>0, <2>1, FreshCacheMirrors DEF PolicyShapes
  <2>4. CacheMirrors' BY <2>1, <2>3 DEF CacheMirrors, ReadFrom
  <2> QED BY <2>2, <2>4 DEF PoliciesInv
<1>7. CASE UNCHANGED policyVars
  BY <1>0, <1>7 DEF policyVars, PoliciesInv, PolicyShapes, CacheMirrors, ReadFrom
<1> QED BY <1>1, <1>4, <1>5, <1>6, <1>7 DEF PoliciesNext

\* The rule that decides, if any rule matches.
LEMMA SomeRuleIsFirst ==
  ASSUME NEW M, NEW cached, DOMAIN cached \subseteq Nat, M \subseteq DOMAIN cached, M # {},
         \A i \in M : cached[i].priority \in Nat
  PROVE  \E i \in M : \A j \in M : Before(cached, i, j)
<1> DEFINE Ranks == {cached[i].priority : i \in M}
<1>1. PICK rank \in Ranks : \A other \in Ranks : rank <= other
  <2>1. Ranks \in SUBSET Nat /\ Ranks # {} OBVIOUS
  <2> HIDE DEF Ranks
  <2> QED BY <2>1, LeastNumber
<1> DEFINE Ties == {i \in M : cached[i].priority = rank}
<1>2. PICK i \in Ties : \A j \in Ties : i <= j
  <2>1. Ties \in SUBSET Nat /\ Ties # {} OBVIOUS
  <2> HIDE DEF Ties
  <2> QED BY <2>1, LeastNumber
<1>3. ASSUME NEW j \in M PROVE Before(cached, i, j)
  <2>1. rank <= cached[j].priority /\ rank \in Nat /\ cached[j].priority \in Nat BY <1>1
  <2>2. CASE cached[j].priority = rank BY <1>2, <2>2 DEF Before
  <2>3. CASE cached[j].priority # rank
    <3>1. rank < cached[j].priority BY <2>1, <2>3
    <3> QED BY <1>2, <3>1 DEF Before
  <2> QED BY <2>2, <2>3
<1> QED BY <1>2, <1>3

\* The buyer of an order meets the seeded DENY.
LEMMA DenyMatches ==
  ASSUME NEW role, NEW total
  PROVE  RuleMatches(SEEDED[2], Buyer(role), [total |-> Num(total), createdById |-> Text("eva")])
<1> DEFINE resource == [total |-> Num(total), createdById |-> Text("eva")]
           condition == IsUser("createdById")
<1>1. condition.field = "createdById" /\ condition.operator = "eq"
      /\ condition.value = [kind |-> "ref", v |-> "id"]
  BY DEF IsUser
<1>2. "createdById" \in DOMAIN resource /\ resource["createdById"] = Text("eva") OBVIOUS
<1>3. ResolveRight([kind |-> "ref", v |-> "id"], Buyer(role)) = Text("eva")
  BY DEF ResolveRight, Buyer, Nobody, Text
<1>4. SameString(Text("eva"), Text("eva")) BY DEF SameString, Text, IsEmptyV
<1>5. ConditionMatches(condition, Buyer(role), resource)
  <2> HIDE DEF resource, condition
  <2> QED BY <1>1, <1>2, <1>3, <1>4 DEF ConditionMatches
<1> QED BY <1>5, SeededRules DEF RuleMatches, AppliesToUser, Policy

\* The rules of ADMIN and the example of a limit decide nothing for a buyer.
LEMMA OthersDoNot ==
  ASSUME NEW role, role # "ADMIN", NEW resource
  PROVE  ~RuleMatches(SEEDED[1], Buyer(role), resource) /\ ~RuleMatches(SEEDED[3], Buyer(role), resource)
BY SeededRules DEF RuleMatches, AppliesToUser, Policy, Buyer, RolesOf

(* Nobody but ADMIN approves an order of their own as long as the seeded   *)
(* rules stand first (policy.service.ts, engine.ts, seed.ts).              *)
THEOREM DutiesAreSegregated == PoliciesSpec => []DutiesStaySegregated
<1>1. ASSUME PoliciesInv PROVE DutiesStaySegregated
  <2> SUFFICES ASSUME touched \cap Base = {},
                      \A p \in Present \ Base : policy[p].effect = "ALLOW" => policy[p].priority > SEEDED[2].priority,
                      NEW role \in CustomRoles \cup {"BUYER"}, NEW total \in Totals
               PROVE  ~EvaluateRules(rules, "purchase_orders.approve", Buyer(role),
                                     [total |-> Num(total), createdById |-> Text("eva")])
    BY DEF DutiesStaySegregated
  <2>1. PICK resource : resource = [total |-> Num(total), createdById |-> Text("eva")] OBVIOUS
  <2>2. PICK M : M = Matching(rules, "purchase_orders.approve", Buyer(role), resource) OBVIOUS
  <2>3. PolicyShapes /\ CacheMirrors BY <1>1 DEF PoliciesInv
  <2>4. role # "ADMIN" BY PoliciesAssumption
  <2>5. 2 \in Base /\ 2 \in PolicyId \ touched /\ policy[2] = SEEDED[2] /\ SEEDED[2] \in PolicyRows
    <3>1. 2 \in 1..3 OBVIOUS
    <3> QED BY <2>3, <3>1, SeededRules, PoliciesAssumption DEF PolicyShapes
  <2>6. PICK deny \in DOMAIN rules : rules[deny] = SEEDED[2] BY <2>3, <2>5, RowsArePresent DEF CacheMirrors
  <2>7. deny \in M
    <3>1. RuleMatches(rules[deny], Buyer(role), resource) BY <2>1, <2>6, DenyMatches
    <3>2. rules[deny].action = "purchase_orders.approve" BY <2>5, <2>6 DEF PolicyRows
    <3> QED BY <2>2, <3>1, <3>2 DEF Matching, RulesForAction
  <2>8. M \subseteq DOMAIN rules BY <2>2 DEF Matching, RulesForAction
  <2>9. \A i \in DOMAIN rules : rules[i] \in PolicyRows /\ rules[i].priority \in Nat
    BY <2>3 DEF CacheMirrors, ReadFrom, PolicyRows
  <2>10. PICK first \in M : \A j \in M : Before(rules, first, j)
    <3>1. DOMAIN rules \subseteq Nat /\ M # {} /\ \A i \in M : rules[i].priority \in Nat
      BY <2>3, <2>7, <2>8, <2>9 DEF CacheMirrors
    <3> QED BY <2>8, <3>1, SomeRuleIsFirst
  <2>11. rules[first].priority <= 20
    <3>1. rules[deny].priority = 20 BY <2>6, SeededRules DEF Policy
    <3> QED BY <2>7, <2>8, <2>9, <2>10, <3>1 DEF Before
  <2>12. RuleMatches(rules[first], Buyer(role), resource) BY <2>2 DEF Matching
  <2>13. PICK p \in PolicyId : ReadFrom(rules[first], p) BY <2>3, <2>8 DEF CacheMirrors
  <2>14. rules[first].effect = "DENY"
    <3>1. CASE p \in Base
      <4>1. rules[first] = SEEDED[p] BY <2>3, <2>13, <3>1 DEF ReadFrom, PolicyShapes
      <4>2. p = 1 \/ p = 2 \/ p = 3 BY <3>1, SeededRules
      <4>3. p = 2 BY <2>4, <2>12, <4>1, <4>2, OthersDoNot
      <4> QED BY <4>1, <4>3, SeededRules DEF Policy
    <3>2. CASE p \notin Base
      <4>1. p \in Present \ Base BY <2>13, <3>2 DEF Present, ReadFrom
      <4>2. SEEDED[2].priority = 20 BY SeededRules DEF Policy
      <4>3. policy[p].effect # "ALLOW"
        <5> SUFFICES ASSUME policy[p].effect = "ALLOW" PROVE FALSE OBVIOUS
        <5>1. policy[p].priority > 20 BY <4>1, <4>2
        <5>2. policy[p].priority = rules[first].priority BY <2>13 DEF ReadFrom
        <5> QED BY <2>8, <2>9, <2>11, <5>1, <5>2
      <4>4. rules[first].effect \in {"ALLOW", "DENY"} BY <2>8, <2>9 DEF PolicyRows
      <4> QED BY <2>13, <4>3, <4>4 DEF ReadFrom
    <3> QED BY <3>1, <3>2
  <2>15. first \in FirstMatch(rules, "purchase_orders.approve", Buyer(role), resource) BY <2>2, <2>10 DEF FirstMatch
  <2> QED BY <2>1, <2>14, <2>15 DEF EvaluateRules
<1> QED BY <1>1, PoliciesStart, PoliciesStep, PTL DEF PoliciesSpec

=============================================================================
