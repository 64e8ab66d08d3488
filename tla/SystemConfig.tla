---------------------------- MODULE SystemConfig ----------------------------
(***************************************************************************)
(* The settings of the system (SysConfigService): the table sys_config and *)
(* the copy of it that the process keeps in memory for CACHE_TTL, and the  *)
(* mail transport (mail.ts), which reads its recipients through that copy. *)
(*                                                                         *)
(* A request waits for the database, so its steps interleave with those of *)
(* the others: the row it read may be an old one by the time it stores it. *)
(* REQUEST_TIME bounds how long a request may wait (the pool's timeouts).  *)
(***************************************************************************)
EXTENDS Integers, FiniteSets

CONSTANTS Key,              \* settings
          Setting,          \* values a setting may be given
          Absent,           \* no row, no entry, no answer
          Accepted,         \* pairs <<key, value>> that upsert's validation lets through
          RECIPIENTS,       \* the key EMAIL_NOTIFICATION_RECIPIENTS
          Blank,            \* a value of spaces
          ENV_RECIPIENTS,   \* NOTIFICATION_EMAILS of the environment, or Absent
          Deployment,       \* providers a deployment may have: records [dryRun, resend, smtp]
          Client,           \* requests under way at once
          CACHE_TTL,        \* how long a copy serves
          REQUEST_TIME,     \* longest wait of a request for one answer of the database
          MaxTime,          \* bound on the clock
          MaxWrites         \* bound on the writes of the table

ASSUME SettingsAssumption ==
  /\ RECIPIENTS \in Key /\ Blank \in Setting /\ Absent \notin Setting
  /\ ENV_RECIPIENTS \in Setting \cup {Absent}
  /\ Accepted \subseteq Key \X Setting
  /\ Deployment \subseteq [dryRun : BOOLEAN, resend : BOOLEAN, smtp : BOOLEAN]
  /\ CACHE_TTL \in Nat /\ REQUEST_TIME \in Nat /\ MaxTime \in Nat /\ MaxWrites \in Nat

VARIABLES table,      \* sys_config
          copy,       \* the entries of the cache: [value, ts]
          logged,     \* the last audit entry of each key: [previous, value]
          caller,       \* what each request is doing
          seeded,     \* seededFromEnv
          mailer,     \* the providers of this deployment: [dryRun, resend, smtp]
          clock,      \* Date.now()
          settingWrites,     \* writes so far
          inForce     \* the last moment the table held each value

configVars == <<table, copy, logged, caller, seeded, mailer, clock, settingWrites, inForce>>

Stored == Setting \cup {Absent}
NoLookup == [op |-> "none", key |-> RECIPIENTS, value |-> Absent, row |-> Absent, step |-> "idle",
         since |-> 0, asked |-> {}, answer |-> Absent]
NoCopy == [value |-> Absent, ts |-> 0]

ConfigInit ==
  /\ table = [k \in Key |-> Absent]
  /\ copy = [k \in Key |-> NoCopy]
  /\ logged = [k \in Key |-> [previous |-> Absent, value |-> Absent]]
  /\ caller = [c \in Client |-> NoLookup]
  /\ seeded = FALSE
  /\ mailer \in Deployment
  /\ clock = 0
  /\ settingWrites = 0
  /\ inForce = [k \in Key |-> [v \in Stored |-> IF v = Absent THEN 0 ELSE -1 - MaxTime]]

At(c, step) == caller[c].step = step
Goto(c, step) == caller' = [caller EXCEPT ![c].step = step, ![c].since = clock]
Answer(c, answer) ==
  caller' = [caller EXCEPT ![c] = [NoLookup EXCEPT !.answer = answer]]

\* Mutant: an entry never grows old.
CacheGetAnyAge(k) == copy[k].value

\* cacheGet: an entry serves until it is older than the TTL.
CacheGet(k) == IF clock - copy[k].ts > CACHE_TTL THEN Absent ELSE copy[k].value

CacheSet(k, v) == copy' = [copy EXCEPT ![k] = [value |-> v, ts |-> clock]]

\* A committed write of the row of k; inForce remembers until when the old value held.
WriteRow(k, v) ==
  /\ settingWrites < MaxWrites
  /\ settingWrites' = settingWrites + 1
  /\ table' = [table EXCEPT ![k] = v]
  /\ inForce' = [inForce EXCEPT ![k][table[k]] = clock, ![k][v] = clock]

-----------------------------------------------------------------------------
(* get: from the copy, or from the table and then copied.                  *)

\* What a request does with the answer of get: a send goes on with it.
\* getNotificationRecipients tries the seed once per process.
GetReturns(c, v) ==
  IF caller[c].op = "get"
  THEN Answer(c, v) /\ UNCHANGED seeded
  ELSE IF v = Absent /\ ~seeded
       THEN IF ENV_RECIPIENTS # Absent
            THEN Goto(c, "seed") /\ UNCHANGED seeded
            ELSE /\ seeded' = TRUE
                 /\ caller' = [caller EXCEPT ![c].step = "transport", ![c].row = Absent]
       ELSE /\ caller' = [caller EXCEPT ![c].step = "transport", ![c].row = v]
            /\ UNCHANGED seeded

Get(c, k, op) ==
  /\ At(c, "idle") /\ caller[c].answer = Absent
  /\ op = "send" => k = RECIPIENTS
  /\ caller' = [caller EXCEPT ![c] = [NoLookup EXCEPT !.op = op, !.key = k, !.step = "look", !.since = clock]]
  /\ UNCHANGED <<table, copy, logged, seeded, mailer, clock, settingWrites, inForce>>

\* The copy answers, or the row is asked for.
Look(c) ==
  /\ At(c, "look")
  /\ IF CacheGet(caller[c].key) # Absent
     THEN GetReturns(c, CacheGet(caller[c].key)) /\ UNCHANGED copy
     ELSE /\ Goto(c, "read") /\ UNCHANGED seeded
          /\ copy' = [copy EXCEPT ![caller[c].key] = NoCopy]
  /\ UNCHANGED <<table, logged, mailer, clock, settingWrites, inForce>>

\* The database reads the row.
ReadRow(c) ==
  /\ At(c, "read")
  /\ caller' = [caller EXCEPT ![c].row = table[caller[c].key], ![c].step = "copy"]
  /\ UNCHANGED <<table, copy, logged, seeded, mailer, clock, settingWrites, inForce>>

\* The row arrives: it is copied with the time of its arrival.
CopyRow(c) ==
  LET k == caller[c].key IN
  /\ At(c, "copy")
  /\ IF caller[c].row = Absent THEN UNCHANGED copy ELSE CacheSet(k, caller[c].row)
  /\ GetReturns(c, caller[c].row)
  /\ UNCHANGED <<table, logged, mailer, clock, settingWrites, inForce>>

-----------------------------------------------------------------------------
(* seedFromValue: a row that is missing is created from the environment.   *)

SeedFind(c) ==
  /\ At(c, "seed")
  /\ caller' = [caller EXCEPT ![c].row = table[RECIPIENTS], ![c].step = "seedFound"]
  /\ UNCHANGED <<table, copy, logged, seeded, mailer, clock, settingWrites, inForce>>

\* The row existed: its value is copied and read again.
SeedExists(c) ==
  /\ At(c, "seedFound") /\ caller[c].row # Absent
  /\ CacheSet(RECIPIENTS, caller[c].row)
  /\ seeded' = TRUE
  /\ Goto(c, "look")
  /\ UNCHANGED <<table, logged, mailer, clock, settingWrites, inForce>>

\* It did not: create, which the unique index refuses if another created it meanwhile;
\* then the send falls back on the environment and the seed is tried again by the next one.
SeedCreate(c) ==
  /\ At(c, "seedFound") /\ caller[c].row = Absent
  /\ IF table[RECIPIENTS] = Absent
     THEN /\ WriteRow(RECIPIENTS, ENV_RECIPIENTS)
          /\ caller' = [caller EXCEPT ![c].row = ENV_RECIPIENTS, ![c].step = "seedMade"]
     ELSE /\ caller' = [caller EXCEPT ![c].step = "transport"]
          /\ UNCHANGED <<table, settingWrites, inForce>>
  /\ UNCHANGED <<copy, logged, seeded, mailer, clock>>

SeedCopy(c) ==
  /\ At(c, "seedMade")
  /\ CacheSet(RECIPIENTS, caller[c].row)
  /\ seeded' = TRUE
  /\ Goto(c, "look")
  /\ UNCHANGED <<table, logged, mailer, clock, settingWrites, inForce>>

-----------------------------------------------------------------------------
(* upsert and remove: the row and its audit entry in one transaction, then *)
(* the copy.  upsert reads the previous value before the transaction.      *)

Upsert(c, k, v) ==
  /\ At(c, "idle") /\ caller[c].answer = Absent
  /\ <<k, v>> \in Accepted
  /\ caller' = [caller EXCEPT ![c] = [NoLookup EXCEPT !.op = "upsert", !.key = k, !.value = v,
                                              !.row = table[k], !.step = "write", !.since = clock]]
  /\ UNCHANGED <<table, copy, logged, seeded, mailer, clock, settingWrites, inForce>>

CommitUpsert(c) ==
  LET k == caller[c].key IN
  /\ At(c, "write")
  /\ WriteRow(k, caller[c].value)
  /\ logged' = [logged EXCEPT ![k] = [previous |-> caller[c].row, value |-> caller[c].value]]
  /\ Goto(c, "written")
  /\ UNCHANGED <<copy, seeded, mailer, clock>>

CopyUpsert(c) ==
  /\ At(c, "written")
  /\ CacheSet(caller[c].key, caller[c].value)
  /\ Answer(c, caller[c].value)
  /\ UNCHANGED <<table, logged, seeded, mailer, clock, settingWrites, inForce>>

RemoveSetting(c, k) ==
  /\ At(c, "idle") /\ caller[c].answer = Absent
  /\ table[k] # Absent
  /\ WriteRow(k, Absent)
  /\ logged' = [logged EXCEPT ![k] = [previous |-> table[k], value |-> Absent]]
  /\ caller' = [caller EXCEPT ![c] = [NoLookup EXCEPT !.op = "remove", !.key = k, !.step = "removed", !.since = clock]]
  /\ UNCHANGED <<copy, seeded, mailer, clock>>

Invalidate(c) ==
  /\ At(c, "removed")
  /\ copy' = [copy EXCEPT ![caller[c].key] = NoCopy]
  /\ Answer(c, Absent)
  /\ UNCHANGED <<table, logged, seeded, mailer, clock, settingWrites, inForce>>

-----------------------------------------------------------------------------
(* sendEmail: the recipients, and then one provider.                       *)

Recipients(v) == IF v \in {Absent, Blank} THEN ENV_RECIPIENTS ELSE v

\* The providers that sendEmail asks, in order: tx is only looked for without Resend.
Providers == IF mailer.resend THEN {"resend"}
             ELSE IF mailer.smtp THEN {"smtp"} ELSE {}

\* `accepts` are the providers that would take the message now.
Transport(c, accepts) ==
  /\ At(c, "transport")
  /\ LET asked == IF mailer.dryRun THEN {} ELSE Providers
         sent == mailer.dryRun \/ asked \cap accepts # {}
     IN caller' = [caller EXCEPT ![c] = [NoLookup EXCEPT !.op = IF sent THEN "sent" ELSE "unsent",
                                     !.asked = asked, !.answer = Recipients(caller[c].row)]]
  /\ UNCHANGED <<table, copy, logged, seeded, mailer, clock, settingWrites, inForce>>

\* The answer has been used and the request is over.
Over(c) ==
  /\ At(c, "idle") /\ caller[c].answer # Absent
  /\ caller' = [caller EXCEPT ![c] = NoLookup]
  /\ UNCHANGED <<table, copy, logged, seeded, mailer, clock, settingWrites, inForce>>

-----------------------------------------------------------------------------

\* Time passes, but no request waits longer than REQUEST_TIME for one answer.
Tick ==
  /\ clock < MaxTime
  /\ \A c \in Client : ~At(c, "idle") => clock - caller[c].since < REQUEST_TIME
  /\ \A c \in Client : caller[c].answer = Absent
  /\ clock' = clock + 1
  /\ inForce' = [k \in Key |-> [inForce[k] EXCEPT ![table[k]] = clock + 1]]
  /\ UNCHANGED <<table, copy, logged, caller, seeded, mailer, settingWrites>>

\* The process ends and starts again with an empty copy.
Restart ==
  /\ copy' = [k \in Key |-> NoCopy]
  /\ caller' = [c \in Client |-> NoLookup]
  /\ seeded' = FALSE
  /\ UNCHANGED <<table, logged, mailer, clock, settingWrites, inForce>>

ConfigNext ==
  \/ \E c \in Client :
       \/ \E k \in Key, op \in {"get", "send"} : Get(c, k, op)
       \/ Look(c) \/ ReadRow(c) \/ CopyRow(c)
       \/ SeedFind(c) \/ SeedExists(c) \/ SeedCreate(c) \/ SeedCopy(c)
       \/ \E k \in Key, v \in Setting : Upsert(c, k, v)
       \/ CommitUpsert(c) \/ CopyUpsert(c)
       \/ \E k \in Key : RemoveSetting(c, k)
       \/ Invalidate(c)
       \/ \E accepts \in SUBSET {"resend", "smtp"} : Transport(c, accepts)
       \/ Over(c)
  \/ Tick
  \/ Restart

ConfigSpec == ConfigInit /\ [][ConfigNext]_configVars

-----------------------------------------------------------------------------
(* Nobody is answered with a setting that has been replaced or removed for *)
(* longer than the TTL and the time one answer of the database may take,   *)
(* whatever gets, seeds and writes overlap: a row read before a write and  *)
(* copied after it is dropped as soon as any other copy would be.          *)
AnswersAreRecent ==
  \A k \in Key : CacheGet(k) # Absent =>
    clock - inForce[k][CacheGet(k)] <= CACHE_TTL + REQUEST_TIME
=============================================================================
