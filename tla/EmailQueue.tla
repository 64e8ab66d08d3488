----------------------------- MODULE EmailQueue -----------------------------
(***************************************************************************)
(* The e-mail outbox: rows of email_logs and the background worker that    *)
(* drains them, with the retry and cancel operations of the administrator. *)
(*                                                                         *)
(* A cycle of the worker claims a batch in memory only: the rows stay      *)
(* PENDING in the database until each one's result is written.  E-mails    *)
(* are numbered in the order they are created.                             *)
(***************************************************************************)
EXTENDS Naturals, FiniteSets, FiniteSetsExt

CONSTANTS
  Emails,         \* how many e-mails are ever queued
  Cycle,          \* cycles that may be under way at one time
  BatchSize,      \* EMAIL_QUEUE_BATCH_SIZE
  Concurrency,    \* EMAIL_QUEUE_CONCURRENCY
  MaxAttempts,    \* EMAIL_QUEUE_MAX_ATTEMPTS
  MaxCrashes,     \* bound on restarts of the process
  MaxAdmin,       \* bound on operations of the administrator
  MaxFailures     \* bound on writes of a result that fail

ASSUME MailAssumption ==
  /\ IsFiniteSet(Cycle) /\ "none" \notin Cycle
  /\ {Emails, MaxCrashes, MaxAdmin, MaxFailures} \subseteq Nat
  /\ {BatchSize, Concurrency, MaxAttempts} \subseteq Nat \ {0}

VARIABLES
  mailRow,         \* email_logs; `due' is nextAttemptAt being null or past
  job,         \* what each cycle is doing with each e-mail, in memory
  alive,       \* mini-pool workers of each cycle that have not thrown
  owner,       \* the cycle that set `draining', if any
  delivered,   \* how often the transport accepted each e-mail: 0, 1 or more
  admin,       \* the administrator's request between its read and its write
  crashes, adminOps, failures   \* history: what has gone wrong so far

mailVars == <<mailRow, job, alive, owner, delivered, admin, crashes, adminOps, failures>>

Email == 1 .. Emails

NoOwner == "none"

\* `delivered' counts up to here; 2 stands for every larger number.
Many == 2

Row == [status: {"NONE", "PENDING", "SENT", "FAILED", "CANCELLED"},
        attempts: 0 .. MaxAttempts, due: BOOLEAN]

Job == [phase: {"none", "queued", "sending", "accepted", "refused"}, seen: 0 .. MaxAttempts]

NoJob == [phase |-> "none", seen |-> 0]

NoJobs == [c \in Cycle |-> [e \in Email |-> NoJob]]

Idle == [op |-> "none", email |-> 0]

MailInit ==
  /\ mailRow = [e \in Email |-> [status |-> "NONE", attempts |-> 0, due |-> FALSE]]
  /\ job = NoJobs
  /\ alive = [c \in Cycle |-> 0]
  /\ owner = NoOwner
  /\ delivered = [e \in Email |-> 0]
  /\ admin = Idle
  /\ crashes = 0 /\ adminOps = 0 /\ failures = 0

-----------------------------------------------------------------------------

\* enqueueEmail(); with ENABLE_SEND_EMAIL off nothing is queued and nothing
\* changes.
Enqueue(e) ==
  /\ mailRow[e].status = "NONE"
  /\ \A f \in 1 .. e - 1 : mailRow[f].status # "NONE"
  /\ mailRow' = [mailRow EXCEPT ![e] = [status |-> "PENDING", attempts |-> 0, due |-> TRUE]]
  /\ UNCHANGED <<job, alive, owner, delivered, admin, crashes, adminOps, failures>>

BackoffEnds(e) ==
  /\ mailRow[e].status = "PENDING" /\ ~mailRow[e].due
  /\ mailRow' = [mailRow EXCEPT ![e].due = TRUE]
  /\ UNCHANGED <<job, alive, owner, delivered, admin, crashes, adminOps, failures>>

Jobs(c, phases) == {e \in Email : job[c][e].phase \in phases}

Busy(c) == Jobs(c, {"queued", "sending", "accepted", "refused"}) # {}

Due == {e \in Email : mailRow[e].status = "PENDING" /\ mailRow[e].due}

\* The oldest rows that are due, up to BatchSize.
Batch == {e \in Due : Cardinality({f \in Due : f < e}) < BatchSize}

\* The flag `draining' discards a tick.
NotDraining == owner = NoOwner

\* tick() and the query of poll()
Tick(c) ==
  /\ NotDraining
  /\ ~Busy(c)
  /\ Batch # {}
  /\ job' = [job EXCEPT ![c] = [e \in Email |->
       IF e \in Batch THEN [phase |-> "queued", seen |-> mailRow[e].attempts] ELSE NoJob]]
  /\ alive' = [alive EXCEPT ![c] = Min({Concurrency, Cardinality(Batch)})]
  /\ owner' = c
  /\ UNCHANGED <<mailRow, delivered, admin, crashes, adminOps, failures>>

\* A worker of the mini-pool shifts the next row and starts runRow().
StartRow(c, e) ==
  /\ e \in Jobs(c, {"queued"})
  /\ \A f \in Jobs(c, {"queued"}) : e <= f
  /\ Cardinality(Jobs(c, {"sending", "accepted", "refused"})) < alive[c]
  /\ job' = [job EXCEPT ![c][e].phase = "sending"]
  /\ UNCHANGED <<mailRow, alive, owner, delivered, admin, crashes, adminOps, failures>>

\* sendEmail() and the download of the attachments succeed or do not.
Accept(c, e) ==
  /\ job[c][e].phase = "sending"
  /\ job' = [job EXCEPT ![c][e].phase = "accepted"]
  /\ delivered' = [delivered EXCEPT ![e] = Min({@ + 1, Many})]
  /\ UNCHANGED <<mailRow, alive, owner, admin, crashes, adminOps, failures>>

Refuse(c, e) ==
  /\ job[c][e].phase = "sending"
  /\ job' = [job EXCEPT ![c][e].phase = "refused"]
  /\ UNCHANGED <<mailRow, alive, owner, delivered, admin, crashes, adminOps, failures>>

\* Mutant: the row is marked before the transport has answered.
RecordSentEarly(c, e) ==
  /\ job[c][e].phase = "sending"
  /\ mailRow' = [mailRow EXCEPT ![e].status = "SENT"]
  /\ job' = [job EXCEPT ![c][e] = NoJob]
  /\ UNCHANGED <<alive, owner, delivered, admin, crashes, adminOps, failures>>

\* The result is written whatever the row says by now; `due' keeps its value.
RecordSent(c, e) ==
  /\ job[c][e].phase = "accepted"
  /\ mailRow' = [mailRow EXCEPT ![e].status = "SENT"]
  /\ job' = [job EXCEPT ![c][e] = NoJob]
  /\ UNCHANGED <<alive, owner, delivered, admin, crashes, adminOps, failures>>

\* Writing SENT throws inside the try: an accepted e-mail counts as refused.
RecordSentFails(c, e) ==
  /\ failures < MaxFailures
  /\ failures' = failures + 1
  /\ job[c][e].phase = "accepted"
  /\ job' = [job EXCEPT ![c][e].phase = "refused"]
  /\ UNCHANGED <<mailRow, alive, owner, delivered, admin, crashes, adminOps>>

\* Mutant: the failed attempt is not counted.
AfterFailureUncounted(attempts) ==
  [status |-> "PENDING", attempts |-> attempts - 1, due |-> FALSE]

\* The row after its attempts-th failure.
AfterFailure(attempts) ==
  IF attempts >= MaxAttempts THEN [status |-> "FAILED", attempts |-> attempts, due |-> TRUE]
  ELSE [status |-> "PENDING", attempts |-> attempts, due |-> FALSE]

RecordFailure(c, e) ==
  /\ job[c][e].phase = "refused"
  /\ mailRow' = [mailRow EXCEPT ![e] = AfterFailure(job[c][e].seen + 1)]
  /\ job' = [job EXCEPT ![c][e] = NoJob]
  /\ UNCHANGED <<alive, owner, delivered, admin, crashes, adminOps, failures>>

\* Writing the failure throws: runRow() rejects, its worker ends and so does the
\* Promise.all, but not the other workers of the pool.
RecordFailureFails(c, e) ==
  /\ failures < MaxFailures
  /\ failures' = failures + 1
  /\ job[c][e].phase = "refused"
  /\ alive' = [alive EXCEPT ![c] = @ - 1]
  /\ job' = [job EXCEPT ![c] = [f \in Email |->
       IF f = e \/ (alive[c] = 1 /\ job[c][f].phase = "queued") THEN NoJob ELSE job[c][f]]]
  /\ owner' = IF owner = c THEN NoOwner ELSE owner
  /\ UNCHANGED <<mailRow, delivered, admin, crashes, adminOps>>

\* The finally of tick() after a whole batch.
EndCycle(c) ==
  /\ owner = c
  /\ ~Busy(c)
  /\ owner' = NoOwner
  /\ UNCHANGED <<mailRow, job, alive, delivered, admin, crashes, adminOps, failures>>

\* The process restarts; memory is lost, the table is not.
Crash ==
  /\ crashes < MaxCrashes
  /\ crashes' = crashes + 1
  /\ job' = NoJobs
  /\ alive' = [c \in Cycle |-> 0]
  /\ owner' = NoOwner
  /\ admin' = Idle
  /\ UNCHANGED <<mailRow, delivered, adminOps, failures>>

-----------------------------------------------------------------------------

\* retry() and cancel() of EmailLogService read the row, then write it.
AdminRead(op, e) ==
  /\ admin = Idle
  /\ adminOps < MaxAdmin
  /\ mailRow[e].status \notin {"NONE", "SENT"}
  /\ admin' = [op |-> op, email |-> e]
  /\ adminOps' = adminOps + 1
  /\ UNCHANGED <<mailRow, job, alive, owner, delivered, crashes, failures>>

AdminRetry(e) ==
  /\ admin = [op |-> "retry", email |-> e]
  /\ mailRow' = [mailRow EXCEPT ![e] = [status |-> "PENDING", attempts |-> 0, due |-> TRUE]]
  /\ admin' = Idle
  /\ UNCHANGED <<job, alive, owner, delivered, crashes, adminOps, failures>>

AdminCancel(e) ==
  /\ admin = [op |-> "cancel", email |-> e]
  /\ mailRow' = [mailRow EXCEPT ![e].status = "CANCELLED", ![e].due = TRUE]
  /\ admin' = Idle
  /\ UNCHANGED <<job, alive, owner, delivered, crashes, adminOps, failures>>

-----------------------------------------------------------------------------

Send(c, e) == Accept(c, e) \/ Refuse(c, e)

Write(c, e) == RecordSent(c, e) \/ RecordFailure(c, e)

MailNext ==
  \/ \E e \in Email : Enqueue(e) \/ BackoffEnds(e)
  \/ \E c \in Cycle : Tick(c) \/ EndCycle(c)
  \/ \E c \in Cycle, e \in Email :
       \/ StartRow(c, e)
       \/ Send(c, e)
       \/ Write(c, e)
       \/ RecordSentFails(c, e)
       \/ RecordFailureFails(c, e)
  \/ \E op \in {"retry", "cancel"}, e \in Email : AdminRead(op, e)
  \/ \E e \in Email : AdminRetry(e) \/ AdminCancel(e)
  \/ Crash

MailSpec == MailInit /\ [][MailNext]_mailVars

\* The interval timer keeps firing, backoffs end, and a call to the transport or
\* the database returns; which of its results it returns is left open.
MailFairness ==
  /\ WF_mailVars(\E c \in Cycle : Tick(c))
  /\ \A e \in Email : WF_mailVars(BackoffEnds(e)) /\ WF_mailVars(AdminRetry(e) \/ AdminCancel(e))
  /\ \A c \in Cycle :
       /\ WF_mailVars(EndCycle(c))
       /\ \A e \in Email : /\ WF_mailVars(StartRow(c, e))
                           /\ WF_mailVars(Send(c, e))
                           /\ WF_mailVars(Write(c, e))

MailFairSpec == MailSpec /\ MailFairness

-----------------------------------------------------------------------------

\* Every row and every job has its declared shape; attempts stay within
\* EMAIL_QUEUE_MAX_ATTEMPTS.
MailTypeOK ==
  /\ mailRow \in [Email -> Row]
  /\ job \in [Cycle -> [Email -> Job]]
  /\ alive \in [Cycle -> 0 .. Concurrency]
  /\ owner \in Cycle \cup {NoOwner}
  /\ delivered \in [Email -> 0 .. Many]

\* What the log calls SENT was accepted by the transport, whatever the
\* administrator, a restart or a failed write did in between.
SentWasDelivered == \A e \in Email : mailRow[e].status = "SENT" => delivered[e] > 0

\* As long as the process lives, the database answers and nobody intervenes, no
\* tick starts a second cycle over rows that are being sent: an e-mail is
\* delivered once, however many attempts were refused before.
DeliveredOnce ==
  crashes = 0 /\ adminOps = 0 /\ failures = 0 => \A e \in Email : delivered[e] <= 1

\* Every queued e-mail is settled: sent, failed for good or cancelled, also when
\* the process restarts, a write fails or an administrator interferes.
Settles == []<>(\A e \in Email : mailRow[e].status # "PENDING")

\* The log of the mail is true: SENT was delivered, and delivered once as long
\* as nothing interferes (processPendingEmails, the guard `draining`).
LogIsTrue == SentWasDelivered /\ DeliveredOnce
=============================================================================
