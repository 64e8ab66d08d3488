---------------------------- MODULE WorkerProofs ----------------------------
(***************************************************************************)
(* Proofs about the background workers: the queue that sends the mail and  *)
(* the roster that follows who is enrolled in the clocks.  Both decide on  *)
(* what they read some time ago, while restarts, failed writes and an      *)
(* administrator interfere.                                                *)
(***************************************************************************)
EXTENDS EmailQueue, Roster, FiniteSetTheorems, TLAPS

-----------------------------------------------------------------------------
(* The mail queue.                                                         *)

\* The rows, the jobs and the counts have their shape; attempts are bounded,
\* and a row that waits, or is being sent, has one left.
MailShape ==
  /\ mailRow \in [Email -> Row]
  /\ job \in [Cycle -> [Email -> Job]]
  /\ delivered \in [Email -> 0 .. Many]
  /\ crashes \in Nat /\ adminOps \in Nat /\ failures \in Nat
  /\ \A e \in Email : mailRow[e].status = "PENDING" => mailRow[e].attempts < MaxAttempts
  /\ \A c \in Cycle, e \in Email : job[c][e].phase # "none" => job[c][e].seen < MaxAttempts

\* Nothing has gone wrong, and nobody has intervened.
Clean == crashes = 0 /\ adminOps = 0 /\ failures = 0

\* An e-mail that is being sent in a clean history.
JobIsTrue(c, e) ==
  /\ job[c][e].phase # "none" => owner = c /\ mailRow[e].status = "PENDING"
  /\ job[c][e].phase \in {"queued", "sending", "refused"} => delivered[e] = 0

\* In a clean history one cycle sends at a time, what it sends was not delivered
\* before, and what was delivered is SENT or is about to be.
OneCycleSends ==
  Clean =>
    /\ admin = Idle
    /\ \A c \in Cycle, e \in Email : JobIsTrue(c, e)
    /\ \A e \in Email :
         /\ delivered[e] <= 1
         /\ delivered[e] > 0 =>
              mailRow[e].status = "SENT" \/ \E c \in Cycle : job[c][e].phase = "accepted"

\* What the transport accepted was delivered, and so was what is SENT.
AcceptedWasDelivered ==
  \A c \in Cycle, e \in Email : job[c][e].phase = "accepted" => delivered[e] > 0

\* The inductive invariant of the queue.
MailInv ==
  /\ MailShape
  /\ AcceptedWasDelivered
  /\ SentWasDelivered
  /\ OneCycleSends

\* The log is true in every state of the invariant.
LEMMA MailInvIsTrue == MailInv => LogIsTrue
BY DEF MailInv, LogIsTrue, OneCycleSends, Clean, DeliveredOnce

\* Nothing is queued at first.
LEMMA MailInvInit == MailInit => MailInv
<1> SUFFICES ASSUME MailInit PROVE MailInv
  OBVIOUS
<1>1. MailShape
  BY MailAssumption DEF MailInit, MailShape, Row, Job, NoJobs, NoJob, Many
<1>2. AcceptedWasDelivered /\ SentWasDelivered
  BY DEF MailInit, AcceptedWasDelivered, SentWasDelivered, NoJobs, NoJob
<1>3. OneCycleSends
  BY DEF MailInit, OneCycleSends, JobIsTrue, NoJobs, NoJob
<1> QED
  BY <1>1, <1>2, <1>3 DEF MailInv

\* One job changes.
JobBecomes(c, e, new) ==
  /\ job' \in [Cycle -> [Email -> Job]]
  /\ job'[c][e] = new
  /\ \A d \in Cycle, f \in Email : d # c \/ f # e => job'[d][f] = job[d][f]

\* One job is replaced, the others stay.
LEMMA JobSetEffect ==
  ASSUME MailShape, NEW c \in Cycle, NEW e \in Email, NEW new \in Job,
         job' = [job EXCEPT ![c] = [job[c] EXCEPT ![e] = new]]
  PROVE  JobBecomes(c, e, new)
<1>1. job \in [Cycle -> [Email -> Job]] /\ job[c] \in [Email -> Job]
  BY DEF MailShape
<1>2. PICK jobs : jobs = [job[c] EXCEPT ![e] = new]
  OBVIOUS
<1>3. jobs \in [Email -> Job] /\ jobs[e] = new /\ \A f \in Email \ {e} : jobs[f] = job[c][f]
  BY <1>1, <1>2
<1>4. job' = [job EXCEPT ![c] = jobs]
  BY <1>2
<1> QED
  BY <1>1, <1>3, <1>4 DEF JobBecomes

\* A job that goes on keeps the attempts it saw.
LEMMA PhaseEffect ==
  ASSUME MailShape, NEW c \in Cycle, NEW e \in Email,
         NEW phase \in {"none", "queued", "sending", "accepted", "refused"},
         job' = [job EXCEPT ![c][e].phase = phase]
  PROVE  JobBecomes(c, e, [phase |-> phase, seen |-> job[c][e].seen])
<1>1. job[c] \in [Email -> Job] /\ job[c][e] \in Job
  BY DEF MailShape
<1>2. PICK new : new = [job[c][e] EXCEPT !.phase = phase]
  OBVIOUS
<1>3. new = [phase |-> phase, seen |-> job[c][e].seen] /\ new \in Job
  BY <1>1, <1>2 DEF Job
<1>4. job' = [job EXCEPT ![c] = [job[c] EXCEPT ![e] = new]]
  BY Zenon, <1>1, <1>2 DEF MailShape
<1>5. JobBecomes(c, e, new)
  BY Zenon, <1>3, <1>4, JobSetEffect
<1> QED
  BY <1>3, <1>5

\* A job that ends is forgotten.
LEMMA JobEndsEffect ==
  ASSUME MailShape, NEW c \in Cycle, NEW e \in Email, job' = [job EXCEPT ![c][e] = NoJob]
  PROVE  JobBecomes(c, e, NoJob)
<1>1. job[c] \in [Email -> Job] /\ NoJob \in Job
  BY MailAssumption DEF MailShape, NoJob, Job
<1>2. job' = [job EXCEPT ![c] = [job[c] EXCEPT ![e] = NoJob]]
  BY Zenon, <1>1 DEF MailShape
<1> QED
  BY Zenon, <1>1, <1>2, JobSetEffect

\* One more delivery, counted up to Many.
LEMMA DeliveredEffect ==
  ASSUME NEW n \in 0 .. Many
  PROVE  /\ Min({n + 1, Many}) \in 1 .. Many
         /\ n = 0 => Min({n + 1, Many}) = 1
<1>1. PICK m \in {n + 1, Many} : \A k \in {n + 1, Many} : m <= k
  BY DEF Many
<1>2. /\ Min({n + 1, Many}) \in {n + 1, Many}
      /\ \A k \in {n + 1, Many} : Min({n + 1, Many}) <= k
  BY <1>1 DEF Min
<1> QED
  BY <1>2 DEF Many

\* A row is written: its shape.
LEMMA RowEffect ==
  ASSUME MailShape, NEW e \in Email, NEW row \in Row,
         row.status = "PENDING" => row.attempts < MaxAttempts,
         mailRow' = [mailRow EXCEPT ![e] = row]
  PROVE  /\ mailRow' \in [Email -> Row] /\ mailRow'[e] = row
         /\ \A f \in Email \ {e} : mailRow'[f] = mailRow[f]
         /\ \A f \in Email : mailRow'[f].status = "PENDING" => mailRow'[f].attempts < MaxAttempts
BY DEF MailShape

-----------------------------------------------------------------------------

\* A row changes while no cycle touches it and nothing is delivered.
LEMMA RowWrite ==
  ASSUME MailInv, NEW e \in Email, NEW row \in Row,
         row.status = "PENDING" => row.attempts < MaxAttempts,
         mailRow' = [mailRow EXCEPT ![e] = row],
         row.status = "SENT" => mailRow[e].status = "SENT",
         UNCHANGED <<job, owner, delivered, crashes, failures>>,
         adminOps' \in Nat, Clean' => Clean /\ admin' = Idle /\ row.status = "PENDING"
                                        /\ mailRow[e].status # "SENT"
  PROVE  MailInv'
<1>1. /\ mailRow' \in [Email -> Row] /\ mailRow'[e] = row
      /\ \A f \in Email \ {e} : mailRow'[f] = mailRow[f]
      /\ \A f \in Email : mailRow'[f].status = "PENDING" => mailRow'[f].attempts < MaxAttempts
  BY RowEffect DEF MailInv
<1>2. MailShape'
  BY <1>1 DEF MailInv, MailShape
<1>3. AcceptedWasDelivered'
  BY DEF MailInv, AcceptedWasDelivered
<1>4. SentWasDelivered'
  BY <1>1 DEF MailInv, SentWasDelivered
<1>5. OneCycleSends'
  BY <1>1 DEF MailInv, OneCycleSends, JobIsTrue
<1> QED
  BY <1>2, <1>3, <1>4, <1>5 DEF MailInv

\* enqueueEmail(), the end of a backoff and the administrator write rows only.
LEMMA QueueKeeps ==
  ASSUME MailInv, NEW e \in Email,
         Enqueue(e) \/ BackoffEnds(e) \/ AdminRetry(e) \/ AdminCancel(e)
  PROVE  MailInv'
<1>0. mailRow[e] \in Row /\ adminOps \in Nat
  BY DEF MailInv, MailShape
<1> DEFINE waiting == [status |-> "PENDING", attempts |-> 0, due |-> TRUE]
<1>w. waiting \in Row /\ waiting.attempts < MaxAttempts /\ waiting.status = "PENDING"
  BY MailAssumption DEF Row
<1>1. CASE Enqueue(e)
  <2>1. /\ mailRow[e].status = "NONE" /\ mailRow' = [mailRow EXCEPT ![e] = waiting]
        /\ UNCHANGED <<job, alive, owner, delivered, admin, crashes, adminOps, failures>>
    BY <1>1 DEF Enqueue
  <2> HIDE DEF waiting
  <2>2. Clean' => Clean /\ admin' = Idle
    BY <2>1 DEF Clean, MailInv, OneCycleSends
  <2> QED
    BY <1>0, <1>w, <2>1, <2>2, RowWrite
<1>2. CASE BackoffEnds(e)
  <2>1. PICK row : row = [mailRow[e] EXCEPT !.due = TRUE]
    OBVIOUS
  <2>2. row \in Row /\ row.status = mailRow[e].status /\ row.attempts = mailRow[e].attempts
    BY <1>0, <2>1 DEF Row
  <2>3. mailRow' = [mailRow EXCEPT ![e] = row]
    BY Zenon, <1>2, <2>1 DEF BackoffEnds, MailInv, MailShape
  <2>4. /\ mailRow[e].status = "PENDING" /\ mailRow[e].attempts < MaxAttempts
        /\ UNCHANGED <<job, alive, owner, delivered, admin, crashes, adminOps, failures>>
    BY <1>2 DEF BackoffEnds, MailInv, MailShape
  <2>5. Clean' => Clean /\ admin' = Idle
    BY <2>4 DEF Clean, MailInv, OneCycleSends
  <2> QED
    BY <1>0, <2>2, <2>3, <2>4, <2>5, RowWrite
<1>3. CASE AdminRetry(e)
  <2>1. /\ mailRow' = [mailRow EXCEPT ![e] = waiting] /\ admin # Idle
        /\ UNCHANGED <<job, alive, owner, delivered, crashes, adminOps, failures>>
    BY <1>3 DEF AdminRetry, Idle
  <2> HIDE DEF waiting
  <2>2. ~Clean'
    BY <2>1 DEF Clean, MailInv, OneCycleSends
  <2> QED
    BY <1>0, <1>w, <2>1, <2>2, RowWrite
<1>4. CASE AdminCancel(e)
  <2>1. PICK off : off = [mailRow[e] EXCEPT !.status = "CANCELLED"]
    OBVIOUS
  <2>2. off \in Row /\ off.status = "CANCELLED"
    BY <1>0, <2>1 DEF Row
  <2>3. PICK row : row = [off EXCEPT !.due = TRUE]
    OBVIOUS
  <2>4. row \in Row /\ row.status = "CANCELLED"
    BY <2>2, <2>3 DEF Row
  <2>5. mailRow' = [mailRow EXCEPT ![e] = row]
    BY Zenon, <1>4, <2>1, <2>3 DEF AdminCancel, MailInv, MailShape
  <2>6. admin # Idle /\ UNCHANGED <<job, alive, owner, delivered, crashes, adminOps, failures>>
    BY <1>4 DEF AdminCancel, Idle
  <2>7. ~Clean'
    BY <2>6 DEF Clean, MailInv, OneCycleSends
  <2> QED
    BY <1>0, <2>4, <2>5, <2>6, <2>7, RowWrite
<1> QED
  BY <1>1, <1>2, <1>3, <1>4

\* A cycle that begins claims rows that wait, when no other one sends.
LEMMA MailTickKeeps ==
  ASSUME MailInv, NEW c \in Cycle, Tick(c)
  PROVE  MailInv'
<1>1. /\ owner = NoOwner /\ owner' = c
      /\ UNCHANGED <<mailRow, delivered, admin, crashes, adminOps, failures>>
  BY DEF Tick, NotDraining
<1> DEFINE claimed(e) == [phase |-> "queued", seen |-> mailRow[e].attempts]
           jobs == [e \in Email |-> IF e \in Batch THEN claimed(e) ELSE NoJob]
<1>2. job' = [job EXCEPT ![c] = jobs]
  BY DEF Tick
<1>3. \A e \in Email : jobs[e] = IF e \in Batch THEN claimed(e) ELSE NoJob
  OBVIOUS
<1>4. ASSUME NEW e \in Batch
      PROVE  /\ e \in Email /\ mailRow[e].status = "PENDING" /\ mailRow[e].attempts < MaxAttempts
             /\ claimed(e) \in Job
  <2>1. e \in Email /\ mailRow[e].status = "PENDING"
    BY DEF Batch, Due
  <2>2. mailRow[e].attempts \in 0 .. MaxAttempts /\ mailRow[e].attempts < MaxAttempts
    BY <2>1 DEF MailInv, MailShape, Row
  <2> QED
    BY <2>1, <2>2 DEF Job
<1>5. NoJob \in Job /\ NoJob.phase = "none"
  BY MailAssumption DEF NoJob, Job
<1>6. jobs \in [Email -> Job]
  BY <1>4, <1>5
<1>7. /\ job' \in [Cycle -> [Email -> Job]] /\ job'[c] = jobs
      /\ \A d \in Cycle \ {c} : job'[d] = job[d]
  BY <1>2, <1>6 DEF MailInv, MailShape
<1>8. \A d \in Cycle, e \in Email :
        \/ job'[d][e] = job[d][e] /\ d # c
        \/ d = c /\ e \in Batch /\ job'[d][e].phase = "queued"
             /\ job'[d][e].seen = mailRow[e].attempts
        \/ d = c /\ job'[d][e].phase = "none"
  BY <1>3, <1>5, <1>7
<1> HIDE DEF jobs, claimed
<1>9. MailShape'
  <2>1. \A d \in Cycle, e \in Email : job'[d][e].phase # "none" => job'[d][e].seen < MaxAttempts
    BY <1>4, <1>8 DEF MailInv, MailShape
  <2> QED
    BY <1>1, <1>7, <2>1 DEF MailInv, MailShape
<1>10. AcceptedWasDelivered' /\ SentWasDelivered'
  BY <1>1, <1>8 DEF MailInv, AcceptedWasDelivered, SentWasDelivered
<1>11. OneCycleSends'
  <2> SUFFICES ASSUME Clean
               PROVE  /\ admin = Idle
                      /\ \A d \in Cycle, e \in Email : JobIsTrue(d, e)'
                      /\ \A e \in Email :
                           /\ delivered[e] <= 1
                           /\ delivered[e] > 0 => mailRow[e].status = "SENT"
    BY <1>1 DEF OneCycleSends, Clean
  <2>1. \A d \in Cycle, e \in Email : job[d][e].phase = "none"
    BY <1>1, MailAssumption DEF MailInv, OneCycleSends, JobIsTrue, NoOwner
  <2>2. \A e \in Email : /\ delivered[e] <= 1
                         /\ delivered[e] > 0 => mailRow[e].status = "SENT"
    BY <2>1 DEF MailInv, OneCycleSends
  <2>3. \A e \in Batch : delivered[e] = 0
    BY <1>4, <2>2 DEF MailInv, MailShape
  <2>4. \A d \in Cycle, e \in Email : JobIsTrue(d, e)'
    BY <1>1, <1>4, <1>8, <2>1, <2>3 DEF JobIsTrue
  <2> QED
    BY <2>2, <2>4 DEF MailInv, OneCycleSends
<1> QED
  BY <1>9, <1>10, <1>11 DEF MailInv

-----------------------------------------------------------------------------

\* A job changes while the rows and the counts of deliveries do not, without the
\* transport accepting anything.
LEMMA JobChange ==
  ASSUME MailInv, NEW c \in Cycle, NEW e \in Email, NEW new \in Job,
         JobBecomes(c, e, new), UNCHANGED <<mailRow, delivered>>,
         new.phase # "accepted", new.phase # "none" => new.seen < MaxAttempts,
         crashes' \in Nat /\ adminOps' \in Nat /\ failures' \in Nat,
         Clean' => /\ Clean /\ UNCHANGED <<owner, admin>>
                   /\ job[c][e].phase \in {"queued", "sending", "refused"}
  PROVE  MailInv'
<1>1. MailShape'
  BY DEF MailInv, MailShape, JobBecomes
<1>2. AcceptedWasDelivered' /\ SentWasDelivered'
  BY DEF MailInv, AcceptedWasDelivered, SentWasDelivered, JobBecomes
<1>3. OneCycleSends'
  <2> SUFFICES ASSUME Clean'
               PROVE  /\ admin' = Idle
                      /\ \A d \in Cycle, f \in Email : JobIsTrue(d, f)'
                      /\ \A f \in Email :
                           /\ delivered[f] <= 1
                           /\ delivered[f] > 0 =>
                                \/ mailRow[f].status = "SENT"
                                \/ \E d \in Cycle : job'[d][f].phase = "accepted"
    BY DEF OneCycleSends
  <2>1. /\ admin' = Idle /\ \A d \in Cycle, f \in Email : JobIsTrue(d, f)
        /\ \A f \in Email : /\ delivered[f] <= 1
                            /\ delivered[f] > 0 =>
                                 \/ mailRow[f].status = "SENT"
                                 \/ \E d \in Cycle : job[d][f].phase = "accepted"
    BY DEF MailInv, OneCycleSends
  <2>2. \A d \in Cycle, f \in Email : JobIsTrue(d, f)'
    BY <2>1 DEF JobIsTrue, JobBecomes
  <2>3. ASSUME NEW f \in Email, delivered[f] > 0
        PROVE  mailRow[f].status = "SENT" \/ \E d \in Cycle : job'[d][f].phase = "accepted"
    BY <2>1, <2>3 DEF JobBecomes
  <2> QED
    BY <2>1, <2>2, <2>3
<1> QED
  BY <1>1, <1>2, <1>3 DEF MailInv

\* A worker starts on a row, or the transport refuses it, or the database does
\* not take what was accepted.
LEMMA PhaseKeeps ==
  ASSUME MailInv, NEW c \in Cycle, NEW e \in Email,
         StartRow(c, e) \/ Refuse(c, e) \/ RecordSentFails(c, e)
  PROVE  MailInv'
<1>1. /\ job[c][e] \in Job /\ job[c][e].phase # "none"
      /\ job[c][e].seen \in 0 .. MaxAttempts /\ job[c][e].seen < MaxAttempts
      /\ crashes \in Nat /\ adminOps \in Nat /\ failures \in Nat
  BY DEF MailInv, MailShape, Job, StartRow, Jobs, Refuse, RecordSentFails
<1>2. PICK phase \in {"sending", "refused"} : job' = [job EXCEPT ![c][e].phase = phase]
  BY DEF StartRow, Refuse, RecordSentFails
<1>3. PICK new : new = [phase |-> phase, seen |-> job[c][e].seen]
  OBVIOUS
<1>4. JobBecomes(c, e, new)
  BY <1>2, <1>3, PhaseEffect DEF MailInv
<1>5. /\ new \in Job /\ new.phase # "accepted" /\ new.seen < MaxAttempts
  BY <1>1, <1>3 DEF Job
<1>6. UNCHANGED <<mailRow, delivered>>
  BY DEF StartRow, Refuse, RecordSentFails
<1>7. crashes' \in Nat /\ adminOps' \in Nat /\ failures' \in Nat
  BY <1>1 DEF StartRow, Refuse, RecordSentFails
<1>8. Clean' => /\ Clean /\ UNCHANGED <<owner, admin>>
                /\ job[c][e].phase \in {"queued", "sending", "refused"}
  BY <1>1 DEF StartRow, Jobs, Refuse, RecordSentFails, Clean
<1> QED
  BY <1>4, <1>5, <1>6, <1>7, <1>8, JobChange

\* The transport accepts an e-mail: in a clean history for the first time.
LEMMA AcceptKeeps ==
  ASSUME MailInv, NEW c \in Cycle, NEW e \in Email, Accept(c, e)
  PROVE  MailInv'
<1>1. /\ job[c][e] \in Job /\ job[c][e].phase = "sending"
      /\ job[c][e].seen \in 0 .. MaxAttempts /\ job[c][e].seen < MaxAttempts
      /\ delivered[e] \in 0 .. Many
      /\ UNCHANGED <<mailRow, alive, owner, admin, crashes, adminOps, failures>>
  BY DEF MailInv, MailShape, Job, Accept
<1>2. PICK new : new = [phase |-> "accepted", seen |-> job[c][e].seen]
  OBVIOUS
<1>3. JobBecomes(c, e, new)
  BY <1>2, PhaseEffect DEF MailInv, Accept
<1>4. new \in Job /\ new.phase = "accepted" /\ new.seen < MaxAttempts
  BY <1>1, <1>2 DEF Job
<1>5. PICK n : n = Min({delivered[e] + 1, Many})
  OBVIOUS
<1>6. n \in 1 .. Many /\ (delivered[e] = 0 => n = 1)
  BY <1>1, <1>5, DeliveredEffect
<1>7. delivered' = [delivered EXCEPT ![e] = n]
  BY Zenon, <1>5 DEF Accept, MailInv, MailShape
<1>8. /\ delivered' \in [Email -> 0 .. Many] /\ delivered'[e] = n
      /\ \A f \in Email \ {e} : delivered'[f] = delivered[f]
  BY <1>6, <1>7 DEF MailInv, MailShape, Many
<1>9. MailShape'
  BY <1>1, <1>3, <1>4, <1>8 DEF MailInv, MailShape, JobBecomes
<1>10. AcceptedWasDelivered' /\ SentWasDelivered'
  BY <1>1, <1>3, <1>6, <1>8 DEF MailInv, AcceptedWasDelivered, SentWasDelivered, JobBecomes
<1>11. OneCycleSends'
  <2> SUFFICES ASSUME Clean'
               PROVE  /\ admin' = Idle
                      /\ \A d \in Cycle, f \in Email : JobIsTrue(d, f)'
                      /\ \A f \in Email :
                           /\ delivered'[f] <= 1
                           /\ delivered'[f] > 0 =>
                                \/ mailRow'[f].status = "SENT"
                                \/ \E d \in Cycle : job'[d][f].phase = "accepted"
    BY DEF OneCycleSends
  <2>1. /\ admin' = Idle /\ \A d \in Cycle, f \in Email : JobIsTrue(d, f)
        /\ \A f \in Email : /\ delivered[f] <= 1
                            /\ delivered[f] > 0 =>
                                 \/ mailRow[f].status = "SENT"
                                 \/ \E d \in Cycle : job[d][f].phase = "accepted"
    BY <1>1 DEF MailInv, OneCycleSends, Clean
  <2>2. delivered[e] = 0 /\ owner = c /\ mailRow[e].status = "PENDING"
    BY <1>1, <2>1 DEF JobIsTrue
  <2>3. \A d \in Cycle, f \in Email : JobIsTrue(d, f)'
    BY <1>1, <1>3, <1>4, <1>8, <2>1, <2>2 DEF JobIsTrue, JobBecomes
  <2>4. ASSUME NEW f \in Email
        PROVE  /\ delivered'[f] <= 1
               /\ delivered'[f] > 0 => \/ mailRow'[f].status = "SENT"
                                       \/ \E d \in Cycle : job'[d][f].phase = "accepted"
    <3>1. CASE f = e
      BY <1>3, <1>4, <1>6, <1>8, <2>2, <3>1 DEF JobBecomes
    <3>2. CASE f # e
      BY <1>1, <1>3, <1>8, <2>1, <3>2 DEF JobBecomes
    <3> QED
      BY <3>1, <3>2
  <2> QED
    BY <2>1, <2>3, <2>4
<1> QED
  BY <1>9, <1>10, <1>11 DEF MailInv

\* A result is written and its job ends: SENT after the transport accepted, what
\* AfterFailure says after it refused.
LEMMA WriteKeeps ==
  ASSUME MailInv, NEW c \in Cycle, NEW e \in Email, Write(c, e)
  PROVE  MailInv'
<1>0. /\ job' = [job EXCEPT ![c][e] = NoJob]
      /\ UNCHANGED <<alive, owner, delivered, admin, crashes, adminOps, failures>>
  BY DEF Write, RecordSent, RecordFailure
<1>1. JobBecomes(c, e, NoJob) /\ NoJob.phase = "none"
  BY <1>0, JobEndsEffect DEF MailInv, NoJob
<1>2. PICK row \in Row :
        /\ mailRow' = [mailRow EXCEPT ![e] = row]
        /\ \/ job[c][e].phase = "accepted" /\ row.status = "SENT"
           \/ /\ job[c][e].phase = "refused" /\ row.status \in {"FAILED", "PENDING"}
              /\ row.status = "PENDING" => row.attempts < MaxAttempts
  <2>1. CASE RecordSent(c, e)
    <3>1. PICK row : row = [mailRow[e] EXCEPT !.status = "SENT"]
      OBVIOUS
    <3>2. row \in Row /\ row.status = "SENT"
      BY <3>1 DEF MailInv, MailShape, Row
    <3>3. mailRow' = [mailRow EXCEPT ![e] = row]
      BY Zenon, <2>1, <3>1 DEF RecordSent, MailInv, MailShape
    <3> QED
      BY <2>1, <3>2, <3>3 DEF RecordSent
  <2>2. CASE RecordFailure(c, e)
    <3>1. job[c][e].phase = "refused" /\ mailRow' = [mailRow EXCEPT ![e] = AfterFailure(job[c][e].seen + 1)]
      BY <2>2 DEF RecordFailure
    <3>2. job[c][e].seen + 1 \in 0 .. MaxAttempts
      <4>1. job[c][e] \in Job /\ job[c][e].seen < MaxAttempts
        BY <3>1 DEF MailInv, MailShape
      <4> QED
        BY <4>1, MailAssumption DEF Job
    <3>3. PICK row : row = AfterFailure(job[c][e].seen + 1)
      OBVIOUS
    <3>4. /\ row \in Row /\ row.status \in {"FAILED", "PENDING"}
          /\ row.status = "PENDING" => row.attempts < MaxAttempts
      BY <3>2, <3>3, MailAssumption DEF AfterFailure, Row
    <3> QED
      BY <3>1, <3>3, <3>4
  <2> QED
    BY <2>1, <2>2 DEF Write
<1>3. row.status = "PENDING" => row.attempts < MaxAttempts
  BY <1>2
<1>4. /\ mailRow' \in [Email -> Row] /\ mailRow'[e] = row
      /\ \A f \in Email \ {e} : mailRow'[f] = mailRow[f]
      /\ \A f \in Email : mailRow'[f].status = "PENDING" => mailRow'[f].attempts < MaxAttempts
  BY <1>2, <1>3, RowEffect DEF MailInv
<1>5. MailShape'
  BY <1>0, <1>1, <1>4 DEF MailInv, MailShape, JobBecomes
<1>6. AcceptedWasDelivered'
  BY <1>0, <1>1 DEF MailInv, AcceptedWasDelivered, JobBecomes
<1>7. SentWasDelivered'
  BY <1>0, <1>2, <1>4 DEF MailInv, SentWasDelivered, AcceptedWasDelivered
<1>8. OneCycleSends'
  <2> SUFFICES ASSUME Clean'
               PROVE  /\ admin' = Idle
                      /\ \A d \in Cycle, f \in Email : JobIsTrue(d, f)'
                      /\ \A f \in Email :
                           /\ delivered'[f] <= 1
                           /\ delivered'[f] > 0 =>
                                \/ mailRow'[f].status = "SENT"
                                \/ \E d \in Cycle : job'[d][f].phase = "accepted"
    BY DEF OneCycleSends
  <2>1. /\ admin' = Idle /\ \A d \in Cycle, f \in Email : JobIsTrue(d, f)
        /\ \A f \in Email : /\ delivered[f] <= 1
                            /\ delivered[f] > 0 =>
                                 \/ mailRow[f].status = "SENT"
                                 \/ \E d \in Cycle : job[d][f].phase = "accepted"
    BY <1>0 DEF MailInv, OneCycleSends, Clean
  <2>2. owner = c /\ (row.status # "SENT" => delivered[e] = 0)
    BY <1>2, <2>1 DEF JobIsTrue
  <2>3. \A d \in Cycle, f \in Email : JobIsTrue(d, f)'
    BY <1>0, <1>1, <1>4, <2>1, <2>2 DEF JobIsTrue, JobBecomes
  <2>4. ASSUME NEW f \in Email
        PROVE  /\ delivered'[f] <= 1
               /\ delivered'[f] > 0 => \/ mailRow'[f].status = "SENT"
                                       \/ \E d \in Cycle : job'[d][f].phase = "accepted"
    <3>1. CASE f = e
      BY <1>0, <1>4, <2>1, <2>2, <3>1
    <3>2. CASE f # e
      BY <1>0, <1>1, <1>4, <2>1, <3>2 DEF JobBecomes
    <3> QED
      BY <3>1, <3>2
  <2> QED
    BY <2>1, <2>3, <2>4
<1> QED
  BY <1>5, <1>6, <1>7, <1>8 DEF MailInv

\* Jobs disappear while something goes wrong: a write of a failure that throws,
\* a restart, a look of the administrator.
LEMMA JobsLost ==
  ASSUME MailInv, UNCHANGED <<mailRow, delivered>>, ~Clean',
         crashes' \in Nat /\ adminOps' \in Nat /\ failures' \in Nat,
         job' \in [Cycle -> [Email -> Job]],
         \A c \in Cycle, e \in Email : job'[c][e] = job[c][e] \/ job'[c][e] = NoJob
  PROVE  MailInv'
<1>0. NoJob.phase = "none"
  BY DEF NoJob
<1>1. MailShape'
  BY <1>0 DEF MailInv, MailShape
<1>2. AcceptedWasDelivered' /\ SentWasDelivered' /\ OneCycleSends'
  BY <1>0 DEF MailInv, AcceptedWasDelivered, SentWasDelivered, OneCycleSends
<1> QED
  BY <1>1, <1>2 DEF MailInv

\* The write of a failure throws.
LEMMA FailureIsLost ==
  ASSUME MailInv, NEW c \in Cycle, NEW e \in Email, RecordFailureFails(c, e)
  PROVE  MailInv'
<1> DEFINE left == [f \in Email |->
       IF f = e \/ (alive[c] = 1 /\ job[c][f].phase = "queued") THEN NoJob ELSE job[c][f]]
<1>1. /\ job' = [job EXCEPT ![c] = left]
      /\ UNCHANGED <<mailRow, delivered, admin, crashes, adminOps>> /\ failures' = failures + 1
  BY DEF RecordFailureFails
<1>2. NoJob \in Job /\ job \in [Cycle -> [Email -> Job]]
  BY MailAssumption DEF NoJob, Job, MailInv, MailShape
<1>3. left \in [Email -> Job] /\ \A f \in Email : left[f] = job[c][f] \/ left[f] = NoJob
  BY <1>2
<1> HIDE DEF left
<1>4. /\ job' \in [Cycle -> [Email -> Job]]
      /\ \A d \in Cycle, f \in Email : job'[d][f] = job[d][f] \/ job'[d][f] = NoJob
  BY <1>1, <1>2, <1>3
<1>5. ~Clean' /\ crashes' \in Nat /\ adminOps' \in Nat /\ failures' \in Nat
  BY <1>1 DEF Clean, MailInv, MailShape
<1> QED
  BY <1>1, <1>4, <1>5, JobsLost

\* The process restarts.
LEMMA RestartKeeps ==
  ASSUME MailInv, Crash
  PROVE  MailInv'
<1>1. /\ job' = NoJobs /\ UNCHANGED <<mailRow, delivered, adminOps, failures>>
      /\ crashes' = crashes + 1
  BY DEF Crash
<1>2. NoJob \in Job
  BY MailAssumption DEF NoJob, Job
<1>3. /\ job' \in [Cycle -> [Email -> Job]]
      /\ \A d \in Cycle, f \in Email : job'[d][f] = NoJob
  BY <1>1, <1>2 DEF NoJobs
<1>4. ~Clean' /\ crashes' \in Nat /\ adminOps' \in Nat /\ failures' \in Nat
  BY <1>1 DEF Clean, MailInv, MailShape
<1> QED
  BY <1>1, <1>3, <1>4, JobsLost

\* The administrator reads a row, or a whole batch is through.
LEMMA LookKeeps ==
  ASSUME MailInv,
         \/ \E op \in {"retry", "cancel"}, e \in Email : AdminRead(op, e)
         \/ \E c \in Cycle : EndCycle(c)
  PROVE  MailInv'
<1>1. CASE \E op \in {"retry", "cancel"}, e \in Email : AdminRead(op, e)
  <2>1. UNCHANGED <<mailRow, job, delivered, crashes, failures>> /\ adminOps' = adminOps + 1
    BY <1>1 DEF AdminRead
  <2>2. ~Clean' /\ crashes' \in Nat /\ adminOps' \in Nat /\ failures' \in Nat
    BY <2>1 DEF Clean, MailInv, MailShape
  <2>3. job' \in [Cycle -> [Email -> Job]]
    BY <2>1 DEF MailInv, MailShape
  <2> QED
    BY <2>1, <2>2, <2>3, JobsLost
<1>2. CASE \E c \in Cycle : EndCycle(c)
  <2>1. PICK c \in Cycle : EndCycle(c)
    BY <1>2
  <2>2. /\ owner = c /\ owner' = NoOwner
        /\ UNCHANGED <<mailRow, job, alive, delivered, admin, crashes, adminOps, failures>>
    BY <2>1 DEF EndCycle
  <2>3. \A e \in Email : job[c][e].phase = "none"
    BY <2>1 DEF EndCycle, Busy, Jobs, MailInv, MailShape, Job
  <2>4. MailShape' /\ AcceptedWasDelivered' /\ SentWasDelivered'
    BY <2>2 DEF MailInv, MailShape, AcceptedWasDelivered, SentWasDelivered
  <2>5. OneCycleSends'
    BY <2>2, <2>3 DEF MailInv, OneCycleSends, JobIsTrue, Clean
  <2> QED
    BY <2>4, <2>5 DEF MailInv
<1> QED
  BY <1>1, <1>2

\* Every step keeps the invariant.
LEMMA MailInvNext == MailInv /\ [MailNext]_mailVars => MailInv'
<1> SUFFICES ASSUME MailInv, [MailNext]_mailVars PROVE MailInv'
  OBVIOUS
<1>1. CASE \E e \in Email : Enqueue(e) \/ BackoffEnds(e)
  BY <1>1, QueueKeeps
<1>2. CASE \E c \in Cycle : Tick(c) \/ EndCycle(c)
  BY <1>2, MailTickKeeps, LookKeeps
<1>3. CASE \E c \in Cycle, e \in Email :
             StartRow(c, e) \/ Send(c, e) \/ Write(c, e) \/ RecordSentFails(c, e)
               \/ RecordFailureFails(c, e)
  BY <1>3, PhaseKeeps, AcceptKeeps, WriteKeeps, FailureIsLost DEF Send
<1>4. CASE \E op \in {"retry", "cancel"}, e \in Email : AdminRead(op, e)
  BY <1>4, LookKeeps
<1>5. CASE \E e \in Email : AdminRetry(e) \/ AdminCancel(e)
  BY <1>5, QueueKeeps
<1>6. CASE Crash
  BY <1>6, RestartKeeps
<1>7. CASE UNCHANGED mailVars
  <2>1. UNCHANGED <<mailRow, job, owner, delivered, admin, crashes, adminOps, failures>>
    BY <1>7 DEF mailVars
  <2>2. MailShape' /\ AcceptedWasDelivered' /\ SentWasDelivered'
    BY <2>1 DEF MailInv, MailShape, AcceptedWasDelivered, SentWasDelivered
  <2>3. OneCycleSends'
    BY <2>1 DEF MailInv, OneCycleSends, JobIsTrue, Clean
  <2> QED
    BY <2>2, <2>3 DEF MailInv
<1> QED
  BY <1>1, <1>2, <1>3, <1>4, <1>5, <1>6, <1>7 DEF MailNext

\* What the log calls SENT was delivered, and an e-mail is delivered once as long
\* as nothing interferes: for any number of e-mails, cycles, workers and attempts.
THEOREM LogOfMailIsTrue == MailSpec => []LogIsTrue
<1>1. MailSpec => []MailInv
  BY MailInvInit, MailInvNext, PTL DEF MailSpec
<1> QED
  BY <1>1, MailInvIsTrue, PTL

-----------------------------------------------------------------------------
(* The roster of the clocks.  PendingIsGone is not inductive: a run writes *)
(* over links what it planned from rows and readings of some time ago.     *)

\* A row of time_clock_employees.
LinkRow ==
  [user: Staff, status: {"ACTIVE", "PENDING_REMOVAL"}, runs: Nat, age: Nat,
   missing: BOOLEAN, reappeared: BOOLEAN]

\* What the tables, a run and a removal look like.
RosterTypeOK ==
  /\ stored \in [RosterClock -> SUBSET Number]
  /\ enrolled \in [RosterClock -> SUBSET Number]
  /\ link \in [Number -> LinkRow \cup {NoLink}]
  /\ working \in [Staff -> BOOLEAN]
  /\ \/ applying = NotApplying
     \/ applying \in [pc: {"deactivate", "reset"}, number: Number, user: Staff]
  /\ roster.pc \in {"idle", "reading", "commit"}
  /\ roster.pc = "idle" => roster = NoRosterRun
  /\ roster.pc = "reading" =>
       /\ roster = [pc |-> "reading", readings |-> roster.readings, left |-> roster.left]
       /\ roster.left \subseteq RosterClock
       /\ DOMAIN roster.readings = RosterClock \ roster.left
  /\ roster.pc = "commit" =>
       /\ DOMAIN roster.readings = RosterClock
       /\ roster.seen \in [Number -> LinkRow \cup {NoLink}]
       /\ roster.active \in [Staff -> BOOLEAN]

\* What a run read of the clocks is compared with the rosters that are stored.
ReadingsAreCurrent ==
  roster.pc \in {"reading", "commit"} =>
    \A c \in DOMAIN roster.readings :
      /\ roster.readings[c].previous = stored[c]
      /\ roster.readings[c].numbers \in SUBSET Number

\* The grace of a row is over.
GraceIsOver(row) == row.runs >= ROSTER_GRACE_RUNS /\ row.age >= ROSTER_GRACE

\* Only a run makes a removal pending, so one that is pending now was when the
\* run read the links, and its grace was over by then.
PendingWasSeen ==
  roster.pc = "commit" =>
    \A n \in Number :
      /\ link[n].status = "PENDING_REMOVAL" => roster.seen[n].status = "PENDING_REMOVAL"
      /\ roster.seen[n].status = "PENDING_REMOVAL" => GraceIsOver(roster.seen[n])

\* The inductive invariant of the roster.
RosterInv ==
  /\ RosterTypeOK
  /\ ReadingsAreCurrent
  /\ PendingWasSeen
  /\ PendingIsGone

-----------------------------------------------------------------------------

\* A number that is not linked is not pending, and a row is no absent one.
LEMMA NoLinkFields ==
  /\ NoLink.status = "none" /\ NoLink.status # "PENDING_REMOVAL"
  /\ \A row \in LinkRow : row # NoLink
<1>1. NoLink.status = "none"
  BY DEF NoLink
<1>2. \A row \in LinkRow : row.status # "none"
  BY DEF LinkRow
<1> QED
  BY <1>1, <1>2

\* What a linked row becomes when the person is in a clock.
LEMMA OnPresentFields ==
  ASSUME NEW row \in LinkRow, NEW active \in BOOLEAN
  PROVE  OnPresent(row, active) \in LinkRow /\ OnPresent(row, active).status = "ACTIVE"
<1>1. PICK u, s, r, a, m, p : row = [user |-> u, status |-> s, runs |-> r, age |-> a,
                                     missing |-> m, reappeared |-> p]
  BY DEF LinkRow
<1> QED
  BY <1>1 DEF OnPresent, LinkRow

\* And when the person is in none.
LEMMA OnAbsentFields ==
  ASSUME NEW row \in LinkRow
  PROVE  /\ OnAbsent(row) \in LinkRow
         /\ OnAbsent(row).missing = TRUE /\ OnAbsent(row).age = row.age
         /\ row.runs >= ROSTER_GRACE_RUNS => OnAbsent(row).runs >= ROSTER_GRACE_RUNS
         /\ OnAbsent(row).status = "PENDING_REMOVAL" =>
              row.status = "PENDING_REMOVAL" \/ GraceIsOver(OnAbsent(row))
         /\ row.status = "PENDING_REMOVAL" => OnAbsent(row).status = "PENDING_REMOVAL"
<1>1. PICK u, s, r, a, m, p : row = [user |-> u, status |-> s, runs |-> r, age |-> a,
                                     missing |-> m, reappeared |-> p]
  BY DEF LinkRow
<1>2. PICK runs : runs = Capped(row.runs + 1, ROSTER_GRACE_RUNS)
  OBVIOUS
<1>3. /\ r \in Nat /\ a \in Nat /\ s \in {"ACTIVE", "PENDING_REMOVAL"} /\ p \in BOOLEAN
      /\ u \in Staff /\ row.runs = r /\ row.age = a /\ row.status = s
  BY <1>1 DEF LinkRow
<1>4. runs \in Nat /\ (r >= ROSTER_GRACE_RUNS => runs >= ROSTER_GRACE_RUNS)
  BY <1>2, <1>3, RosterAssumption DEF Capped
<1>5. PICK status : status = IF runs >= ROSTER_GRACE_RUNS /\ row.age >= ROSTER_GRACE
                             THEN "PENDING_REMOVAL" ELSE s
  OBVIOUS
<1>6. OnAbsent(row) = [row EXCEPT !.runs = runs, !.missing = TRUE, !.status = status]
  <2>1. OnAbsent(row) = [row EXCEPT !.runs = runs, !.missing = TRUE,
                                    !.status = IF runs >= ROSTER_GRACE_RUNS /\ row.age >= ROSTER_GRACE
                                               THEN "PENDING_REMOVAL" ELSE @]
    BY Zenon, <1>2 DEF OnAbsent
  <2>2. PICK late : late = [row EXCEPT !.runs = runs, !.missing = TRUE]
    OBVIOUS
  <2>3. late.status = s
    BY <1>1, <2>2
  <2>4. OnAbsent(row) = [late EXCEPT !.status = IF runs >= ROSTER_GRACE_RUNS /\ row.age >= ROSTER_GRACE
                                                THEN "PENDING_REMOVAL" ELSE late.status]
    BY Zenon, <2>1, <2>2
  <2>5. OnAbsent(row) = [late EXCEPT !.status = status]
    BY Zenon, <1>5, <2>3, <2>4
  <2> QED
    BY Zenon, <2>2, <2>5
<1>7. OnAbsent(row) = [user |-> u, status |-> status, runs |-> runs, age |-> a,
                       missing |-> TRUE, reappeared |-> p]
  BY <1>1, <1>6
<1>8. status \in {"ACTIVE", "PENDING_REMOVAL"}
  BY <1>3, <1>5
<1>9. OnAbsent(row) \in LinkRow
  BY <1>3, <1>4, <1>7, <1>8 DEF LinkRow
<1>10. /\ OnAbsent(row).missing = TRUE /\ OnAbsent(row).age = a /\ OnAbsent(row).runs = runs
       /\ OnAbsent(row).status = status
  BY <1>7
<1> QED
  BY <1>3, <1>4, <1>5, <1>9, <1>10 DEF GraceIsOver

\* A person counts as gone when no clock is known to hold it.
Counted(readings, active, n) ==
  n \notin Present(readings) /\ active /\ ~Suspicious(readings)

\* What a run plans for a row.
LEMMA PlanFields ==
  ASSUME NEW readings, NEW row \in LinkRow, NEW active \in BOOLEAN, NEW n
  PROVE  LET after == PlanRoster(readings, row, active, n)
         IN  /\ after \in LinkRow
             /\ n \in Present(readings) => after.status = "ACTIVE"
             /\ Counted(readings, active, n) => after = OnAbsent(row)
             /\ n \notin Present(readings) /\ ~Counted(readings, active, n) => after = row
BY OnPresentFields, OnAbsentFields DEF PlanRoster, Counted

\* What the update of a run leaves in a row.
LEMMA MergedFields ==
  ASSUME NEW now \in LinkRow, NEW before \in LinkRow, NEW after \in LinkRow
  PROVE  LET merged == Merged(now, before, after)
         IN  /\ merged \in LinkRow
             /\ merged.status = IF before.status # after.status THEN after.status ELSE now.status
             /\ after.missing => merged.runs = after.runs /\ merged.age = after.age
<1> DEFINE counted == IF after.missing THEN {"runs", "missing", "age"} ELSE {}
           merged == [f \in DOMAIN now |-> IF f \in counted \/ before[f] # after[f]
                                           THEN after[f] ELSE now[f]]
<1>1. DOMAIN now = {"user", "status", "runs", "age", "missing", "reappeared"}
  BY DEF LinkRow
<1>2. merged = [user |-> merged.user, status |-> merged.status, runs |-> merged.runs,
                age |-> merged.age, missing |-> merged.missing,
                reappeared |-> merged.reappeared]
  BY <1>1
<1>3. merged.status = IF before.status # after.status THEN after.status ELSE now.status
  BY <1>1
<1>4. after.missing => merged.runs = after.runs /\ merged.age = after.age
  BY <1>1
<1>5. merged \in LinkRow
  BY <1>1, <1>2 DEF LinkRow
<1> QED
  BY <1>3, <1>4, <1>5 DEF Merged

\* The rosters that a run stores are the ones it planned with.
LEMMA StoredIsPresent ==
  ASSUME NEW readings, NEW n, NEW c \in DOMAIN readings,
         n \notin Present(readings)
  PROVE  n \notin IF c \in Trusted(readings) THEN readings[c].numbers ELSE readings[c].previous
BY DEF Present

-----------------------------------------------------------------------------

\* At first everybody is in the clocks and nobody is pending.
LEMMA RosterInvInit == RosterInit => RosterInv
<1> SUFFICES ASSUME RosterInit PROVE RosterInv
  OBVIOUS
<1>1. ASSUME NEW n \in Number
      PROVE  link[n] \in LinkRow \cup {NoLink} /\ link[n].status # "PENDING_REMOVAL"
  <2>1. CASE FirstLinks[n] = "none"
    BY <2>1, NoLinkFields DEF RosterInit
  <2>2. CASE FirstLinks[n] # "none"
    <3>1. FirstLinks[n] \in Staff
      BY <2>2, RosterAssumption
    <3>2. link[n] = Linked(FirstLinks[n])
      BY <2>2 DEF RosterInit
    <3> QED
      BY <3>1, <3>2 DEF Linked, LinkRow
  <2> QED
    BY <2>1, <2>2
<1>2. link \in [Number -> LinkRow \cup {NoLink}] /\ PendingIsGone
  BY <1>1 DEF RosterInit, PendingIsGone
<1> QED
  BY <1>2 DEF RosterInit, RosterInv, RosterTypeOK, ReadingsAreCurrent, PendingWasSeen, NoRosterRun

\* The desk, and a removal, make nobody pending.
LEMMA DeskKeeps ==
  ASSUME RosterInv, UNCHANGED <<stored, roster>>,
         enrolled' \in [RosterClock -> SUBSET Number],
         working' \in [Staff -> BOOLEAN],
         \/ applying' = NotApplying
         \/ applying' \in [pc: {"deactivate", "reset"}, number: Number, user: Staff],
         link' \in [Number -> LinkRow \cup {NoLink}],
         \A n \in Number : link'[n].status = "PENDING_REMOVAL" =>
           /\ link[n].status = "PENDING_REMOVAL"
           /\ link'[n].runs = link[n].runs /\ link'[n].age = link[n].age
  PROVE  RosterInv'
<1>1. RosterTypeOK'
  BY DEF RosterInv, RosterTypeOK
<1>2. ReadingsAreCurrent'
  BY DEF RosterInv, ReadingsAreCurrent
<1>3. PendingWasSeen'
  BY DEF RosterInv, PendingWasSeen
<1>4. PendingIsGone'
  BY DEF RosterInv, PendingIsGone, InAClock
<1> QED
  BY <1>1, <1>2, <1>3, <1>4 DEF RosterInv

\* A link that starts anew is not pending.
LEMMA LinkedFields ==
  ASSUME NEW u \in Staff
  PROVE  Linked(u) \in LinkRow /\ Linked(u).status # "PENDING_REMOVAL"
BY DEF Linked, LinkRow

\* Neither is one that is reset.
LEMMA ResetFields ==
  ASSUME NEW row \in LinkRow
  PROVE  Reset(row) \in LinkRow /\ Reset(row).status # "PENDING_REMOVAL"
<1>1. PICK u, s, r, a, m, p : row = [user |-> u, status |-> s, runs |-> r, age |-> a,
                                     missing |-> m, reappeared |-> p]
  BY DEF LinkRow
<1> QED
  BY <1>1 DEF Reset, LinkRow

\* Linking again changes the user only.
LEMMA RelinkFields ==
  ASSUME NEW row \in LinkRow, NEW u \in Staff
  PROVE  LET new == [row EXCEPT !.user = u]
         IN  /\ new \in LinkRow /\ new.status = row.status
             /\ new.runs = row.runs /\ new.age = row.age
<1>1. PICK v, s, r, a, m, p : row = [user |-> v, status |-> s, runs |-> r, age |-> a,
                                     missing |-> m, reappeared |-> p]
  BY DEF LinkRow
<1> QED
  BY <1>1 DEF LinkRow

\* A suggestion of high confidence is a user of the system.
LEMMA SuggestedIsStaff ==
  ASSUME NEW n, Suggest(n).confidence = "HIGH"
  PROVE  (CHOOSE u \in Suggest(n).users : TRUE) \in Staff
<1> DEFINE free == {u \in Staff : \A k \in Number : IsLinked(k) => link[k].user # u}
           byName == {u \in free : NameMatches(WordsOf[n], WordsOf[u])}
           byNumber == {u \in byName : NumberOf[u] = NumberOf[n]}
<1>1. Cardinality(byNumber) = 1 /\ Suggest(n).users = byNumber
  BY DEF Suggest
<1>2. byNumber # {}
  BY <1>1, FS_EmptySet
<1> QED
  BY <1>1, <1>2

\* What people do at the desk keeps the invariant.
LEMMA DeskInv ==
  ASSUME RosterInv,
         \/ \E n \in Number, u \in Staff : LinkEmployee(n, u)
         \/ \E n \in Number : UnlinkEmployee(n) \/ DismissRemoval(n)
         \/ LinkSuggested \/ DeactivateRemoved \/ ResetRemoved
         \/ \E n \in Number, category \in Removal : ApplyRemoval(n, category)
         \/ \E category \in Removal : UpdateRemovalCategory(category)
         \/ \E u \in Staff : SetWorking(u)
         \/ \E c \in RosterClock, n \in Number : Enrol(c, n)
  PROVE  RosterInv'
<1>t. /\ link \in [Number -> LinkRow \cup {NoLink}] /\ working \in [Staff -> BOOLEAN]
      /\ enrolled \in [RosterClock -> SUBSET Number]
      /\ \/ applying = NotApplying
         \/ applying \in [pc: {"deactivate", "reset"}, number: Number, user: Staff]
  BY DEF RosterInv, RosterTypeOK
<1>1. ASSUME NEW n \in Number, NEW u \in Staff, LinkEmployee(n, u) PROVE RosterInv'
  <2>1. link' = [link EXCEPT ![n] = IF IsLinked(n) THEN [link[n] EXCEPT !.user = u] ELSE Linked(u)]
    BY Zenon, <1>1, <1>t DEF LinkEmployee
  <2>2. IsLinked(n) => link[n] \in LinkRow
    BY <1>t DEF IsLinked
  <2>3. PICK row : row = IF IsLinked(n) THEN [link[n] EXCEPT !.user = u] ELSE Linked(u)
    OBVIOUS
  <2>4. /\ row \in LinkRow
        /\ row.status = "PENDING_REMOVAL" =>
             /\ link[n].status = "PENDING_REMOVAL"
             /\ row.runs = link[n].runs /\ row.age = link[n].age
    <3>1. CASE IsLinked(n)
      BY <2>2, <2>3, <3>1, RelinkFields
    <3>2. CASE ~IsLinked(n)
      BY <2>3, <3>2, LinkedFields
    <3> QED
      BY <3>1, <3>2
  <2>5. link' = [link EXCEPT ![n] = row]
    BY Zenon, <2>1, <2>3
  <2> QED
    BY <1>1, <1>t, <2>4, <2>5, DeskKeeps DEF LinkEmployee
<1>2. ASSUME NEW n \in Number, UnlinkEmployee(n) PROVE RosterInv'
  BY <1>2, <1>t, NoLinkFields, DeskKeeps DEF UnlinkEmployee
<1>3. ASSUME NEW n \in Number, DismissRemoval(n) PROVE RosterInv'
  <2>1. link[n] \in LinkRow
    BY <1>3, <1>t DEF DismissRemoval, IsLinked
  <2>2. link' = [link EXCEPT ![n] = Reset(link[n])]
    BY Zenon, <1>3, <1>t DEF DismissRemoval
  <2>3. Reset(link[n]) \in LinkRow /\ Reset(link[n]).status # "PENDING_REMOVAL"
    BY <2>1, ResetFields
  <2> QED
    BY <1>3, <1>t, <2>2, <2>3, DeskKeeps DEF DismissRemoval
<1>4. CASE LinkSuggested
  <2> DEFINE suggested == {n \in Rows : ~IsLinked(n)
                                            /\ Suggest(n).confidence = "HIGH"}
  <2>1. \A n \in Number : link'[n] = IF n \in suggested
                                     THEN Linked(CHOOSE u \in Suggest(n).users : TRUE)
                                     ELSE link[n]
    BY <1>4 DEF LinkSuggested
  <2>a. suggested \subseteq Number
    BY RosterAssumption DEF Rows
  <2>2. \A n \in suggested : link'[n] \in LinkRow /\ link'[n].status # "PENDING_REMOVAL"
    <3> SUFFICES ASSUME NEW n \in suggested
                 PROVE  link'[n] \in LinkRow /\ link'[n].status # "PENDING_REMOVAL"
      OBVIOUS
    <3>1. Suggest(n).confidence = "HIGH" /\ n \in Number
      BY <2>a
    <3>2. (CHOOSE u \in Suggest(n).users : TRUE) \in Staff
      BY <3>1, SuggestedIsStaff
    <3> HIDE DEF suggested
    <3>3. link'[n] = Linked(CHOOSE u \in Suggest(n).users : TRUE)
      BY <2>1, <3>1
    <3> QED
      BY <3>2, <3>3, LinkedFields
  <2>3. link' \in [Number -> LinkRow \cup {NoLink}]
    <3>1. link' = [n \in Number |-> link'[n]]
      BY <1>4 DEF LinkSuggested
    <3>2. \A n \in Number : link'[n] \in LinkRow \cup {NoLink}
      BY <1>t, <2>1, <2>2
    <3> QED
      BY <3>1, <3>2
  <2>4. \A n \in Number : link'[n].status = "PENDING_REMOVAL" => link'[n] = link[n]
    BY <2>1, <2>2
  <2> QED
    BY <1>4, <1>t, <2>3, <2>4, DeskKeeps DEF LinkSuggested
<1>5. CASE DeactivateRemoved
  <2>1. applying \in [pc: {"deactivate", "reset"}, number: Number, user: Staff]
    BY <1>5, <1>t DEF DeactivateRemoved, NotApplying
  <2>2. \/ applying' = NotApplying
        \/ applying' \in [pc: {"deactivate", "reset"}, number: Number, user: Staff]
    BY <1>5, <2>1 DEF DeactivateRemoved
  <2>3. working' \in [Staff -> BOOLEAN]
    BY <1>5, <1>t DEF DeactivateRemoved
  <2> QED
    BY <1>5, <1>t, <2>2, <2>3, DeskKeeps DEF DeactivateRemoved
<1>6. CASE ResetRemoved
  <2>1. applying.number \in Number
    BY <1>6, <1>t DEF ResetRemoved, NotApplying
  <2> DEFINE n == applying.number
  <2>2. PICK row : row = IF link[n] = NoLink THEN link[n] ELSE Reset(link[n])
    OBVIOUS
  <2>3. row \in LinkRow \cup {NoLink} /\ row.status # "PENDING_REMOVAL"
    BY <1>t, <2>1, <2>2, ResetFields, NoLinkFields
  <2>4. link' = [link EXCEPT ![n] = row]
    BY Zenon, <1>6, <1>t, <2>2 DEF ResetRemoved
  <2> QED
    BY <1>6, <1>t, <2>1, <2>3, <2>4, DeskKeeps DEF ResetRemoved
<1>7. ASSUME NEW n \in Number, NEW category \in Removal, ApplyRemoval(n, category) PROVE RosterInv'
  <2>1. link[n].user \in Staff
    BY <1>7, <1>t DEF ApplyRemoval, IsLinked, LinkRow
  <2>2. applying' \in [pc: {"deactivate", "reset"}, number: Number, user: Staff]
    BY <1>7, <2>1 DEF ApplyRemoval
  <2> QED
    BY <1>7, <1>t, <2>2, DeskKeeps DEF ApplyRemoval
<1>8. ASSUME NEW category \in Removal, UpdateRemovalCategory(category) PROVE RosterInv'
  BY <1>8, <1>t, DeskKeeps DEF UpdateRemovalCategory
<1>9. ASSUME NEW u \in Staff, SetWorking(u) PROVE RosterInv'
  <2>1. working' \in [Staff -> BOOLEAN]
    BY Zenon, <1>9, <1>t DEF SetWorking
  <2> QED
    BY <1>9, <1>t, <2>1, DeskKeeps DEF SetWorking
<1>10. ASSUME NEW c \in RosterClock, NEW n \in Number, Enrol(c, n) PROVE RosterInv'
  <2>1. enrolled' \in [RosterClock -> SUBSET Number]
    BY <1>10, <1>t DEF Enrol
  <2> QED
    BY <1>10, <1>t, <2>1, DeskKeeps DEF Enrol
<1> QED
  BY <1>1, <1>2, <1>3, <1>4, <1>5, <1>6, <1>7, <1>8, <1>9, <1>10

\* A run that starts has read no clock.
LEMMA ReadingFields ==
  ASSUME RosterTypeOK, roster' = Reading, UNCHANGED <<stored, enrolled, working, applying>>,
         link' \in [Number -> LinkRow \cup {NoLink}]
  PROVE  RosterTypeOK' /\ ReadingsAreCurrent' /\ PendingWasSeen'
<1>1. /\ Reading.pc = "reading" /\ Reading.left = RosterClock /\ DOMAIN Reading.readings = {}
      /\ Reading = [pc |-> "reading", readings |-> Reading.readings, left |-> Reading.left]
  BY DEF Reading
<1>2. RosterTypeOK'
  BY <1>1 DEF RosterTypeOK
<1> QED
  BY <1>1, <1>2 DEF ReadingsAreCurrent, PendingWasSeen

\* An absence grows older up to the grace.
LEMMA RosterTickKeeps ==
  ASSUME RosterInv, RosterTick
  PROVE  RosterInv'
<1> DEFINE older(row) == IF row # NoLink /\ row.missing
                         THEN [row EXCEPT !.age = Capped(row.age + 1, ROSTER_GRACE)] ELSE row
<1>1. \A n \in Number : link'[n] = older(link[n])
  BY Zenon DEF RosterTick
<1>2. ASSUME NEW row \in LinkRow
      PROVE  /\ older(row) \in LinkRow /\ older(row).status = row.status
             /\ older(row).runs = row.runs
             /\ row.age >= ROSTER_GRACE => older(row).age >= ROSTER_GRACE
  <2>1. PICK u, s, r, a, m, p : row = [user |-> u, status |-> s, runs |-> r, age |-> a,
                                       missing |-> m, reappeared |-> p]
    BY DEF LinkRow
  <2>2. PICK age : age = Capped(row.age + 1, ROSTER_GRACE)
    OBVIOUS
  <2>3. row.age \in Nat /\ row.age = a
    BY <2>1 DEF LinkRow
  <2>4. age \in Nat /\ (row.age >= ROSTER_GRACE => age >= ROSTER_GRACE)
    BY <2>2, <2>3, RosterAssumption DEF Capped
  <2>5. PICK new : new = [row EXCEPT !.age = age]
    OBVIOUS
  <2>6. new \in LinkRow /\ new.status = row.status /\ new.runs = row.runs /\ new.age = age
    BY <2>1, <2>4, <2>5 DEF LinkRow
  <2>7. older(row) \in {new, row}
    BY Zenon, <2>2, <2>5
  <2> HIDE DEF older
  <2> QED
    BY <2>4, <2>6, <2>7
<1>3. older(NoLink) = NoLink
  OBVIOUS
<1> HIDE DEF older
<1>4. link' \in [Number -> LinkRow \cup {NoLink}]
  <2>1. link' = [n \in Number |-> link'[n]]
    BY DEF RosterTick
  <2>2. \A n \in Number : link'[n] \in LinkRow \cup {NoLink}
    BY <1>1, <1>2, <1>3 DEF RosterInv, RosterTypeOK
  <2> QED
    BY <2>1, <2>2
<1>5. RosterTypeOK' /\ ReadingsAreCurrent' /\ PendingWasSeen'
  BY <1>4, ReadingFields DEF RosterTick, RosterInv
<1>6. PendingIsGone'
  <2> SUFFICES ASSUME NEW n \in Number, link'[n].status = "PENDING_REMOVAL"
               PROVE  /\ ~InAClock(n)'
                      /\ link'[n].runs >= ROSTER_GRACE_RUNS /\ link'[n].age >= ROSTER_GRACE
    BY DEF PendingIsGone
  <2>1. link[n] \in LinkRow
    BY <1>1, <1>3, NoLinkFields DEF RosterInv, RosterTypeOK
  <2>2. /\ link[n].status = "PENDING_REMOVAL" /\ link'[n].runs = link[n].runs
        /\ link[n].age >= ROSTER_GRACE => link'[n].age >= ROSTER_GRACE
    BY <1>1, <1>2, <2>1
  <2> QED
    BY <2>2 DEF RosterInv, PendingIsGone, InAClock, RosterTick
<1> QED
  BY <1>5, <1>6 DEF RosterInv

\* A clock that is read adds its numbers and what was stored of it.
LEMMA ReadClockKeeps ==
  ASSUME RosterInv, NEW c \in RosterClock, NEW ok \in BOOLEAN, ReadClock(c, ok)
  PROVE  RosterInv'
<1> DEFINE reading == [ok |-> ok, numbers |-> IF ok THEN enrolled[c] ELSE {},
                       previous |-> stored[c]]
<1>1. PICK rd, lf : roster = [pc |-> "reading", readings |-> rd, left |-> lf]
  BY DEF ReadClock, RosterInv, RosterTypeOK
<1>2. /\ lf \subseteq RosterClock /\ c \in lf /\ DOMAIN rd = RosterClock \ lf
      /\ \A k \in DOMAIN rd : rd[k].previous = stored[k] /\ rd[k].numbers \in SUBSET Number
  BY <1>1 DEF ReadClock, RosterInv, RosterTypeOK, ReadingsAreCurrent
<1>3. PICK new : new = [k \in DOMAIN rd \cup {c} |-> IF k = c THEN reading ELSE rd[k]]
  OBVIOUS
<1>4. roster' = [pc |-> "reading", readings |-> new, left |-> lf \ {c}]
  BY <1>1, <1>3 DEF ReadClock
<1>5. DOMAIN new = RosterClock \ (lf \ {c})
  BY <1>2, <1>3
<1>6. /\ reading.previous = stored[c] /\ reading.numbers \in SUBSET Number
  BY DEF RosterInv, RosterTypeOK
<1>7. \A k \in DOMAIN new : new[k].previous = stored[k] /\ new[k].numbers \in SUBSET Number
  BY <1>2, <1>3, <1>6
<1>8. UNCHANGED <<enrolled, stored, link, working, inUse, applying, desk>>
  BY DEF ReadClock
<1>9. RosterTypeOK'
  BY <1>2, <1>4, <1>5, <1>8 DEF RosterInv, RosterTypeOK
<1>10. ReadingsAreCurrent' /\ PendingWasSeen'
  BY <1>4, <1>7, <1>8 DEF ReadingsAreCurrent, PendingWasSeen
<1> QED
  BY <1>8, <1>9, <1>10 DEF RosterInv, PendingIsGone, InAClock

\* The links are read after the clocks.
LEMMA ReadLinksKeeps ==
  ASSUME RosterInv, ReadLinks
  PROVE  RosterInv'
<1>1. /\ roster.pc = "reading" /\ roster.left = {}
      /\ roster' = [pc |-> "commit", readings |-> roster.readings, seen |-> link, active |-> working]
      /\ UNCHANGED <<enrolled, stored, link, working, inUse, applying, moves, desk>>
  BY DEF ReadLinks
<1>2. roster'.pc = "commit" /\ roster'.readings = roster.readings /\ roster'.seen = link
        /\ roster'.active = working
  BY <1>1
<1>3. RosterTypeOK'
  BY <1>1, <1>2 DEF RosterInv, RosterTypeOK
<1>4. ReadingsAreCurrent'
  BY <1>1, <1>2 DEF RosterInv, ReadingsAreCurrent
<1>5. PendingWasSeen'
  BY <1>1, <1>2 DEF RosterInv, PendingIsGone, PendingWasSeen, GraceIsOver
<1> QED
  BY <1>1, <1>3, <1>4, <1>5 DEF RosterInv, PendingIsGone, InAClock

\* A run that ends leaves nothing in memory.
LEMMA NoRunFields ==
  ASSUME RosterTypeOK, roster' = NoRosterRun, UNCHANGED <<enrolled, working>>,
         applying' \in {applying, NotApplying},
         stored' \in [RosterClock -> SUBSET Number], link' \in [Number -> LinkRow \cup {NoLink}]
  PROVE  RosterTypeOK' /\ ReadingsAreCurrent' /\ PendingWasSeen'
<1>1. NoRosterRun.pc = "idle"
  BY DEF NoRosterRun
<1> QED
  BY <1>1 DEF RosterTypeOK, ReadingsAreCurrent, PendingWasSeen

\* What a run writes makes pending only who is gone.
LEMMA CommitKeeps ==
  ASSUME RosterInv, CommitRun
  PROVE  RosterInv'
<1> DEFINE readings == roster.readings
           seen == roster.seen
           active(n) == roster.active[seen[n].user]
           planned(n) == PlanRoster(readings, seen[n], active(n), n)
           counted(n) == n \notin Present(readings) /\ active(n) /\ ~Suspicious(readings)
           changed == {n \in Number : seen[n] # NoLink /\ (counted(n) \/ planned(n) # seen[n])}
<1>1. /\ roster' = NoRosterRun /\ roster.pc = "commit"
      /\ UNCHANGED <<enrolled, working, applying>>
  BY DEF CommitRun
<1>2. CASE UNCHANGED <<stored, link>>
  <2>1. RosterTypeOK' /\ ReadingsAreCurrent' /\ PendingWasSeen'
    BY <1>1, <1>2, NoRunFields DEF RosterInv, RosterTypeOK
  <2> QED
    BY <1>2, <2>1 DEF RosterInv, PendingIsGone, InAClock
<1>3. CASE /\ \A n \in changed : IsLinked(n)
           /\ stored' = [c \in RosterClock |-> IF c \in Trusted(readings)
                                               THEN readings[c].numbers ELSE stored[c]]
           /\ link' = [n \in Number |-> IF n \in changed
                                        THEN Merged(link[n], seen[n], planned(n)) ELSE link[n]]
  <2>t. /\ DOMAIN readings = RosterClock /\ seen \in [Number -> LinkRow \cup {NoLink}]
        /\ roster.active \in [Staff -> BOOLEAN] /\ link \in [Number -> LinkRow \cup {NoLink}]
        /\ \A c \in RosterClock : readings[c].previous = stored[c]
                                    /\ readings[c].numbers \in SUBSET Number
    BY <1>1 DEF RosterInv, RosterTypeOK, ReadingsAreCurrent
  <2>1. stored' \in [RosterClock -> SUBSET Number]
    BY <1>3, <2>t DEF RosterInv, RosterTypeOK
  <2>2. ASSUME NEW n \in Number, seen[n] # NoLink
        PROVE  /\ seen[n] \in LinkRow /\ active(n) \in BOOLEAN /\ planned(n) \in LinkRow
               /\ n \in Present(readings) => planned(n).status = "ACTIVE"
               /\ counted(n) => planned(n) = OnAbsent(seen[n])
               /\ n \notin Present(readings) /\ ~counted(n) => planned(n) = seen[n]
    <3>1. seen[n] \in LinkRow
      BY <2>2, <2>t
    <3>2. active(n) \in BOOLEAN
      BY <2>t, <3>1 DEF LinkRow
    <3> QED
      BY <3>1, <3>2, PlanFields DEF Counted
  <2> HIDE DEF planned, active
  <2>3. ASSUME NEW n \in changed
        PROVE  /\ link'[n] \in LinkRow
               /\ link'[n].status = IF seen[n].status # planned(n).status
                                    THEN planned(n).status ELSE link[n].status
               /\ planned(n).missing =>
                    link'[n].runs = planned(n).runs /\ link'[n].age = planned(n).age
    <3>1. n \in Number /\ seen[n] \in LinkRow /\ planned(n) \in LinkRow
      BY <2>2
    <3>2. link[n] \in LinkRow
      BY <1>3, <2>t, <3>1 DEF IsLinked
    <3>3. link'[n] = Merged(link[n], seen[n], planned(n))
      BY <1>3, <3>1
    <3>4. PICK now, before, after :
            now = link[n] /\ before = seen[n] /\ after = planned(n)
      OBVIOUS
    <3>5. LET merged == Merged(now, before, after)
          IN  /\ merged \in LinkRow
              /\ merged.status = IF before.status # after.status THEN after.status ELSE now.status
              /\ after.missing => merged.runs = after.runs /\ merged.age = after.age
      BY ZenonT(30), <3>1, <3>2, <3>4, MergedFields
    <3> QED
      BY <3>3, <3>4, <3>5
  <2>4. \A n \in Number : n \notin changed => link'[n] = link[n]
    BY <1>3
  <2>5. link' \in [Number -> LinkRow \cup {NoLink}]
    <3>1. link' = [n \in Number |-> link'[n]]
      BY <1>3
    <3>2. \A n \in Number : link'[n] \in LinkRow \cup {NoLink}
      BY <2>t, <2>3, <2>4
    <3> QED
      BY <3>1, <3>2
  <2>6. RosterTypeOK' /\ ReadingsAreCurrent' /\ PendingWasSeen'
    BY <1>1, <2>1, <2>5, NoRunFields DEF RosterInv
  <2>7. ASSUME NEW n \in Number, n \notin Present(readings) PROVE ~InAClock(n)'
    <3> SUFFICES ASSUME NEW c \in RosterClock PROVE n \notin stored'[c]
      BY DEF InAClock
    <3>1. stored'[c] = IF c \in Trusted(readings) THEN readings[c].numbers ELSE readings[c].previous
      BY <1>3, <2>t
    <3> QED
      BY <2>7, <2>t, <3>1, StoredIsPresent
  <2>8. ASSUME NEW n \in Number, link'[n].status = "PENDING_REMOVAL"
        PROVE  n \notin Present(readings) /\ GraceIsOver(link'[n])
    <3>w. /\ link[n].status = "PENDING_REMOVAL" => seen[n].status = "PENDING_REMOVAL"
          /\ seen[n].status = "PENDING_REMOVAL" => GraceIsOver(seen[n])
      BY <1>1 DEF RosterInv, PendingWasSeen
    <3>1. CASE n \in changed
      <4>1. seen[n] # NoLink /\ seen[n] \in LinkRow
        BY <2>2, <3>1
      <4>2. n \notin Present(readings)
        <5> SUFFICES ASSUME n \in Present(readings) PROVE FALSE
          OBVIOUS
        <5>1. planned(n).status = "ACTIVE"
          BY <2>2, <4>1
        <5> QED
          BY <2>3, <2>8, <3>1, <3>w, <5>1
      <4>3. counted(n)
        BY <2>2, <3>1, <4>1, <4>2
      <4>4. planned(n) = OnAbsent(seen[n]) /\ planned(n).missing = TRUE
        BY <2>2, <4>1, <4>3, OnAbsentFields
      <4>5. link'[n].runs = planned(n).runs /\ link'[n].age = planned(n).age
        BY <2>3, <3>1, <4>4
      <4>6. planned(n).status = "PENDING_REMOVAL"
        BY <2>3, <2>8, <3>1, <3>w, <4>1, <4>4, OnAbsentFields
      <4>7. GraceIsOver(OnAbsent(seen[n]))
        BY <3>w, <4>1, <4>4, <4>6, OnAbsentFields DEF GraceIsOver
      <4> QED
        BY <4>2, <4>4, <4>5, <4>7 DEF GraceIsOver
    <3>2. CASE n \notin changed
      <4>1. link[n].status = "PENDING_REMOVAL" /\ link'[n] = link[n]
        BY <2>4, <2>8, <3>2
      <4>2. seen[n].status = "PENDING_REMOVAL" /\ seen[n] # NoLink
        BY <3>w, <4>1, NoLinkFields
      <4>3. n \notin Present(readings)
        BY <2>2, <3>2, <4>2
      <4> QED
        BY <4>1, <4>3 DEF RosterInv, PendingIsGone, GraceIsOver
    <3> QED
      BY <3>1, <3>2
  <2>9. PendingIsGone'
    BY <2>7, <2>8 DEF PendingIsGone, GraceIsOver
  <2> QED
    BY <2>6, <2>9 DEF RosterInv
<1> QED
  BY <1>2, <1>3 DEF CommitRun

\* Every step keeps the invariant.
LEMMA RosterInvNext == RosterInv /\ [RosterNext]_rosterVars => RosterInv'
<1> SUFFICES ASSUME RosterInv, [RosterNext]_rosterVars PROVE RosterInv'
  OBVIOUS
<1>1. CASE StartRosterRun
  <2>1. RosterTypeOK' /\ ReadingsAreCurrent' /\ PendingWasSeen'
    BY <1>1, ReadingFields DEF StartRosterRun, RosterInv, RosterTypeOK
  <2> QED
    BY <1>1, <2>1 DEF StartRosterRun, RosterInv, PendingIsGone, InAClock
<1>2. CASE RosterRestart
  <2>1. RosterTypeOK' /\ ReadingsAreCurrent' /\ PendingWasSeen'
    BY <1>2, NoRunFields DEF RosterRestart, RosterInv, RosterTypeOK
  <2> QED
    BY <1>2, <2>1 DEF RosterRestart, RosterInv, PendingIsGone, InAClock
<1>3. CASE UNCHANGED rosterVars
  BY <1>3
     DEF rosterVars, RosterInv, RosterTypeOK, ReadingsAreCurrent, PendingWasSeen,
         PendingIsGone, InAClock
<1> QED
  BY <1>1, <1>2, <1>3, DeskInv, RosterTickKeeps, ReadClockKeeps, ReadLinksKeeps, CommitKeeps
     DEF RosterNext, RosterStep

\* A pending removal is of somebody whom no clock that counts is known to hold,
\* absent for the runs and the hours of the grace, whatever failed or was changed
\* at the desk while the run was under way (planRoster, applyRosterRun).
THEOREM PendingRemovals == RosterSpec => []PendingIsGone
<1>1. RosterInv => PendingIsGone
  BY DEF RosterInv
<1> QED
  BY <1>1, RosterInvInit, RosterInvNext, PTL DEF RosterSpec
=============================================================================
