--------------------------- MODULE RequestProofs ----------------------------
(***************************************************************************)
(* Proofs about the requests that repeat and overlap: the movement one     *)
(* Idempotency-Key registers, for every number of requests, keys, authors, *)
(* units and attempts; and the receipts of a purchase order.               *)
(***************************************************************************)
EXTENDS IdempotentRequests, PurchaseOrders, Sums, TLAPS

-----------------------------------------------------------------------------
(* Type correctness.                                                       *)

\* The answers that name no movement are no requests.
LEMMA NoMovementAnswers ==
  \A a \in {"none", "error", "reused", "lost"} : a \in Answer /\ a \notin Request
BY RequestsAssumption DEF Answer

\* What the steps below do to a request: r becomes a record of this shape and
\* the other requests stay as they are.
Becomes(r, pc, attempt, snapshot, answer) ==
  /\ request' = [request EXCEPT ![r] = [pc |-> pc, attempt |-> attempt, snapshot |-> snapshot,
                                        answer |-> answer]]
  /\ \A q \in Request \ {r} : request'[q] = request[q]
  /\ request'[r] = [pc |-> pc, attempt |-> attempt, snapshot |-> snapshot, answer |-> answer]

\* A request that is sent on keeps everything but its phase.
LEMMA GotoEffect ==
  ASSUME RequestsTypeOK, NEW r \in Request, NEW pc, Goto(r, pc)
  PROVE  Becomes(r, pc, request[r].attempt, request[r].snapshot, request[r].answer)
<1>1. request[r] \in RequestState
  BY DEF RequestsTypeOK
<1>2. [request[r] EXCEPT !.pc = pc]
        = [pc |-> pc, attempt |-> request[r].attempt, snapshot |-> request[r].snapshot,
           answer |-> request[r].answer]
  BY <1>1 DEF RequestState
<1>3. request' = [request EXCEPT ![r] = [request[r] EXCEPT !.pc = pc]]
  BY Zenon DEF Goto, RequestsTypeOK
<1> QED
  BY Zenon, <1>2, <1>3 DEF Becomes, RequestsTypeOK

\* A request that is answered forgets its attempt.
LEMMA ReplyEffect ==
  ASSUME RequestsTypeOK, NEW r \in Request, NEW answer, Reply(r, answer)
  PROVE  Becomes(r, "end", 1, {}, answer)
BY Zenon DEF Becomes, Reply, RequestsTypeOK

\* A transaction that begins sees what is registered by then.
LEMMA BeginEffect ==
  ASSUME RequestsTypeOK, NEW r \in Request, Begin(r)
  PROVE  Becomes(r, "running", request[r].attempt, registered, request[r].answer)
<1>1. PICK s : s = [request[r] EXCEPT !.pc = "running"]
  OBVIOUS
<1>2. /\ s \in RequestState /\ s.pc = "running"
      /\ s.attempt = request[r].attempt /\ s.answer = request[r].answer
  BY <1>1 DEF RequestsTypeOK, RequestState
<1>3. [s EXCEPT !.snapshot = registered]
        = [pc |-> "running", attempt |-> request[r].attempt, snapshot |-> registered,
           answer |-> request[r].answer]
  BY <1>2 DEF RequestState
<1>4. request' = [request EXCEPT ![r] = [s EXCEPT !.snapshot = registered]]
  BY Zenon, <1>1 DEF Begin, RequestsTypeOK
<1> QED
  BY Zenon, <1>3, <1>4 DEF Becomes, RequestsTypeOK

\* A conflict that is retried counts one attempt more.
LEMMA RetryEffect ==
  ASSUME RequestsTypeOK, NEW r \in Request, request[r].attempt < MaxTxAttempts, Retry(r)
  PROVE  Becomes(r, "begin", request[r].attempt + 1, request[r].snapshot, request[r].answer)
<1>1. PICK s : s = [request[r] EXCEPT !.pc = "begin"]
  OBVIOUS
<1>2. /\ s \in RequestState /\ s.pc = "begin" /\ s.attempt = request[r].attempt
      /\ s.snapshot = request[r].snapshot /\ s.answer = request[r].answer
  BY <1>1 DEF RequestsTypeOK, RequestState
<1>3. [s EXCEPT !.attempt = s.attempt + 1]
        = [pc |-> "begin", attempt |-> request[r].attempt + 1,
           snapshot |-> request[r].snapshot, answer |-> request[r].answer]
  BY <1>2 DEF RequestState
<1>4. PICK f : f = [request EXCEPT ![r] = s]
  OBVIOUS
<1>5. request' = [request EXCEPT ![r].pc = "begin", ![r].attempt = @ + 1]
  BY DEF Retry
<1>6. request' = [f EXCEPT ![r] = [s EXCEPT !.attempt = s.attempt + 1]]
  BY Zenon, <1>1, <1>4, <1>5 DEF RequestsTypeOK
<1> QED
  BY Zenon, <1>3, <1>4, <1>6 DEF Becomes, RequestsTypeOK

\* What a request has become.
LEMMA BecomesFields ==
  ASSUME NEW r \in Request, NEW pc, NEW attempt, NEW snapshot, NEW answer,
         Becomes(r, pc, attempt, snapshot, answer)
  PROVE  /\ request'[r].pc = pc /\ request'[r].answer = answer
         /\ \A q \in Request \ {r} : request'[q] = request[q]
BY DEF Becomes

\* A request that becomes a well formed one leaves all of them well formed.
LEMMA BecomesType ==
  ASSUME RequestsTypeOK, NEW r \in Request,
         NEW pc \in {"idle", "lookup", "begin", "running", "recover", "committed", "end"},
         NEW attempt \in 1 .. MaxTxAttempts, NEW snapshot \in SUBSET Request,
         NEW answer \in Answer, Becomes(r, pc, attempt, snapshot, answer)
  PROVE  request' \in [Request -> RequestState]
BY DEF Becomes, RequestsTypeOK, RequestState

\* So does one that is sent on.
LEMMA GotoType ==
  ASSUME RequestsTypeOK, NEW r \in Request,
         NEW pc \in {"idle", "lookup", "begin", "running", "recover", "committed", "end"},
         Goto(r, pc)
  PROVE  request' \in [Request -> RequestState]
<1>1. /\ request[r].attempt \in 1 .. MaxTxAttempts /\ request[r].snapshot \in SUBSET Request
      /\ request[r].answer \in Answer
  BY DEF RequestsTypeOK, RequestState
<1> QED
  BY <1>1, GotoEffect, BecomesType

\* And one that is answered.
LEMMA ReplyType ==
  ASSUME RequestsTypeOK, NEW r \in Request, NEW answer \in Answer, Reply(r, answer)
  PROVE  request' \in [Request -> RequestState]
<1>1. 1 \in 1 .. MaxTxAttempts /\ {} \in SUBSET Request
  BY RequestsAssumption
<1> QED
  BY <1>1, ReplyEffect, BecomesType

\* An answer from an earlier movement is that movement or a refusal.
LEMMA AnswerWithType ==
  ASSUME NEW r \in Request, NEW s \in Request
  PROVE  AnswerWith(r, s) \in Answer
BY DEF AnswerWith, Answer

\* Every step of the protocol keeps the requests well formed.
LEMMA RequestsTypeNext == RequestsTypeOK /\ [RequestsNext]_requestVars => RequestsTypeOK'
<1> SUFFICES ASSUME RequestsTypeOK, [RequestsNext]_requestVars PROVE RequestsTypeOK'
  OBVIOUS
<1>s. ASSUME NEW r \in Request PROVE SameKey(r, registered) \subseteq Request
  BY DEF SameKey, RequestsTypeOK
<1>1. ASSUME NEW r \in Request, Arrive(r) PROVE RequestsTypeOK'
  BY <1>1, GotoType DEF Arrive, RequestsTypeOK
<1>2. ASSUME NEW r \in Request, Lookup(r) PROVE RequestsTypeOK'
  <2>1. CASE SameKey(r, registered) = {}
    BY <1>2, <2>1, GotoType DEF Lookup, RequestsTypeOK
  <2>2. CASE SameKey(r, registered) # {}
    <3>1. PICK s \in SameKey(r, registered) : Reply(r, AnswerWith(r, s))
      BY <1>2, <2>2 DEF Lookup
    <3> QED
      BY <1>2, <1>s, <3>1, ReplyType, AnswerWithType DEF Lookup, RequestsTypeOK
  <2> QED
    BY <2>1, <2>2
<1>3. ASSUME NEW r \in Request, Begin(r) PROVE RequestsTypeOK'
  <2>1. /\ request[r].attempt \in 1 .. MaxTxAttempts /\ request[r].answer \in Answer
        /\ registered \in SUBSET Request
    BY DEF RequestsTypeOK, RequestState
  <2>2. request' \in [Request -> RequestState]
    BY <1>3, <2>1, BeginEffect, BecomesType
  <2> QED
    BY <1>3, <2>2 DEF Begin, RequestsTypeOK
<1>4. ASSUME NEW r \in Request, Commit(r) PROVE RequestsTypeOK'
  BY <1>4, GotoType DEF Commit, RequestsTypeOK
<1>5. ASSUME NEW r \in Request, KeyTaken(r) \/ Reject(r) PROVE RequestsTypeOK'
  BY <1>5, GotoType DEF KeyTaken, Reject, RequestsTypeOK
<1>6. ASSUME NEW r \in Request, Conflict(r) PROVE RequestsTypeOK'
  <2>1. CASE request[r].attempt < MaxTxAttempts
    <3>1. request[r].attempt + 1 \in 1 .. MaxTxAttempts
      BY <2>1, RequestsAssumption DEF RequestsTypeOK, RequestState
    <3>2. request[r].snapshot \in SUBSET Request /\ request[r].answer \in Answer
      BY DEF RequestsTypeOK, RequestState
    <3>3. request' \in [Request -> RequestState]
      BY <1>6, <2>1, <3>1, <3>2, RetryEffect, BecomesType DEF Conflict
    <3> QED
      BY <1>6, <3>3 DEF Conflict, RequestsTypeOK
  <2>2. CASE ~(request[r].attempt < MaxTxAttempts)
    BY <1>6, <2>2, GotoType DEF Conflict, Retry, RequestsTypeOK
  <2> QED
    BY <2>1, <2>2
<1>7. ASSUME NEW r \in Request, Recover(r) PROVE RequestsTypeOK'
  <2>1. CASE SameKey(r, registered) = {}
    BY <1>7, <2>1, ReplyType, NoMovementAnswers DEF Recover, RequestsTypeOK
  <2>2. CASE SameKey(r, registered) # {}
    <3>1. PICK s \in SameKey(r, registered) : Reply(r, AnswerWith(r, s))
      BY <1>7, <2>2 DEF Recover
    <3> QED
      BY <1>7, <1>s, <3>1, ReplyType, AnswerWithType DEF Recover, RequestsTypeOK
  <2> QED
    BY <2>1, <2>2
<1>8. ASSUME NEW r \in Request, Respond(r) PROVE RequestsTypeOK'
  BY <1>8, ReplyType DEF Respond, RequestsTypeOK, Answer
<1>9. ASSUME NEW r \in Request, Lose(r) PROVE RequestsTypeOK'
  BY <1>9, ReplyType, NoMovementAnswers DEF Lose, RequestsTypeOK
<1>10. CASE UNCHANGED requestVars
  BY <1>10 DEF requestVars, RequestsTypeOK
<1> QED
  BY <1>1, <1>2, <1>3, <1>4, <1>5, <1>6, <1>7, <1>8, <1>9, <1>10
     DEF RequestsNext, Step

-----------------------------------------------------------------------------
(* One movement per key.  Two facts make RequestsAreSafe inductive: the    *)
(* registered requests can be counted, and a request is registered exactly *)
(* from its commit on: before, it can still be refused; after, it answers  *)
(* with its own movement.                                                  *)

\* Where a request stands says whether it is registered.
RegisteredByPhase ==
  \A r \in Request :
    /\ request[r].pc = "committed" => r \in registered
    /\ r \in registered => request[r].pc \in {"committed", "end"}

\* The inductive invariant of the protocol.
RequestsInv ==
  /\ RequestsTypeOK
  /\ RegisteredByPhase
  /\ RequestsAreSafe

\* Nobody is registered at first.
LEMMA RequestsInvInit == RequestsInit => RequestsInv
<1> SUFFICES ASSUME RequestsInit PROVE RequestsInv
  OBVIOUS
<1>1. RequestsTypeOK
  BY RequestsAssumption, NoMovementAnswers DEF RequestsInit, RequestsTypeOK, RequestState
<1>2. RegisteredByPhase /\ KeyRegistersOnce /\ AnswersAreOwn
  BY NoMovementAnswers
     DEF RequestsInit, RegisteredByPhase, KeyRegistersOnce, AnswersAreOwn
<1>3. PoolNotOversold
  BY RequestsAssumption, FS_EmptySet DEF RequestsInit, PoolNotOversold
<1> QED
  BY <1>1, <1>2, <1>3 DEF RequestsInv, RequestsAreSafe

\* A step of r that registers nobody and leaves the answer of r alone, or
\* empties it of movements, keeps the invariant as long as r is not taken for
\* committed.
LEMMA QuietStep ==
  ASSUME RequestsInv, RequestsTypeOK', NEW r \in Request,
         UNCHANGED <<pool, registered>>,
         \A s \in Request \ {r} : request'[s] = request[s],
         request'[r].pc # "committed",
         r \in registered => request'[r].pc = "end",
         request'[r].answer \in Request =>
           LET s == request'[r].answer
           IN  /\ s \in registered
               /\ AuthorOf[s] = AuthorOf[r]
               /\ s = r \/ (KeyOf[s] = KeyOf[r] /\ KeyOf[r] # NoKey)
  PROVE  RequestsInv'
<1>1. RegisteredByPhase'
  BY DEF RequestsInv, RegisteredByPhase
<1>2. KeyRegistersOnce' /\ PoolNotOversold'
  BY DEF RequestsInv, RequestsAreSafe, KeyRegistersOnce, PoolNotOversold
<1>3. AnswersAreOwn'
  BY DEF RequestsInv, RequestsAreSafe, AnswersAreOwn
<1> QED
  BY <1>1, <1>2, <1>3 DEF RequestsInv, RequestsAreSafe

\* An answer found by the key is the author's own, or none at all.
LEMMA AnswerWithIsOwn ==
  ASSUME RequestsTypeOK, NEW r \in Request, NEW s \in SameKey(r, registered),
         AnswerWith(r, s) \in Request
  PROVE  /\ AnswerWith(r, s) = s
         /\ s \in registered /\ AuthorOf[s] = AuthorOf[r]
         /\ KeyOf[s] = KeyOf[r] /\ KeyOf[r] # NoKey
BY NoMovementAnswers DEF AnswerWith, SameKey

\* Every step of the protocol keeps the invariant.
LEMMA RequestsInvNext == RequestsInv /\ [RequestsNext]_requestVars => RequestsInv'
<1> SUFFICES ASSUME RequestsInv, [RequestsNext]_requestVars PROVE RequestsInv'
  OBVIOUS
<1>t. RequestsTypeOK /\ RequestsTypeOK'
  BY RequestsTypeNext DEF RequestsInv
<1>a. ASSUME NEW r \in Request, NEW s \in SameKey(r, registered),
             Reply(r, AnswerWith(r, s)), UNCHANGED <<pool, registered>>
      PROVE  RequestsInv'
  <2>1. /\ request'[r].pc = "end" /\ request'[r].answer = AnswerWith(r, s)
        /\ \A q \in Request \ {r} : request'[q] = request[q]
    BY <1>a, <1>t, ReplyEffect, BecomesFields
  <2> QED
    BY <1>a, <1>t, <2>1, AnswerWithIsOwn, QuietStep
<1>b. ASSUME NEW r \in Request, NEW a \in {"error", "lost"},
             Reply(r, a), UNCHANGED <<pool, registered>>
      PROVE  RequestsInv'
  <2>1. /\ request'[r].pc = "end" /\ request'[r].answer \notin Request
        /\ \A q \in Request \ {r} : request'[q] = request[q]
    BY <1>b, <1>t, ReplyEffect, NoMovementAnswers, BecomesFields
  <2> QED
    BY <1>b, <1>t, <2>1, QuietStep
<1>c. ASSUME NEW r \in Request, NEW pc \in {"lookup", "begin", "running", "recover"},
             request[r].pc \notin {"committed", "end"}, Goto(r, pc),
             UNCHANGED <<pool, registered>>
      PROVE  RequestsInv'
  <2>1. /\ request'[r].pc = pc /\ request'[r].answer = request[r].answer
        /\ \A q \in Request \ {r} : request'[q] = request[q]
    BY <1>c, <1>t, GotoEffect, BecomesFields
  <2>2. r \notin registered
    BY <1>c DEF RequestsInv, RegisteredByPhase
  <2>3. AnswersAreOwn
    BY DEF RequestsInv, RequestsAreSafe
  <2> QED
    BY <1>c, <1>t, <2>1, <2>2, <2>3, QuietStep DEF AnswersAreOwn
<1>1. ASSUME NEW r \in Request, Arrive(r) PROVE RequestsInv'
  BY <1>1, <1>c DEF Arrive
<1>2. ASSUME NEW r \in Request, Lookup(r) PROVE RequestsInv'
  BY <1>2, <1>a, <1>c DEF Lookup
<1>3. ASSUME NEW r \in Request, Begin(r) PROVE RequestsInv'
  <2>1. /\ request'[r].pc = "running" /\ request'[r].answer = request[r].answer
        /\ \A q \in Request \ {r} : request'[q] = request[q]
    BY <1>3, <1>t, BeginEffect, BecomesFields
  <2>2. r \notin registered
    BY <1>3 DEF Begin, RequestsInv, RegisteredByPhase
  <2>3. AnswersAreOwn
    BY DEF RequestsInv, RequestsAreSafe
  <2> QED
    BY <1>3, <1>t, <2>1, <2>2, <2>3, QuietStep DEF Begin, AnswersAreOwn
<1>4. ASSUME NEW r \in Request, Commit(r) PROVE RequestsInv'
  <2>1. /\ request'[r].pc = "committed" /\ request'[r].answer = request[r].answer
        /\ \A q \in Request \ {r} : request'[q] = request[q]
        /\ registered' = registered \cup {r} /\ pool' = pool
    BY <1>4, <1>t, GotoEffect, BecomesFields DEF Commit
  <2>2. RegisteredByPhase'
    BY <2>1 DEF RequestsInv, RegisteredByPhase
  <2>3. KeyRegistersOnce'
    BY <1>4, <2>1 DEF RequestsInv, RequestsAreSafe, KeyRegistersOnce, Commit, KeyIsFree, SameKey
  <2>4. AnswersAreOwn'
    BY <2>1 DEF RequestsInv, RequestsAreSafe, AnswersAreOwn
  <2>5. PoolNotOversold'
    <3>1. IsFiniteSet(registered)
      BY <1>t, RequestsAssumption, FS_Subset DEF RequestsTypeOK
    <3>2. Cardinality(registered) < pool
      BY <1>4 DEF Commit, MayCommit
    <3>3. Cardinality(registered \cup {r}) \in {Cardinality(registered), Cardinality(registered) + 1}
      BY <3>1, FS_AddElement
    <3> QED
      BY <1>t, <2>1, <3>1, <3>2, <3>3, FS_CardinalityType DEF PoolNotOversold, RequestsTypeOK
  <2> QED
    BY <1>t, <2>2, <2>3, <2>4, <2>5 DEF RequestsInv, RequestsAreSafe
<1>5. ASSUME NEW r \in Request, KeyTaken(r) \/ Reject(r) PROVE RequestsInv'
  BY <1>5, <1>c DEF KeyTaken, Reject
<1>6. ASSUME NEW r \in Request, Conflict(r) PROVE RequestsInv'
  <2>1. CASE request[r].attempt < MaxTxAttempts
    <3>1. /\ request'[r].pc = "begin" /\ request'[r].answer = request[r].answer
          /\ \A q \in Request \ {r} : request'[q] = request[q]
      BY <1>6, <1>t, <2>1, RetryEffect, BecomesFields DEF Conflict
    <3>2. r \notin registered
      BY <1>6 DEF Conflict, RequestsInv, RegisteredByPhase
    <3>3. AnswersAreOwn
      BY DEF RequestsInv, RequestsAreSafe
    <3> QED
      BY <1>6, <1>t, <3>1, <3>2, <3>3, QuietStep DEF Conflict, AnswersAreOwn
  <2>2. CASE ~(request[r].attempt < MaxTxAttempts)
    BY <1>6, <1>c, <2>2 DEF Conflict, Retry
  <2> QED
    BY <2>1, <2>2
<1>7. ASSUME NEW r \in Request, Recover(r) PROVE RequestsInv'
  BY <1>7, <1>a, <1>b DEF Recover
<1>8. ASSUME NEW r \in Request, Respond(r) PROVE RequestsInv'
  <2>1. /\ request'[r].pc = "end" /\ request'[r].answer = r
        /\ \A q \in Request \ {r} : request'[q] = request[q]
    BY <1>8, <1>t, ReplyEffect, BecomesFields DEF Respond
  <2>2. r \in registered
    BY <1>8 DEF Respond, RequestsInv, RegisteredByPhase
  <2> QED
    BY <1>8, <1>t, <2>1, <2>2, QuietStep DEF Respond
<1>9. ASSUME NEW r \in Request, Lose(r) PROVE RequestsInv'
  BY <1>9, <1>b DEF Lose
<1>10. CASE UNCHANGED requestVars
  BY <1>10, <1>t DEF requestVars, RequestsInv, RegisteredByPhase, RequestsAreSafe,
     KeyRegistersOnce, AnswersAreOwn, PoolNotOversold
<1> QED
  BY <1>1, <1>2, <1>3, <1>4, <1>5, <1>6, <1>7, <1>8, <1>9, <1>10
     DEF RequestsNext, Step

\* A repeated POST registers once and answers with its own movement, and all
\* requests together never take more than there is, for every number of copies
\* and every interleaving (registerMovement, movementByRequest, serializable).
THEOREM RequestsSafety == RequestsSpec => []RequestsAreSafe
<1>1. RequestsInv => RequestsAreSafe
  BY DEF RequestsInv
<1> QED
  BY <1>1, RequestsInvInit, RequestsInvNext, PTL DEF RequestsSpec

\* No request is told that it failed when its key, or itself, was registered
\* before: the second lookup finds what the transaction lost to.
THEOREM RefusalsAreTrue == RequestsSpec => RegisteredIsNotRefused
<1> DEFINE Refused == \A r \in Request :
             request[r].answer = "none" /\ request'[r].answer = "error" =>
               SameKey(r, registered) = {} /\ r \notin registered
<1>1. RequestsInv /\ [RequestsNext]_requestVars => [Refused]_requestVars
  <2> SUFFICES ASSUME RequestsInv, RequestsNext, NEW r \in Request,
                      request[r].answer = "none", request'[r].answer = "error"
               PROVE  SameKey(r, registered) = {} /\ r \notin registered
    BY DEF requestVars
  <2>0. RequestsTypeOK
    BY DEF RequestsInv
  <2>1. PICK q \in Request : Arrive(q) \/ Step(q) \/ Lose(q)
    BY DEF RequestsNext
  <2>2. ASSUME NEW s \in registered PROVE AnswerWith(q, s) # "error"
    BY <2>0, NoMovementAnswers DEF AnswerWith, RequestsTypeOK
  <2>3. ASSUME NEW pc, Goto(q, pc) PROVE FALSE
    BY <2>0, <2>3, GotoEffect, BecomesFields
  <2>4. ASSUME NEW a, Reply(q, a), a # "error" PROVE FALSE
    BY <2>0, <2>4, ReplyEffect, BecomesFields
  <2>5. ASSUME Lookup(q) \/ Recover(q), SameKey(q, registered) # {} PROVE FALSE
    <3>1. PICK s \in SameKey(q, registered) : Reply(q, AnswerWith(q, s))
      BY <2>5 DEF Lookup, Recover
    <3> QED
      BY <2>2, <2>4, <3>1 DEF SameKey
  <2>6. ~Arrive(q) /\ ~Lookup(q) /\ ~Commit(q) /\ ~KeyTaken(q) /\ ~Reject(q)
    BY <2>3, <2>5 DEF Arrive, Lookup, Commit, KeyTaken, Reject
  <2>7. ~Begin(q)
    BY <2>0, BeginEffect, BecomesFields
  <2>8. ~Conflict(q)
    BY <2>0, <2>3, RetryEffect, BecomesFields DEF Conflict, Retry
  <2>9. ~Respond(q) /\ ~Lose(q)
    BY <2>4, NoMovementAnswers DEF Respond, Lose
  <2>10. Recover(q) /\ SameKey(q, registered) = {}
    BY <2>1, <2>5, <2>6, <2>7, <2>8, <2>9 DEF Step
  <2>11. r = q
    BY <2>0, <2>10, ReplyEffect, BecomesFields DEF Recover
  <2> QED
    BY <2>10, <2>11 DEF Recover, RequestsInv, RegisteredByPhase
<1> QED
  BY <1>1, RequestsInvInit, RequestsInvNext, PTL DEF RequestsSpec, RegisteredIsNotRefused

-----------------------------------------------------------------------------
(* The order and the requests on it, for every number of lines, requests   *)
(* and pieces.  The pending quantities a receipt checked may be stale; what *)
(* protects the counter is the CHECK, and that a transaction that passed it *)
(* holds its lines until it commits.                                       *)

Receiving == {"receive", "stocking", "counting", "settling"}
Pieces == [Line -> Nat]

AnOrder == [status : Status, edition : Nat, quantity : Pieces, received : Pieces]
ARequest == [pc : InFlight \cup Ended \cup {"idle"}, seen : AnOrder, want : Pieces, left : Seq(Line),
             complete : BOOLEAN]

\* The order, its requests and its movements have their shape.
OrderShapes ==
  /\ order \in AnOrder
  /\ orderRequest \in [OrderRequest -> ARequest]
  /\ movement \in [OrderRequest -> Pieces]
  /\ overlapped \subseteq OrderRequest

\* A receipt asks for something, and an update for something of every line.
Asks(q) ==
  /\ q.pc \in Receiving => \E l \in Line : q.want[l] > 0
  /\ q.pc \in {"update", "replacing"} => \A l \in Line : q.want[l] > 0
  /\ q.pc = "settling" => q.left = <<>>

\* The order that a request read allowed it.
WasAllowed(q) ==
  /\ q.pc \in {"update", "replacing", "approve"} => q.seen.status = "DRAFT"
  /\ q.pc = "send" => q.seen.status \in {"APPROVED", "SENT"}
  /\ q.pc = "cancel" => q.seen.status \notin {"NONE", "CANCELLED", "RECEIVED"} /\ ~HasReceipts(q.seen)
  /\ q.pc \in Receiving \ {"receive"} => q.seen.status \in Receivable

\* The lines that a request has incremented.
LinesOf(q) ==
  IF q.pc \in {"counting", "settling"} THEN {l \in Line : q.want[l] > 0} \ Range(q.left) ELSE {}

\* A line that passed the CHECK still passes it.
Fits(q) ==
  \A l \in LinesOf(q) : q.seen.edition = order.edition /\ order.received[l] + q.want[l] <= order.quantity[l]

\* Two receipts have incremented different lines.
Apart(q, p) == LinesOf(q) \cap LinesOf(p) = {}

\* What a request read is still so, when it runs alone.
KnowsTheOrder(q) ==
  /\ q.pc \in InFlight => q.seen = order
  /\ q.pc = "settling" => (q.complete <=> \A l \in Line : order.received[l] + q.want[l] >= order.quantity[l])

\* One request at a time, as long as none overlapped another.
AloneKnows ==
  overlapped = {} =>
    /\ \A r, s \in OrderRequest : orderRequest[r].pc \in InFlight /\ orderRequest[s].pc \in InFlight => r = s
    /\ \A r \in OrderRequest : KnowsTheOrder(orderRequest[r])

\* What there is of the order.
OrderExists ==
  IF order.status = "NONE" THEN order = NewOrder /\ \A r \in OrderRequest : orderRequest[r].pc \notin InFlight
  ELSE \A l \in Line : order.quantity[l] > 0

\* Of the requests with one key at most one stocked something.
OneStocks ==
  \A r, s \in OrderRequest : s \in KeyMates(r) /\ movement[r] # Nothing /\ movement[s] # Nothing => r = s

\* The inductive invariant of the order.
OrderInv ==
  /\ OrderShapes
  /\ OrderExists
  /\ ReceivedWithinOrder
  /\ StatusMatchesReceipts
  /\ OneStocks
  /\ AloneKnows
  /\ \A r \in OrderRequest : Asks(orderRequest[r]) /\ WasAllowed(orderRequest[r]) /\ Fits(orderRequest[r])
  /\ \A r, s \in OrderRequest : r # s => Apart(orderRequest[r], orderRequest[s])

\* Nothing is a quantity of every line.
LEMMA NothingIsPieces == Nothing \in Pieces /\ \A l \in Line : Nothing[l] = 0
BY DEF Nothing, Pieces

\* The order before it is created.
LEMMA NewOrderShape ==
  NewOrder \in AnOrder /\ NewOrder.status = "NONE" /\ NewOrder.received = Nothing /\ NewOrder.quantity = Nothing
<1>1. "NONE" \in Status /\ 0 \in Nat
  BY DEF Status
<1> QED
  BY <1>1, NothingIsPieces, Zenon DEF NewOrder, AnOrder

\* A request that holds nothing is well formed, and asks for nothing.
LEMMA MemorylessShape ==
  ASSUME NEW pc \in Ended \cup {"idle"}
  PROVE  Memoryless(pc) \in ARequest /\ Memoryless(pc).pc = pc /\ pc \notin InFlight
<1>1. Memoryless(pc).pc = pc
  BY DEF Memoryless
<1>2. pc \in InFlight \cup Ended \cup {"idle"} /\ FALSE \in BOOLEAN /\ <<>> \in Seq(Line)
  OBVIOUS
<1>3. Memoryless(pc) \in ARequest
  BY <1>2, NothingIsPieces, NewOrderShape, Zenon DEF Memoryless, ARequest
<1>4. pc \notin InFlight
  BY DEF Ended, InFlight
<1> QED
  BY <1>1, <1>3, <1>4

\* Every phase of a receipt is under way.
LEMMA Phases == Receiving \subseteq InFlight
BY DEF Receiving, InFlight

\* A request that is not counting has incremented nothing.
LEMMA NothingIncremented ==
  ASSUME NEW q, q.pc \notin {"counting", "settling"}
  PROVE  LinesOf(q) = {} /\ Fits(q) /\ \A p : Apart(q, p) /\ Apart(p, q)
BY DEF LinesOf, Fits, Apart

\* An ended request asks for nothing.
LEMMA EndedAsksNothing ==
  ASSUME NEW q, q.pc \in Ended \cup {"idle"}
  PROVE  Asks(q) /\ WasAllowed(q) /\ Fits(q) /\ KnowsTheOrder(q) /\ \A p : Apart(q, p) /\ Apart(p, q)
<1>1. q.pc \notin {"counting", "settling"}
  BY DEF Ended
<1> QED
  BY <1>1, NothingIncremented DEF Asks, WasAllowed, KnowsTheOrder, Ended, InFlight, Receiving

\* An order that does not exist has no requests.
LEMMA OrderInvInit == OrdersInit => OrderInv
<1> SUFFICES ASSUME OrdersInit PROVE OrderInv
  OBVIOUS
<1>1. \A r \in OrderRequest : orderRequest[r] = Memoryless("idle") /\ orderRequest[r] \in ARequest
                              /\ orderRequest[r].pc = "idle" /\ orderRequest[r].pc \notin InFlight
  BY MemorylessShape DEF OrdersInit
<1>2. OrderShapes
  BY <1>1, NewOrderShape, NothingIsPieces DEF OrdersInit, OrderShapes
<1>3. order.status = "NONE" /\ order.received = Nothing /\ order.quantity = Nothing
  BY NewOrderShape DEF OrdersInit
<1>4. OrderExists /\ StatusMatchesReceipts
  BY <1>1, <1>3 DEF OrderExists, StatusMatchesReceipts, OrdersInit
<1>5. ReceivedWithinOrder
  BY <1>3, NothingIsPieces DEF ReceivedWithinOrder
<1>6. OneStocks
  BY DEF OneStocks, OrdersInit
<1>7. \A r \in OrderRequest : Asks(orderRequest[r]) /\ WasAllowed(orderRequest[r]) /\ Fits(orderRequest[r])
                              /\ KnowsTheOrder(orderRequest[r])
  BY <1>1, EndedAsksNothing
<1>8. \A r, s \in OrderRequest : Apart(orderRequest[r], orderRequest[s])
  BY <1>1, EndedAsksNothing
<1> QED
  BY <1>1, <1>2, <1>4, <1>5, <1>6, <1>7, <1>8 DEF OrderInv, AloneKnows

\* What a step does to the request it is of.
LEMMA RequestBecomes ==
  ASSUME OrderInv, NEW r \in OrderRequest, NEW new \in ARequest, orderRequest' = [orderRequest EXCEPT ![r] = new]
  PROVE  /\ orderRequest' \in [OrderRequest -> ARequest]
         /\ orderRequest'[r] = new
         /\ \A s \in OrderRequest : s # r => orderRequest'[s] = orderRequest[s]
<1> HIDE DEF ARequest
<1> QED
  BY DEF OrderInv, OrderShapes

\* Apart is symmetric.
LEMMA ApartEitherWay == \A q, p : Apart(q, p) <=> Apart(p, q)
BY DEF Apart

\* A step that only moves its request on, to where it asks, fits and knows what
\* it should.
LEMMA StepKeeps ==
  ASSUME OrderInv, NEW r \in OrderRequest, NEW new \in ARequest, orderRequest' = [orderRequest EXCEPT ![r] = new],
         UNCHANGED order, movement' \in [OrderRequest -> Pieces], OneStocks',
         overlapped' \subseteq OrderRequest, overlapped' = {} => overlapped = {},
         new.pc \in InFlight => order.status # "NONE",
         overlapped' = {} /\ new.pc \in InFlight => \A s \in OrderRequest : s # r => orderRequest[s].pc \notin InFlight,
         Asks(new), WasAllowed(new), Fits(new), \A s \in OrderRequest : s # r => Apart(new, orderRequest[s]),
         overlapped' = {} => KnowsTheOrder(new)
  PROVE  OrderInv'
<1>1. /\ orderRequest' \in [OrderRequest -> ARequest]
      /\ orderRequest'[r] = new
      /\ \A s \in OrderRequest : s # r => orderRequest'[s] = orderRequest[s]
  BY RequestBecomes
<1>2. OrderShapes'
  BY <1>1 DEF OrderInv, OrderShapes
<1>3. OrderExists' /\ ReceivedWithinOrder' /\ StatusMatchesReceipts'
  BY <1>1 DEF OrderInv, OrderExists, ReceivedWithinOrder, StatusMatchesReceipts, Complete, HasReceipts
<1>4. \A q : Fits(q)' = Fits(q) /\ KnowsTheOrder(q)' = KnowsTheOrder(q)
  BY DEF Fits, KnowsTheOrder
<1>5. AloneKnows'
  BY <1>1, <1>4 DEF OrderInv, AloneKnows
<1>6. \A s \in OrderRequest : Asks(orderRequest[s])' /\ WasAllowed(orderRequest[s])' /\ Fits(orderRequest[s])'
  BY <1>1, <1>4 DEF OrderInv, Asks, WasAllowed
<1>7. \A s, q \in OrderRequest : s # q => Apart(orderRequest[s], orderRequest[q])'
  BY <1>1, ApartEitherWay DEF OrderInv, Apart
<1> QED
  BY <1>2, <1>3, <1>5, <1>6, <1>7 DEF OrderInv

\* The same for a request that was under way already.
LEMMA GoingOnKeeps ==
  ASSUME OrderInv, NEW r \in OrderRequest, NEW new \in ARequest, orderRequest' = [orderRequest EXCEPT ![r] = new],
         UNCHANGED <<order, overlapped>>, movement' \in [OrderRequest -> Pieces], OneStocks',
         orderRequest[r].pc \in InFlight,
         Asks(new), WasAllowed(new), Fits(new), \A s \in OrderRequest : s # r => Apart(new, orderRequest[s]),
         overlapped = {} => KnowsTheOrder(new)
  PROVE  OrderInv'
<1>1. order.status # "NONE"
  BY DEF OrderInv, OrderExists
<1>2. overlapped = {} => \A s \in OrderRequest : s # r => orderRequest[s].pc \notin InFlight
  BY DEF OrderInv, AloneKnows
<1>3. overlapped' \subseteq OrderRequest
  BY DEF OrderInv, OrderShapes
<1> QED
  BY <1>1, <1>2, <1>3, StepKeeps

\* A request that ends without having written.
LEMMA EndKeeps ==
  ASSUME OrderInv, NEW r \in OrderRequest, NEW pc \in Ended, End(r, pc), UNCHANGED <<order, movement, overlapped>>
  PROVE  OrderInv'
<1>1. PICK new : new = Memoryless(pc)
  OBVIOUS
<1>2. new \in ARequest /\ new.pc = pc /\ new.pc \notin InFlight
  BY <1>1, MemorylessShape
<1>4. Asks(new) /\ WasAllowed(new) /\ Fits(new) /\ KnowsTheOrder(new) /\ \A s \in OrderRequest : Apart(new, orderRequest[s])
  BY <1>2, EndedAsksNothing
<1>6. movement' \in [OrderRequest -> Pieces] /\ OneStocks'
  BY DEF OrderInv, OrderShapes, OneStocks
<1>7. orderRequest' = [orderRequest EXCEPT ![r] = new]
  BY <1>1 DEF End
<1>8. overlapped' \subseteq OrderRequest
  BY DEF OrderInv, OrderShapes
<1> QED
  BY <1>2, <1>4, <1>6, <1>7, <1>8, StepKeeps

\* A request that writes the order and ends.
LEMMA WriteKeeps ==
  ASSUME OrderInv, NEW r \in OrderRequest, orderRequest[r].pc \in InFlight, NEW pc \in Ended, End(r, pc),
         UNCHANGED <<movement, overlapped>>,
         order' \in AnOrder, order'.status # "NONE",
         \A l \in Line : order'.quantity[l] > 0 /\ order'.received[l] <= order'.quantity[l],
         \A s \in OrderRequest : s # r => Fits(orderRequest[s])',
         overlapped = {} => StatusMatchesReceipts'
  PROVE  OrderInv'
<1>1. PICK new : new = Memoryless(pc)
  OBVIOUS
<1>2. new \in ARequest /\ new.pc = pc /\ new.pc \notin InFlight
  BY <1>1, MemorylessShape
<1>3. Asks(new) /\ WasAllowed(new) /\ Fits(new)' /\ \A p : Apart(new, p) /\ Apart(p, new)
  <2>1. new.pc \notin {"counting", "settling"}
    BY <1>2 DEF Ended
  <2> QED
    BY <1>2, <2>1, EndedAsksNothing DEF Fits, LinesOf
<1>4. /\ orderRequest' \in [OrderRequest -> ARequest]
      /\ orderRequest'[r] = new
      /\ \A s \in OrderRequest : s # r => orderRequest'[s] = orderRequest[s]
  BY <1>1, <1>2, RequestBecomes DEF End
<1>5. OrderShapes' /\ OneStocks'
  BY <1>4 DEF OrderInv, OrderShapes, OneStocks
<1>6. OrderExists' /\ ReceivedWithinOrder'
  BY DEF OrderExists, ReceivedWithinOrder
<1>7. StatusMatchesReceipts'
  BY DEF StatusMatchesReceipts
<1>8. AloneKnows'
  <2> SUFFICES ASSUME overlapped = {} PROVE AloneKnows'
    BY DEF AloneKnows
  <2>1. \A s \in OrderRequest : orderRequest'[s].pc \notin InFlight
    BY <1>2, <1>4 DEF OrderInv, AloneKnows
  <2>2. \A s \in OrderRequest : KnowsTheOrder(orderRequest[s])'
    BY <2>1 DEF KnowsTheOrder, InFlight
  <2> QED
    BY <2>1, <2>2 DEF AloneKnows
<1>9. \A s \in OrderRequest : Asks(orderRequest[s])' /\ WasAllowed(orderRequest[s])'
  BY <1>3, <1>4 DEF OrderInv, Asks, WasAllowed
<1>10. \A s \in OrderRequest : Fits(orderRequest[s])'
  BY <1>3, <1>4 DEF Fits
<1>11. \A s, q \in OrderRequest : s # q => Apart(orderRequest[s], orderRequest[q])'
  BY <1>3, <1>4 DEF OrderInv, Apart
<1> QED
  BY <1>5, <1>6, <1>7, <1>8, <1>9, <1>10, <1>11 DEF OrderInv

-----------------------------------------------------------------------------
\* What a step may make of the status.
Forward ==
  order'.status # order.status =>
    \/ order.status = "NONE" /\ order'.status = "DRAFT"
    \/ \E r \in OrderRequest : Finishes(r) /\ order'.status \in MayBecome(orderRequest[r].seen)

\* An order appears as a draft.
LEMMA CreateKeeps ==
  ASSUME OrderInv, NEW quantity \in Orderable, Create(quantity)
  PROVE  OrderInv' /\ Forward
<1>1. order = NewOrder /\ order.received = Nothing /\ \A r \in OrderRequest : orderRequest[r].pc \notin InFlight
  BY NewOrderShape DEF Create, OrderInv, OrderExists
<1>2. quantity \in Pieces /\ \A l \in Line : quantity[l] > 0
  BY DEF Orderable, Pieces
<1>3. order' = [status |-> "DRAFT", edition |-> 0, quantity |-> quantity, received |-> Nothing]
  BY <1>1, Zenon DEF Create, NewOrder
<1>4. order'.status = "DRAFT" /\ order'.quantity = quantity /\ order'.received = Nothing
  BY <1>3
<1>5. order' \in AnOrder
  <2>1. "DRAFT" \in Status /\ 0 \in Nat
    BY DEF Status
  <2> QED
    BY <1>2, <1>3, <2>1, NothingIsPieces, Zenon DEF AnOrder
<1>6. OrderShapes' /\ OrderExists' /\ OneStocks'
  BY <1>2, <1>4, <1>5 DEF OrderInv, OrderShapes, OrderExists, OneStocks, Create
<1>7. ReceivedWithinOrder'
  BY <1>2, <1>4, NothingIsPieces DEF ReceivedWithinOrder, Pieces
<1>8. StatusMatchesReceipts'
  <2>1. ~Complete' /\ ~HasReceipts(order)'
    <3>1. PICK l \in Line : TRUE
      BY OrdersAssumption
    <3> QED
      BY <1>2, <1>4, <3>1, NothingIsPieces DEF Complete, HasReceipts
  <2> QED
    BY <1>4, <2>1 DEF StatusMatchesReceipts
<1>9. \A r \in OrderRequest : Asks(orderRequest[r])' /\ WasAllowed(orderRequest[r])' /\ Fits(orderRequest[r])'
                              /\ KnowsTheOrder(orderRequest[r])'
  BY <1>1, Phases DEF Create, OrderInv, Asks, WasAllowed, Fits, LinesOf, KnowsTheOrder, InFlight
<1>10. \A r, s \in OrderRequest : r # s => Apart(orderRequest[r], orderRequest[s])'
  BY DEF Create, OrderInv, Apart
<1>11. AloneKnows'
  BY <1>1, <1>9 DEF AloneKnows, Create
<1>12. Forward
  BY <1>1, <1>4, NewOrderShape DEF Forward
<1> QED
  BY <1>6, <1>7, <1>8, <1>9, <1>10, <1>11, <1>12 DEF OrderInv

\* The read at the top of a handler: alone, it knows the order.
LEMMA ReadKeeps ==
  ASSUME OrderInv, NEW r \in OrderRequest, NEW pc \in {"update", "approve", "send", "cancel", "receive"},
         NEW want \in Pieces, Read(r, pc, want),
         pc = "update" => order.status = "DRAFT" /\ \A l \in Line : want[l] > 0,
         pc = "approve" => order.status = "DRAFT",
         pc = "send" => order.status \in {"APPROVED", "SENT"},
         pc = "cancel" => order.status \notin {"CANCELLED", "RECEIVED"} /\ ~HasReceipts(order),
         pc = "receive" => \E l \in Line : want[l] > 0
  PROVE  OrderInv' /\ Forward
<1>1. PICK new : new = [pc |-> pc, seen |-> order, want |-> want, left |-> <<>>, complete |-> FALSE]
  OBVIOUS
<1>2. new.pc = pc /\ new.seen = order /\ new.want = want
  BY <1>1
<1>3. new \in ARequest
  <2>1. pc \in InFlight \cup Ended \cup {"idle"} /\ FALSE \in BOOLEAN /\ order \in AnOrder /\ <<>> \in Seq(Line)
    BY DEF InFlight, OrderInv, OrderShapes
  <2> QED
    BY <1>1, <2>1, Zenon DEF ARequest
<1>4. Asks(new) /\ WasAllowed(new) /\ KnowsTheOrder(new)
  BY <1>2 DEF Asks, WasAllowed, KnowsTheOrder, Receiving, Read
<1>5. Fits(new) /\ \A s \in OrderRequest : Apart(new, orderRequest[s])
  BY <1>2, NothingIncremented
<1>6. orderRequest' = [orderRequest EXCEPT ![r] = new] /\ UNCHANGED <<order, movement>> /\ order.status # "NONE"
  BY <1>1 DEF Read
<1>7. overlapped' \subseteq OrderRequest
  BY DEF Read, Running, OrderInv, OrderShapes
<1>8. overlapped' = {} => overlapped = {} /\ \A s \in OrderRequest : orderRequest[s].pc \notin InFlight
  BY DEF Read, Running
<1>9. movement' \in [OrderRequest -> Pieces] /\ OneStocks'
  BY <1>6 DEF OrderInv, OrderShapes, OneStocks
<1>10. OrderInv'
  BY <1>3, <1>4, <1>5, <1>6, <1>7, <1>8, <1>9, StepKeeps
<1> QED
  BY <1>6, <1>10 DEF Forward

\* A request begins.
LEMMA BeginOrderKeeps ==
  ASSUME OrderInv, NEW r \in OrderRequest, BeginOrder(r)
  PROVE  OrderInv' /\ Forward
<1>1. ASSUME NEW quantity \in Orderable, UpdateRead(r, quantity) PROVE OrderInv' /\ Forward
  <2>1. quantity \in Pieces /\ \A l \in Line : quantity[l] > 0
    BY DEF Orderable, Pieces
  <2> QED
    BY <1>1, <2>1, ReadKeeps DEF UpdateRead
<1>2. CASE ApproveRead(r)
  BY <1>2, NothingIsPieces, ReadKeeps DEF ApproveRead
<1>3. CASE SendRead(r)
  BY <1>3, NothingIsPieces, ReadKeeps DEF SendRead
<1>4. CASE CancelRead(r)
  BY <1>4, NothingIsPieces, ReadKeeps DEF CancelRead
<1>5. ASSUME NEW want \in Quantities, ReceiveRead(r, want) PROVE OrderInv' /\ Forward
  <2>1. want \in Pieces
    BY OrdersAssumption DEF Quantities, Pieces
  <2>2. \E l \in Line : want[l] > 0
    <3>1. ASSUME \A l \in Line : want[l] = 0 PROVE want = Nothing
      BY <2>1, <3>1 DEF Nothing, Pieces
    <3> QED
      BY <1>5, <2>1, <3>1 DEF ReceiveRead, Pieces
  <2> QED
    BY <1>5, <2>1, <2>2, ReadKeeps DEF ReceiveRead
<1> QED
  BY <1>1, <1>2, <1>3, <1>4, <1>5 DEF BeginOrder

\* Who writes and ends, finishes.
LEMMA Finishing ==
  ASSUME OrderInv, NEW r \in OrderRequest, orderRequest[r].pc \in InFlight, NEW pc \in {"done", "counted"}, End(r, pc)
  PROVE  Finishes(r) /\ orderRequest[r].seen \in AnOrder
<1>1. Memoryless(pc) \in ARequest /\ Memoryless(pc).pc = pc
  BY MemorylessShape DEF Ended
<1>2. orderRequest'[r] = Memoryless(pc)
  BY DEF End, OrderInv, OrderShapes
<1>3. orderRequest[r].seen \in AnOrder
  <2>1. orderRequest[r] \in ARequest
    BY DEF OrderInv, OrderShapes
  <2> QED
    BY <2>1, Zenon DEF ARequest
<1> QED
  BY <1>1, <1>2, <1>3 DEF Finishes

\* The handlers that write a status.
LEMMA StatusWriteKeeps ==
  ASSUME OrderInv, NEW r \in OrderRequest,
         NEW pc \in {"approve", "send", "cancel"}, NEW status \in {"APPROVED", "SENT", "CANCELLED"},
         pc = "approve" => status = "APPROVED", pc = "send" => status = "SENT", pc = "cancel" => status = "CANCELLED",
         StatusWrite(r, pc, status)
  PROVE  OrderInv' /\ Forward
<1>1. orderRequest[r].pc = pc /\ pc \in InFlight /\ order.status # "NONE" /\ order \in AnOrder
  BY DEF StatusWrite, InFlight, OrderInv, OrderExists, OrderShapes
<1>2. order' = [status |-> status, edition |-> order.edition, quantity |-> order.quantity, received |-> order.received]
  BY <1>1, Zenon DEF StatusWrite, AnOrder
<1>3. order'.status = status /\ order'.edition = order.edition /\ order'.quantity = order.quantity /\ order'.received = order.received
  BY <1>2
<1>4. order' \in AnOrder
  <2>1. status \in Status
    BY DEF Status
  <2>2. order.edition \in Nat /\ order.quantity \in Pieces /\ order.received \in Pieces
    BY <1>1, Zenon DEF AnOrder
  <2> QED
    BY <1>2, <2>1, <2>2, Zenon DEF AnOrder
<1>5. \A l \in Line : order'.quantity[l] > 0 /\ order'.received[l] <= order'.quantity[l]
  BY <1>1, <1>3 DEF OrderInv, OrderExists, ReceivedWithinOrder
<1>6. \A s \in OrderRequest : s # r => Fits(orderRequest[s])'
  <2>1. ASSUME NEW s \in OrderRequest, s # r PROVE orderRequest'[s] = orderRequest[s]
    BY <2>1 DEF StatusWrite, End, OrderInv, OrderShapes
  <2> QED
    BY <1>3, <2>1 DEF OrderInv, Fits, LinesOf
<1>7. WasAllowed(orderRequest[r])
  BY DEF OrderInv
<1>8. overlapped = {} => /\ order.status \notin {"PARTIALLY_RECEIVED", "RECEIVED", "CANCELLED", "NONE"}
                         /\ ~HasReceipts(order)
  <2>1. overlapped = {} => orderRequest[r].seen = order
    BY <1>1 DEF OrderInv, AloneKnows, KnowsTheOrder
  <2> QED
    BY <1>1, <1>7, <2>1 DEF WasAllowed, OrderInv, StatusMatchesReceipts, Complete, HasReceipts
<1>9. overlapped = {} => StatusMatchesReceipts'
  <2>1. Complete' = Complete /\ HasReceipts(order)' = HasReceipts(order)
    BY <1>3 DEF Complete, HasReceipts
  <2> QED
    BY <1>3, <1>8, <2>1 DEF OrderInv, StatusMatchesReceipts
<1>10. OrderInv'
  BY <1>1, <1>3, <1>4, <1>5, <1>6, <1>9, WriteKeeps DEF StatusWrite, Ended
<1>11. Forward
  <2>1. PICK seen \in AnOrder : seen = orderRequest[r].seen /\ Finishes(r)
    BY <1>1, Finishing DEF StatusWrite
  <2>2. seen.status \in Status
    BY <2>1, Zenon DEF AnOrder
  <2>3. /\ pc = "approve" => seen.status = "DRAFT"
        /\ pc = "send" => seen.status \in {"APPROVED", "SENT"}
        /\ pc = "cancel" => seen.status \notin {"NONE", "CANCELLED", "RECEIVED"} /\ ~HasReceipts(seen)
    BY <1>1, <1>7, <2>1 DEF WasAllowed
  <2>4. status \in Later[seen.status]
    BY <2>2, <2>3 DEF Later, Status
  <2>5. status = "CANCELLED" => ~HasReceipts(seen)
    BY <2>3
  <2>6. status \in MayBecome(seen)
    BY <2>4, <2>5 DEF MayBecome
  <2> QED
    BY <1>3, <2>1, <2>6 DEF Forward
<1> QED
  BY <1>10, <1>11

\* update(): nobody has incremented a line when the lines are replaced.
LEMMA UpdateWriteKeeps ==
  ASSUME OrderInv, NEW r \in OrderRequest, UpdateWrite(r)
  PROVE  OrderInv' /\ Forward
<1>1. orderRequest[r].pc = "replacing" /\ "replacing" \in InFlight /\ order.status # "NONE" /\ order \in AnOrder
  BY DEF UpdateWrite, InFlight, OrderInv, OrderExists, OrderShapes
<1>2. PICK want \in Pieces : want = orderRequest[r].want /\ \A l \in Line : want[l] > 0
  <2>1. orderRequest[r] \in ARequest
    BY DEF OrderInv, OrderShapes
  <2>2. orderRequest[r].want \in Pieces
    BY <2>1 DEF ARequest
  <2> QED
    BY <1>1, <2>2 DEF OrderInv, Asks
<1>3. order.edition \in Nat /\ order.status \in Status
  BY <1>1, Zenon DEF AnOrder
<1>4. order' = [status |-> order.status, edition |-> order.edition + 1, quantity |-> want, received |-> Nothing]
  BY <1>1, <1>2, Zenon DEF UpdateWrite, AnOrder
<1>5. order'.status = order.status /\ order'.quantity = want /\ order'.received = Nothing
  BY <1>4
<1>6. order' \in AnOrder
  <2>1. order.edition + 1 \in Nat
    BY <1>3
  <2> QED
    BY <1>3, <1>4, <2>1, NothingIsPieces, Zenon DEF AnOrder
<1>7. \A l \in Line : order'.quantity[l] > 0 /\ order'.received[l] <= order'.quantity[l]
  BY <1>2, <1>5, NothingIsPieces DEF Pieces
<1>8. \A s \in OrderRequest : s # r => Fits(orderRequest[s])'
  <2> SUFFICES ASSUME NEW s \in OrderRequest, s # r PROVE Fits(orderRequest[s])'
    OBVIOUS
  <2>1. orderRequest'[s] = orderRequest[s]
    BY DEF UpdateWrite, End, OrderInv, OrderShapes
  <2>2. LinesOf(orderRequest[s]) = {}
    <3>1. s \notin WaitsFor(r)
      BY DEF UpdateWrite
    <3>2. Incremented(s) = {}
      BY <1>1, <3>1 DEF WaitsFor
    <3> QED
      BY <3>2 DEF Incremented, Wanted, LinesOf
  <2> QED
    BY <2>1, <2>2 DEF Fits, LinesOf
<1>9. overlapped = {} => StatusMatchesReceipts'
  <2>1. overlapped = {} => order.status = "DRAFT"
    BY <1>1 DEF OrderInv, AloneKnows, KnowsTheOrder, WasAllowed
  <2>2. ~Complete' /\ ~HasReceipts(order)'
    <3>1. PICK l \in Line : TRUE
      BY OrdersAssumption
    <3> QED
      BY <1>2, <1>5, <3>1, NothingIsPieces DEF Complete, HasReceipts
  <2> QED
    BY <1>5, <2>1, <2>2 DEF StatusMatchesReceipts
<1>10. OrderInv'
  BY <1>1, <1>5, <1>6, <1>7, <1>8, <1>9, WriteKeeps DEF UpdateWrite, Ended
<1> QED
  BY <1>5, <1>10 DEF Forward

\* What a step that only changes the phase makes of a request.
LEMMA PhaseRecord ==
  ASSUME OrderInv, NEW r \in OrderRequest, NEW pc \in InFlight
  PROVE  \E new \in ARequest :
           /\ new = [orderRequest[r] EXCEPT !.pc = pc]
           /\ new.pc = pc /\ new.seen = orderRequest[r].seen /\ new.want = orderRequest[r].want
           /\ new.left = orderRequest[r].left /\ new.complete = orderRequest[r].complete
<1>1. PICK q \in ARequest : q = orderRequest[r]
  BY DEF OrderInv, OrderShapes
<1>2. PICK new : new = [q EXCEPT !.pc = pc]
  OBVIOUS
<1>3. new \in ARequest /\ new.pc = pc /\ new.seen = q.seen /\ new.want = q.want
      /\ new.left = q.left /\ new.complete = q.complete
  BY <1>2, Zenon DEF ARequest
<1> QED
  BY <1>1, <1>2, <1>3

\* update() takes the row of the order.
LEMMA UpdateRowKeeps ==
  ASSUME OrderInv, NEW r \in OrderRequest, UpdateRow(r)
  PROVE  OrderInv'
<1>1. "replacing" \in InFlight /\ orderRequest[r].pc = "update" /\ orderRequest[r].pc \in InFlight
  BY DEF InFlight, UpdateRow
<1>2. PICK new \in ARequest : /\ new = [orderRequest[r] EXCEPT !.pc = "replacing"]
                              /\ new.pc = "replacing" /\ new.seen = orderRequest[r].seen /\ new.want = orderRequest[r].want
  BY <1>1, PhaseRecord
<1>3. orderRequest' = [orderRequest EXCEPT ![r] = new]
  BY <1>2 DEF UpdateRow, OrderGoto
<1>4. Asks(new) /\ WasAllowed(new)
  BY <1>1, <1>2 DEF OrderInv, Asks, WasAllowed, Receiving
<1>5. Fits(new) /\ \A s \in OrderRequest : Apart(new, orderRequest[s])
  BY <1>2, NothingIncremented
<1>6. overlapped = {} => KnowsTheOrder(new)
  BY <1>1, <1>2 DEF OrderInv, AloneKnows, KnowsTheOrder
<1>7. UNCHANGED <<order, overlapped>> /\ movement' \in [OrderRequest -> Pieces] /\ OneStocks'
  BY DEF UpdateRow, OrderInv, OrderShapes, OneStocks
<1> QED
  BY <1>1, <1>3, <1>4, <1>5, <1>6, <1>7, GoingOnKeeps

\* The status and the pending quantities are checked against the read.
LEMMA ReceiveCheckKeeps ==
  ASSUME OrderInv, NEW r \in OrderRequest, ReceiveCheck(r)
  PROVE  OrderInv'
<1>1. "stocking" \in InFlight /\ orderRequest[r].pc = "receive" /\ orderRequest[r].pc \in InFlight
  BY DEF InFlight, ReceiveCheck
<1>2. PICK new \in ARequest : /\ new = [orderRequest[r] EXCEPT !.pc = "stocking"]
                              /\ new.pc = "stocking" /\ new.seen = orderRequest[r].seen /\ new.want = orderRequest[r].want
  BY <1>1, PhaseRecord
<1>3. orderRequest' = [orderRequest EXCEPT ![r] = new]
  BY <1>2 DEF ReceiveCheck, OrderGoto
<1>4. Asks(new) /\ WasAllowed(new)
  BY <1>1, <1>2 DEF OrderInv, Asks, WasAllowed, Receiving, ReceiveCheck, Acceptable
<1>5. Fits(new) /\ \A s \in OrderRequest : Apart(new, orderRequest[s])
  BY <1>2, NothingIncremented
<1>6. overlapped = {} => KnowsTheOrder(new)
  BY <1>1, <1>2 DEF OrderInv, AloneKnows, KnowsTheOrder
<1>7. UNCHANGED <<order, overlapped>> /\ movement' \in [OrderRequest -> Pieces] /\ OneStocks'
  BY DEF ReceiveCheck, OrderInv, OrderShapes, OneStocks
<1> QED
  BY <1>1, <1>3, <1>4, <1>5, <1>6, <1>7, GoingOnKeeps

\* What stockIn() makes of the request: every line is still to be incremented.
LEMMA StockedRecord ==
  ASSUME OrderInv, NEW r \in OrderRequest, ReceiveStockIn(r)
  PROVE  \E new \in ARequest :
           /\ orderRequest' = [orderRequest EXCEPT ![r] = new]
           /\ new.pc = "counting" /\ new.seen = orderRequest[r].seen /\ new.want = orderRequest[r].want
           /\ LinesOf(new) = {}
<1>1. PICK q \in ARequest : q = orderRequest[r]
  BY DEF OrderInv, OrderShapes
<1>2. PICK n, left : left \in Bijection(1 .. n, Wanted(r)) /\ n = Cardinality(Wanted(r))
                     /\ orderRequest' = [orderRequest EXCEPT ![r].pc = "counting", ![r].left = left]
  BY DEF ReceiveStockIn
<1>3. n \in Nat
  <2>1. IsFiniteSet(Wanted(r))
    BY OrdersAssumption, FS_Subset DEF Wanted
  <2> QED
    BY <1>2, <2>1, FS_CardinalityType
<1>4. left \in [1 .. n -> Line] /\ \A l \in Wanted(r) : \E i \in 1 .. n : left[i] = l
  BY <1>2 DEF Bijection, Surjection, Wanted
<1>5. left \in Seq(Line)
  BY <1>3, <1>4
<1>6. Wanted(r) \subseteq Range(left)
  BY <1>4 DEF Range
<1>7. PICK new : new = [q EXCEPT !.pc = "counting", !.left = left]
  OBVIOUS
<1>8. new \in ARequest /\ new.pc = "counting" /\ new.seen = q.seen /\ new.want = q.want /\ new.left = left
  <2>1. "counting" \in InFlight \cup Ended \cup {"idle"}
    BY DEF InFlight
  <2> QED
    BY <1>5, <1>7, <2>1, Zenon DEF ARequest
<1>9. orderRequest' = [orderRequest EXCEPT ![r] = new]
  <2>1. orderRequest \in [OrderRequest -> ARequest]
    BY DEF OrderInv, OrderShapes
  <2> HIDE DEF ARequest
  <2> QED
    BY <1>1, <1>2, <1>7, <2>1, Zenon
<1>10. LinesOf(new) = {}
  BY <1>1, <1>6, <1>8 DEF LinesOf, Wanted
<1> QED
  BY <1>1, <1>8, <1>9, <1>10

\* stockIn(): with a known key it stocks nothing more.
LEMMA ReceiveStockInKeeps ==
  ASSUME OrderInv, NEW r \in OrderRequest, ReceiveStockIn(r)
  PROVE  OrderInv'
<1>1. "counting" \in InFlight /\ orderRequest[r].pc = "stocking" /\ orderRequest[r].pc \in InFlight
  BY DEF InFlight, ReceiveStockIn
<1>2. PICK new \in ARequest : new.pc = "counting" /\ new.seen = orderRequest[r].seen /\ new.want = orderRequest[r].want
                              /\ orderRequest' = [orderRequest EXCEPT ![r] = new] /\ LinesOf(new) = {}
  BY StockedRecord
<1>3. orderRequest' = [orderRequest EXCEPT ![r] = new]
  BY <1>2
<1>4. Asks(new) /\ WasAllowed(new)
  BY <1>1, <1>2 DEF OrderInv, Asks, WasAllowed, Receiving
<1>5. Fits(new) /\ \A s \in OrderRequest : Apart(new, orderRequest[s])
  BY <1>2 DEF Fits, Apart
<1>6. overlapped = {} => KnowsTheOrder(new)
  BY <1>1, <1>2 DEF OrderInv, AloneKnows, KnowsTheOrder
<1>7. movement \in [OrderRequest -> Pieces]
  BY DEF OrderInv, OrderShapes
<1>8. PICK want \in Pieces : want = orderRequest[r].want
  <2>1. orderRequest[r] \in ARequest
    BY DEF OrderInv, OrderShapes
  <2> QED
    BY <2>1 DEF ARequest
<1>9. CASE AlreadyStocked(r)
  <2>1. movement' = movement
    BY <1>9 DEF ReceiveStockIn
  <2>2. OneStocks'
    BY <2>1 DEF OrderInv, OneStocks
  <2> QED
    BY <1>1, <1>3, <1>4, <1>5, <1>6, <1>7, <2>1, <2>2, GoingOnKeeps DEF ReceiveStockIn
<1>10. CASE ~AlreadyStocked(r)
  <2>1. movement' = [movement EXCEPT ![r] = want]
    BY <1>8, <1>10 DEF ReceiveStockIn
  <2>2. movement' \in [OrderRequest -> Pieces]
    BY <1>7, <2>1
  <2>3. \A s \in KeyMates(r) : movement[s] = Nothing
    BY <1>10 DEF AlreadyStocked
  <2>4. \A s \in OrderRequest : s # r => movement'[s] = movement[s]
    BY <1>7, <2>1
  <2>5. OneStocks'
    <3> SUFFICES ASSUME NEW p \in OrderRequest, NEW q \in OrderRequest, q \in KeyMates(p),
                        movement'[p] # Nothing, movement'[q] # Nothing
                 PROVE  p = q
      BY DEF OneStocks, KeyMates
    <3>1. p = r /\ q # r => FALSE
      BY <2>3, <2>4 DEF KeyMates
    <3>2. q = r /\ p # r => FALSE
      BY <2>3, <2>4 DEF KeyMates
    <3>3. p # r /\ q # r => p = q
      BY <2>4 DEF OrderInv, OneStocks
    <3> QED
      BY <3>1, <3>2, <3>3
  <2> QED
    BY <1>1, <1>3, <1>4, <1>5, <1>6, <2>2, <2>5, GoingOnKeeps DEF ReceiveStockIn
<1> QED
  BY <1>9, <1>10

\* The lines of a sequence are the first one and the rest.
LEMMA FirstAndRest ==
  ASSUME NEW lines \in Seq(Line), lines # <<>>
  PROVE  Head(lines) \in Line /\ Tail(lines) \in Seq(Line) /\ Range(lines) \subseteq Range(Tail(lines)) \cup {Head(lines)}
<1>1. Head(lines) \in Line /\ Tail(lines) \in Seq(Line) /\ Len(lines) \in Nat /\ Len(lines) > 0
      /\ Head(lines) = lines[1] /\ Len(Tail(lines)) = Len(lines) - 1
  OBVIOUS
<1>2. ASSUME NEW i \in 1 .. Len(lines) PROVE lines[i] \in Range(Tail(lines)) \cup {Head(lines)}
  <2>1. CASE i = 1
    BY <1>1, <2>1
  <2>2. CASE i # 1
    <3>1. i - 1 \in 1 .. Len(Tail(lines)) /\ Tail(lines)[i - 1] = lines[i]
      BY <1>1, <2>2
    <3>2. DOMAIN Tail(lines) = 1 .. Len(Tail(lines))
      BY <1>1
    <3> QED
      BY <3>1, <3>2 DEF Range
  <2> QED
    BY <2>1, <2>2
<1> QED
  BY <1>1, <1>2 DEF Range

\* The CHECK: a line that passes it is one that nobody else has incremented.
LEMMA CountIncrementKeeps ==
  ASSUME OrderInv, NEW r \in OrderRequest, CountIncrement(r)
  PROVE  OrderInv'
<1>1. "counting" \in InFlight /\ orderRequest[r].pc = "counting" /\ orderRequest[r].pc \in InFlight
  BY DEF InFlight, CountIncrement
<1>2. UNCHANGED <<order, movement, overlapped>>
  BY DEF CountIncrement
<1>3. PICK q \in ARequest : q = orderRequest[r]
  BY DEF OrderInv, OrderShapes
<1>4. PICK line, rest : line = Head(q.left) /\ rest = Tail(q.left)
  OBVIOUS
<1>5. line \in Line /\ rest \in Seq(Line) /\ Range(q.left) \subseteq Range(rest) \cup {line}
  <2>1. q.left \in Seq(Line) /\ q.left # <<>>
    BY <1>3 DEF CountIncrement, ARequest
  <2> QED
    BY <1>4, <2>1, FirstAndRest
<1>6. CASE ~CheckHolds(r, line)
  BY <1>2, <1>3, <1>4, <1>6, EndKeeps DEF CountIncrement, Ended
<1>7. CASE CheckHolds(r, line)
  <2>1. PICK new : new = [q EXCEPT !.left = rest]
    OBVIOUS
  <2>2. /\ new \in ARequest /\ new.pc = q.pc /\ new.seen = q.seen /\ new.want = q.want /\ new.left = rest
        /\ new.complete = q.complete
    BY <1>5, <2>1, Zenon DEF ARequest
  <2>3. orderRequest' = [orderRequest EXCEPT ![r] = new]
    <3>1. orderRequest \in [OrderRequest -> ARequest]
      BY DEF OrderInv, OrderShapes
    <3>2. orderRequest' = [orderRequest EXCEPT ![r].left = rest]
      BY <1>3, <1>4, <1>7 DEF CountIncrement
    <3> HIDE DEF ARequest
    <3> QED
      BY <1>3, <2>1, <3>1, <3>2, Zenon
  <2>4. Asks(new) /\ WasAllowed(new)
    BY <1>1, <1>3, <2>2 DEF OrderInv, Asks, WasAllowed
  <2>5. LinesOf(new) \subseteq LinesOf(q) \cup {line}
    BY <1>1, <1>3, <1>5, <2>2 DEF LinesOf
  <2>6. Fits(new)
    <3>1. Fits(q)
      BY <1>3 DEF OrderInv
    <3>2. q.seen.edition = order.edition /\ order.received[line] + q.want[line] <= order.quantity[line]
      BY <1>3, <1>7 DEF CheckHolds
    <3> QED
      BY <2>2, <2>5, <3>1, <3>2 DEF Fits
  <2>7. ASSUME NEW s \in OrderRequest, s # r PROVE Apart(new, orderRequest[s])
    <3>1. Apart(q, orderRequest[s])
      BY <1>3, <2>7 DEF OrderInv
    <3>2. line \notin LinesOf(orderRequest[s])
      <4>1. s \notin WaitsFor(r)
        BY DEF CountIncrement
      <4>2. line \notin Incremented(s)
        BY <1>1, <1>3, <1>4, <2>7, <4>1 DEF WaitsFor, CountIncrement
      <4> QED
        BY <4>2 DEF Incremented, Wanted, LinesOf
    <3> QED
      BY <2>5, <3>1, <3>2 DEF Apart
  <2>8. overlapped = {} => KnowsTheOrder(new)
    BY <1>1, <1>3, <2>2 DEF OrderInv, AloneKnows, KnowsTheOrder
  <2>9. movement' \in [OrderRequest -> Pieces] /\ OneStocks'
    BY <1>2 DEF OrderInv, OrderShapes, OneStocks
  <2> QED
    BY <1>1, <1>2, <2>2, <2>3, <2>4, <2>6, <2>7, <2>8, <2>9, GoingOnKeeps
<1> QED
  BY <1>6, <1>7

\* It reads its lines back.
LEMMA CountStatusKeeps ==
  ASSUME OrderInv, NEW r \in OrderRequest, CountStatus(r)
  PROVE  OrderInv'
<1>1. "settling" \in InFlight /\ orderRequest[r].pc = "counting" /\ orderRequest[r].left = <<>> /\ orderRequest[r].pc \in InFlight
  BY DEF InFlight, CountStatus
<1>2. PICK q \in ARequest : q = orderRequest[r]
  BY DEF OrderInv, OrderShapes
<1>3. PICK complete \in BOOLEAN : complete = (\A l \in Line : order.received[l] + q.want[l] >= order.quantity[l])
  OBVIOUS
<1>4. PICK new : new = [q EXCEPT !.pc = "settling", !.complete = complete]
  OBVIOUS
<1>5. /\ new \in ARequest /\ new.pc = "settling" /\ new.seen = q.seen /\ new.want = q.want
      /\ new.left = q.left /\ new.complete = complete
  BY <1>1, <1>4, Zenon DEF ARequest
<1>6. orderRequest' = [orderRequest EXCEPT ![r] = new]
  <2>1. orderRequest \in [OrderRequest -> ARequest]
    BY DEF OrderInv, OrderShapes
  <2>2. orderRequest' = [orderRequest EXCEPT ![r].pc = "settling", ![r].complete = complete]
    BY <1>2, <1>3 DEF CountStatus
  <2> HIDE DEF ARequest
  <2> QED
    BY <1>2, <1>4, <2>1, <2>2, Zenon
<1>7. Asks(new) /\ WasAllowed(new)
  BY <1>1, <1>2, <1>5 DEF OrderInv, Asks, WasAllowed, Receiving
<1>8. LinesOf(new) = LinesOf(q)
  BY <1>1, <1>2, <1>5 DEF LinesOf
<1>9. Fits(new) /\ \A s \in OrderRequest : s # r => Apart(new, orderRequest[s])
  BY <1>2, <1>5, <1>8 DEF OrderInv, Fits, Apart
<1>10. overlapped = {} => KnowsTheOrder(new)
  BY <1>1, <1>2, <1>3, <1>5 DEF OrderInv, AloneKnows, KnowsTheOrder
<1>11. UNCHANGED <<order, overlapped>> /\ movement' \in [OrderRequest -> Pieces] /\ OneStocks'
  BY DEF CountStatus, OrderInv, OrderShapes, OneStocks
<1> QED
  BY <1>1, <1>5, <1>6, <1>7, <1>8, <1>9, <1>10, <1>11, GoingOnKeeps

\* The transaction commits: the counter stays within the order, also for the
\* others that passed the CHECK.
LEMMA CountCommitKeeps ==
  ASSUME OrderInv, NEW r \in OrderRequest, CountCommit(r)
  PROVE  OrderInv' /\ Forward
<1>1. /\ orderRequest[r].pc = "settling" /\ "settling" \in InFlight /\ "settling" \in Receiving
      /\ order.status # "NONE" /\ order \in AnOrder
  BY DEF CountCommit, InFlight, Receiving, OrderInv, OrderExists, OrderShapes
<1>2. \A s \in OrderRequest : orderRequest[s].want \in Pieces
  <2> SUFFICES ASSUME NEW s \in OrderRequest PROVE orderRequest[s].want \in Pieces
    OBVIOUS
  <2>1. orderRequest[s] \in ARequest
    BY DEF OrderInv, OrderShapes
  <2> QED
    BY <2>1 DEF ARequest
<1>3. PICK want \in Pieces : want = orderRequest[r].want
  BY <1>2
<1>4. /\ order.edition \in Nat /\ order.quantity \in Pieces /\ order.received \in Pieces /\ order.status \in Status
  BY <1>1, Zenon DEF AnOrder
<1>5. PICK received : received = [l \in Line |-> order.received[l] + want[l]]
  OBVIOUS
<1>6. received \in Pieces /\ \A l \in Line : received[l] = order.received[l] + want[l]
  BY <1>3, <1>4, <1>5 DEF Pieces
<1>7. PICK status : status = IF orderRequest[r].complete THEN "RECEIVED" ELSE "PARTIALLY_RECEIVED"
  OBVIOUS
<1>8. order' = [status |-> status, edition |-> order.edition, quantity |-> order.quantity, received |-> received]
  <2>1. order' = [order EXCEPT !.status = status, !.received = [l \in Line |-> order.received[l] + want[l]]]
    BY <1>3, <1>7 DEF CountCommit
  <2>2. order' = [order EXCEPT !.status = status, !.received = received]
    BY <1>5, <2>1
  <2> QED
    BY <1>1, <2>2, Zenon DEF AnOrder
<1>9. order'.status = status /\ order'.edition = order.edition /\ order'.quantity = order.quantity /\ order'.received = received
  BY <1>8
<1>10. order' \in AnOrder
  <2>1. status \in Status
    BY <1>7 DEF Status
  <2> QED
    BY <1>4, <1>6, <1>8, <2>1, Zenon DEF AnOrder
<1>11. LinesOf(orderRequest[r]) = {l \in Line : want[l] > 0}
  <2>1. orderRequest[r].left = <<>>
    BY <1>1 DEF OrderInv, Asks
  <2>2. Range(<<>>) = {}
    BY DEF Range
  <2> QED
    BY <1>1, <1>3, <2>1, <2>2 DEF LinesOf
<1>12. ASSUME NEW l \in Line PROVE received[l] <= order.quantity[l]
  <2>1. order.received[l] \in Nat /\ want[l] \in Nat /\ order.quantity[l] \in Nat /\ received[l] = order.received[l] + want[l]
    BY <1>3, <1>4, <1>6 DEF Pieces
  <2>2. want[l] > 0 => order.received[l] + want[l] <= order.quantity[l]
    BY <1>3, <1>11 DEF OrderInv, Fits
  <2>3. order.received[l] <= order.quantity[l]
    BY DEF OrderInv, ReceivedWithinOrder
  <2> QED
    BY <2>1, <2>2, <2>3
<1>13. \A l \in Line : order'.quantity[l] > 0 /\ order'.received[l] <= order'.quantity[l]
  BY <1>1, <1>9, <1>12 DEF OrderInv, OrderExists
<1>14. ASSUME NEW s \in OrderRequest, s # r PROVE Fits(orderRequest[s])'
  <2>1. orderRequest'[s] = orderRequest[s]
    BY <1>14 DEF CountCommit, End, OrderInv, OrderShapes
  <2>2. PICK other \in Pieces : other = orderRequest[s].want
    BY <1>2
  <2>3. ASSUME NEW l \in LinesOf(orderRequest[s])
        PROVE  orderRequest[s].seen.edition = order.edition /\ received[l] + other[l] <= order.quantity[l]
    <3>1. l \in Line /\ orderRequest[s].seen.edition = order.edition /\ order.received[l] + other[l] <= order.quantity[l]
      BY <2>2 DEF OrderInv, Fits, LinesOf
    <3>2. ~(want[l] > 0)
      BY <1>14, <1>11, <3>1 DEF OrderInv, Apart
    <3>3. /\ order.received[l] \in Nat /\ want[l] \in Nat /\ other[l] \in Nat /\ order.quantity[l] \in Nat
          /\ received[l] = order.received[l] + want[l]
      BY <1>3, <1>4, <1>6, <2>2, <3>1 DEF Pieces
    <3> QED
      BY <3>1, <3>2, <3>3
  <2> QED
    BY <1>9, <2>1, <2>2, <2>3 DEF Fits, LinesOf
<1>15. overlapped = {} => (status = "RECEIVED" <=> \A l \in Line : received[l] >= order.quantity[l])
  <2>1. orderRequest[r].complete \in BOOLEAN
    <3>1. orderRequest[r] \in ARequest
      BY DEF OrderInv, OrderShapes
    <3> QED
      BY <3>1, Zenon DEF ARequest
  <2>2. overlapped = {} => KnowsTheOrder(orderRequest[r])
    BY DEF OrderInv, AloneKnows
  <2>3. overlapped = {} => (orderRequest[r].complete <=> \A l \in Line : order.received[l] + want[l] >= order.quantity[l])
    BY <1>1, <1>3, <2>2 DEF KnowsTheOrder
  <2> QED
    BY <1>6, <1>7, <2>1, <2>3
<1>16. overlapped = {} => StatusMatchesReceipts'
  <2> SUFFICES ASSUME overlapped = {} PROVE StatusMatchesReceipts'
    OBVIOUS
  <2>1. status \in {"RECEIVED", "PARTIALLY_RECEIVED"}
    BY <1>7
  <2>2. Complete' <=> \A l \in Line : received[l] >= order.quantity[l]
    <3>1. \A l \in Line : received[l] \in Nat /\ order.quantity[l] \in Nat
      BY <1>4, <1>6 DEF Pieces
    <3> QED
      BY <1>9, <1>12, <3>1 DEF Complete
  <2>3. HasReceipts(order)'
    <3>1. PICK l \in Line : want[l] > 0
      BY <1>1, <1>3 DEF OrderInv, Asks
    <3>2. received[l] > 0
      BY <1>3, <1>4, <1>6, <3>1 DEF Pieces
    <3> QED
      BY <1>9, <3>2 DEF HasReceipts
  <2> QED
    BY <1>9, <1>15, <2>1, <2>2, <2>3 DEF StatusMatchesReceipts
<1>17. OrderInv'
  <2>1. order'.status # "NONE"
    BY <1>7, <1>9
  <2> QED
    BY <1>1, <1>9, <1>10, <1>13, <1>14, <1>16, <2>1, WriteKeeps DEF CountCommit, Ended
<1>18. Forward
  <2>1. PICK seen \in AnOrder : seen = orderRequest[r].seen /\ Finishes(r)
    BY <1>1, Finishing DEF CountCommit
  <2>2. seen.status \in Receivable
    BY <1>1, <2>1 DEF OrderInv, WasAllowed
  <2>3. status \in {"RECEIVED", "PARTIALLY_RECEIVED"}
    BY <1>7
  <2>4. status \in MayBecome(seen)
    BY <2>2, <2>3 DEF MayBecome, Later, Receivable, Status
  <2> QED
    BY <1>9, <2>1, <2>4 DEF Forward
<1> QED
  BY <1>17, <1>18

\* Every step keeps the invariant, and moves the status forward.
LEMMA OrderInvNext ==
  ASSUME OrderInv, [OrdersNext]_orderVars
  PROVE  OrderInv' /\ Forward
<1>1. CASE UNCHANGED orderVars
  <2>1. UNCHANGED <<order, movement, orderRequest, overlapped>>
    BY <1>1 DEF orderVars
  <2>2. OrderShapes' /\ OrderExists' /\ ReceivedWithinOrder' /\ StatusMatchesReceipts' /\ OneStocks' /\ AloneKnows'
    BY <2>1 DEF OrderInv, OrderShapes, OrderExists, ReceivedWithinOrder, StatusMatchesReceipts, OneStocks, AloneKnows,
                Complete, HasReceipts, KnowsTheOrder
  <2>3. /\ \A r \in OrderRequest : Asks(orderRequest[r])' /\ WasAllowed(orderRequest[r])' /\ Fits(orderRequest[r])'
        /\ \A r, s \in OrderRequest : r # s => Apart(orderRequest[r], orderRequest[s])'
    BY <2>1 DEF OrderInv, Asks, WasAllowed, Fits, LinesOf, Apart
  <2> QED
    BY <2>1, <2>2, <2>3 DEF OrderInv, Forward
<1>2. ASSUME NEW quantity \in Orderable, Create(quantity) PROVE OrderInv' /\ Forward
  BY <1>2, CreateKeeps
<1>3. ASSUME NEW r \in OrderRequest, BeginOrder(r) \/ Continue(r) \/ Fail(r) PROVE OrderInv' /\ Forward
  <2>1. CASE BeginOrder(r)
    BY <2>1, BeginOrderKeeps
  <2>2. CASE UpdateWrite(r)
    BY <2>2, UpdateWriteKeeps
  <2>3. CASE ApproveWrite(r) \/ SendWrite(r) \/ CancelWrite(r)
    BY <2>3, StatusWriteKeeps DEF ApproveWrite, SendWrite, CancelWrite
  <2>4. CASE ReceiveReplay(r) \/ ReceiveReject(r) \/ BreakDeadlock(r) \/ Fail(r)
    <3>1. \E pc \in Ended : End(r, pc)
      BY <2>4 DEF ReceiveReplay, ReceiveReject, BreakDeadlock, Fail, Ended
    <3>2. UNCHANGED <<order, movement, overlapped>>
      BY <2>4 DEF ReceiveReplay, ReceiveReject, BreakDeadlock, Fail
    <3> QED
      BY <3>1, <3>2, EndKeeps DEF Forward
  <2>5. CASE UpdateRow(r) \/ ReceiveCheck(r) \/ ReceiveStockIn(r) \/ CountIncrement(r) \/ CountStatus(r)
    <3>1. order' = order
      BY <2>5 DEF UpdateRow, ReceiveCheck, ReceiveStockIn, CountIncrement, CountStatus
    <3> QED
      BY <2>5, <3>1, UpdateRowKeeps, ReceiveCheckKeeps, ReceiveStockInKeeps, CountIncrementKeeps, CountStatusKeeps DEF Forward
  <2>6. CASE CountCommit(r)
    BY <2>6, CountCommitKeeps
  <2> QED
    BY <1>3, <2>1, <2>2, <2>3, <2>4, <2>5, <2>6 DEF Continue
<1> QED
  BY <1>1, <1>2, <1>3 DEF OrdersNext

\* At most one of the requests with a key has stocked.
LEMMA OneStocksOnce == OneStocks => KeyStocksOnce
<1> SUFFICES ASSUME OneStocks, NEW r \in OrderRequest
             PROVE  Cardinality({s \in KeyMates(r) : movement[s] # Nothing}) <= 1
  BY DEF KeyStocksOnce
<1>1. PICK stocked : stocked = {s \in KeyMates(r) : movement[s] # Nothing}
  OBVIOUS
<1>2. \A p, q \in stocked : p = q
  BY <1>1, OrdersAssumption DEF OneStocks, KeyMates
<1>3. CASE stocked = {}
  BY <1>1, <1>3, FS_EmptySet
<1>4. CASE stocked # {}
  <2>1. PICK p : stocked = {p}
    BY <1>2, <1>4
  <2> QED
    BY <1>1, <2>1, FS_Singleton
<1> QED
  BY <1>3, <1>4

\* In any overlap of requests each status follows from the order that its writer
\* had read: from RECEIVED and CANCELLED none does, and no cancellation from an
\* order with receipts (approve, send, cancel, receive).
THEOREM OrdersMoveForward == OrdersSpec => LifecycleIsForward
<1>1. OrdersInit => OrderInv
  BY OrderInvInit
<1>2. OrderInv /\ [OrdersNext]_orderVars => OrderInv' /\ Forward
  BY OrderInvNext
<1>3. Forward => (order'.status # order.status =>
                    \/ order.status = "NONE" /\ order'.status = "DRAFT"
                    \/ \E r \in OrderRequest : Finishes(r) /\ order'.status \in MayBecome(orderRequest[r].seen))
  BY DEF Forward
<1> QED
  BY <1>1, <1>2, <1>3, PTL DEF OrdersSpec, LifecycleIsForward

-----------------------------------------------------------------------------
(* The goods of a receipt: they are in the store before they are counted.   *)

\* Two receipts with one key ran together.
Doubled == \E r, s \in overlapped \cap Keyed : r # s

\* What the requests that counted brought in.
CountedBy(r) == IF orderRequest[r].pc = "counted" THEN movement[r] ELSE Nothing

CountedOf(l) == [r \in OrderRequest |-> CountedBy(r)[l]]

Counted(l) == SumFunctionOnSet(CountedOf(l), OrderRequest)

\* Where a request stands, and what it has stocked by then.
StocksInTurn(r) ==
  /\ orderRequest[r].pc \in {"idle", "receive", "stocking"} => movement[r] = Nothing
  /\ orderRequest[r].pc = "stocking" /\ AlreadyStocked(r) => Doubled
  /\ orderRequest[r].pc \in {"counting", "settling"} => movement[r] = orderRequest[r].want \/ Doubled

\* Requests that are under way together are remembered.
OverlapsAreSeen ==
  \A r, s \in OrderRequest :
    orderRequest[r].pc \in InFlight /\ orderRequest[s].pc \in InFlight /\ r # s => r \in overlapped

\* What makes the counter a lower bound of the store.
GoodsInv ==
  /\ OverlapsAreSeen
  /\ \A r \in OrderRequest : StocksInTurn(r)
  /\ Doubled \/ \A l \in Line : order.received[l] <= Counted(l)

\* Movements are pieces of every line.
LEMMA CountedTypes ==
  ASSUME OrderInv, NEW l \in Line
  PROVE  /\ \A r \in OrderRequest : movement[r][l] \in Nat /\ CountedOf(l)[r] \in Nat
         /\ Counted(l) \in Nat /\ Stocked(l) \in Nat /\ Counted(l) <= Stocked(l)
<1>1. \A r \in OrderRequest : movement[r][l] \in Nat
  BY DEF OrderInv, OrderShapes, Pieces
<1>2. \A r \in OrderRequest : CountedOf(l)[r] \in Nat /\ CountedOf(l)[r] <= movement[r][l]
  BY <1>1, NothingIsPieces DEF CountedOf, CountedBy
<1>3. PICK stocked : stocked = [r \in OrderRequest |-> movement[r][l]]
  OBVIOUS
<1>4. \A r \in OrderRequest : stocked[r] \in Nat /\ stocked[r] \in Int /\ CountedOf(l)[r] \in Int /\ CountedOf(l)[r] <= stocked[r]
  BY <1>1, <1>2, <1>3
<1>5. Stocked(l) = SumFunctionOnSet(stocked, OrderRequest)
  BY <1>3 DEF Stocked
<1>6. IsFiniteSet(OrderRequest)
  BY OrdersAssumption
<1>7. SumFunctionOnSet(CountedOf(l), OrderRequest) <= SumFunctionOnSet(stocked, OrderRequest)
  BY <1>4, <1>6, SumAtMost
<1>8. SumFunctionOnSet(CountedOf(l), OrderRequest) \in Nat /\ SumFunctionOnSet(stocked, OrderRequest) \in Nat
  BY <1>2, <1>4, <1>6, SumIsNumber
<1> QED
  BY <1>1, <1>2, <1>5, <1>7, <1>8 DEF Counted

\* Nothing is counted at first.
LEMMA GoodsInvInit == OrdersInit => GoodsInv
<1> SUFFICES ASSUME OrdersInit PROVE GoodsInv
  OBVIOUS
<1>1. \A r \in OrderRequest : orderRequest[r].pc = "idle" /\ orderRequest[r].pc \notin InFlight /\ movement[r] = Nothing
  BY MemorylessShape DEF OrdersInit
<1>2. ASSUME NEW l \in Line PROVE order.received[l] <= Counted(l)
  <2>1. order.received[l] = 0
    BY NewOrderShape, NothingIsPieces DEF OrdersInit
  <2>2. Counted(l) \in Nat
    BY OrderInvInit, CountedTypes
  <2> QED
    BY <2>1, <2>2
<1> QED
  BY <1>1, <1>2 DEF GoodsInv, OverlapsAreSeen, StocksInTurn

\* A step that moves one request on and stocks and counts nothing.
LEMMA GoodsStay ==
  ASSUME OrderInv, OrderInv', GoodsInv, NEW r \in OrderRequest, NEW new, orderRequest' = [orderRequest EXCEPT ![r] = new],
         UNCHANGED movement, overlapped \subseteq overlapped',
         orderRequest[r].pc # "counted", new.pc # "counted",
         \A l \in Line : order'.received[l] <= order.received[l],
         new.pc \in InFlight => \A s \in OrderRequest : s # r /\ orderRequest[s].pc \in InFlight =>
                                  r \in overlapped' /\ s \in overlapped',
         new.pc \in {"idle", "receive", "stocking"} => movement[r] = Nothing,
         new.pc = "stocking" => ~AlreadyStocked(r),
         new.pc \in {"counting", "settling"} => movement[r] = new.want \/ Doubled
  PROVE  GoodsInv'
<1>1. orderRequest'[r] = new /\ \A s \in OrderRequest : s # r => orderRequest'[s] = orderRequest[s]
  BY DEF OrderInv, OrderShapes
<1>2. Doubled => Doubled'
  BY DEF Doubled
<1>3. OverlapsAreSeen'
  BY <1>1 DEF GoodsInv, OverlapsAreSeen
<1>4. \A s \in OrderRequest : AlreadyStocked(s)' = AlreadyStocked(s)
  BY DEF AlreadyStocked, KeyMates
<1>5. \A s \in OrderRequest : StocksInTurn(s)'
  BY <1>1, <1>2, <1>4 DEF GoodsInv, StocksInTurn
<1>6. ASSUME ~Doubled', NEW l \in Line PROVE order'.received[l] <= Counted(l)'
  <2>1. \A s \in OrderRequest : CountedOf(l)'[s] = CountedOf(l)[s]
    BY <1>1 DEF CountedOf, CountedBy, Nothing
  <2>2. SumFunctionOnSet(CountedOf(l), OrderRequest) = SumFunctionOnSet(CountedOf(l)', OrderRequest)
    BY <2>1, OrdersAssumption, SumOfEquals
  <2>3. Counted(l)' = Counted(l)
    BY <2>2 DEF Counted
  <2>4. order.received[l] <= Counted(l)
    BY <1>2, <1>6 DEF GoodsInv
  <2>5. order.received[l] \in Nat /\ order'.received[l] \in Nat /\ Counted(l) \in Nat
    BY CountedTypes DEF OrderInv, OrderShapes, AnOrder, Pieces
  <2> QED
    BY <2>3, <2>4, <2>5
<1> QED
  BY <1>3, <1>5, <1>6 DEF GoodsInv

\* stockIn() finds the key taken only if a receipt with that key stocked while
\* this one was under way.
LEMMA StockInCounts ==
  ASSUME OrderInv, OrderInv', GoodsInv, NEW r \in OrderRequest, ReceiveStockIn(r)
  PROVE  GoodsInv'
<1>1. "counting" \in InFlight /\ orderRequest[r].pc = "stocking" /\ orderRequest[r].pc \in InFlight
  BY DEF InFlight, ReceiveStockIn
<1>2. PICK new \in ARequest : /\ orderRequest' = [orderRequest EXCEPT ![r] = new]
                              /\ new.pc = "counting" /\ new.want = orderRequest[r].want
  BY StockedRecord
<1>3. orderRequest' = [orderRequest EXCEPT ![r] = new] /\ UNCHANGED <<order, overlapped>>
  BY <1>2 DEF ReceiveStockIn
<1>4. \A s \in OrderRequest : s # r /\ orderRequest[s].pc \in InFlight => r \in overlapped /\ s \in overlapped
  BY <1>1 DEF GoodsInv, OverlapsAreSeen
<1>5. \A l \in Line : order'.received[l] = order.received[l] /\ order.received[l] \in Nat
  BY <1>3 DEF OrderInv, OrderShapes, AnOrder, Pieces
<1>6. CASE AlreadyStocked(r)
  <2>1. Doubled
    BY <1>1, <1>6 DEF GoodsInv, StocksInTurn
  <2>2. UNCHANGED movement
    BY <1>6 DEF ReceiveStockIn
  <2>3. \A l \in Line : order'.received[l] <= order.received[l]
    BY <1>5
  <2> QED
    BY <1>1, <1>2, <1>3, <1>4, <2>1, <2>2, <2>3, GoodsStay
<1>7. CASE ~AlreadyStocked(r)
  <2>1. PICK want : want = orderRequest[r].want
    OBVIOUS
  <2>2. movement' = [movement EXCEPT ![r] = want]
    BY <1>7, <2>1 DEF ReceiveStockIn
  <2>3. movement'[r] = want /\ \A s \in OrderRequest : s # r => movement'[s] = movement[s]
    BY <2>2 DEF OrderInv, OrderShapes
  <2>4. orderRequest'[r] = new /\ \A s \in OrderRequest : s # r => orderRequest'[s] = orderRequest[s]
    BY <1>3 DEF OrderInv, OrderShapes
  <2>5. Doubled' = Doubled
    BY <1>3 DEF Doubled
  <2>6. OverlapsAreSeen'
    BY <1>1, <1>2, <1>3, <2>4 DEF GoodsInv, OverlapsAreSeen
  <2>7. ASSUME NEW s \in OrderRequest, s # r, orderRequest[s].pc = "stocking", AlreadyStocked(s)'
        PROVE  Doubled
    <3>1. CASE AlreadyStocked(s)
      BY <2>7, <3>1 DEF GoodsInv, StocksInTurn
    <3>2. CASE ~AlreadyStocked(s)
      <4>1. PICK p \in KeyMates(s) : movement'[p] # Nothing
        BY <2>7 DEF AlreadyStocked, KeyMates, Nothing
      <4>2. p = r
        <5>1. movement[p] = Nothing
          BY <3>2 DEF AlreadyStocked
        <5>2. p \in OrderRequest
          BY OrdersAssumption DEF KeyMates
        <5> QED
          BY <2>3, <4>1, <5>1, <5>2
      <4>3. r \in Keyed /\ s \in Keyed
        BY <2>7, <4>2 DEF KeyMates
      <4>4. r \in overlapped /\ s \in overlapped
        BY <1>4, <2>7 DEF InFlight
      <4> QED
        BY <2>7, <4>3, <4>4 DEF Doubled
    <3> QED
      BY <3>1, <3>2
  <2>8. \A s \in OrderRequest : StocksInTurn(s)'
    <3> SUFFICES ASSUME NEW s \in OrderRequest PROVE StocksInTurn(s)'
      OBVIOUS
    <3>1. CASE s = r
      BY <1>2, <2>1, <2>3, <2>4, <3>1 DEF StocksInTurn
    <3>2. CASE s # r
      <4>1. orderRequest'[s] = orderRequest[s] /\ movement'[s] = movement[s]
        BY <2>3, <2>4, <3>2
      <4>2. StocksInTurn(s)
        BY DEF GoodsInv
      <4>3. orderRequest[s].pc = "stocking" /\ AlreadyStocked(s)' => Doubled'
        BY <2>5, <2>7, <3>2
      <4>4. Nothing' = Nothing
        BY DEF Nothing
      <4> QED
        BY <2>5, <4>1, <4>2, <4>3, <4>4 DEF StocksInTurn
    <3> QED
      BY <3>1, <3>2
  <2>9. ASSUME ~Doubled', NEW l \in Line PROVE order'.received[l] <= Counted(l)'
    <3>1. \A s \in OrderRequest : CountedOf(l)'[s] = CountedOf(l)[s]
      BY <1>1, <1>2, <2>3, <2>4 DEF CountedOf, CountedBy, Nothing
    <3>2. SumFunctionOnSet(CountedOf(l), OrderRequest) = SumFunctionOnSet(CountedOf(l)', OrderRequest)
      BY <3>1, OrdersAssumption, SumOfEquals
    <3>3. Counted(l)' = Counted(l)
      BY <3>2 DEF Counted
    <3>4. order.received[l] <= Counted(l)
      BY <2>5, <2>9 DEF GoodsInv
    <3> QED
      BY <1>5, <3>3, <3>4
  <2> QED
    BY <2>6, <2>8, <2>9 DEF GoodsInv
<1> QED
  BY <1>6, <1>7

\* What is counted was stocked by the same request.
LEMMA CommitCounts ==
  ASSUME OrderInv, OrderInv', GoodsInv, NEW r \in OrderRequest, CountCommit(r)
  PROVE  GoodsInv'
<1>1. PICK new : new = Memoryless("counted")
  OBVIOUS
<1>2. new.pc = "counted" /\ new.pc \notin InFlight
  BY <1>1, MemorylessShape DEF Ended
<1>3. orderRequest' = [orderRequest EXCEPT ![r] = new] /\ UNCHANGED <<movement, overlapped>> /\ orderRequest[r].pc = "settling"
  BY <1>1 DEF CountCommit, End
<1>4. orderRequest'[r] = new /\ \A s \in OrderRequest : s # r => orderRequest'[s] = orderRequest[s]
  BY <1>3 DEF OrderInv, OrderShapes
<1>5. Doubled' = Doubled
  BY <1>3 DEF Doubled
<1>6. OverlapsAreSeen'
  BY <1>2, <1>3, <1>4 DEF GoodsInv, OverlapsAreSeen
<1>7. \A s \in OrderRequest : AlreadyStocked(s)' = AlreadyStocked(s)
  BY <1>3 DEF AlreadyStocked, KeyMates
<1>8. \A s \in OrderRequest : StocksInTurn(s)'
  BY <1>2, <1>3, <1>4, <1>5, <1>7 DEF GoodsInv, StocksInTurn
<1>9. ASSUME ~Doubled', NEW l \in Line PROVE order'.received[l] <= Counted(l)'
  <2>1. PICK want \in Pieces : want = orderRequest[r].want
    <3>1. orderRequest[r] \in ARequest
      BY DEF OrderInv, OrderShapes
    <3> QED
      BY <3>1 DEF ARequest
  <2>2. movement[r] = want
    BY <1>3, <1>5, <1>9, <2>1 DEF GoodsInv, StocksInTurn
  <2>3. /\ order.received[l] \in Nat /\ order'.received[l] \in Nat
    BY DEF OrderInv, OrderShapes, AnOrder, Pieces
  <2>4. order'.received[l] = order.received[l] + want[l]
    BY <2>1 DEF CountCommit, OrderInv, OrderShapes, AnOrder
  <2>5. CountedOf(l)[r] = 0 /\ CountedOf(l)'[r] = want[l]
    BY <1>2, <1>3, <1>4, <2>2, NothingIsPieces DEF CountedOf, CountedBy
  <2>6. \A s \in OrderRequest \ {r} : CountedOf(l)[s] = CountedOf(l)'[s]
    BY <1>3, <1>4 DEF CountedOf, CountedBy, Nothing
  <2>7. \A s \in OrderRequest : CountedOf(l)[s] \in Int /\ CountedOf(l)'[s] \in Int
    <3>1. \A s \in OrderRequest : CountedOf(l)[s] \in Nat
      BY CountedTypes
    <3>2. want[l] \in Int
      BY <2>1 DEF Pieces
    <3> QED
      BY <2>5, <2>6, <3>1, <3>2
  <2>8. SumFunctionOnSet(CountedOf(l)', OrderRequest)
          = SumFunctionOnSet(CountedOf(l), OrderRequest) + CountedOf(l)'[r] - CountedOf(l)[r]
    BY <2>6, <2>7, OrdersAssumption, SumChanged
  <2>9. Counted(l) \in Nat /\ want[l] \in Nat
    BY <2>1, CountedTypes DEF Pieces
  <2>10. Counted(l)' = Counted(l) + want[l]
    BY <2>5, <2>8, <2>9 DEF Counted
  <2>11. order.received[l] <= Counted(l)
    BY <1>5, <1>9 DEF GoodsInv
  <2> QED
    BY <2>3, <2>4, <2>9, <2>10, <2>11
<1> QED
  BY <1>6, <1>8, <1>9 DEF GoodsInv

\* A request that ends without counting.
LEMMA EndCounts ==
  ASSUME OrderInv, OrderInv', GoodsInv, NEW r \in OrderRequest, orderRequest[r].pc \in InFlight,
         NEW pc \in {"done", "replayed", "failed"}, End(r, pc), UNCHANGED <<movement, overlapped>>,
         \A l \in Line : order'.received[l] <= order.received[l]
  PROVE  GoodsInv'
<1>1. PICK new : new = Memoryless(pc)
  OBVIOUS
<1>2. new.pc = pc /\ new.pc \notin InFlight /\ new.pc # "counted"
      /\ new.pc \notin {"idle", "receive", "stocking", "counting", "settling"}
  BY <1>1, MemorylessShape DEF Ended
<1>3. orderRequest[r].pc # "counted"
  BY DEF InFlight
<1> QED
  BY <1>1, <1>2, <1>3, GoodsStay DEF End

\* A request that begins.
LEMMA ReadCounts ==
  ASSUME OrderInv, OrderInv', GoodsInv, NEW r \in OrderRequest, NEW pc \in {"update", "approve", "send", "cancel", "receive"},
         NEW want, Read(r, pc, want)
  PROVE  GoodsInv'
<1>1. PICK new : new = [pc |-> pc, seen |-> order, want |-> want, left |-> <<>>, complete |-> FALSE]
  OBVIOUS
<1>2. new.pc = pc
  BY <1>1
<1>3. orderRequest' = [orderRequest EXCEPT ![r] = new] /\ UNCHANGED <<order, movement>> /\ orderRequest[r].pc = "idle"
  BY <1>1 DEF Read
<1>4. overlapped \subseteq overlapped'
  BY DEF Read
<1>5. \A s \in OrderRequest : s # r /\ orderRequest[s].pc \in InFlight => r \in overlapped' /\ s \in overlapped'
  BY DEF Read, Running
<1>6. movement[r] = Nothing
  BY <1>3 DEF GoodsInv, StocksInTurn
<1>7. \A l \in Line : order'.received[l] <= order.received[l]
  <2>1. \A l \in Line : order.received[l] \in Nat
    BY DEF OrderInv, OrderShapes, AnOrder, Pieces
  <2> QED
    BY <1>3, <2>1
<1> QED
  BY <1>2, <1>3, <1>4, <1>5, <1>6, <1>7, GoodsStay

\* A receipt that goes on without stocking or counting.
LEMMA GoingOnCounts ==
  ASSUME OrderInv, OrderInv', GoodsInv, NEW r \in OrderRequest, NEW new, orderRequest' = [orderRequest EXCEPT ![r] = new],
         UNCHANGED <<order, movement, overlapped>>, new.want = orderRequest[r].want,
         \/ orderRequest[r].pc = "receive" /\ new.pc = "stocking" /\ ~AlreadyStocked(r)
         \/ orderRequest[r].pc = "update" /\ new.pc = "replacing"
         \/ orderRequest[r].pc = "counting" /\ new.pc \in {"counting", "settling"}
  PROVE  GoodsInv'
<1>1. \A l \in Line : order'.received[l] <= order.received[l]
  <2>1. \A l \in Line : order.received[l] \in Nat
    BY DEF OrderInv, OrderShapes, AnOrder, Pieces
  <2> QED
    BY <2>1
<1>2. orderRequest[r].pc \in InFlight
  BY DEF InFlight
<1>3. \A s \in OrderRequest : s # r /\ orderRequest[s].pc \in InFlight => r \in overlapped /\ s \in overlapped
  BY <1>2 DEF GoodsInv, OverlapsAreSeen
<1>4. StocksInTurn(r)
  BY DEF GoodsInv
<1>5. new.pc \in {"idle", "receive", "stocking"} => movement[r] = Nothing
  BY <1>4 DEF StocksInTurn
<1>6. new.pc \in {"counting", "settling"} => movement[r] = new.want \/ Doubled
  BY <1>4 DEF StocksInTurn
<1>7. orderRequest[r].pc # "counted" /\ new.pc # "counted" /\ (new.pc = "stocking" => ~AlreadyStocked(r))
  OBVIOUS
<1>8. overlapped \subseteq overlapped' /\ UNCHANGED movement
  OBVIOUS
<1> QED
  BY <1>1, <1>3, <1>5, <1>6, <1>7, <1>8, GoodsStay

\* Every step keeps the counter a lower bound of the store.
LEMMA GoodsInvNext ==
  ASSUME OrderInv, OrderInv', GoodsInv, [OrdersNext]_orderVars
  PROVE  GoodsInv'
<1>1. ASSUME UNCHANGED <<movement, orderRequest, overlapped>>, \A l \in Line : order'.received[l] = order.received[l]
      PROVE  GoodsInv'
  <2>1. Doubled' = Doubled /\ OverlapsAreSeen'
    BY <1>1 DEF Doubled, GoodsInv, OverlapsAreSeen
  <2>2. \A s \in OrderRequest : AlreadyStocked(s)' = AlreadyStocked(s)
    BY <1>1 DEF AlreadyStocked, KeyMates
  <2>3. \A s \in OrderRequest : StocksInTurn(s)'
    BY <1>1, <2>1, <2>2 DEF GoodsInv, StocksInTurn
  <2>4. \A l \in Line : Counted(l)' = Counted(l)
    BY <1>1 DEF Counted, CountedOf, CountedBy, Nothing
  <2> QED
    BY <1>1, <2>1, <2>3, <2>4 DEF GoodsInv
<1>2. CASE UNCHANGED orderVars
  BY <1>1, <1>2 DEF orderVars
<1>3. ASSUME NEW quantity \in Orderable, Create(quantity) PROVE GoodsInv'
  <2>1. order'.received = order.received
    BY <1>3 DEF Create, OrderInv, OrderShapes, AnOrder
  <2> QED
    BY <1>1, <1>3, <2>1 DEF Create
<1>4. ASSUME NEW r \in OrderRequest, BeginOrder(r) \/ Continue(r) \/ Fail(r) PROVE GoodsInv'
  <2>0. \A l \in Line : order.received[l] \in Nat
    BY DEF OrderInv, OrderShapes, AnOrder, Pieces
  <2>1. CASE BeginOrder(r)
    <3>1. \E pc \in {"update", "approve", "send", "cancel", "receive"} : \E want : Read(r, pc, want)
      BY <2>1 DEF BeginOrder, UpdateRead, ApproveRead, SendRead, CancelRead, ReceiveRead
    <3> QED
      BY <3>1, ReadCounts
  <2>2. CASE UpdateWrite(r)
    <3>1. order'.received = Nothing
      BY <2>2 DEF UpdateWrite, OrderInv, OrderShapes, AnOrder
    <3>2. \A l \in Line : order'.received[l] <= order.received[l]
      BY <2>0, <3>1, NothingIsPieces
    <3> QED
      BY <2>2, <3>2, EndCounts DEF UpdateWrite, InFlight
  <2>3. CASE ApproveWrite(r) \/ SendWrite(r) \/ CancelWrite(r)
    <3>1. PICK pc \in InFlight, status \in {"APPROVED", "SENT", "CANCELLED"} : StatusWrite(r, pc, status)
      BY <2>3 DEF ApproveWrite, SendWrite, CancelWrite, InFlight
    <3>2. order'.received = order.received
      BY <3>1 DEF StatusWrite, OrderInv, OrderShapes, AnOrder
    <3>3. \A l \in Line : order'.received[l] <= order.received[l]
      BY <2>0, <3>2
    <3> QED
      BY <3>1, <3>3, EndCounts DEF StatusWrite
  <2>4. CASE ReceiveReplay(r) \/ ReceiveReject(r) \/ BreakDeadlock(r) \/ Fail(r)
    <3>1. \E pc \in {"replayed", "failed"} : End(r, pc)
      BY <2>4 DEF ReceiveReplay, ReceiveReject, BreakDeadlock, Fail
    <3>2. UNCHANGED <<order, movement, overlapped>> /\ orderRequest[r].pc \in InFlight
      BY <2>4 DEF ReceiveReplay, ReceiveReject, BreakDeadlock, WaitsFor, Fail, Running, InFlight
    <3>3. \A l \in Line : order'.received[l] <= order.received[l]
      BY <2>0, <3>2
    <3> QED
      BY <3>1, <3>2, <3>3, EndCounts
  <2>5. CASE ReceiveCheck(r)
    <3>1. PICK new \in ARequest : new = [orderRequest[r] EXCEPT !.pc = "stocking"] /\ new.pc = "stocking"
                                  /\ new.want = orderRequest[r].want
      BY PhaseRecord DEF InFlight
    <3>2. orderRequest' = [orderRequest EXCEPT ![r] = new]
      BY <2>5, <3>1 DEF ReceiveCheck, OrderGoto
    <3> QED
      BY <2>5, <3>1, <3>2, GoingOnCounts DEF ReceiveCheck
  <2>6. CASE ReceiveStockIn(r)
    BY <2>6, StockInCounts
  <2>7. CASE CountIncrement(r)
    <3>1. PICK q \in ARequest : q = orderRequest[r]
      BY DEF OrderInv, OrderShapes
    <3>2. PICK line, rest : line = Head(q.left) /\ rest = Tail(q.left)
      OBVIOUS
    <3>3. CASE ~CheckHolds(r, line)
      <4>1. \A l \in Line : order'.received[l] <= order.received[l]
        BY <2>0, <2>7 DEF CountIncrement
      <4> QED
        BY <2>7, <3>1, <3>2, <3>3, <4>1, EndCounts DEF CountIncrement, InFlight
    <3>4. CASE CheckHolds(r, line)
      <4>1. PICK new : new = [q EXCEPT !.left = rest]
        OBVIOUS
      <4>2. new.pc = q.pc /\ new.want = q.want
        BY <4>1 DEF ARequest
      <4>3. orderRequest' = [orderRequest EXCEPT ![r] = new]
        <5>1. orderRequest \in [OrderRequest -> ARequest]
          BY DEF OrderInv, OrderShapes
        <5>2. orderRequest' = [orderRequest EXCEPT ![r].left = rest]
          BY <2>7, <3>1, <3>2, <3>4 DEF CountIncrement
        <5> HIDE DEF ARequest
        <5> QED
          BY <3>1, <4>1, <5>1, <5>2, Zenon
      <4> QED
        BY <2>7, <3>1, <4>2, <4>3, GoingOnCounts DEF CountIncrement
    <3> QED
      BY <3>3, <3>4
  <2>8. CASE UpdateRow(r)
    <3>1. PICK new \in ARequest : new = [orderRequest[r] EXCEPT !.pc = "replacing"] /\ new.pc = "replacing"
                                  /\ new.want = orderRequest[r].want
      BY PhaseRecord DEF InFlight
    <3>2. orderRequest' = [orderRequest EXCEPT ![r] = new]
      BY <2>8, <3>1 DEF UpdateRow, OrderGoto
    <3> QED
      BY <2>8, <3>1, <3>2, GoingOnCounts DEF UpdateRow
  <2>9. CASE CountStatus(r)
    <3>1. PICK q \in ARequest : q = orderRequest[r]
      BY DEF OrderInv, OrderShapes
    <3>2. PICK complete : complete = (\A l \in Line : order.received[l] + q.want[l] >= order.quantity[l])
      OBVIOUS
    <3>3. PICK new : new = [q EXCEPT !.pc = "settling", !.complete = complete]
      OBVIOUS
    <3>4. new.pc = "settling" /\ new.want = q.want
      BY <3>3 DEF ARequest
    <3>5. orderRequest' = [orderRequest EXCEPT ![r] = new]
      <4>1. orderRequest \in [OrderRequest -> ARequest]
        BY DEF OrderInv, OrderShapes
      <4>2. orderRequest' = [orderRequest EXCEPT ![r].pc = "settling", ![r].complete = complete]
        BY <2>9, <3>1, <3>2 DEF CountStatus
      <4> HIDE DEF ARequest
      <4> QED
        BY <3>1, <3>3, <4>1, <4>2, Zenon
    <3> QED
      BY <2>9, <3>1, <3>4, <3>5, GoingOnCounts DEF CountStatus
  <2>10. CASE CountCommit(r)
    BY <2>10, CommitCounts
  <2> QED
    BY <1>4, <2>1, <2>2, <2>3, <2>4, <2>5, <2>6, <2>7, <2>8, <2>9, <2>10 DEF Continue
<1> QED
  BY <1>2, <1>3, <1>4 DEF OrdersNext

\* Unless two receipts with one key overlapped, what is counted is stocked.
LEMMA GoodsAreStocked == OrderInv /\ GoodsInv => CountedWasStocked
<1> SUFFICES ASSUME OrderInv, GoodsInv, Cardinality(overlapped \cap Keyed) <= 1, NEW l \in Line
             PROVE  order.received[l] <= Stocked(l)
  BY DEF CountedWasStocked
<1>1. ~Doubled
  <2> SUFFICES ASSUME NEW r \in overlapped \cap Keyed, NEW s \in overlapped \cap Keyed, r # s PROVE FALSE
    BY DEF Doubled
  <2>1. IsFiniteSet(overlapped \cap Keyed) /\ Cardinality(overlapped \cap Keyed) \in Nat
    <3>1. overlapped \cap Keyed \in SUBSET OrderRequest
      BY DEF OrderInv, OrderShapes
    <3> QED
      BY <3>1, OrdersAssumption, FS_Subset, FS_CardinalityType
  <2>2. Cardinality({r}) = 1 /\ IsFiniteSet({r})
    BY FS_Singleton
  <2>3. Cardinality({r} \cup {s}) = 2
    <3>1. s \notin {r}
      OBVIOUS
    <3>2. Cardinality({r} \cup {s}) = Cardinality({r}) + 1
      BY <2>2, <3>1, FS_AddElement
    <3> QED
      BY <2>2, <3>2
  <2>4. {r} \cup {s} \in SUBSET (overlapped \cap Keyed)
    OBVIOUS
  <2>5. Cardinality({r} \cup {s}) <= Cardinality(overlapped \cap Keyed)
    BY <2>1, <2>4, FS_Subset
  <2> QED
    BY <2>1, <2>3, <2>5
<1>2. order.received[l] <= Counted(l) /\ order.received[l] \in Nat
  BY <1>1 DEF GoodsInv, OrderInv, OrderShapes, AnOrder, Pieces
<1>3. Counted(l) \in Nat /\ Stocked(l) \in Nat /\ Counted(l) <= Stocked(l)
  BY CountedTypes
<1> QED
  BY <1>2, <1>3

\* receive(): whatever overlaps, no line counts more than was ordered and an
\* Idempotency-Key stocks once; unless two receipts with one key overlapped
\* what is counted is in the store; and unless any requests overlapped the
\* status says how much of the order has arrived.
THEOREM ReceiptsAreCounted == OrdersSpec => []ReceiptsAddUp
<1>1. OrdersInit => OrderInv /\ GoodsInv
  BY OrderInvInit, GoodsInvInit
<1>2. (OrderInv /\ GoodsInv) /\ [OrdersNext]_orderVars => (OrderInv /\ GoodsInv)'
  BY OrderInvNext, GoodsInvNext
<1>3. OrderInv /\ GoodsInv => ReceiptsAddUp
  BY OneStocksOnce, GoodsAreStocked DEF ReceiptsAddUp, OrderInv
<1> QED
  BY <1>1, <1>2, <1>3, PTL DEF OrdersSpec
=============================================================================
