------------------------- MODULE IdempotentRequests -------------------------
(***************************************************************************)
(* How one POST becomes at most one movement: the Idempotency-Key lookup,  *)
(* the Serializable transaction with its bounded retries and the second    *)
(* lookup after a failure.  InventoryService.registerMovement and          *)
(* KitchenStockService.register share this protocol.                       *)
(*                                                                         *)
(* The operation itself is abstracted to taking one unit of a pool that    *)
(* all requests compete for; a client that repeats a POST whose answer was *)
(* lost is another request with the same key.                              *)
(***************************************************************************)
EXTENDS Naturals, FiniteSets

CONSTANTS
  Request,
  Key, NoKey,     \* values of the Idempotency-Key header, and its absence
  KeyOf,          \* the key each request carries
  AuthorOf,       \* who sends it
  MaxPool,        \* bound on the units there are to take
  MaxTxAttempts   \* MAX_TX_ATTEMPTS

ASSUME RequestsAssumption ==
  /\ IsFiniteSet(Request)
  /\ NoKey \notin Key
  /\ KeyOf \in [Request -> Key \cup {NoKey}]
  /\ DOMAIN AuthorOf = Request
  /\ MaxPool \in Nat /\ MaxTxAttempts \in Nat \ {0}
  /\ Request \cap {"none", "error", "reused", "lost"} = {}

VARIABLES
  pool,         \* the units there are to take
  registered,   \* the requests whose movement is in the database
  request       \* where each request stands

requestVars == <<pool, registered, request>>

Answer == Request \cup {"none", "error", "reused", "lost"}

RequestState == [pc: {"idle", "lookup", "begin", "running", "recover", "committed", "end"},
                 attempt: 1 .. MaxTxAttempts, snapshot: SUBSET Request, answer: Answer]

RequestsInit ==
  /\ pool \in 0 .. MaxPool
  /\ registered = {}
  /\ request = [r \in Request |-> [pc |-> "idle", attempt |-> 1, snapshot |-> {},
                                   answer |-> "none"]]

-----------------------------------------------------------------------------

Goto(r, pc) == request' = [request EXCEPT ![r].pc = pc]

Reply(r, answer) ==
  request' = [request EXCEPT ![r] = [pc |-> "end", attempt |-> 1, snapshot |-> {},
                                     answer |-> answer]]

\* The movements of `seen' that carry the key of r; requestId is unique.
SameKey(r, seen) == {s \in seen : KeyOf[r] # NoKey /\ KeyOf[s] = KeyOf[r]}

\* movementByRequest(): the key belongs to whom used it first.
AnswerWith(r, s) == IF AuthorOf[s] = AuthorOf[r] THEN s ELSE "reused"

Arrive(r) ==
  /\ request[r].pc = "idle"
  /\ Goto(r, IF KeyOf[r] = NoKey THEN "begin" ELSE "lookup")
  /\ UNCHANGED <<pool, registered>>

Lookup(r) ==
  /\ request[r].pc = "lookup"
  /\ IF SameKey(r, registered) = {} THEN Goto(r, "begin")
     ELSE \E s \in SameKey(r, registered) : Reply(r, AnswerWith(r, s))
  /\ UNCHANGED <<pool, registered>>

Begin(r) ==
  /\ request[r].pc = "begin"
  /\ request' = [request EXCEPT ![r].pc = "running", ![r].snapshot = registered]
  /\ UNCHANGED <<pool, registered>>

\* A Serializable transaction commits only if nobody took from the pool since
\* it began.
MayCommit(r) == registered = request[r].snapshot /\ Cardinality(request[r].snapshot) < pool

\* Mutant: no unique index on requestId.
KeyUnchecked(r) == TRUE

KeyIsFree(r) == SameKey(r, registered) = {}

Commit(r) ==
  /\ request[r].pc = "running"
  /\ MayCommit(r)
  /\ KeyIsFree(r)
  /\ registered' = registered \cup {r}
  /\ Goto(r, "committed")
  /\ UNCHANGED pool

\* P2002 on requestId: not retryable.
KeyTaken(r) ==
  /\ request[r].pc = "running"
  /\ SameKey(r, registered) # {}
  /\ Goto(r, "recover")
  /\ UNCHANGED <<pool, registered>>

\* The operation's own rule fails on what the transaction read.
Reject(r) ==
  /\ request[r].pc = "running"
  /\ Cardinality(request[r].snapshot) >= pool
  /\ Goto(r, "recover")
  /\ UNCHANGED <<pool, registered>>

\* Mutant: the conflict is retried for ever.
RetryForever(r) == Goto(r, "begin")

\* After the last attempt CONCURRENT_UPDATE is thrown.
Retry(r) ==
  IF request[r].attempt < MaxTxAttempts
  THEN request' = [request EXCEPT ![r].pc = "begin", ![r].attempt = @ + 1]
  ELSE Goto(r, "recover")

\* P2034: the database aborts a transaction for one that committed meanwhile or,
\* as it is allowed to, for one that is only running.
Conflict(r) ==
  /\ request[r].pc = "running"
  /\ \/ registered # request[r].snapshot
     \/ \E s \in Request \ {r} : request[s].pc = "running"
  /\ Retry(r)
  /\ UNCHANGED <<pool, registered>>

\* The catch block: a request that lost to its own duplicate gets its answer.
Recover(r) ==
  /\ request[r].pc = "recover"
  /\ IF SameKey(r, registered) = {} THEN Reply(r, "error")
     ELSE \E s \in SameKey(r, registered) : Reply(r, AnswerWith(r, s))
  /\ UNCHANGED <<pool, registered>>

Respond(r) ==
  /\ request[r].pc = "committed"
  /\ Reply(r, r)
  /\ UNCHANGED <<pool, registered>>

\* The process or the connection dies: an open transaction rolls back, a
\* committed one stays, and the client learns nothing.
Lose(r) ==
  /\ request[r].pc \notin {"idle", "end"}
  /\ Reply(r, "lost")
  /\ UNCHANGED <<pool, registered>>

-----------------------------------------------------------------------------

Step(r) ==
  \/ Lookup(r)
  \/ Begin(r)
  \/ Commit(r)
  \/ KeyTaken(r)
  \/ Reject(r)
  \/ Conflict(r)
  \/ Recover(r)
  \/ Respond(r)

RequestsNext == \E r \in Request : Arrive(r) \/ Step(r) \/ Lose(r)

RequestsSpec == RequestsInit /\ [][RequestsNext]_requestVars

\* A handler that has a next step takes it; nobody has to send a request, and
\* no answer has to get lost.
RequestsFairness == \A r \in Request : WF_requestVars(Step(r))

RequestsFairSpec == RequestsSpec /\ RequestsFairness

-----------------------------------------------------------------------------

\* Every request is in a known phase, within its attempts.
RequestsTypeOK ==
  /\ pool \in Nat
  /\ registered \subseteq Request
  /\ request \in [Request -> RequestState]

\* "La misma peticion repetida no duplica nada": one movement per key, however
\* many copies run at once and wherever one of them dies.
KeyRegistersOnce ==
  \A r, s \in registered : KeyOf[r] = KeyOf[s] /\ KeyOf[r] # NoKey => r = s

\* Whoever answers with a movement answers with a committed one of the same
\* author, and of the same key unless it is the request's own.
AnswersAreOwn ==
  \A r \in Request : request[r].answer \in Request =>
    LET s == request[r].answer
    IN  /\ s \in registered
        /\ AuthorOf[s] = AuthorOf[r]
        /\ s = r \/ (KeyOf[s] = KeyOf[r] /\ KeyOf[r] # NoKey)

\* No author is told that a request failed when its key is registered already.
RegisteredIsNotRefused ==
  [][\A r \in Request :
       request[r].answer = "none" /\ request'[r].answer = "error" =>
         SameKey(r, registered) = {} /\ r \notin registered]_requestVars

\* The requests never take more than there is.
PoolNotOversold == Cardinality(registered) <= pool

\* Every request that arrives is answered or loses its connection: retries end,
\* so again and again none is under way.
Answered == []<>(\A r \in Request : request[r].pc \in {"idle", "end"})

\* What the requests of one moment may do to each other and to the stock: a
\* repeated POST registers once, answers with its own movement, and all of them
\* together never take more than there is (registerMovement, movementByRequest).
RequestsAreSafe == KeyRegistersOnce /\ AnswersAreOwn /\ PoolNotOversold

\* serializable() gives up after MAX_ATTEMPTS: every request ends, and none is
\* refused after its key was registered.
RequestsAreAnswered == RegisteredIsNotRefused /\ Answered
=============================================================================
