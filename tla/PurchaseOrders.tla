--------------------------- MODULE PurchaseOrders ---------------------------
(***************************************************************************)
(* The life of one kitchen purchase order under concurrent requests.       *)
(*                                                                         *)
(* Every handler of PurchaseOrderService reads the order, decides on what  *)
(* it read, and writes later: nothing locks the order in between, so a     *)
(* request is several steps and other requests run between them.           *)
(* receive() goes on to two separate transactions, the STOCK_IN of the     *)
(* kitchen store and the counting of what was received; it can fail, or    *)
(* the process can die, between the two.  The counting increments one line *)
(* at a time, in the order of the request, and holds each until it commits;*)
(* update() holds the row of the order and then wants every line.  So      *)
(* requests wait for each other, also in a circle, of which the database   *)
(* aborts one.                                                             *)
(*                                                                         *)
(* Quantities are whole numbers (the columns hold thousandths).  A request *)
(* that its first check rejects changes nothing and is not a step.  An     *)
(* update() that brings no lines changes nothing modelled here.            *)
(***************************************************************************)
EXTENDS Naturals, FiniteSets, Sequences, Functions

CONSTANTS
  Line,           \* lines of the order, one item each
  OrderRequest,        \* HTTP requests that change the order after its creation
  MaxQuantity,    \* bound on an ordered quantity
  MaxInFlight,    \* bound on requests that run at the same time
  Repeats,        \* how often one receive request may name the same line
  Keyed           \* the requests that carry one and the same Idempotency-Key

\* PURCHASE_ORDER_EMPTY: an order has lines.
ASSUME OrdersAssumption ==
  /\ IsFiniteSet(Line) /\ Line # {} /\ IsFiniteSet(OrderRequest)
  /\ {MaxQuantity, MaxInFlight, Repeats} \subseteq Nat \ {0}
  /\ Keyed \subseteq OrderRequest

VARIABLES
  order,      \* the purchase_orders row and its lines
  movement,   \* what the STOCK_IN registered by each request brought in
  orderRequest,    \* where each request stands and what it holds in memory
  overlapped  \* history: the requests that ran while another one was running

orderVars == <<order, movement, orderRequest, overlapped>>

Status == {"NONE", "DRAFT", "APPROVED", "SENT", "PARTIALLY_RECEIVED", "RECEIVED",
           "CANCELLED"}

Receivable == {"APPROVED", "SENT", "PARTIALLY_RECEIVED"}

Quantities == [Line -> 0 .. MaxQuantity * Repeats]

Nothing == [l \in Line |-> 0]

\* `edition' tells the lines apart from the ones update() deletes.
Order == [status: Status, edition: Nat, quantity: [Line -> 0 .. MaxQuantity],
          received: [Line -> Nat]]

Ended == {"done", "counted", "replayed", "failed"}

InFlight == {"update", "replacing", "approve", "send", "cancel", "receive", "stocking",
             "counting", "settling"}

NewOrder == [status |-> "NONE", edition |-> 0, quantity |-> Nothing,
             received |-> Nothing]

\* `seen' is the order a request read, `want' its body, `left' the lines that it
\* has still to increment.  A request at rest holds nothing in memory.
Memoryless(pc) ==
  [pc |-> pc, seen |-> NewOrder, want |-> Nothing, left |-> <<>>, complete |-> FALSE]

OrdersInit ==
  /\ order = NewOrder
  /\ movement = [r \in OrderRequest |-> Nothing]
  /\ orderRequest = [r \in OrderRequest |-> Memoryless("idle")]
  /\ overlapped = {}

-----------------------------------------------------------------------------

Running == {r \in OrderRequest : orderRequest[r].pc \in InFlight}

OrderGoto(r, pc) == orderRequest' = [orderRequest EXCEPT ![r].pc = pc]

End(r, pc) == orderRequest' = [orderRequest EXCEPT ![r] = Memoryless(pc)]

\* create(): the order appears as a DRAFT.
Create(quantity) ==
  /\ order.status = "NONE"
  /\ order' = [order EXCEPT !.status = "DRAFT", !.quantity = quantity]
  /\ UNCHANGED <<movement, orderRequest, overlapped>>

\* The read at the top of every handler.
Read(r, pc, want) ==
  /\ orderRequest[r].pc = "idle"
  /\ Cardinality(Running) < MaxInFlight
  /\ order.status # "NONE"
  /\ orderRequest' = [orderRequest EXCEPT ![r] =
       [pc |-> pc, seen |-> order, want |-> want, left |-> <<>>, complete |-> FALSE]]
  /\ overlapped' = IF Running = {} THEN overlapped ELSE overlapped \cup Running \cup {r}
  /\ UNCHANGED <<order, movement>>

HasReceipts(o) == \E l \in Line : o.received[l] > 0

UpdateRead(r, quantity) == order.status = "DRAFT" /\ Read(r, "update", quantity)

ApproveRead(r) == order.status = "DRAFT" /\ Read(r, "approve", Nothing)

\* send() asks for APPROVED; sendEmail() also accepts SENT, and uploads the PDF
\* and queues the mail before it writes.
SendRead(r) == order.status \in {"APPROVED", "SENT"} /\ Read(r, "send", Nothing)

\* Mutant: only the status is looked at.
CancelReadByStatus(r) ==
  order.status \notin {"CANCELLED", "RECEIVED"} /\ Read(r, "cancel", Nothing)

CancelRead(r) ==
  /\ order.status \notin {"CANCELLED", "RECEIVED"}
  /\ ~HasReceipts(order)
  /\ Read(r, "cancel", Nothing)

ReceiveRead(r, want) == want # Nothing /\ Read(r, "receive", want)

-----------------------------------------------------------------------------

Wanted(r) == {l \in Line : orderRequest[r].want[l] > 0}

\* The lines a counting transaction has incremented and not yet committed.
Incremented(r) ==
  IF orderRequest[r].pc \in {"counting", "settling"} THEN Wanted(r) \ Range(orderRequest[r].left)
  ELSE {}

\* The requests whose locks r waits for: the line it wants next, the lines it
\* replaces, or the row of the order.
WaitsFor(r) ==
  {s \in OrderRequest \ {r} :
     \/ /\ orderRequest[r].pc = "counting" /\ orderRequest[r].left # <<>>
        /\ Head(orderRequest[r].left) \in Incremented(s)
     \/ orderRequest[r].pc = "replacing" /\ Incremented(s) # {}
     \/ /\ orderRequest[r].pc \in {"update", "approve", "send", "cancel", "settling"}
        /\ orderRequest[s].pc = "replacing"}

\* The requests that wait for each other in a circle.
Circle(requests) ==
  \A r \in requests : /\ WaitsFor(r) \cap requests # {}
                      /\ \E s \in requests : r \in WaitsFor(s)

\* The database ends one of the transactions of a circle; nothing tries again.
BreakDeadlock(r) ==
  /\ WaitsFor(r) # {}
  /\ \E requests \in SUBSET OrderRequest : r \in requests /\ Circle(requests)
  /\ End(r, "failed")
  /\ UNCHANGED <<order, movement, overlapped>>

\* The transaction of update(): first the row of the order ...
UpdateRow(r) ==
  /\ orderRequest[r].pc = "update"
  /\ WaitsFor(r) = {}
  /\ OrderGoto(r, "replacing")
  /\ UNCHANGED <<order, movement, overlapped>>

\* ... whatever its status is by now, and then the lines, which are new rows.
UpdateWrite(r) ==
  /\ orderRequest[r].pc = "replacing"
  /\ WaitsFor(r) = {}
  /\ order' = [order EXCEPT !.edition = @ + 1, !.quantity = orderRequest[r].want,
                            !.received = Nothing]
  /\ End(r, "done")
  /\ UNCHANGED <<movement, overlapped>>

StatusWrite(r, pc, status) ==
  /\ orderRequest[r].pc = pc
  /\ WaitsFor(r) = {}
  /\ order' = [order EXCEPT !.status = status]
  /\ End(r, "done")
  /\ UNCHANGED <<movement, overlapped>>

ApproveWrite(r) == StatusWrite(r, "approve", "APPROVED")
SendWrite(r) == StatusWrite(r, "send", "SENT")
CancelWrite(r) == StatusWrite(r, "cancel", "CANCELLED")

KeyMates(r) == IF r \in Keyed THEN Keyed ELSE {r}

\* The movement that already carries the request's Idempotency-Key exists.
AlreadyStocked(r) == \E s \in KeyMates(r) : movement[s] # Nothing

\* The quantities fit what was pending when the order was read.
WithinPending(r) ==
  LET seen == orderRequest[r].seen
  IN  \A l \in Line :
        orderRequest[r].want[l] <= Repeats * (seen.quantity[l] - seen.received[l])

\* receive(): the key is looked up before the status is checked.
ReceiveReplay(r) ==
  /\ orderRequest[r].pc = "receive"
  /\ AlreadyStocked(r)
  /\ End(r, "replayed")
  /\ UNCHANGED <<order, movement, overlapped>>

Acceptable(r) == orderRequest[r].seen.status \in Receivable /\ WithinPending(r)

ReceiveCheck(r) ==
  /\ orderRequest[r].pc = "receive"
  /\ ~AlreadyStocked(r)
  /\ Acceptable(r)
  /\ OrderGoto(r, "stocking")
  /\ UNCHANGED <<order, movement, overlapped>>

\* PURCHASE_ORDER_NOT_RECEIVABLE or PURCHASE_ORDER_OVER_RECEIPT.
ReceiveReject(r) ==
  /\ orderRequest[r].pc = "receive"
  /\ ~AlreadyStocked(r)
  /\ ~Acceptable(r)
  /\ End(r, "failed")
  /\ UNCHANGED <<order, movement, overlapped>>

\* stockIn(), one Serializable transaction: with a known key it returns the
\* earlier movement and receive() does not notice.  From here on the order in
\* which the request names its lines matters.
ReceiveStockIn(r) ==
  /\ orderRequest[r].pc = "stocking"
  /\ movement' = IF AlreadyStocked(r) THEN movement
                 ELSE [movement EXCEPT ![r] = orderRequest[r].want]
  /\ \E left \in Bijection(1 .. Cardinality(Wanted(r)), Wanted(r)) :
       orderRequest' = [orderRequest EXCEPT ![r].pc = "counting", ![r].left = left]
  /\ UNCHANGED <<order, overlapped>>

\* The line still exists, and purchase_order_lines_received_check.
CheckHolds(r, l) ==
  /\ orderRequest[r].seen.edition = order.edition
  /\ order.received[l] + orderRequest[r].want[l] <= order.quantity[l]

\* The second transaction increments the next line, once nobody else holds it,
\* and fails as a whole when the CHECK does not hold.
CountIncrement(r) ==
  /\ orderRequest[r].pc = "counting" /\ orderRequest[r].left # <<>>
  /\ WaitsFor(r) = {}
  /\ IF CheckHolds(r, Head(orderRequest[r].left))
     THEN orderRequest' = [orderRequest EXCEPT ![r].left = Tail(@)]
     ELSE End(r, "failed")
  /\ UNCHANGED <<order, movement, overlapped>>

\* Mutant: only the lines of this receipt are looked at.
CountStatusOwnLines(r) ==
  /\ orderRequest[r].pc = "counting" /\ orderRequest[r].left = <<>>
  /\ orderRequest' = [orderRequest EXCEPT
       ![r].pc = "settling",
       ![r].complete = \A l \in Wanted(r) :
         order.received[l] + orderRequest[r].want[l] >= order.quantity[l]]
  /\ UNCHANGED <<order, movement, overlapped>>

\* It reads the lines back: its own increments and what others committed.
CountStatus(r) ==
  /\ orderRequest[r].pc = "counting" /\ orderRequest[r].left = <<>>
  /\ orderRequest' = [orderRequest EXCEPT
       ![r].pc = "settling",
       ![r].complete = \A l \in Line :
         order.received[l] + orderRequest[r].want[l] >= order.quantity[l]]
  /\ UNCHANGED <<order, movement, overlapped>>

\* It writes the row of the order, once no update() holds it, and commits.
CountCommit(r) ==
  /\ orderRequest[r].pc = "settling"
  /\ WaitsFor(r) = {}
  /\ order' = [order EXCEPT
       !.status = IF orderRequest[r].complete THEN "RECEIVED" ELSE "PARTIALLY_RECEIVED",
       !.received = [l \in Line |-> @[l] + orderRequest[r].want[l]]]
  /\ End(r, "counted")
  /\ UNCHANGED <<movement, overlapped>>

\* A denied policy, an error of the store, a persistent conflict or the end of
\* the process: nothing more of the request happens and an open transaction is
\* rolled back.
Fail(r) ==
  /\ r \in Running
  /\ End(r, "failed")
  /\ UNCHANGED <<order, movement, overlapped>>

-----------------------------------------------------------------------------

Orderable == [Line -> 1 .. MaxQuantity]

BeginOrder(r) ==
  \/ \E quantity \in Orderable : UpdateRead(r, quantity)
  \/ ApproveRead(r)
  \/ SendRead(r)
  \/ CancelRead(r)
  \/ \E want \in Quantities : ReceiveRead(r, want)

Continue(r) ==
  \/ UpdateRow(r)
  \/ UpdateWrite(r)
  \/ ApproveWrite(r)
  \/ SendWrite(r)
  \/ CancelWrite(r)
  \/ ReceiveReplay(r)
  \/ ReceiveCheck(r)
  \/ ReceiveReject(r)
  \/ ReceiveStockIn(r)
  \/ CountIncrement(r)
  \/ CountStatus(r)
  \/ CountCommit(r)
  \/ BreakDeadlock(r)

OrdersNext ==
  \/ \E quantity \in Orderable : Create(quantity)
  \/ \E r \in OrderRequest : BeginOrder(r) \/ Continue(r) \/ Fail(r)

OrdersSpec == OrdersInit /\ [][OrdersNext]_orderVars

\* A handler that can take its next step takes it.  Clients owe nothing, so
\* BeginOrder has no fairness; nor has Fail, so no request ends by luck.
OrdersFairness == \A r \in OrderRequest : WF_orderVars(Continue(r))

OrdersFairSpec == OrdersSpec /\ OrdersFairness

-----------------------------------------------------------------------------

\* Every row and every request in memory has its declared shape; no received
\* quantity is negative.
OrdersTypeOK ==
  /\ order \in Order
  /\ overlapped \subseteq OrderRequest
  /\ movement \in [OrderRequest -> Quantities]
  /\ orderRequest \in [OrderRequest ->
       [pc: InFlight \cup Ended \cup {"idle"}, seen: Order, want: Quantities,
        left: UNION {[1 .. n -> Line] : n \in 0 .. Cardinality(Line)}, complete: BOOLEAN]]

Stocked(l) == SumFunctionOnSet([r \in OrderRequest |-> movement[r][l]], OrderRequest)

\* However stale the pending quantities a request checked, no line ever counts
\* more than was ordered.
ReceivedWithinOrder == \A l \in Line : order.received[l] <= order.quantity[l]

\* What the order counts as received is in the kitchen store, in any overlap of
\* requests but those that carry one Idempotency-Key: of two such receipts one
\* stocks and both count.
CountedWasStocked ==
  Cardinality(overlapped \cap Keyed) <= 1 =>
    \A l \in Line : order.received[l] <= Stocked(l)

\* An Idempotency-Key brings its goods into the store at most once.
KeyStocksOnce ==
  \A r \in OrderRequest : Cardinality({s \in KeyMates(r) : movement[s] # Nothing}) <= 1

\* receive() "actualiza lo recibido": when a retry is answered with the earlier
\* movement, that receipt is counted or a request is about to count it.
ReplayedReceiptsAreCounted ==
  \A r \in OrderRequest : orderRequest[r].pc = "replayed" =>
    \E s \in KeyMates(r) : orderRequest[s].pc \in {"counting", "settling", "counted"}

Complete == \A l \in Line : order.received[l] = order.quantity[l]

\* As long as requests do not overlap the status says how much of the order has
\* arrived, whatever failed between the steps of a receipt.  Overlapping
\* receipts can leave a complete order PARTIALLY_RECEIVED.
StatusMatchesReceipts ==
  overlapped = {} /\ order.status # "NONE" =>
    /\ order.status = "RECEIVED" <=> Complete
    /\ order.status = "PARTIALLY_RECEIVED" <=> HasReceipts(order) /\ ~Complete

Later ==
  [s \in Status |->
     CASE s = "NONE" -> {"DRAFT"}
       [] s = "DRAFT" -> {"APPROVED", "CANCELLED"}
       [] s = "APPROVED" -> {"SENT", "PARTIALLY_RECEIVED", "RECEIVED", "CANCELLED"}
       [] s = "SENT" -> {"SENT", "PARTIALLY_RECEIVED", "RECEIVED", "CANCELLED"}
       [] s = "PARTIALLY_RECEIVED" -> {"PARTIALLY_RECEIVED", "RECEIVED", "CANCELLED"}
       [] OTHER -> {}]

\* What may become of an order: RECEIVED and CANCELLED are final and what has
\* receipts is not cancelled ("Ya recibida: no se puede cancelar").
MayBecome(o) == Later[o.status] \ (IF HasReceipts(o) THEN {"CANCELLED"} ELSE {})

Finishes(r) ==
  orderRequest[r].pc \in InFlight /\ orderRequest[r]'.pc \in {"done", "counted"}

\* In any overlap of requests, each status follows from the order that the
\* request which writes it had read: only a request that read an order of
\* before another one's write can move it backward.
LifecycleIsForward ==
  [][order'.status # order.status =>
       \/ order.status = "NONE" /\ order'.status = "DRAFT"
       \/ \E r \in OrderRequest :
            Finishes(r) /\ order'.status \in MayBecome(orderRequest[r].seen)]_orderVars

\* Every request that starts is answered, also when requests hold each other's
\* lines or the row of the order: again and again none is under way.
RequestsEnd == []<>(Running = {})

\* receive(): counted goods are within the order, were stocked, were stocked
\* once per key, and the status of the order says how many of them there are.
ReceiptsAddUp == ReceivedWithinOrder /\ CountedWasStocked /\ KeyStocksOnce /\ StatusMatchesReceipts

\* A status follows from what its writer read, whatever overlaps, and every
\* request on an order ends although they wait for each other's rows.
OrdersMoveOn == LifecycleIsForward /\ RequestsEnd
=============================================================================
