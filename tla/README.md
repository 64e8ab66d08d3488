# Formal model of the Puerto Nuevo API

TLA+ specifications of the hotel's back-office API (Express, TypeScript, Prisma,
PostgreSQL; sources under `src/src`). TLC checks them on small instances, TLAPS
proves the central results for every value of the constants.

Every definition is translated from the code. `PROJECT.json` maps each one to the
lines it stands for, and lists the components, the runs, the mutants that show
each property can fail, the hazards the properties are aimed at, the theorems,
and the places where the code and its own comments disagree.

1. [The system](#1-the-system) 2. [Modules](#2-modules) 3. [Runs](#3-runs)
4. [Proofs](#4-proofs) 5. [What is left out](#5-what-is-left-out) 6. [Plan](#6-plan)

## 1. The system

The API is one Node process (or several) over one PostgreSQL database, with
workers on timers in the same process. Handlers are asynchronous, so two
requests interleave at every `await`. What keeps them apart is the database and
nothing else: a `Serializable` transaction with a retry loop, a conditional
`updateMany`, a unique index, a CHECK, or nothing at all. Which of these guards
an operation is the main thing the models preserve.

| Part | State | Operations | Kept correct by | What is hard |
|---|---|---|---|---|
| Device inventory | units and their status, movements with rows, loans with lines, derived kardex | entries, retirements, maintenance, reversion, loan, return, edit and cancellation of a loan, retirement for an output | one Serializable transaction each, conditional status updates | long legal histories must keep kardex, loans and units in agreement |
| Idempotency and retries | unique `requestId` of a movement | lookup, transaction, bounded retry, second lookup | unique index, Serializable | duplicates in flight, lost answers, keys of others |
| Device import, reconciliation | devices, units, codes; adjustment rows | preview, confirm; adjust, resolve | hash of the file outside the transaction; nothing | what was previewed changes before it is confirmed |
| Material outputs | outputs that name a disposed unit | create, batch, update, remove | Read Committed after an earlier read | two updates of one output, competition with the inventory |
| Kitchen store | lots with balance and expiry, movements | entry, exit by lot or FEFO, adjustment, reversal, import (SET, ADD) | Serializable, conditional decrement | the imports, expiry, reversal of what was consumed |
| Kitchen catalogue, suppliers, invoices | items, units, prices, supplier orders | edits, invoice with the prices it sets | a transaction for the invoice; otherwise read then write | unit and price of an item while it is ordered and stocked |
| Purchase orders | order, lines, received quantities | create, update, approve, send, cancel, receive | CHECK on the lines; otherwise read now, write later | `receive` spans two transactions; status is checked on a stale read |
| E-mail queue, daily alerts | outbox rows, a batch in memory; last notification | enqueue, poll, send, retry with backoff, administrator's retry and cancel; compare and notify | a flag in memory | restarts, failing writes, overlap of worker and administrator |
| Hotel store | stock per position, movements, physical counts | post, cancel, approve, reject; count from create to approve | Serializable for most, Read Committed by id for two | photo of a count against movements that change later |
| Rooms, housekeeping, set-up | room status, tasks with lines; zones, types, kits, warehouses | change status, open, assign, start, extra, finish, inspect, cancel; edits | Serializable for finish and inspect, read then write for the rest | a task finished, cancelled or restarted by two people; trees edited together |
| Tickets | ticket, tasks, notices | create, edit, assign, move, remove, close, delete | read then write | the mirror of the assignee, lists and guards that must agree |
| Permissions, policies | roles, cells, grants, policies, caches | edits, reload, resolve, evaluate | transactions, a cache per process | stale caches, nobody left who can manage roles |
| Accounts, departments | accounts, what refers to them | create, import, update, deactivate, remove with or without reassignment | counts and foreign keys, in separate statements | history that appears between count and delete |
| Personnel records | documents and objects, types, catalogues, notices | edits, upload, notify | counts in separate statements | values removed while profiles begin to use them |
| Settings and mail transport | settings with a cache per process | get, seed, upsert, remove, choose a provider | a TTL | a row read before a write and cached after it |
| Time clock | punches, cursor per clock, pause; links of numbers to staff; people, cards, fingerprints in each clock | pages of events; roster runs; write operations | a lock in memory, a window of events that is re-read | lost pages and connections, clocks that fail, people who leave |
| Attendance | schedules, work days, overtime, weekly reviews, visitors at the gate, reports | edits, reports, close and reopen a week, scans | read then write; pure functions | reports that count the same thing from different loads; days of 23 and 25 hours |

`MaterialOutputService` calls the inventory inside its own transaction.
`PurchaseOrderService.receive` calls the kitchen store in a transaction of the
store's and counts in another. A housekeeping task that finishes posts a hotel
movement in its own transaction. Everything may enqueue mail; only the worker
sends it. Permissions are checked before a handler starts; outside
`AccessControl`, `Policies` and `Tickets` the models let any caller ask for
anything, so the properties do not depend on who may do what.

What makes each part correct is stated by the properties of section 3; what
could go wrong, with the line where it would, is the list of hazards in
`PROJECT.json`.

## 2. Modules

| Module | Models | State and actions |
|---|---|---|
| `Inventory` | `inventory.service.ts`, `ledger.ts`, `conditionToStatus` | `status`, `movement`, `ledger`, `loan`, `item` are the tables; one action per `movement*` method, `updateLoan`, `cancelLoan`, `retireUnitForMaterialOutput` |
| `Custody` | what the inventory promises | abstract: where each unit is and which moves exist; `Inventory` implements it |
| `IdempotentRequests` | `registerMovement`, `movementByRequest`, `serializable`, and the same three of the kitchen | one step per `await`; the business operation is "take one unit of a pool" |
| `PurchaseOrders` | `purchase-order.service.ts` | one order; each request is a small process with the order it read (`seen`); a receipt counts its lines one at a time in the order of the request (`left`) and keeps their rows until it ends, a request waits for the rows it needs, and the database refuses one of those that wait in a circle (`BreakDeadlock`); `overlapped` remembers which requests ran together |
| `Roster` | `roster.service.ts`, `roster-plan.ts`, `time-clock-employee` | readings of the clocks, the plan of a run, links, decisions of the desk |
| `EmailQueue` | `email-queue.ts`, `email-log.service.ts` | `mailRow` is the table, jobs and flags are memory and vanish in `Crash` |
| `Alerts` | `kitchen-alerts.service.ts`, the daily check of the inventory audit, `notification.service.ts` | one step per `await` of the check: result, language, last notification, recipients, notifications, mail; around it problems, accounts, permissions, settings and people who delete what they were told |
| `ClockSync` | `time-clock.service.ts`, the events of ISAPI | what a clock holds, what is stored, cursor, runs page by page, the pause |
| `KitchenStock` | `kitchen-stock.service.ts`, `fefo.ts`, `kitchen-import.service.ts` | `lot`, `movement`; `AllocateFefo` as a function of lots; `counted` remembers the file of the last SET import |
| `KitchenSupply` | catalogue, suppliers, invoices | edits that read and then write |
| `MaterialOutputs` | `material-output.service.ts` | read and write of `update` apart; the inventory's competing moves as actions |
| `HotelStock` | `movement.service.ts`, `kardex-rules.ts`, `stocktake.service.ts` | `stock`, `hotelMovement`, `count`; the two Read Committed operations between read and write |
| `HotelSetup` | `rooms.service.ts`, `hotel-catalog.service.ts`, `warehouse.service.ts` | zones, rooms, types, kits, products, units, warehouses and who edits them |
| `Housekeeping` | `housekeeping.service.ts`, `task-rules.ts`, status of a room | `room`, `task`; `used` remembers rooms a guest used since they were cleaned, `lapsed` those of which a request wrote over what had changed since it read |
| `DeviceImport` | `device-import.service.ts`, the catalogue of types and devices, the numbering of units | `types`, `devices`, `loaded` are the tables; a confirmation reads types, then devices, looks for the file and creates in one transaction; `moved` remembers plans the catalogue has left behind |
| `Reconcile` | the reconciling script and `resolveMismatch` | the two queries of a run apart |
| `AccessRules` | resolver, engine, seeded policies | pure operators: what a grant, a cell and a policy say |
| `AccessControl`, `Policies` | edits of roles, cells, catalogue, grants; policies and their cache | tables, the copy in memory, requests between read and write |
| `Tickets` | tickets, tasks, comments, notices | tables and requests between read and write; uses `AccessRules` |
| `Accounts` | users, departments, subareas, and every column that refers to a user | removals read, count, reassign and delete in separate steps |
| `ClockPeople` | people, cards and fingerprints in the clocks | each request to a clock is a step that may be refused or lost |
| `HumanResources` | documents, types, catalogues, notices | clerks between count and write |
| `SystemConfig` | settings, their cache, the mail transport | clock, cache with its age, requests between read and copy |
| `AccessGate` | `access` module | scans between check and insert, voiding, status, reports |
| `Calendar` | `timezone.ts`, periods | pure functions of the local date, over a change of clocks |
| `Attendance` | schedules, work days, overtime, weekly report, view by person; review and closing of a week | `punched`, `schedules`, `assigned` and `decided` are the tables; requests of the office between what they read and write; sessions, workdays and three computations of a week as functions of the tables; reviews, and the photograph of a closing between read and write |
| `PeriodSummary` | reports of a period | loans, returns, admissions and what the filters and the SQL of the days count of them at one moment |
| `ClockSummary` | summary of attendance of the clocks | readings with a TTL, of whatever address a clock has when it is asked |
| `InventoryProofs`, `RequestProofs`, `StoreProofs`, `WorkerProofs`, `ClockProofs`, `PeopleProofs`, `CatalogProofs` | | theorems and their proofs |
| `Sums` | | lemmas about sums over finite sets, for the proofs |
| `MC*` | | constants and symmetry for TLC |

A Serializable transaction is one step. A handler that reads outside a
transaction and writes later is two steps, with what it read kept in its record.
A request that its first check refuses changes nothing and is not a step.
Quantities are whole numbers: the columns hold thousandths and the code rounds
to them. Names, texts and payloads are members of small sets.

`MCRequests`, `MCMail`, `MCKitchen`, `MCCatalogs`, `MCPeople` and `MCAttendance`
put several parts that share no state into one instance. A behaviour chooses one
part at the start (`part`), runs its next-state relation and leaves the others as
they start, so the state space is the sum of the parts and not their product.

Definitions marked `Mutant` are deliberately wrong versions of the definition
that follows. Nothing uses them; `PROJECT.json` names the property each one
breaks when it takes the place of the right version.

## 3. Runs

`tlc -workers 2 -config X.cfg M`, for the module and configuration of each run.
All finish within five minutes. Deadlock is not checked: the pools of
identifiers, requests and edits run out, after which an instance has nothing
left to do. Every bound is a constant named in the configuration, or,
as `RoomsBound`, a definition of the MC module.

| Run | Shows | Bounds and why they suffice |
|---|---|---|
| `inventory` | kardex = available units; one loan per unit out; the five books agree (`BooksAgree`); closed stays closed and every step is one of `Custody` (`StepsAreLegal`) | 3 units of 2 devices, 5 movements, 2 loans, 2 lines: a loan of two lines returned in two parts, or two loans, with reversions and automatic retirements |
| `requests` | keys register once, answers are one's own, no overselling; receipts within the order, stocked, once per key; a pending removal is of somebody gone. All requests are answered, orders move on, who left is noticed | 4 requests of which some share a key, pool of at most 2, 2 attempts; an order of 2 lines of one piece, 4 requests of which 2 are keyed, 2 in flight, 1 repeat; 2 numbers (one of which has punches, so the other is known only while a clock holds it), 2 staff, 2 clocks, grace of 2 runs and 2 hours, 3 moves, 2 decisions of the desk |
| `mail` | SENT was delivered, once unless something failed; everything queued settles; the last notification comes to tell the truth | 2 mails, batch and concurrency 2, 2 attempts, 2 cycles, 1 crash, 1 failed write, 1 operation of an administrator; 2 checks, 3 problems, 2 users, 2 languages, 3 changes, 1 fault (the queue is checked beside an Alerts at rest) |
| `clock` | the cursor passes no punch that is not stored, a refused password is asked once; cursors only advance and a readable clock ends stored | 2 clocks, 2 runs, window 2, page 1, scripts of 3 events, 1 fault, 1 operation of the console: a window that is re-read, a page that is lost, a pause |
| `kitchen` | balances = kardex and not negative, one reversal per cancelled movement, FEFO exact and earliest first, SET leaves the count, nothing expired is consumed; an output disposes once | 2 items, 2 lots, 3 movements of at most 2, 2 days, 2 lines a request: an entry of two lots, an exit over both, one reversal or import; 2 outputs, 2 units, 2 requests in flight |
| `hotel` | stock = active movements, approved count is what was counted, a cancelled count adjusted nothing | 2 positions with at most 1 piece, 3 movements, 1 count, every adjustment waits for approval: surplus and shortage in one count, a transfer after the photo |
| `catalogs` | catalogue and set-up stay meaningful and an invoice leaves one price; an import loads its plan, a repair is exact; a room is offered only after a cleaning | 1 item, order and invoice, 2 lots, 2 changes; an empty catalogue or one device to start from, 3 files, 2 importers, 2 request ids, at most one type chosen on the screen, 3 changes; 2 runs of the script over 2 units and 5 rows; 3 edits of tables that refer to each other (`Focus`); 1 room, 2 tasks, 1 extra, 2 requests that overlap while a task is left to open, up to the first write over what had changed (`RoomsBound`) |
| `people` | a reload leaves the tables in memory and all three answers agree; roles stay usable; nobody but ADMIN approves an order of their own; the mirror and the lists of tickets agree; removals, records, clocks and settings as named in section 4 | two overlapping requests in every part; 2 roles, permissions and users, any catalogue to start from, saves of one cell, or of two of `roles.manage`; 4 policies, 2 edits; 1 ticket, 4 persons; 2 users, 6 columns, 2 removals, 2 rows, 2 operations; 2 clocks, 2 workers, 1 card, 1 finger, 3 operations, 2 lapses; 2 employees, 1 type and value, 4 requests; 1 setting, 2 values, TTL 1, time 3, 3 deployments |
| `attendance` | entries and exits alternate; periods partition time; bosses, weekly report and view by person count the same; reports of a period add up; readings are recent; the photograph of a week is complete | 2 visitors, 2 scans, 3 events; every hour of a leap year and of the month after it, with a change of the clocks on its sixtieth day or on the first day of the next year; 4 punches among 5 times (a repeated one, one within a workday of another, one that closes a night), 2 requests of the office that may overlap, 2 schedules: a punch that arrives between what a decision reads and what it writes, a schedule removed while it is assigned; 3 units, one of them admitted in the period, 2 loans, 1 return, 1 edit, 2 people and a department on 2 days, asked for with a type or with a person; 3 areas, 4 requests of which 2 overlap; 1 clock, 2 watchers |
| `inventory_broken_entry` | violated: the kardex after the reversion of a MAINTENANCE_IN marked BROKEN | 4 movements, no loans |
| `order_crash` | violated: a retried receipt that died half way is never counted | 1 line, quantity 2, one request in flight |
| `returns_by_person` | violated: with a filter by person the days of a report count a return that the total does not, when somebody else than the person of the loan brought it back | the instance of `attendance` |

### What happens outside the conditions

Some properties hold under a condition only, and the condition is part of the
property, as a history variable or as a predicate of the state, so that the same
run covers the behaviour outside it. What the code does there:

- orders: two overlapping receipts can leave a complete order
  PARTIALLY_RECEIVED; a slow `update` can follow the approval; a slow `cancel` or
  `sendEmail` can overwrite RECEIVED (each of these statuses follows from the
  order its request had read, and that is what `LifecycleIsForward` says; only
  then the order moves backward); two simultaneous copies of one receipt
  stock once and count twice; two receipts can stock more than was ordered,
  because the CHECK protects the counter only;
- e-mail: a failed write ends a cycle whose other rows are still being sent, so
  the next tick can deliver them again; a mail cancelled while it is sent becomes
  SENT or PENDING; a crash between an alert's notification and its mail loses the
  mail until the result changes;
- outputs: two overlapping updates can replace a linked unit, which stays retired;
- hotel: `reject` overlapping `approve` leaves a cancelled adjustment that moved
  stock; `cancel` overlapping the approval of a count leaves its adjustments in
  force; movements from before the photo that change after it are not seen;
- rooms: a status change can write over another and take a room from repairs to
  AVAILABLE, `cancel` can hit a finished task, a repeated `start` charges the cart
  twice: each writes over what changed since it read, and the room is `lapsed`;
- set-up: two updates of zones that overlap can make a cycle;
- kitchen: SET with quantity zero moves nothing; the import accepts perishables
  without an expiry;
- inventory: `updateLoan` on a loan of two lines rewrites the movement row that
  the database returns first (`RowOrderMatches = FALSE`);
- permissions: two saves that overlap can leave no role that keeps `roles.manage`
  (`raced`). `updateCatalog` may deactivate that permission itself, and then nobody
  has it although its cells remain: `NoLockout` is about the cells of active roles,
  which is what the code guards. A cache that an overlapping reload
  filled is old until the next one;
- tickets: the mirror is stale when two requests on one ticket cross (`crossed`);
- accounts: history that appears between count and delete is lost where the
  database does not restrict it (`overtaken`);
- personnel: a value that a profile begins to use after it was counted is taken
  from it (`contended`);
- clocks: operations that overlap can leave a card of somebody the clock does not
  hold (`mixed`);
- gate: two scans in flight of one person, or a voided event, break the alternation;
- attendance: a change of schedule inside the period is seen by some views only;
- reports: a report is read at one moment, while `summary` sends its totals, its
  groups and its days as separate queries, so documents written between them are
  in some parts only; the report on a person is claimed to add up while nobody
  else brings back what the person was lent (`SameHands`), and
  `returns_by_person` shows what happens otherwise.

### Fairness

Only weak fairness is assumed, and only of what the runtime drives. `Step` of a
running request and `Continue` of a request on an order: Node resumes a settled
promise and the database answers. The interval timers of the mail queue, of
the daily checks (`CheckStep`), of the roster (`RosterTick`, `RosterStep`) and of
the clock worker (`TickRead`, `TickStart`, `RunStep`): `setInterval` fires.
Backoffs end, the workers of a mail batch go on, and the administrator's second
statement follows the first. Clients need not send anything; faults, crashes and
lost connections are never forced and are bounded, so `Settles`, `CatchesUp` and
`GoneIsNoticed` are claims about what follows the last of them.

## 4. Proofs

`tlapm M.tla`, for each proof module. Every theorem holds for all constants that
satisfy the named `ASSUME` of the module, which TLC evaluates in the runs: for any
number of units, requests, clocks or people, not only for the bounds of section 3.

| Theorem | States | Argument |
|---|---|---|
| `TypeCorrect` | `TypeOK` of the inventory | inductive by itself |
| `KardexIsExact` | `SoundUse => (Spec => []LedgerMatchesStock)` | `KardexInv` adds `EntriesNotBroken`, since the reversal of a maintenance entry leaves out BROKEN rows; each action moves the ledger and the shelf by the same signed count (`SwapCount`, `AllGained`, `AllTaken`, `ReturnDelta`). `SoundUse` excludes a BROKEN MAINTENANCE_IN; `inventory_broken_entry` shows it is needed |
| `LoansAreExclusive` | `LentUnitsHaveOneLoan` | `LoanInv` adds that a line without a loan waits for nothing, or a new loan could reuse a line that holds a unit |
| `LoanBooksAgree` | counters and status of a loan follow its lines | over `LoanInv` and the cardinalities of what each line waits for |
| `AllBooksAgree` | `RowOrderMatches => (Spec => []BooksAgree)` | three invariants over `CustodyInv`: a row without a movement adds nothing, so recording moves the sum by one delta (`SumChanged` of `Sums`); a line that took nothing back holds nothing returned, so `updateLoan` swaps on the LOAN row exactly what it swaps on the line; what left the workshop broken is retired for good, so a reversal meets the balance it left. The premise is the one `findFirst` owes: both queries name one line |
| `WorkshopIsBalanced` | `MaintenanceIsBalanced`, without that premise | the third of them alone |
| `InventoryImplementsCustody`, `StepsOfInventoryAreLegal` | the refinement, and `StepsAreLegal` | initial states map to initial states and each action to one move of `Custody` under `PlaceOf`, `BookOf` |
| `RequestsSafety` | `RequestsAreSafe` | per request: what its program counter says it has read, registered and taken from the pool; the unique index makes the key's row the only one |
| `RefusalsAreTrue` | no request is told it failed although its key is registered | the lookup after a failure reads what the transaction lost to |
| `ReceiptsAreCounted` | `ReceiptsAddUp` | `OrderInv`: a receipt that passed the CHECK passes it until it commits, keys name one receipt each, and a request that runs alone still knows the order it read. `GoodsInv`: a request that counts has stocked its own goods, unless two with one key overlapped, so what the order counts is at most the sum over the requests that counted, complete or line by line |
| `OrdersMoveForward` | `LifecycleIsForward`, the safety half of `OrdersMoveOn` | a status is written by a request from the order it read, in every overlap; the invariant says that the order a request holds let it go as far as it is |
| `OutputsDispose` | `OutputsDisposeOnce` | `OutputsInv` adds `OutputRequestsAreFounded`: a unit a request saw on an output before its transaction was retired by then, and is the one it will write |
| `RoomsServed` | `RoomsAreServed`, however requests overlap | `RoomsInv` adds what a request has checked and nothing takes away, and that in a room being cleaned after a guest no open task is from before the guest, unless the room is in `lapsed` |
| `HotelBooksAddUp`, `CountsAreRight` | `HotelAddsUp`, `ApprovedEqualsCount` | `HotelInv`: a request holds what is still so, and the photo of an open count is the ledger of the movements it saw (`PhotoHolds`); each write of a row moves the sum by the difference of its weights (`LedgerOfOneChange`) |
| `KitchenBooksAddUp` | `KitchenAddsUp` | `KitchenInv` adds that a reversal names a movement that is not one (`ReversalsAreNamed`) and that nothing was moved on a free lot (`FreeLotsAreEmpty`); each operation adds rows whose signed sum is what it does to the balances (`KardexGrows`, `RowsAdded`) |
| `KitchenTakesExactly` | `QuantitiesAreExact` | the loop of `allocateFefo()` takes in each place what it no longer misses (`RemainingIs`, `FefoTakes`) and the lots can always be put in order (`QueuesExist`); an import takes from the lots of an item only what that item has too much (`SetTakesItsOwn`) |
| `LogOfMailIsTrue` | `LogIsTrue` | `MailInv`: what a job holds as accepted was delivered, and in a history without crash, failure or administrator one cycle sends at a time and nothing it still has to send was delivered |
| `PendingRemovals` | `PendingIsGone` | `RosterInv`: a run's readings are of what is stored, and only a run makes a removal pending, so one that is pending when a run writes was pending, its grace over, when the run read the links |
| `SynchronisationIsSafe`, `CursorsNeverGoBack` | `SyncIsSafe`; no cursor goes back | the lock of a clock has one holder; the window of a run only moves forward; a full page of serial numbers in a window leaves none out (rank of a punch within the window, by the pigeonhole principle) |
| `SettingsAreRecent` | `AnswersAreRecent` | `ConfigInv`: what a request holds was in force when it was read, a copy is no older than its request, and time waits for neither |
| `ClocksAreWrittenSafely` | `ClockWritesAreSafe` | `PeopleInv`: clocks that were never enabled are untouched, at most one operation runs unless `mixed`, a removal has seen every card that is still there |
| `RecordsStay` | `RecordsAreKept` | `RecordsInv`: every document's type exists, what a clerk counted is what is there, a removed value is used only where `contended` |
| `RemovalsEndClean` | `RemovalsAreClean` | `AccountsInv`: a removal that was not overtaken is alone, and what it is about to delete is named by no table that counts, or holds no people |
| `RolesRemainUsable`, `AnswersComeFromTheTables` | `RolesStayUsable`; `PermissionAnswersAgree` | `AccessInv`: unless `raced`, at most one request is in flight and what it validated still holds when it writes; every exception and holder names a role or permission that exists; what a reload alone has read so far is what the tables hold |
| `DutiesAreSegregated` | `DutiesStaySegregated` | `PoliciesInv`: a seeded rule that nobody touched stands as the seed wrote it, and every cached rule decides as the row it was read from, but for deleted roles. Then the seeded DENY matches the order of its own buyer, so the first of the matching rules has a priority of at most its own (`SomeRuleIsFirst`), and no rule up to there allows |
| `SummariesAreTrue` | `SummaryIsTrue` | `SummaryIsHonest`: what a summary was answered and what is kept, the address would have given at the moment noted with it or later; a row counts each punch once, in the hour of its time (`SumByKey`, `CountByKey`) |
| `PeriodsPartition` | `PeriodsPartitionTime` | arithmetic of the local date: each midnight is a day's hours after the one before (`MidnightsFollow`), also where the clock changes, so an instant lies in its own date, and each week, fortnight and month ends where the next begins |
| `GateAndReportsAgree` | `GateAddsUp` | `GateIsSound`: events are in the order of their times, and a scan that waits to insert still is what comes next, unless `overlapped` or `tampered` name its employee. The sessions of a report are a function of the event that begins each; a day's report and the whole report give an event the same session (`DaysAddUp`), and who is inside is who has a last entry without an exit (`InsideAgrees`) |
| `ReportsOfAttendanceAgree` | `AttendanceAgrees` | What a loop keeps that takes an instant if the last it took is a gap before is the only such set (least difference of two, `SpacedIs`), so after a pause longer than the gap it does not depend on what came before (`SpacedAfterPause`); applied to duplicates and then to entries, and with at most `MAX_WORKDAY` between an entry and its exit, a day's report and the week's find the same sessions (`DaysResynchronise`). The sums of the three reports are over different days, but days that are not common to them have no overtime (`SameDays`). `AttendanceInv`: no punch is later than now, a schedule with an assignment is never deleted, a decision in flight holds days of its range and amounts in whole minutes |
| `PhotographsStayComplete` | `PhotographIsComplete` | `PayrollInv`: a closing that is about to write was asked for departments of its own photograph only |
| `HotelStaysTogether` | `HotelFitsTogether` | `SetupInv`: what a request was checked against is unchanged until it is written, unless `crossed` names the two tables. No set of zones is closed under going up (`NoCircle`), because a zone gets a parent only under a building, which has none of its own when that is written; so each level of `Above` reaches the end from one zone more, and `Cardinality(Zone)` levels from all (`WalksEnd`). Going down from a supervisor and up from a zone find the same pairs (`SeenFromAbove`). The recursive functions exist by `Iteration` |
| `SupplyStaysSound` | `SupplyIsSound` | `SupplyInv`: only an item that exists is edited or received, and an update that is about to give another unit to an item with lots was overtaken by a receipt, which `mixed` remembers. Of the prices, the last line of an item in an invoice is the one that both the lot and the supplier get (`LastLineOfItem`) |
| `TicketsStayConsistent` | `SeededViews => (TicketsSpec => TicketsAreConsistent)` | `TicketsInv`: unless two writes crossed, a request holds the row as it is and passed its checks on it; each write of a row keeps the mirror and notifies only who may open it (`RowWritten`). `SeededViews`: a role sees its own tickets at least, and no task of a ticket it cannot open. The seed's cells satisfy it; an administrator may save others, and then the board can show a task of a ticket that its holder may not open |

Assumptions that the proofs made explicit: a subarea belongs to one department
and the null reference is no user (`AccountsAssumption`), the null reference is
no worker (`ClockPeopleAssumption`), the rows of two tables have different keys
and tables are finite (`HotelAssumption`, `KitchenAssumption`), cells hold scopes and null is nobody
(`TicketsAssumption`), no row is called null and zones are finite (`SetupAssumption`), employees, policies and
clocks are finitely many (`GateAssumption`, `PoliciesAssumption`, `SummaryAssumption`) and ADMIN is not a role that
can be deleted: these hold in the schema by its keys and enumerations. An
order has lines (`OrdersAssumption`; the code refuses one without,
`PURCHASE_ORDER_EMPTY`), the seed installs a system role (`AccessAssumption`), and
the scopes a body names are the four there are (`BodiesAssumption`). Offsets from UTC
and changes of the clock are whole hours, of at most one (`CalendarAssumption`), a day is longer than
nothing and a report looks back at least one (`GateAssumption`), a workday lasts from a duplicate to a day
(five minutes, 13 hours) and midnight is less than a day from UTC (`AttendanceAssumption`).

Proving changed the model in one place: the catalogue of permissions may
start as any set of entries that contains `roles.manage` (`Installed`), since with
all of them present `createCatalog` could never add one.

Nothing that needs a proof by induction over data can cite the library's induction
theorems. Two arguments replace it: a least counterexample, among numbers
(`LeastNumber`) or among the subsets of a finite set (`MinimalSubset`), both by the well-founded
minima of the library. With them `Sums` proves what `SumFunctionOnSet` of the community modules
computes, `StoreProofs` what the loop of `allocateFefo()` does, and `CatalogProofs` that the
walks up and down the zones, written as recursive functions, take one step per level.

What the provers do not reach and TLC alone checks: the liveness properties
(`RequestsAreAnswered`'s second half, `OrdersMoveOn`, `GoneIsNoticed`, `Settles`,
`AlertsCatchUp`, `SyncMovesOn`'s second half), since ENABLED is out of reach; and three safety properties. `LoadsAsPlanned`
needs an induction over the rows of a file, `RepairsAreExact` one over the rows a script writes, and
`PeriodIsRight` sums over reports that are cut to their largest rows.

## 5. What is left out

Layout of PDF and spreadsheets, translations, storage, templates and OpenAPI:
pure I/O and wording. Dashboards: read-only queries. The audit log: append-only.
Supplier categories: names without rules of their own. The legacy migration ran
once. Passwords and tokens: cryptography of libraries. Folio sequences and lot
codes: a collision refuses a request and changes nothing. Push notifications:
never awaited, they change no state. Within the modelled parts, `PROJECT.json`
says under each component what is not an action.

Two compositions are not stated: `KitchenStock` with `PurchaseOrders` (reversing
the STOCK_IN of a receipt does not lower what the order says was received) and
`Housekeeping` with `HotelStock` (only the charge of the cart is in both).

### Findings

- `movementReversion` leaves BROKEN rows out of the reversal whatever its
  source, so the reversion of a MAINTENANCE_IN marked BROKEN loses units from the
  kardex, against the first comment of `ledger.ts`.
- `receive` answers the retry of a receipt that died between stock and count with
  the movement, and never counts it, against its own comment.
- `returnedWhere` asks that the person of a report be the person of the return and
  of its loan, and `dailyBuckets` that it be either, against the comment that says
  both accept either: the days of a report on one person can exceed its total.

Also seen, and not checked by a run: `mail.ts` promises SMTP as the fallback of
Resend, and builds the SMTP transport only when there is no Resend client.

## 6. Plan

1. Proofs of `PeriodIsRight`, `RepairsAreExact` and `LoadsAsPlanned`.
2. The composition of `PurchaseOrders` with `KitchenStock`.
3. Attachments and categories of tickets, photographs in the clocks.
