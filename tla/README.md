# FinMatrix backend: formal models

TLA+ models of the FinMatrix backend (NestJS, TypeORM, PostgreSQL), checked with
TLC and proved with TLAPS. Paths are relative to the repository. Run a check
with `tlc -config delivery_serial.cfg MCDeliveryLedger.tla` (`PROJECT.json` names
the module of each configuration), a proof with `tlapm StockProofs.tla`.

## 1. The system

FinMatrix keeps the books of small distribution companies. HTTP requests reach
services; a service method reads and writes PostgreSQL rows through TypeORM,
usually in one transaction, and posts journal entries. All concurrency is
between requests (and a few timers), and it is decided by three things:

* transactions run at READ COMMITTED (`src/src/database`, no other level is set);
* some reads take `FOR UPDATE` (`setLock('pessimistic_write')`), others do not;
* `save(entity)` selects the row again, compares it with the entity in memory
  and updates every column that differs. A column changed by someone else since
  the entity was read differs too, and is written back to its old value.

### Components

| Component | State | Operations | Hard part | What makes it correct | Module |
|---|---|---|---|---|---|
| Deliveries, their ledger link, their review | `deliveries`, `ledger_status`, `inventory_update_requests`, accounts 1200, 1250, 5000 | create, remove, assign, edit, geocode, change status, confirm; dispatch, sale, return; review, undo | whole-entity saves from unlocked reads next to locked steps; several requests per delivery | goods leave the shelf once and are settled once | DeliveryLedger, Consignment |
| WhatsApp outbox | `outbound_messages`, usage | enqueue, cancel, claim, send, retry, webhook | several workers, crashes, late webhooks | every message comes to an end; a status only moves forward | MessageOutbox, MessageLife |
| Messaging rules | settings, templates, contacts, schedules | who is told what, when, and what is shown of it | one rule judged in several places | writers, templates, screens and runs agree | MessageRules, OrderMessages |
| Receivables | invoices, receipts, credit memos, customer balance, 1100, 2400 | create, send, void, delete, pay, apply, settle, refund | unlocked reads, absolute saves | I6, I10, I20, I21: nothing spent twice, all figures one | Receivables, ReceivablesReports |
| General ledger | entries, rows, account balances, lock date, reconciliations | post, reverse, close, open accounts, reconcile, undo | unlocked reads; running balances | balances are sums; a closed period is closed | GeneralLedger |
| Statements and reports | none (they read the ledger) | profit and loss, balance sheet, cash flow, trends, drill-downs, budgets, insights | the same figure derived in many ways | all derivations agree | FinancialStatements, LedgerReports |
| Inventory | items, average cost, movements, 1200 | receive, sell, return, adjust, count, open, import, void, reverse | the average moves between an operation and its undoing | I13, I23: shelf, movements and 1200 agree, on every day | Inventory, InventoryReports, ItemImport |
| Payables | orders, bills, payments, vendor credits, 2000, 2050 | receive, correct, bill, pay, credit, close | as receivables, and accruals | I7, I18, M1 | Purchasing |
| Billing | company, submissions, trials, riders' seats, plans | pay, approve, try, scan, change plan, activate riders | renewals around the expiry; seats in use | served the time that was paid for | Subscription, BillingDesk |
| Orders, estimates, idempotency keys, staff approvals | documents, `idempotency_records`, `approval_requests` | retry, file, decide, replay, convert | crash or failure before and after a commit | one request, one document | SalesDocuments |
| Members and sign-in | users, memberships, tokens, codes | register, hire, demote, deactivate, reset, refresh | people in two companies; claims in tokens | an owner remains; a session that ended is over | Membership |
| Everything else | see `components` in `PROJECT.json` | | records, output | | |

Deliveries call the ledger inside their own transaction; a review calls it
through `approve` and `reject`; the ledger calls posting, invoices and payments;
every posting may enqueue a message in the same transaction. Invoices, credit
memos, receipts of goods and vendor credits move stock in the transaction of
their document. A staff member's operation is filed and replayed when approved,
and any POST may carry an idempotency key.
`qa/invariants.sql` states the invariants (I1 to I23) the repository itself
checks on a database after the fact; the properties take them up, under the
interleavings no test of the repository runs.

## 2. Modules and plan

```
Consignment  <- DeliveryLedger <- StockProofs
MessageLife  <- MessageOutbox  <- MessageOutboxProofs
                MessageOutbox, OrderMessages  <- MessageRules
FiniteSums <- Receivables    <- ReceivablesReports
              Receivables    <- ReceivablesProofs
FiniteSums <- FinancialStatements <- GeneralLedger <- LedgerReports
                                     GeneralLedger <- GeneralLedgerProofs
FiniteSums <- Inventory <- InventoryReports <- ItemImport
              Inventory      <- StockProofs
FiniteSums <- Subscription   <- BillingDesk
              Subscription   <- SubscriptionProofs
FiniteSums <- Purchasing     <- PurchasingProofs
FiniteSums <- SalesDocuments <- StaffProofs
              Membership     <- StaffProofs
FiniteSums <- FiniteSumTheorems, for the proofs about the ledger, billing, sales,
receivables, payables and stock
```

`FiniteSums` is the sum of a function over a finite set, in the one form that
both TLC evaluates and the theorems of `FiniteSumTheorems` are about.

Each has an `MC` module with its instances. All are written without RECURSIVE
operators, with one action per operation and named assumptions, so that they
can be proved about.

All modules but two take the same shape: `db` holds the committed rows; `Ask`
reads what a handler reads before its first lock or write and keeps it in the
request; the action named after the handler is the rest, to its commit; `Drop`
is a refusal, a rollback or a lost connection. `Overlapping` names the
operations that may be asked for while others are served. `apart` remembers
whether any two ever were, and a property that begins with `apart =>` is about
histories in which none did. DeliveryLedger and MessageOutbox are finer.

Section 15 says what is not proved and stays with TLC.

## 3. DeliveryLedger and Consignment

`DeliveryLedger.tla` models the three services together, because they share a
transaction. `Consignment.tla` is what they promise: goods are on the shelf, in
transit on one delivery, or sold; a delivery takes its load once and settles it
once. `MCDeliveryLedger.tla` holds small instances.

| Model | Code |
|---|---|
| `delivery[d]` | the `deliveries` row: status, rider, dispatch stamp, ledger status, invoice id, and whether its lines exist |
| `request[r]` | the `inventory_update_requests` row, its lines' counts, and what its journal entry posted |
| `onHand`, `gl1200`, `gl1250`, `cogs`, `invoices` | quantity on hand; balances of accounts 1200, 1250 (by delivery, as `source_id` gives it) and 5000; invoices raised by approval |
| `session[s]` | what an HTTP request in flight holds in memory |
| `Saved` | TypeORM's `save`, described above |
| `CommitStockOnAssign`, `CommitApproval`, `ReleaseOnReject` | the three stages, as operators the handlers call |
| `Create` ... `Undo` | one action per handler; a handler that reads before it locks has a `Start` action that keeps what it read |
| `Rollback` | any refusal not modelled, an aborted transaction, a lost connection |

Atomicity. A handler that locks the delivery before reading it (`updateStatus`)
is one step. One that reads without a lock is two: the read, and everything
from its first write to its commit. The second step is atomic because its first
write locks the delivery's row until the commit, and the ledger stages lock
the items they touch and re-read them. `save` itself is a SELECT
and an UPDATE: the row it compares with may be the one first read or the one
before the UPDATE, and both are tried. `confirmDelivery` has no transaction and
is three steps. `approve` compares nothing after its read of the request, so
its write of the request's status overwrites whatever is there.

Abstractions. Every unit costs 1, so amounts are quantities: what the weighted
average does belongs to a later module. A batch assignment is modelled one
delivery at a time. A rider is present or absent. The collection figures
(advance, cash), the invoice's amounts, photos, notifications, the shadow copy
of the rider's stock and the audit trail are left out: no modelled guard reads
them, except refusals, which `Rollback` covers (the advance of a delivery
forbids its removal). A request is always filed for a delivery that exists or
existed; the code accepts any identifier.

### Runs

| Run | Instance | Shows |
|---|---|---|
| `delivery_serial` | 2 deliveries, 2 requests, 1 item, 1 HTTP request at a time, all 13 operations; 3 units, 2 per delivery | the invariants hold for every sequence of calls, legacy approvals and undo included |
| `delivery_locked` | the same with 2 HTTP requests in flight, the operations that never save a stale delivery, counts to clamp | the refinement: each unit goes the way of a consignment, however these interleave |

The bounds: stock for one delivery and a half, so that dispatches compete and
`InStock` decides; two deliveries, so that one may be dead while the other
moves; two requests, so that one delivery may have both; one item, because
items never interact except through the all-or-nothing of a transaction (the
theorems hold for any number). Honest counts are used with one HTTP request at a
time, because undo is only exact for them (see `SubledgerTies` below); wrong
counts with two. Sessions and requests are interchangeable in `delivery_locked`
(SYMMETRY), which checks no liveness. Deadlock is not checked: the model stops
when every delivery has ended.

The runs say where the code is right: with its locks, and whenever no stale save
is in flight. Where it is not is in section 4.

`SubledgerTies` holds in `delivery_serial` for honest reports. The undo clamps
the shelf at zero but reverses the entry in full; with honest counts the
restored quantity is never negative. With a legacy approval whose net is a
return, sold on before its undo, it is: `Net` negative and the shelf empty.

### Fairness

None. The module states safety only: no timer or queue drives these handlers,
a client may never send the next request.

### Properties

`StockNeverNegative` (I11); `SubledgerTies` (I13); `InTransitExactly` (I15, line
by line, also while in transit); `SoldAtMostOnce`; the refinement
`ImplementsConsignment`. `TypeOK` and `LedgerNeverGoesBack` (a ledger status
never returns to an earlier one) are stated for the proofs.

## 4. What the code does not keep

The instances of `PROJECT.json` leave some behaviours of the code out, because
with them a property fails. Each row names a property, what to add to its
instance to see TLC refute it, and what happens.

| Property | Instance | What happens |
|---|---|---|
| `InTransitExactly` | two sessions, one delivery, `Ops = {"create", "assign"}` | `assignDeliveries` saves rows it read without a lock (`deliveries.service.ts:589`) and so takes back the stamp that was to stop a second dispatch ("Row-lock the delivery so two concurrent assigns can't both commit", `delivery-ledger.service.ts`): the goods leave the shelf twice |
| I15 (`gl1250` of a delivery that ended is 0) | `{"create", "status", "confirm", "request", "approve"}` | the rider's payment answer (`deliveries.service.ts:929`) saves a delivery read before its cancellation committed: `ledger_status` is `in_transit` again and approval relieves account 1250 a second time, the residue of `qa/invariants.sql:159` |
| a decided request keeps its decision | `{"create", "request", "approve", "reject"}` | `reject` waits for `approve` on the delivery's row, then releases nothing and still writes `rejected` (`inventory-approvals.service.ts:764`) |
| a dead delivery gives its stock back | one session, `{"create", "status", "assign"}` | a cancelled delivery is assigned and dispatched (`deliveries.service.ts:594`); nothing gives its stock back |
| `Cardinality(Holders(m)) <= 1` | `outbox_workers` | a batch older than ten minutes is queued again while its dispatcher still works on it (`messaging-dispatcher.service.ts:129`): `OneWorkerPerMessage`, `DuplicatesNeedFaults` and `AlertsTrue` count such a batch as a fault and say what it costs |
| `AlertsTrue` | one worker, `Faults = {"db_error"}` | the last attempt fails to be counted after its row says `sent`; `handleError` alerts without looking (`messaging-dispatcher.service.ts:541`) |
| `ReceivableTies` | `VoidAgain = TRUE` | `void` does not look whether the invoice is void (`invoices.service.ts:490`): the customer is credited twice |
| `CachedBalances` | `"create"` and `"toggle"` in `Overlapping` | `toggle` saves a balance read before a posting (`accounts.service.ts:515`) |
| `ClosedBooksKept` | `"create"` and `"close"` in `Overlapping` | `assertPeriodOpen` reads the lock date before the company's row is locked (`posting.service.ts:67`), I12 |
| the as-of valuation meets 1200 on each day | any | voids date the movement as the document and the reversing entry today (`invoices.service.ts:990`, `credit-memos.service.ts:562`, `vendor-credits.service.ts:320`), although `RecordMovementInput.date` says "The SAME date string the journal entry uses"; `ValuationsAgree` therefore compares with 1200 today only |
| `NothingOverspent` | `"refund"` in `Overlapping` | `refund` reads the memo without a lock (`credit-memos.service.ts:378`), and so does `void` (line 407): what an invoice takes of it meanwhile is paid out a second time, "spending the credit twice", the harm that locking it where it is applied is against (line 326) |
| `GrniTies` | `HandGrni = TRUE` | a bill entered by hand that names account 2050 passes for one raised from the order (`bills.service.ts:313`): the accrual is cleared and no line of the order is billed |
| `KeptPasswordOpens` | without `\ halted` | a reset through a code that dies after its first statement (`auth.service.ts:768`) leaves the old password as the copy the company reads back, although the next statement is to make a stale one "structurally impossible"; trying again mends it |
| `KeyedOnce`, `ApprovedOnce` | without `\ late` | a handler that fails after its commit releases the key (`idempotency.interceptor.ts:100`) or reopens the request (`approval-requests.service.ts`): the next try posts again, although a retry "can never double-post" |

Read off the code while modelling, kept out of the instances by `Overlapping`
for the same reason; none of them is claimed to hold:

* stale saves next to anything that changes the same row: `bills.update` next to
  `post` (`bills.service.ts:441`), `vendor-credits` void next to apply (175), a
  sales order's fulfil, edit or cancel next to its conversion
  (`sales-orders.service.ts:286`), both conversions of an estimate
  (`estimates.service.ts:222`), an invoice's void next to a payment,
  a rider's availability, position or profile next to a change of plan, which
  takes back the seat the plan took (`delivery-personnel.service.ts:207`, 286),
  `createCount`, `updateItem`, `createTransfer` and `postInvoiceCogs` next to any
  movement of the item, `rejectSubmission` and `runExpiryScan` next to an
  approval (`billing.service.ts:728`, 944), the company's whole-row saves next to
  a change of its plan, `messaging-settings` next to another edit (332);
* two posts of one draft (`posting.service.ts:241`); two rejections or
  cancellations of one approval (`approval-requests.service.ts:161`); two
  conversions that both read the order as open; two owners who demote each other
  (`company-users.service.ts:392`); two refreshes with one token
  (`auth.service.ts:424`); two drafts of one payroll period
  (`payroll.service.ts:182`); two imports of `abc` and `ABC`, which the unique
  index tells apart and the import does not;
* a line that can be neither billed nor closed: once the goods of an order are
  billed, a service received on it later cannot be billed from the order alone
  (`BILL_PO_VIA_RECEIPT`, `bills.service.ts:302`), and an order with a line
  received and not billed cannot be closed (`AskBillOrder`, `MayClose`);
* a sign-out answers success when the statement that revokes the sessions failed
  (`auth.service.ts:535`), and a reset through a code that dies before its last
  one leaves them open; `SignedOutStaysOut` counts those that got through;
* a cleared accrual: when the company's registration for sales tax changes
  between a receipt and its correction, account 2050 keeps the tax
  (`purchase-orders.service.ts:701`);
* residues in 1200: voiding a vendor credit or a restock at another value than
  the shelf has now, when it leaves the shelf empty (`Emptying = FALSE`
  excludes it); an adjustment may be reversed more than once
  (`inventory.service.ts:414`);
* a vendor that is left with the wrong idea of a purchase order. `OrderMessages`
  follows each of these ways and marks the order `lost` with it; `VendorKnows`
  is about the other orders, and fails if any one of the marks is left out:
  * "in flight": withdrawn while a dispatcher has the announcement, which
    neither `cancelQueued` (`messaging.service.ts:328`, queued rows only) nor
    `requireSent` (line 406, sent rows only) sees;
  * "overtaken": two messages of one claimed batch go out in either order
    (`messaging-dispatcher.service.ts:151`, `RETURNING` has none), and one that
    is tried again goes behind the one after it;
  * "by hand": `send` refuses only a draft (`messages.service.ts:434`), `resend`
    and a shared link nothing (lines 267 and 533), so an order that was closed
    unfilled may be announced, and a cancellation repeated for a standing one;
  * "unwanted", "skipped", "failed": the withdrawal with `deliver.whatsapp` =
    false returns before it looks (`document-messages.ts:174`); a rule, the
    contact or the provider may stop a message as well;
  * "moved", "deleted": an order with its vendor may be given to another one
    (`purchase-orders.service.ts:654`) or deleted (line 675) without a word;
  * "reopened": "A reopen (closed -> sent) sends nothing"
    (`document-messages.ts:124`), although its closing was told;
* a plan that is edited to seat fewer riders takes no seat away
  (`plan-override.service.ts:151`; `squeezed` remembers it);
* an owner deactivated by one company is so in all of them
  (`company-users.service.ts:233`; `offBy` remembers it).

## 5. Proofs

`StockProofs.tla`, up to the types of Inventory, assumes only that the constants
have their types:

* `TypeCorrect`: `TypeOK`, by `IType`, which adds that a filed request names a
  delivery and that a session at work names what its operation needs.
* `StockSafe`: stock never goes negative, for every interleaving of every
  operation. The reason is that every path that takes from the shelf tests the
  quantity it re-reads in its last step; the stale availability check of
  `create` does not matter.
* `StockTies`: without undo, `onHand = gl1200`, for every interleaving.

What remains of it assumes `NoStaleSave`: the
operations that save a delivery read without a lock are not used, or at most
one HTTP request runs at a time. Section 4 shows that it cannot be dropped.
Under it, `Settled` is inductive together with `IType`: a delivery's dispatch
stamp and ledger status agree (`none` before the stamp and one of the others
after), Goods in Transit holds its lines exactly while `in_transit`, an invoice
implies `committed`; a session about to save still holds the row as it is; a
creation in flight owns its delivery; a reviewer who read an undispatched
delivery, in the locked case, will find it so. From it:

* `TransitExact`, `SoldOnce`, `ForwardOnly`: the three properties of the same
  meaning, for every number of deliveries, items, requests and sessions.
* `Refinement`: without undo, every step is a step of Consignment or stutters.
  One lemma per ledger stage maps it to `Dispatch`, `Sell`, `GiveBack` or
  `CounterSale`, and the rest follows from `Settled`.

Only model-checked: `SubledgerTies` with undo.

## 6. MessageOutbox and MessageLife

`MessageOutbox.tla` models the messages about one invoice and the automatic
replies to its customer. `MessageLife.tla` is what the outbox promises about
each: it waits, leaves the queue for good, and its status only moves forward.

| Model | Code |
|---|---|
| `row[m]` | the `outbound_messages` row with that idempotency key: status, attempts, and whether it was shared by hand |
| `draft[m]` | a row a posting has written and not committed |
| `work[w]` | what a process's dispatcher holds: the rest of its batch, and the message it is at |
| `usage`, `told`, `alerted` | the month's `messaging_usage`, the notices that it is used up, the alerts to senders |
| `invoice`, `optedOut` | what `staleReason` and the callers look at |
| `accepted`, `afterStop`, `afterPay` | what the provider took: history for the properties |
| `Enqueue`, `CommitEnqueue`, `AbortEnqueue` | `doEnqueue` inside the transaction of its caller, and that transaction's end |
| `Answer`, `ManualShare` | `replyToInbound`, `logManualShare` |
| `Pay`, `Void`, `Stop`, `Start` | the parts of a payment, a void and an inbound STOP or START that reach the outbox |
| `ReturnStuck`, `Claim` | `returnStuck`, `claim` |
| `HoldBack`, `DropStale`, `Defer`, `SkipAtLimit`, `Clear` | the exits of `processOne` before the provider is asked, and going on |
| `Send`, `Refused`, `MarkSent`, `Count`, `HandleError` | the rest of `processOne` and `handleError` |
| `StatementFails`, `Crash` | an error of the database, and the end of a process |
| `Webhook` | `applyProviderStatus` |

Atomicity. The dispatcher uses no transaction, so each statement that others
can see is a step: the claim, the checks, the provider's call, the row's update,
the count. The checks of one message read several tables one after another and
are one step; each is re-read for every message, and what matters is the time
between them and the call. Merged because nothing modelled reads what lies
between: the statements of `handleError`, the count and its notice, the updates
of a STOP, and the cancellation and the notice of a void (one transaction).

Time is left out. A queued row may be due at any moment. A row may be stuck
whenever no dispatcher holds it, and, as the fault `"slow"`, also while one
does: `returnStuck` goes by the age of the claim (ten minutes), and a batch of
20 messages with a PDF and two calls of up to 30 seconds each may be older. The
history `overdue[m]` counts how often that happened to a row; the rows of one
batch that are returned together cost one fault.

Abstractions. `HoldBack` stands for the checks on features, settings, the
number and paused collections, which depend on nothing else in the model. A row
has a provider id exactly from "sent" on, so it is not a field: a webhook that
comes earlier finds no row, and its loss is the webhook not happening.
Templates, documents, media, the learning of user ids, taking a payment back and
the deletion of an invoice are left out; so are vendors', owners' and statement
messages, which take the same path.

### Runs

| Run | Instance | Shows |
|---|---|---|
| `outbox_workers` | 2 dispatchers; an invoice, a reminder, a notice; 1 crash, lost answer or slow batch; allowance 1; no quiet hours | the safety properties, the refinement, and the rules of section 7 |
| `outbox_ends` | 1 dispatcher; a reminder and a reply; 2 faults of any kind but `slow` (nobody else is there to return a row); quiet hours once; allowance 2 | every message comes to an end; duplicates and late reminders with failing statements |

The bounds: 2 attempts instead of 6, so that a first failure retries and a
second one gives up; batches of 2, so that a dispatcher holds a message while at
another; an allowance below the number of messages, so that dispatchers race for
the last place; one message of each kind, because a key is never written twice
and kinds meet only in the invoice, the customer and the allowance; one fault
with two dispatchers and two with one, so that a duplicate and its own retry
occur. `FaultKinds` and quiet hours are bounded by `MaxFaults` and
`MaxDeferrals`. Workers are interchangeable where no liveness is checked.
Deadlock is not checked: the model stops when every key has been used.

`AlertsTrue` holds in `outbox_workers`, where no statement fails.

### Fairness

`FairSpec`: a dispatcher's steps are weakly fair, because every statement ends
and every call to the provider has a timeout. For each message, being claimed
and being returned when stuck are strongly fair: the `@Interval` of five seconds
runs them for as long as the process lives, oldest first, so no row is passed
over for ever, though other steps may claim and release in between. Nothing is
assumed of clients, the provider, webhooks or faults. Under it
`EveryMessageEnds`; it needs the number of attempts to be counted (its mutant)
and faults and quiet hours to be finite.

### Properties

`OneWorkerPerMessage`; `DuplicatesNeedFaults`; `ToldOnce`; `StopHonoured` and
`NoDunningAfterPayment`; `AlertsTrue`; `ImplementsMessageLife`;
`EveryMessageEnds`. `AllowanceNearlyKept` and `NoticeOnlyIfSent` are checked as
parts of `RulesAgree`; `TypeOK`, with the bound on attempts, is proved.

### Proofs

`MessageOutboxProofs.tla` assumes only what the constants are: kinds of message
do not overlap, bounds are numbers, the dispatchers are finitely many.

* `TypeCorrect`, by `IType`: a row that may still be sent, and a message that a
  dispatcher holds, has an attempt left; a draft has no row yet, and the notice
  of a void is never drafted before its first row exists.
* `LifeImplemented`: `RowsStep` shows for each action where it may move a
  status (`Goes`), and `Goes` maps to MessageLife. It holds with slow batches:
  a dispatcher whose row was taken from it writes only to a "sending" row.

* `StopIsHonoured`, `NoLateDunning`: `LateBounded` weighs the messages sent too
  late against the dispatchers past their checks; only `Clear` adds one of
  these, and not after the STOP or the payment.
* `OneDispatcherAtATime`, `DuplicatesArePaidFor`, for every set of faults, slow
  batches included. `Goings` says what any step may do about one message: the
  application writes its row, `returnStuck` queues it again, or one dispatcher
  goes from one `Place` to the next. Two weights follow. `Backed`: those who
  hold a message, and one more if it is queued and so may be claimed, are no
  more than one and the times it was returned too early. `PaidByFaults`: the
  times the provider took it, those who may still ask it to (`Trying`), and one
  more if nobody has it and it will be claimed again (`Loose`), are no more than
  one and the faults. Every single step keeps both.
* `AllowanceToldOnce`: the count passes the limit once.
* `AlertsAreTrue`: assumes that no statement fails (`"db_error"`, the case of
  section 4). Then a dispatcher in `handleError` is `Undecided`: the row is
  still "sending" unless it was returned too early (`StillSending`, from
  `Backed`: nobody else has it), so giving up makes it "failed", and nothing
  leaves that.

Only model-checked: `EveryMessageEnds` (liveness) and `RulesAgree`.

## 7. MessageRules

What surrounds the outbox is pure: settings and their updates (`Resolved`,
`Update`), the messages each caller writes (`IssuedMessage` and the others) and
the templates that print them, who may be written to (`SkipReason`, `Health`),
quiet hours (`DeferUntil`), the reminders of a day (`Targets`, `Reminded`,
`SentByHand`, `Stale`), and the figures of the screen. A value in a message is
its name.

`OrderMessages` is what a vendor is told of one purchase order. An order keeps
its status, what of it was received and billed, and its `rows` of
`outbound_messages` in the order they were written, each queued, sending, sent,
cancelled, skipped or failed. Its operations are the status changes with the
message each may queue (`PoSend`, `PoRecall`, `PoClose`, `PoReopen`), receipts
and bills (`PoReceive`, `PoBill`, `PoUnbill`), edits and deletion (`PoMove`,
`PoDelete`), what people send (`PoByHand`, `PoResend`, `PoShare`) and the
dispatcher (`PoClaim`, `PoAnswer`). `Orders` is the set of orders that
`MaxSteps` of these reach; `lost` says why the code tells the vendor no more
(section 4). `VendorKnows`, a part of `RulesAgree`: where nothing is under way
and the order is not lost, a vendor was not last told of an order that was taken
back, and was last told of one that was announced to it. It breaks when a
version is used twice (the mutant): an order announced again would be taken for
a duplicate.

`RulesAgree` is evaluated where nothing has been written yet for the rules,
which do not change with the outbox's state, and in every state for what
counts rows (`FiguresCounted`, `AllowanceNearlyKept`, `NoticeOnlyIfSent`). The
rules are compared with each other: a message with its template, the run with
the hand, the health screen with the reason a message is skipped. The bounds:
24 hours and every window of whole hours, over two days; every schedule within
three days of the due date; six steps of an order of two units: enough to
announce it, withdraw it and announce it again with each message sent in between.

## 8. Receivables and ReceivablesReports

One customer, two invoices, two receipts, a credit memo, amounts 1 and 2, four
commits: enough for an amount to be split between two invoices, for a partial
payment, and for a document to be made, used and undone with one more between.
`Overlapping` holds the uses of money that lock it (apply, credit, settle) and
the deletion of a receipt, of which two may be served at once.

`ReceivableTies`: account 1100, the open documents and the customer's balance
are one figure, and the exposure the credit limit is judged on and the closing
balance of the statement, which add up other columns of other rows, are both
1100 less 2400. `NothingOverspent` counts what of a receipt, a memo or a held
advance was spent, on invoices or refunded, and holds under overlap: each is
locked where an invoice takes from it. A memo's refund and void are served
alone (section 4). `AnswersAgree`:
the aging for every set of due dates and every choice of boundaries, the
statement and the year history for every cut of the entries into "before" and
"in the period", and the paid status of a delivery's sale. Due dates and
the dates of entries are quantified over in the properties and are not state:
nothing in the handlers reads them.

Left out: lines and tax of an invoice, half-units of rounding, the method and
account of a receipt, a vendor's ledger (the same code, signs turned).

### Proofs

`ReceivablesProofs.tla`, for any number of invoices, receipts, memos and
requests and any amounts. What a step does to rows is stated once for the whole
database (`PaidAll`, `Received`, `Applied`, `Credited` and their inverses), apart
from the handler that calls it, so that a handler that composes several of them
(`ApproveSale`, `SettleDelivery`) is proved by composing their lemmas.

* `ReceiptsAlwaysSound`, whatever overlaps: `Typed`, which carries each row's own
  arithmetic, and `ReceiptsSound`. A receipt is used within its amount because it
  is locked and its remainder read where it is spent; one that is held is whole,
  and a request about to receive one for a delivery pays nothing with it.
  `RowsAddUp` follows.
* `NothingIsOverspent` assumes that refunds and voids of memos overlap nothing
  (section 4 shows that a refund must not), and needs more than the rows beside
  these. What such a request read of a memo is still so (`MemosRead`), because it
  is alone until it ends (`EndsAlone`); so a refund pays out what the row has left
  (`MemosWhole`), and a memo paid and refunded no more than its total. `Ahead`
  follows a memo that is created and used in one request. Whatever overlaps,
  `MemosAlwaysSound`: `Counted`, the row of a memo in use counts exactly what it
  paid invoices, and `WorthAtMost`, some total bounds what was paid.
* `ReceivablesTie` assumes `VoidAgain = FALSE`: the code does void an invoice that
  is void (section 4), and the theorem is about all it does beside that. It needs
  `OneAtATime`: while requests never overlap, what a request has read is still
  so (`Fresh`), and all others are idle. `Books` is the figure itself with what
  keeps it inductive: no invoice says it was paid less than the receipts that
  still count say (so a deletion can take their shares back), an invoice that was
  ever open has posted and no other has (so a void or a deletion takes back from
  1100 what was put there, once), and a receipt that is gone has no shares left.
  Each sum changes in the terms a step changes (`SumChange`). The exposure and
  the statement need two invariants more. `Advanced`: account 2400 is what
  receipts were made for less what they paid, and one that is gone was made for
  nothing. `MemoWhole`: a refunded memo is worth what it paid and what was
  refunded, one that is not was refunded nothing, and one that no longer counts
  paid nothing. `BooksClose` then compares the columns document by document: an
  open invoice's total is what it leaves unpaid and what it says was paid, a live
  memo's is what it holds, what it paid and what was refunded.

* `AnswersAlwaysAgree`, under the same assumption: `AnswersAgree`, for every set of
  due dates, every choice of boundaries and every cut of the entries. The reports
  read rows and entries that `Books` says nothing of, so it needs `Filed`: each
  document with its entries. An open invoice is not paid beyond its total and is
  `paid` only when it is paid in full (so no balance is left outside the open
  documents), its entry is in the book once; a document that no longer counts has
  entries that cancel out; the sale of a delivery says what its invoice does unless
  money is not all that was paid on it, which is never more than what is paid
  (`SaleFiled`). With it, `AgingAddsUp` puts each open document in the one bucket it
  is as late as (`BucketIs`: boundaries ascend, so the first that fits is the only
  one), `NetDueTies` compares the party's summary with 1100 and 2400, and
  `EntriesClose` the entries, sorted by document and kind, with the columns of
  `StatementClosing`. A document the statement hides is worth nothing
  (`HiddenIsWorthless`), so what is shown still adds up, and a live one is never
  hidden because nothing undid it. The entries of different kinds of documents are
  told apart by the documents, which `ReceivablesAssumption` keeps distinct, as
  entries name the table their document is in.

## 9. FinancialStatements, GeneralLedger and LedgerReports

`FinancialStatements` has the statements as functions of a set of ledger rows,
`GeneralLedger` makes such sets, `LedgerReports` derives the rest from both.

`ledger_books`: three accounts, three entries, four commits, two requests:
`CachedBalances` (also the running balance of each row), `LedgerIsTheBook`,
`ReconciliationRollsForward`, `ClosedBooksKept`. One account may be retyped, and
one begins absent; creations, postings, reversals and discards overlap. `ledger_statements`: fourteen accounts, of every section
of the statements, two entries from twelve kinds of business event, on three
days in three fiscal years: `ReportsTie` and `CashFlowExplained` for every
period of those days. Two entries suffice for what compares a period
with the one before; a chart of one account per section, or two where they meet
in one entry, because sums within a section are linear.

The comparison is between independent derivations of the code: the balance
sheet's Retained Earnings with the year-by-year report, the direct with
the indirect cash flow, the drill-down pages with the line, the insights with
the statements. The code recognises depreciation by the name of its account, and
in this instance it is only ever posted against fixed assets.

Paying the bill of a machine is investing: the direct method looks through a
payment of bills to what they bought (`LooksThrough`), and the indirect one takes
the same part of Accounts Payable out of working capital (`Excluded`). What the
bills bought is `paid`, a function of the payment's posting; `Mixes` are its
values for a payment of two: a machine for all of it or half, bills that weigh
more than it, and none that was posted. The comparison holds for every assignment
of mixes to the payments in the book.

Left out: months of different length, rounding to paisas and the apportioning
of what is left over, exports.

### Proofs

`GeneralLedgerProofs.tla`, for any chart, catalogue of entries and number of
requests. The effect of each request on rows, accounts, entries and marks is
stated once (`Effect`), and every invariant is proved from it.

* `LedgerTypes`, and `RowsNumbered`: rows are numbered from 1 without a gap, so
  the next number is the count plus one. The lock on the company's row is not
  what this rests on: a posting writes all its rows in one step.
* `BalancesAreCached` assumes `ChartAlone`: switching and editing accounts do
  not overlap (section 4). `Balances` needs `ChartRead`: what a request holds of
  the chart is what the chart says, so postings sign their amounts alike; the
  increments themselves may come in any order.
* `LedgerAndEntriesAgree`, in two parts. Whatever overlaps, `Numbered`: an
  entry's reference is its place, because who has drawn a reference holds the
  company's row and nothing is appended until it commits or drops. One request
  at a time (`Current`: it holds what the database holds), `OneBook` and
  `Voided`: the rows are the entries that count.
* `ClosedBooksStayClosed` assumes `"close" \notin Overlapping` (section 4).
  `PostingDated`: what is about to be posted is dated after the lock.
* `ReconciliationsRollForward`, one request at a time, by `RecsKept`: a
  reconciliation's rows are its mark (`RecsMarked`), it begins with what the
  earlier ones moved (`RecsBegin`), and what is cleared is what they all moved
  (`RecsCleared`). Only the last may be undone, so no other one's beginning
  changes; a reconciled entry may not be reversed, so no mark loses a row.

Sums are over sets of rows that grow; that a sum is the sum of its parts is
proved in `FiniteSumTheorems` by the smallest set for which it is not
(`MinimalSet`), as induction itself is out of the provers' reach.

* `StatementsAlwaysAgree`, whatever overlaps: on every day assets are
  liabilities and equity, Retained Earnings is what the years before earned, the
  two trial balances foot to zero, and a register closes where the trial balance
  does. It rests on `Numbered` and `PostedBalances`: what is posted balances, so
  the rows of every span of days do, a posting being one step.

Only model-checked: `CashFlowExplained` and the rest of `ReportsTie`, which
apportion and compare by integer division.

## 10. Inventory, InventoryReports and ItemImport

Two items, two documents, one filed request, two days, four commits; quantities
1 and 2, costs 6 and 12, so that averages 8, 9 and 10 occur and stay whole. An
operation whose average would need rounding is not taken (`WholeAverage`), nor
one that leaves an empty shelf with a value (`Emptying`, see section 4).

`ValuationsAgree`: item, movements and account 1200, on every day.
`ApprovalKeepsMeaning`: the difference, or the count, that was asked for; it is
posted on the day the request names, not on that of the approval.
`StockReportsTie`: an item's chart, pages and table; closings; age, dead stock
and reordering, in every state. `ImportHarmless`: every readable file of one row
and the files of two rows that decide about the same things, against shelves
that differ in all a plan looks at, one of them with two items of one SKU;
previewed, committed, uploaded again, by an owner or staff.

Left out: rounding of the average to four decimals, text columns told apart,
photos.

### Proofs

`StockProofs.tla`, from the types of Inventory on, for any items, documents,
filings, days, costs, quantities and clients.

* `StockStaysTyped`, whatever overlaps: no stock is negative, documents and
  filings are about items there are (`Papers`), documents keep their figures,
  and what a request checked when it was asked is still true of the row it read
  (`Found`), though perhaps no longer of the row there is.
* `ValuationsAlwaysAgree` assumes that what saves an item read without a lock
  overlaps nothing, and `~Emptying`; the run has both, and section 4 shows what
  becomes of the figures otherwise. `StockKept` is the reason: an item's
  quantity and worth are the sums of its movements, and the entries on 1200
  what the items are worth. Every operation is `Fair`: one row, one movement and
  one entry change by the same units and the same value. For a save from an
  unlocked read that needs `Held`, that the row read is the row there is; for
  the weighted average, that the division leaves no rest (`WholeAverage`). The
  history walked back from today is then the same sum, split at a day.
* `ApprovalsKeepMeaning`, for every `Overlapping`: while no two requests were
  ever served at once, what is about to be posted is what was meant (`Meant`).

* `ImportsStayHarmless`, for files of any length and shelves of any items. The
  rows of a file without an error name different items (`NoError`), so that each
  item is what one row or none made of it (`AppliedItems`). A row that has been
  applied sets nothing more (`PatchedAgain`), an opening leaves a movement that
  forbids the next, sold or not (`NothingOpenedAgain`), and the opening value is
  the difference of the worths, item by item (`OpeningIsWorth`).

* `StockReportsAlwaysTie`, under the assumptions of `ValuationsAlwaysAgree`, for
  any prices, page sizes, chart lengths and ascending age limits. A figure of
  sales is the sum of what its lines gain (`ProfitAddsUp`), so charts, pages and
  buckets are sums by groups (`SumByGroup`, `CountByGroup`): the day of a line,
  its page, the age of an item. Only the value on hand today needs `StockKept`:
  an item that is not on hand is worth nothing.

## 11. Purchasing

One vendor, one order with a stock and an expense line of up to two units, two
bills, two payments with their proofs, each of one bill or both, a vendor credit,
five commits: enough to receive, bill, delete the bill, correct the receipt and
bill again, or to post two bills, credit one and pay both.
A bill entered by hand debits 2050 on none of its lines (`HandGrni`, section 4).
`GrniTies` and `PayablesTie`; `Overlapping` holds what locks the bill, or the credit
before it. The tax registration does not change during a run, and a credit's
look-through to the accounts its bills were paid from is left out (section 4
says why for the first; the second only chooses among accounts).

### Proofs

`PurchasingProofs.tla`, for any lines, bills, credits, payments, amounts and
requests. Both theorems name what may not overlap, and the `Overlapping` of
`purchasing_payables` leaves it out. `Sole` turns that hypothesis into what a step
needs: while such an operation is served, nothing else is.

* `GoodsReceivedTie` assumes `"deleteBill" \notin Overlapping`, as deletion reads
  the bill's links before it locks, and `~HandGrni` (section 4). `OrderSound`: a line accrues what was
  received, clears what was billed (`LineKept`), and is billed what the bills
  link to it (`LinkKept`); a bill about to be posted is linked to nothing
  (`HandMade`); account 2050 is the difference (`GrniKept`).
* `PayablesAlwaysTie` assumes that edits and deletions of bills and voidings of
  credits, which write rows read without a lock, are served alone.
  A payment locks its bills one after the other and keeps them, so its effect on
  all of them is one (`PaidRows`, `SharesAddUp`). `PayablesSound`: a bill is paid what payments and credits put on it
  (`BillKept`), a credit applied what bills took of it (`CreditKept`), and
  account 2000 is what is due less what credits hold (`ApKept`); a request that
  will write a whole row holds it as it is (`Current`). The vendor's balance
  follows account 2000 only while no requests overlap (`OwedKept`).

## 12. Subscription and BillingDesk

Two companies with one phone, three submissions, two plans of one and two days
that seat one and two riders, a trial of a day, three days, six commits.
Months are days: what matters is whether a renewal comes before the end, on its
day or after it. `PaidTimeHonoured` compares the days served with the days
bought; `OneTrialEach`; `RidersWithinPlan` but for companies whose plan was
edited to seat fewer; `RoadKeepsSeats` (an action property: a plan
never pauses a rider on the road while one who is not keeps a seat);
`BillingTold`: the status page, the name of the next payment, the counts, the
plans on offer under every two edits, and the mails of a trial when days are
missed.

`company_subscriptions`, an older table written by two handlers and read by
none of the modelled decisions, is left out, as are proofs of payment as files.

### Proofs

`SubscriptionProofs.tla`, for any number of companies, submissions, riders,
plans and days.

* `TrialsOnce`, whatever overlaps. `TrialsClaimed`: a trial that waits or runs
  has a claim that bars, and two claims that bar differ in address and in phone.
  It holds under overlap because a claim is made and settled in one step.
* The others assume `SavesAlone`: nothing but the activation of riders overlaps.
  Other requests save a company's whole row as they read it (section 4);
  `Fresh` says that with this assumption they read what is still there.
* `PaidTimeKept`: days served and days left are the days bought (`Honoured`),
  with `Booked` (revenue is the approved payments), `Terms` (plan, expiry and
  trial of a row agree) and `TrialWaits` (an open trial is its company's only
  request). A company that serves its time is active unless an administrator
  ordered otherwise (`StatusTold`).
* `RoadRidersKeepSeats`, a step property: `RidersMove` bounds what each request
  does to the riders, and a change of plan reseats in the order of the code.
* `RidersSeatedWithinPlan`: `activate` counts under the lock it activates under,
  so it may overlap itself.

Only model-checked: `BillingTold`, a conjunction of pure functions of the state.

## 13. SalesDocuments

Two orders, an estimate, one key, one approval request, two jobs, five commits.
A job may fail before or after its commit and die with the process at any step.
An approval asks for what makes an invoice (`Gated`), a client for an order too.
`KeyedOnce`, `ApprovedOnce`, `InvoicedOnce`; the first two except a failure after
the commit, the third an estimate whose mark was lost (section 4). `Overlapping`
lets two calls that create documents be served together.

### Proofs

`StaffProofs.tla`, in its second half, for any number of orders, estimates, keys, requests
and jobs, whatever fails or dies.

* `KeysRunOnce`, for every `Overlapping`, by `OnceFor`: while a run holds a key
  or a request no other run holds it, and its effect is counted exactly from its
  commit on.
* `ApprovalsRunOnce` assumes `DismissesAlone`: rejection and cancellation read
  the request without a lock (section 4); `Undismissed` says that then they find
  it pending.
* `DocumentsBilledOnce` assumes `SavesAlone`: conversions of estimates and whole-row
  saves overlap nothing (section 4), so a save writes what it read (`SavesFresh`).
  `EstimatesBilled` follows an estimate through the order made from it: one
  document, by one of the two ways.

## 14. Membership

Three people, two companies, two passwords, three pairs of tokens, two codes,
seven requests, one staff seat. A request is one step, but for a reset through a
code and a sign-out, which may stop between their statements; what two at the
same time may do is in section 4. `OwnerRemains`, `KeptPasswordOpens`,
`SignedOutStaysOut`. Time is left out: an expired token or code is refused,
which changes nothing.

### Proofs

`StaffProofs.tla`, in its first half, with no assumption but the types of the constants.
`IInv` joins the three properties with the type, `Strangers` (who is not
registered is nowhere active or a member) and `Peopled` (a company of which
somebody holds a token has members);
it is inductive as a whole: `OwnersRemain`, `KeptPasswordsOpen` (but for the
`halted`) and `SignedOutStayOut` are its parts, wherever a reset or a sign-out
stops. Requests are served one by one here, so nothing is claimed of two owners
at the same time.

### Fairness of sections 8 to 14

None: people and clients drive these handlers, and may stop. Deadlock is not
checked where the commits are bounded.

## 15. Not modelled

`components` in `PROJECT.json` gives each part left out and its reason. What
remains is records (agencies, settings, customers and vendors as records,
categories), output (mail, notifications, PDF, storage, the audit trail),
computations followed by one posting (payroll, tax payments), search, and what
runs once per deployment (migrations, seeds). One time zone without a change of
clocks is assumed wherever days are counted.

Liveness (`EveryMessageEnds`) is out of the prover's reach. The rules and the
ledger's other reports (`RulesAgree`, `ReportsTie`, `CashFlowExplained`,
`BillingTold`) compare functions of one state by cases over it, and are only
model-checked: TLC evaluates them for every state of their instances.

`hazards` lists what is hard to test, at its line, with the property that
covers it.
