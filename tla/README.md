# TransLog Pro: TLA+ verification

TransLog Pro is a multi-tenant platform for bus operators: it sells tickets, carries
parcels, runs trips, takes payments and bills its own subscribers. The back end is a
NestJS process (`src/src/`) deployed as several identical pods over one PostgreSQL
database and one Redis. Nothing is coordinated inside a process: every rule that must
hold under concurrency is carried by a row lock, a version column, a unique index or a
status column. Those rules are the subject of this project.

The models are translated from the code at the lines `PROJECT.json` ("map") names.
Comments marked `Slip:` introduce *mutated* forms of an action, never used by a
specification: each one is a plausible mistake in that code, kept to show that a
property would notice it.

## 1. Inventory

### 1.1 The parts that carry the core logic

| Part | State | Operations | Hard because |
|---|---|---|---|
| Workflow engine (`core/workflow`) | `status` and `version` of every workflow row, `WorkflowTransition`, `AuditLog`, `WorkflowConfig` | `transition()`, called by all business services | concurrent requests on a row, retries under one `Idempotency-Key`, rollback half-way |
| Outbox and event bus (`infrastructure/eventbus`) | `outbox_events` (status, attempts, scheduledAt, signature) | `publish`, one poller per pod, retries, dead-lettering | pods racing on a row, pods dying between writes, subscribers that fail in part |
| Dead letters (`modules/dlq`) | `dead_letter_events` | `replay`, `discard` | replay of what was already resolved |
| Payment orchestrator (`infrastructure/payment`) | `PaymentIntent`, `PaymentAttempt` | `createIntent`, `confirm`, `applyWebhook`, `refund`, `cancel`, the two reconciliation jobs | the provider is remote: late, repeated, lost and reordered answers |
| Ticketing (`modules/ticketing`) | `Ticket` (status, seat, version) | issue, confirm, cancel, board, no-show, rebook, refund request, expire, forfeit | seats sold twice, a step of several failing |
| Cashier (`modules/cashier`) | `CashRegister` (physical or virtual), `Transaction` | open, record, close, resolve a discrepancy | a booking on a register that is closed or deleted meanwhile |
| Refunds and vouchers (`modules/sav`, `voucher`) | `Refund`, `Voucher` | request, approve, reject, process; issue, redeem, restore | money and voucher for one claim, a step of several failing |
| Trip incidents (`incident-compensation`, `sav/refund-trip.listener.ts`) | `Trip`, the rows created for each passenger | suspend, resume, cancel on the way, declare a delay, refund all | several dispatchers, loops that die half-way, events delivered more than once |
| Departure (`flight-deck`, `traveler`, `manifest`) | `Trip`, `Manifest`, `Traveler` | open boarding, check in, board, generate, sign, depart | checks made before the transition they are for |
| Freight (`parcel`, `shipment`) | `Parcel`, `Shipment`, `Trip.freightClosedAt` | open a shipment, add parcels, load, close | capacities and weights under concurrent agents |
| Workflow studio | versions of `WorkflowConfig` and graphs | save, validate, activate, install from the marketplace | two saves at the same time |
| Subscriptions (`subscription-checkout`, `platform-billing`) | `PlatformSubscription` and its JSON `externalRefs` | checkout, renewal, dunning, billing, reconciliation | payment events that never come, crons on every pod, a JSON column written back whole |
| Authentication (`auth`, `mfa`, `password-reset`, `core/iam`) | sessions, challenges, tokens | sign in, rotate, reset, impersonate | one-time tokens used twice |
| Guards (`common/guards`, `common/idempotency`) | counters and markers in Redis | rate limit, in-flight marker | read-then-write on Redis |
| Scheduling rules, driver rest, tax, pricing, cancellation policy | none (pure) | computations | boundaries |

All remaining parts (reference data, fleet, crew, CRM, portal, notifications, reporting,
documents, backups, platform administration) are listed in `PROJECT.json` with the reason
why they are left out: they keep records, render, or move data to external services.

### 1.2 How they interact

* A business service reads a row, then calls `WorkflowEngine.transition()` with that
  snapshot and a `persist` callback; the engine opens the transaction.
* Inside that transaction the callback may call `OutboxService.publish`: the event exists
  exactly when the change is committed.
* The poller of every pod reads pending events, calls the in-process subscribers
  (notifications, refunds of a cancelled trip, parcels, ...) and then Redis.
* The payment orchestrator calls a provider over HTTP, receives its webhooks, and emits
  a terminal event in process, after its transaction, for subscriptions and ticketing.
* Cron jobs (every pod runs them) expire, reconcile and retry.

`PrismaService.transact` always opens a new transaction. With `TENANT_DB_LEVEL_RLS=on`
an interceptor also opens one around every HTTP request; it is off by default
(`prisma.service.ts`, `wrapPrismaServiceWithTxProxy`), and the models describe the default.

### 1.3 What makes each part correct

* Engine: no lost update; a key drives one transition; an acknowledged transition is
  recorded; the same key gets the same answer; nobody waits for ever.
* Outbox: delivered means every subscriber ran; a good event is not given up early; a
  dead one is kept for the operator; every event settles.
* Payment: one charge per key; success only when the provider has the money; refunds
  only of payments; every intent closes.
* Ticketing: a seat is sold once and a trip is not oversold; one sale gives one journey or
  one refund of `TicketingService` (other parts refund on top of it, see 3.3); a paid receipt
  means paid tickets.
* After the sale: a processed refund is booked once; money or a voucher, never both; a
  voucher in use has its booking.
* Trip incidents: nobody is compensated twice for one incident; a delivered cancellation
  leaves no passenger out.
* Departure: the driver leaves with a signed manifest; no row leaves its blueprint.
* Freight: weights stay accounted for; the bus is not overcommitted.
* Subscriptions: one automatic payment per period; no suspension without its warnings;
  nobody stays past due for ever.

`PROJECT.json` ("hazards") lists, line by line, where each of these is most likely to go wrong and
which property watches it.

## 2. The modules

| Module | Models | State |
|---|---|---|
| `EntityHistory` | what the engine promises: per entity, a status, a version and a log to which one *allowed, keyed* transition at a time is appended | abstract |
| `Delivery` | what the outbox promises: sound rows only are heard of, delivered after all subscribers, given up late, settled for good | abstract |
| `PaymentContract` | what the orchestrator promises to those who sell: one charge, nothing said of the money before it is true, only money taken is sent back | abstract |
| `Settlement` | what the services after the sale promise of a refund: decided once, then paid or made up for by one voucher | abstract |
| `WorkflowEngine` | `workflow.engine.ts`, `live-workflow.io.ts`, `audit.service.ts`, `workflow-dispatch.service.ts` | tables, row locks, audit, requests in flight |
| `Outbox` | `outbox.service.ts`, `outbox-poller.service.ts`, `redis-publisher.service.ts`, `dlq.service.ts` | rows, letters, pollers |
| `Payment` | `payment-orchestrator.service.ts`, `payment-reconciliation.service.ts`, `payment-webhook.controller.ts` | one intent and its attempt, the provider, the threads |
| `Ticketing` | `ticketing.service.ts`, `createBooking` and `requestCancellation` of `public-portal.service.ts`, `createRefund`, the dispatch endpoint on tickets | tickets, trip locks, refunds by who opened them, receipts, keys, requests in flight |
| `AfterSales` | `refund.service.ts`, `voucher.service.ts`, `cancel` of ticketing, the virtual registers of `cashier.service.ts`, `remove` of `agency.service.ts` | tickets, refunds, vouchers, registers, bookings, agencies, requests in flight |
| `TripIncident` | `incident-compensation.service.ts`, `createBulkForTrip` and its listener, the cancellation events of `trip.service.ts` and the dispatch endpoint | one trip, its tickets, what each was given, the event, requests and deliveries |
| `Departure` | the driver's transitions of `flight-deck.service.ts`, `traveler.service.ts`, `manifest.service.ts` | one trip, its manifest, its travelers and tickets, requests in flight |
| `Freight` | `shipment.service.ts`, the transitions of `parcel.service.ts`, `closeFreight` | parcels, shipments, the closing, agents |
| `Subscription` | the services of `subscription-checkout`, the billing cron | one subscription, its payment intents, the reminders sent, workers |
| `WorkflowEngineProofs`, `OutboxProofs`, `PaymentProofs`, `TicketingProofs`, `AfterSalesProofs`, `TripIncidentProofs`, `DepartureProofs`, `SubscriptionProofs` | theorems about the module they extend | |
| `MCWorkflowEngine`, `MCOutbox`, `MCPayment`, `MCTicketing`, `MCAfterSales`, `MCTripIncident`, `MCDeparture`, `MCFreight`, `MCSubscription` | small instances | |

### 2.1 WorkflowEngine

A request is one call of `transition()`; a retry of the client is another request with
the same key. `pc[r]` follows the numbered steps of the method:

| Action | Step of the code |
|---|---|
| `Load` | the caller reads the row: `snap[r]` |
| `EarlyCheck` | step 0, a known key is answered from its row, outside any transaction |
| `Validate` | steps 1-3, configuration, permission, scope and guards on the snapshot |
| `TxCheck` | 4a, the key again, in the transaction |
| `TxLock` | 4b, `FOR UPDATE NOWAIT` and the version comparison |
| `TxRecord` | 4c-4d, status update and history insert, with the unique index on the key |
| `TxAudit` | 4e, `AuditService.record`, on its own connection |
| `Commit` | 4f and COMMIT |
| `Abort` | an exception, a timeout or a lost pod at any step |

PostgreSQL runs at READ COMMITTED. What a transaction wrote is visible at its commit, so
the writes of 4c and 4d appear in `Commit`; until then they are the row lock and the
pending key on which another insert waits. The configuration, the permissions and the
guards are arbitrary constants; the guards may also refuse for no modelled reason.

### 2.2 Outbox

One row per event; `status`, `attempts` are the columns. A poller works on a *copy* of
the rows (`batch`, `cur`), because the lock of its SELECT ends with the statement. Each
`await` of `processEvent` is a step: dispatch, Redis, the DELIVERED update, the catch
block, the dead letter. `ran` and `fails` are history variables: which subscribers
completed and how many dispatches failed. The payload is a sequence of fields, stored by
jsonb in its own order (`Jsonb`); the signature is verified over what jsonb returns.
`OUTBOX_HMAC_SECRET` is set, as the deployment requires.

`Delivery` says of the same rows what a publisher or a subscriber may rely on, without pods
or copies: `sound[e]` (its signature holds) stands for the payload. What it allows is part of
the message: a subscriber may hear of a row twice, also after it was delivered, and a row may
be delivered by one pod and given up by another; but no settled row waits again.

### 2.3 Payment

One intent, two kinds of threads. Creators run `createIntent` under one idempotency key:
row, `provider.initiate`, result. Workers run webhook handlers, `confirm`, `refund`,
`cancel` and the cron jobs; what they read before an `await` (`job`) may be stale when
they write. The provider is external: it settles when it likes, notifies any status it
has been in at any time, any number of times, or never. Time is two facts about the
intent: its TTL is over, and nothing updated it for the reconciliation lag.

`PaymentContract` is what ticketing and subscriptions see of it: charges, whether the money
was ever taken, the status, the outcomes announced, whether money was sent back. It allows a
status to replace any other, final ones included, as late answers do in the code, as long
as the status is true.

### 2.4 Ticketing

The tickets of the numbered trips of one route. A request is the sequence of its awaits;
`job[w]` is what it carries from one to the next, and `Stops` ends it anywhere, by an error
or a crash: commits stay, the open transaction is undone.

* `Issue`, `IssueCommit`: `issue` and `issueBatch`, with the `FOR UPDATE` of the trip held
  from the reads to the insert. `PortalCheck`, `PortalCommit`, `PortalConfirm`:
  `createBooking`, which takes no lock and confirms its tickets by their id.
* `ConfirmBatch`, `PayRead`, `PayTx`, `Receipt`, `ReceiptPaid`: `confirmBatch` ticket by
  ticket, with the key of the request, then its receipt. `confirm` is a batch of one.
* `Validate`, `Cancel`, `MarkNoShow`, `Rebook`, `RequestRefund`, `Dispatch` read a snapshot
  and make their checks; `Tx` applies the action through the engine; `RefundCreate` and
  `RebookCreate` are the commits that follow.
* `PortalCancel`, `PortalRefund`: `requestCancellation`, which checks that the ticket is
  CONFIRMED and opens a refund in a later statement, for a ticket of any channel, without a
  transition and as often as it is asked. `asked` counts these refunds, `refunds` those that
  `TicketingService` opens after a transition of its own (`cancel`,
  `requestRefundForMissedTicket`). `OneJourneyPerSale` is about the latter.

The engine is one step here, `Transition`, on a snapshot that may be stale: `Implements`
(section 4) justifies it. `Edges` is the seeded blueprint, `Permitted` the actions the roles
of the tenant may perform. The schedulers `expireStaleTickets` and `forfeitExpiredTickets`
act as role SYSTEM, which has no permission: the engine refuses them, so they are no
action. A seat choice and the automatic assignment are the same choice of a free seat.
`createPaidReceiptFromTickets` looks for a receipt and creates one in two statements; they
are one step here, so that the second receipt two requests at once may make of a batch is left out.
`ReceiptMeansPaid` does not depend on it: each request makes its receipt after its own loop.

### 2.5 The callers of the engine: AfterSales, TripIncident, Departure, Freight

These four share a form. An entity is a status and a version; `Current` (or `Locks`) is
the engine's row lock and version comparison, which theorem `Implements` of section 4
justifies as one step. A request is the sequence of its awaits: `pc[w]` is the next one
and `job[w]` the snapshot and the decisions it carries. `Fail` ends it at any await;
what it committed stays. The edges are the rows of the seeded blueprints, so that the
dispatch endpoint, which accepts any edge, is one action.

* `AfterSales`. `Decide`, `CommitDecision`, `Fallback`: approve, and reject with its
  courtesy voucher. `Begin`, `CommitProcess`: process, where the register is looked up in
  the transaction and status and booking are committed together; `Redeem`, `CommitRedeem`
  likewise. `BeginCancel`, `Restore`, `CommitCancel`, `CreateRefund`: cancelling a ticket,
  where the RESTORE of a voucher is a transaction of its own, committed inside the one of
  the ticket. `PortalCancel` opens a refund and leaves the ticket. `MoveRegister` (closing,
  and reopening through the dispatch endpoint) and `RemoveAgency` take away what the others
  rely on. A booking without register rows
  (no agency left) is none, as in the code. `books` counts the rows of a reference per
  register; `recordTransaction` adds one only where there is none. Every tenant begins with
  an agency (`OnboardingService`); two deletions at once may still remove the last two.
  Amounts, deadlines and eligibility of a voucher are left to the choice of action.
  `Settlement` is the same seen from the passenger, for refunds only: no requests, locks or
  registers. Paid means booked; the deletion of an agency (`Purge`) is the one step that may
  take bookings back, and afterwards a refund can be processed without one.
* `TripIncident`. `ReadTrip`, `CommitTrip`: a transition through the dispatcher, the
  unused `TripService.transition` or an incident endpoint. The latter continue with
  `Compensate`, one row per step. `Deliver`, `Bulk`, `BulkDone`, `BulkError`: the outbox
  hands the event to the subscribers of its type. `declared`, `due` and `lost` are history
  variables. Tiers and forms of compensation are the choice of `DelayKinds`.
* `Departure`. `Driver` plans one or two transitions from one reading; `EnsureTraveler` and
  `Scan` check in and board; `Generate`, `FindManifest`, `Recount`, `Submit` are the awaits
  of `generate`; `Decide` signs, rejects or archives. `Request` is whatever one request does
  next; cancellations of tickets come from outside. The code keeps one manifest per kind and
  lets the driver leave with any signed one; the model has one, the one he finds. `Submit`
  reads the manifest again each time, where the code does so after a revise only: a superset.
* `Freight`. `CreateShipment` holds the trip row and is one step. `AddParcel` checks and
  `CommitAdd` writes. `MoveParcel`, `MoveShipment` check what their service checks when it
  is the service that moves them. The weight of a set of parcels is the number of its
  kilograms, `TotalOf`, which needs no recursion and can be reasoned about. Names of the
  module carry its own prefix, since `DepartureProofs` extends it together with `Departure`.

### 2.6 Subscription

One row, `sub`, updated by id from copies that may be old (`job[w].refs` is the JSON column
as it was read). Workers stand for requests, event handlers and crons of any pod. An
intent is what `Payment` shows its callers: unique per idempotency key, settled once by
`Settle`, its event emitted or lost. Activation, the setup of a method, a failure, a
reminder, a suspension, a renewal and a billing run each take their reading and their
writing as separate steps, and the e-mail of a reminder a third one between them.
Unit of time is the day; the hours of the reminders become days.

## 3. Runs

| Run | Instance | Result |
|---|---|---|
| `WorkflowEngine` | 2 requests, 2 tickets, 1 key, a clerk and an actor without agency | `TypeOK`, `HistoryChained`, `KeyAppliedOnce`, `AcknowledgedIsLogged`, `SameKeySameReply`, refinement `ImplementsHistory`, liveness `EveryRequestAnswered` hold |
| `OutboxPods` | 2 pods, 2 rows, 2 attempts, 1 stop, payloads that jsonb keeps and that it rearranges | `TypeOK`, `NotDeadEarly`, `DeadHasLetter`, refinement `ImplementsDelivery`, liveness `EveryRowSettles` hold |
| `Payment` | 2 creators, 2 workers, 1 webhook, 1 API call, 1 fault, unlimited cron | `TypeOK`, `ChargedOnce`, `SuccessIsReal`, refinement `ImplementsContract`, liveness `IntentCloses` hold |
| `TicketingLife` | 2 requests, 1 seat, 1 passenger, a trip that leaves and a later one, every operation of counter, passenger and dispatch endpoint | `TypeOK`, `CounterWithinCapacity`, `OneJourneyPerSale` hold |
| `TicketingSales` | 2 requests, 2 seats, 2 passengers, counter and portal on one trip, 1 keyed batch, 1 receipt | `CounterSeatsUnique`, `ReceiptMeansPaid` hold |
| `AfterSales` | 2 requests, 2 tickets (one sold without agency), 1 refund, 1 voucher, 2 registers, 2 agencies | `TypeOK`, `RefundBookedOnce`, `RedeemedIsBooked`, refinement `ImplementsSettlement` hold |
| `TripIncident` | 2 requests or deliveries, 2 tickets, both routes | `TypeOK`, `IncidentRefundOnce`, `DelayPaidPerDeclaration`, `DeliveredCoversTrip` hold |
| `Departure` | 2 requests, 1 passenger, trip and manifest | `TypeOK`, `DriverDepartsSigned`, action property `BlueprintRespected` hold |
| `Freight` | 2 agents, 2 parcels, 2 shipments, a bus of 3 kg | `FreightTypeOK`, `WeightConserved`, `CapacityRespected` hold |
| `Subscription` | 2 workers, 1 method, 2 intents, cycle of 2 days | `TypeOK`, `OneRenewalPerPeriod`, `SuspendedWarned`, liveness `OverdueEnds` hold |
| `TripCancelled` | as `TripIncident`, dispatch route only | `BulkRefundsAll` is violated: the event of a cancellation reaches no subscriber and nobody is refunded |
| `SubscriptionRenewal` | as `Subscription` | `PaidRenewalProlongs` is violated: a renewal paid in time is taken for a repetition |

The two violations are disagreements between the code and its own comments; `PROJECT.json`
("findings") quotes both sides. A cancellation is only ever published as `trip.cancel`
(`workflow-dispatch.service.ts:64`), the listener waits for `trip.cancelled`. A renewal is
charged `leadDays` before the end of the period, when the subscription is still ACTIVE, and
`subscription-reconciliation.service.ts:84` skips a success in that state.

### 3.1 Bounds and why they are enough

* Engine: each pair of steps that can interfere belongs to two requests (on one row or
  under one key); a third request adds no new pair. The theorems below hold for any number.
  `log` is bounded by the number of requests, since a request commits at most once.
* Outbox: two pods and two rows give every race on a row and on the batch, and a row free
  for `Replay`. `MaxRetries` 2 (5 in the code) separates the
  last attempt from the others. One subscriber: that some of several complete and one throws
  is in the action `Dispatch`, covered for any number by theorem `OutboxProofs!Implements` and
  by one longer exploration with two (2.2 million states). `MaxStops` bounds crashes and
  database errors. Replay needs a
  free row identifier, so replays are bounded by `Rows`.
* Payment: one webhook against one API call against the cron and the creator gives all
  pairs of stale reads; `Amount` 1 makes every refund full (partial ones need `Amount` 2
  and are explored with the same actions). `MaxFaults` 1 kills any one thread at any step.
* Ticketing: a race on a ticket or a seat is between two requests. `TicketingLife` has one
  seat, so that the second row is the rebooked ticket or the resale of a cancelled one; its
  clock (`MaxClock` 2) passes the payment window, the departure and the ticket TTL, and the
  later trip is closed for sale (`maxSeatsOpen` 0) but open to rebooking. `TicketingSales`
  has no clock and only payment and cancellation, and sells up to a batch of two.
  `MaxKeyed` and `MaxReceipts` are 1: one batch is retried under its key. `MaxAsked` 1 lets
  the portal open a refund of one ticket, or two requests at once two of it (3.1 million states).
  The number of seats is a constant (see 5).
* `AfterSales`: the one refund and the one voucher are enough for every pair of decisions
  on a row, for the fallback voucher of a rejection and for a voucher used on either of two
  tickets; two registers and two agencies let one be closed or deleted under a request.
  `MaxVersion` 4 lets a voucher be redeemed, restored and redeemed again (4.4 million states).
* `TripIncident`: two tickets, so that a loop can stop between them; `MaxVersion` 2 gives two
  declarations, or a declaration and a cancellation; `MaxDeliveries` 3 redelivers twice.
  The trip starts in every state it can leave, its tickets paid or not (0.8 million states).
* `Freight`: two parcels that fill a shipment together or do not fit, two shipments that the
  bus cannot carry both at their largest; `MaxMoves` 3 reaches loading, departure and
  arrival (0.9 million states). The capacity of the bus is a constant (see 5).
* `Departure`: one passenger, since no property relates two of them; `MaxVersion` 7 lets the
  manifest be rejected, revised, submitted again and signed (0.6 million states).
* `Subscription`: two intents are the repetition of one payment or a checkout and a renewal;
  two workers are two pods of one cron or a cron and a handler. `LeadDays` 1 of `Cycle` 2,
  the first two reminders at once and the last after a day, suspension after a day: all of
  it happens before `MaxDay` 2. `MaxOps` bounds the tenant's own calls (0.35 million states).
* Symmetry is used where no liveness is checked, among requests, rows, seats, passengers,
  registers and tickets that are interchangeable. `CHECK_DEADLOCK FALSE` stands in the runs
  of bounded life cycles: when every row has reached a final state or a bound, or the
  bounded clock has stopped, the system really has nothing left to do.

### 3.2 Fairness

* `WorkflowEngine!FairSpec`: weak fairness of each request's own steps. Node resumes a
  pending continuation, PostgreSQL answers every statement, and `NOWAIT` means no
  statement waits for a row. `Load` is not fair: a client need not send a request.
* `Outbox!FairSpec`: weak fairness of each poller's steps. The cron fires every second on
  each pod; a stopped pod restarts as an idle one. Publishing, replaying and discarding
  are not fair.
* `Payment!FairSpec`: pending continuations run, the cron fires, the TTL passes. Nothing
  is assumed of the provider, of its webhooks or of the clients.
* `Subscription!FairSpec`: days pass; what a worker has begun goes on; the dunning cron and
  its e-mail are strongly fair, as the cron runs daily while a free worker exists and a
  reminder that fails is tried again. Payments, providers and the tenant owe nothing.
  `OverdueEnds` supposes what the cron requires: an administrator with an address, and
  `DUNNING_EMAILS_ENABLED` not switched off.

### 3.3 Behaviour seen while modelling, without a run of its own

These follow from the code as modelled; TLC or a short reading shows each. Where one touches
what a property says, the property is restricted accordingly, in its comment and here.

Engine, outbox and payment:

* An audit row is written on another connection and survives the rollback of its transition.
* Two pods can select and dispatch the same outbox row; a row already delivered may be
  dispatched again, or marked dead, by a pod working from an older copy.
* The payload is signed as published and verified as jsonb returns it: one whose keys are in
  another order than jsonb's is refused as forged and ends as a dead letter.
* The backoff of the outbox only sets `scheduledAt`, which the SELECT orders by and does
  not compare with the clock: a failed row is retried by the next poll.
* A pod that stops between the DEAD update and the dead letter leaves a dead row without
  a letter; `DeadHasLetter` therefore counts rows only as long as no pod has stopped.
* The answer of `initiate` may be written over a success that the webhook brought earlier.
  A paid intent whose webhook is lost expires when the reconciliation lag exceeds its TTL.
* An `initiate` that times out marks its intent FAILED, which is final for the webhook of a
  provider that took the money all the same. `expirePast` may write EXPIRED over a success
  that arrived since it read the intent. `SuccessIsReal` has one direction: no false success.
* Two handlers may both announce the success of an intent; two concurrent refunds may
  together exceed its amount. A resolved dead letter can be replayed again.

Sales and after-sales:

* The portal reads the seats without the lock of the counter: one seat can be sold twice,
  once by each. `CounterSeatsUnique` is about the counter.
* `confirmBatch` passes its idempotency key to each ticket, and the engine answers a known
  key without a transition: with a key and two tickets, the second stays PENDING_PAYMENT
  and the receipt of both is PAID. `ReceiptMeansPaid` excludes keyed batches; over all
  batches TLC finds this in eleven steps.
* A rebooked ticket has no seat, its capacity check is unlocked and ignores
  `maxSeatsOpen`; its QR carries a temporary id, so `validate` does not find the ticket.
* `requestCancellation` of the portal leaves the ticket CONFIRMED and may be repeated: the
  ticket still travels, two refunds of one ticket can both be processed, and a sale of the
  counter can give a journey and a refund, or a refund by `cancel` and another by the portal.
  `OneJourneyPerSale` counts only the refunds of `TicketingService` (`refunds`); with those of
  the portal (`asked`) TLC finds it violated in six steps. The refunds of an incident and of
  a cancelled trip (`TripIncident`) come on top as well.
* The RESTORE of a voucher survives a cancellation that fails: the ticket stays valid and
  the voucher can be spent again. A restored voucher keeps its first booking. Only one
  of several vouchers of a ticket is restored.
* `closeRegister` closes virtual registers too: refunds and vouchers of the agency are refused
  from then on, until somebody with the permission for `open` opens the register again through
  the dispatch endpoint; no service does. Deleting an agency deletes its bookings, those of
  refunds included; two deletions at the same time can delete the last two agencies.
* Two first movements at the same time create two virtual registers for an agency.

Trips:

* With `autoApproveTripCancelled` (the default) `createBulkForTrip` fails on the approval of
  its first refund, which SYSTEM may not give; the listener logs it, and the other tickets
  get none. A ticket paid after the cancellation is not refunded either.
* A crash in a compensation loop leaves the remaining passengers without, and the incident
  cannot be declared a second time for a cancelled trip. A delay that is declared twice
  pays its full tier twice. The dispatch endpoint cancels on the way without compensation.
* The dispatch endpoint departs without a signed manifest; `DriverDepartsSigned` is about the
  driver. `generate` may change the counters of a manifest that was signed meanwhile. A
  passenger cancelled after the check-in can board, and one can board after the departure
  when the trip leaves between check and transition.
* A parcel can enter a shipment that has just been closed, or take its remaining weight
  below zero; through the dispatch endpoint a shipment closes with parcels not loaded.

Subscriptions:

* `SUSPENDED` is written by id over a subscription that may just have been paid. A failed
  setup of a method puts a paying subscription past due.
* A failed checkout keeps its idempotency key: the same method is refused for the rest of the
  period. A cancelled subscription is renewed by the billing cron, and a trial is
  activated by it without payment.
* A stale write of `externalRefs` loses marks and methods written in between. The provider may
  drop the reminders of a second episode, whose e-mails carry the keys of the first;
  `SuspendedWarned` counts a reminder of an earlier episode too.

## 4. Proofs

Every theorem is proved for all values of the constants that satisfy the `ASSUME` of the
model: any number of requests, pods, rows, seats or agents, where the runs have two. The
assumptions are types, finiteness where sizes are compared, and facts of the code or of
the deployment; the ones with content are named below. A theorem `Spec => []P` rests on an
inductive invariant (`IInv`, stated at the end of the model) which TLC checked on the
instance of the run before it was proved, and which says what `P` leaves out: what a
request knows between two awaits, and why the others do not spoil it meanwhile.

| Module | Theorems | Property |
|---|---|---|
| `WorkflowEngineProofs` | `TypeCorrect`, `HistoryTheorem`, `KeyTheorem` | `TypeOK`, `HistoryChained`, `KeyAppliedOnce` |
| | `Implements` | `ImplementsHistory`, the refinement of `EntityHistory` |
| | `AcknowledgedTheorem`, `SameReplyTheorem` | `AcknowledgedIsLogged`, `SameKeySameReply` |
| `OutboxProofs` | `Implements` | `ImplementsDelivery`, the refinement of `Delivery` |
| | `TypeCorrect`, `DeliveredTheorem` | `TypeOK`, `DeliveredRanHandlers` |
| | `NotDeadEarlyTheorem`, `DeadLetterTheorem` | `NotDeadEarly`, `DeadHasLetter` |
| `PaymentProofs` | `Implements` | `ImplementsContract`, the refinement of `PaymentContract` |
| | `TypeCorrect`, `ChargedOnceTheorem` | `TypeOK`, `ChargedOnce` |
| | `SuccessTheorem`, `RefundTheorem` | `SuccessIsReal`, `RefundOfPayment` |
| `TicketingProofs` | `TypeCorrect`, `SeatsTheorem`, `CapacityTheorem` | `TypeOK`, `CounterSeatsUnique`, `CounterWithinCapacity` |
| | `JourneyTheorem`, `ReceiptTheorem` | `OneJourneyPerSale`, `ReceiptMeansPaid` |
| | `BlueprintTheorem` | `BlueprintRespected`, an action property |
| `AfterSalesProofs` | `Implements` | `ImplementsSettlement`, the refinement of `Settlement` |
| | `TypeCorrect`, `RefundTheorem` | `TypeOK`, `RefundBookedOnce` |
| | `PaidOrVoucherTheorem`, `RedeemedTheorem` | `PaidOrVoucher`, `RedeemedIsBooked` |
| | `BlueprintTheorem` | `BlueprintRespected`, an action property |
| `TripIncidentProofs` | `TypeCorrect`, `IncidentTheorem` | `TypeOK`, `IncidentRefundOnce` |
| | `DelayTheorem`, `CoverTheorem` | `DelayPaidPerDeclaration`, `DeliveredCoversTrip` |
| | `BlueprintTheorem` | `BlueprintRespected`, an action property |
| `DepartureProofs` | `TypeCorrect`, `DriverTheorem` | `TypeOK`, `DriverDepartsSigned` |
| | `BlueprintTheorem` | `BlueprintRespected`, an action property |
| | `FreightTypeCorrect`, `WeightTheorem` | `FreightTypeOK`, `WeightConserved` |
| | `CapacityTheorem`, `FreightBlueprintTheorem` | `CapacityRespected`; `FreightBlueprint`, an action property |
| `SubscriptionProofs` | `TypeCorrect`, `RenewalTheorem` | `TypeOK`, `OneRenewalPerPeriod` |
| | `WarningsTheorem`, `SuspendedTheorem` | `SuspendedWarned` under a hypothesis |

### 4.1 WorkflowEngine

Assumptions: `ConstAssumption`, and `ConfigIsFunction` (one target per state and action).
Neither `HistoryChained` nor `KeyAppliedOnce` is inductive: they speak of committed rows,
and a commit is right only because of what its request did before. `IInv` adds

* `SnapshotCoherent`: a snapshot is never ahead of the row, and at equal versions it *is*
  the row, so comparing versions is enough;
* `LockProtects`: from 4b to COMMIT the request holds the row lock and its snapshot is
  still current, so nothing moves between the comparison and the write;
* `EdgeChosen`: the target state comes from a configured edge that leaves the snapshot;
* `KeysReserved`: a key that is inserted but not committed is unused and held once.

The argument splits the actions in two. `Quiet` actions leave the tables alone, so only
the four added conjuncts need care (one lemma each). `Commit` appends one row:
`LockProtects` and `EdgeChosen` make it continue the walk, `KeysReserved` makes its key
new, and the locks of the other requests keep their snapshots valid. Refinement follows
from the same invariant: a commit is `Apply`, every other step a stutter.

What the callers are told needs `AnswerInv` on top: a replayed answer is the one of the row
stored under its key. It is kept because histories only grow (`HistoryGrows`, `FoundStays`)
and because the request that commits appends the row it answers with (`CommitAnswers`). Two
answers under one key are then both read off a row under that key, and `KeyAppliedOnce`
leaves only one (`FoundOnce`).

### 4.2 Outbox

Pollers work on copies without a lock, so a pod may write an attempts column that another
one has moved on. `CopiesHonest` is why this is harmless: a copy, however old, never counts
more attempts than dispatches of its row have failed, because a count is only ever written
after one more failure than the copy it comes from. `AttemptsFailed` says the same of the
column, and `NotDeadEarly` follows when the last attempt is counted. `StepsHonest` keeps what
a poller found out (the subscribers ran, the signature does not verify) true while it waits
for Redis or for the update: `ran` only grows and the payload of a row never changes.

`Implements` needs that for all steps of a poller, not only for the last ones: a row that is
being dispatched verifies, so that `Hear` and `FailOnce` are about sound rows. Each action
that touches a row is then one step of `Delivery` (`TableKeeps` for publishing and replaying,
`PollerKeeps` for the awaits of a poller) and the others are stutters. `DeliveredRanHandlers`,
an invariant of its own in the proofs, is what the promise makes of `Deliver`.

### 4.3 Payment

`ChargedOnce` needs `OneCreator` (the unique index on the key lets one creator past the
insert, and until its call returns the provider has nothing) and `AnswersKnown` (nobody has
an answer about a payment the provider does not have). For `SuccessIsReal` the invariant is
one implication, `Evidence => Paid`: every place that can hold a success (a webhook
under way, the answer a thread carries, the attempt, the intent, an emitted event, a refund
in preparation) counts as evidence, and each action only moves evidence from one place to
another. `Paid` is never undone, so that its age does not matter.

`Implements` needs more of the same invariant. Evidence includes what stands for money sent
back, since it was taken first: an answer REVERSED, an intent REFUNDED or partly so. Nobody
works on an intent that does not exist yet (in `OneCreator`), so that `CREATED` is said once;
and the provider knows only what it was made to collect (`ChargeKnown`), so that an outcome
announced supposes a charge. The contract's variables are the model's own, by other names; a
stale write that replaces one true status by another is its `Say`. `RefundOfPayment` is the
guard of its `Repay`.

### 4.4 Ticketing

Assumptions: finite sets of rows and seats (`TicketingAssumption`).
The properties of the counter are about an insert whose guards were checked earlier, while
the portal, cancellations, boardings and rebookings went on. `IInv` adds, for each request,
what it relies on (`Safe`): a sale of the counter has the lock of its trip, and its seats are
free and within the capacity as far as the counter sells them (`SaleSafe`); a snapshot is the
row when the versions agree (`SnapshotSafe`); the portal confirms rows of its own; and no
two requests insert the same row (`RowsApart`). Every step is one of three kinds
(`TicketStep`): it leaves a row, moves a row that is not closed, or creates a row. Only the
portal writes a status without looking at it, and only on its own rows, so that a closed
ticket of the counter is never open again: what the counter has sold on a trip shrinks
under every step but an insert of the counter on it (`CounterShrinks`), and the lock leaves
only one request at that (`OthersSafe`). The insert itself adds rows
to what is there, and `SaleSafe` bounds the size of the union (`InsertFits`).

`OneJourneyPerSale` counts the live tickets of a sale and the refunds of `TicketingService`
over its rebookings.
`JourneyInv` adds that all tickets of a sale but one have been rebooked (`OneTicketLeft`), that
such a refund is the end of its ticket (`RefundEnds`; one that the portal opens is not, it leaves
the ticket CONFIRMED and changes nothing the invariant speaks of), and what a request still owes
after its transition: the refund nobody has made, or the ticket that replaces the last one
(`Owes`), each owed by one request (`OwedOnce`). A transition that makes a request owe leaves a
state another request would need, and the version comparison excludes the second.
`ReceiptMeansPaid` needs `ReceiptInv`: in a batch without a known key, every ticket the loop
has dealt with is past its payment, and no step leads a ticket back there.

### 4.5 AfterSales

Assumptions: entities of different kinds are different, and the tenant starts with an
agency (`Agencies # {}`; `OnboardingService` creates the first one).
`IInv` has three parts besides the properties. `KnowsItsRow`: before its transaction a
request has a snapshot that is the row when the versions agree; in it, it *holds* the row
and still finds what it read. `Exclusive`: two requests never hold one row, and one at most
owes the courtesy voucher of a rejection. `OneRowPerRef`: a reference is booked in one
register or not at all. A booking belongs to the commit of the status, so `RefundBookedOnce`
is kept by the holder alone. For `PaidOrVoucher`, a rejected refund leaves its state by no
edge, so the request that owes its voucher finds it rejected, unbooked and without voucher
for as long as it takes. The two properties about bookings say nothing of a tenant that has
lost an agency, since `remove` deletes the bookings with it.

`Implements` maps a refund to its status, to whether it is booked, and to the vouchers that
name it as their origin. The commit of a decision is one step, whose edge `Exclusive` and the
held row make the right one (`RefundsKeep`, `DecisionEdges`); the courtesy voucher is another
(`RestKeeps`), which needs `KnowsItsRow` for the rejection it makes up for and the absence of an
earlier voucher, and `Unissued` (a voucher that does not exist has no origin). Tickets and
vouchers never touch a refund's row or booking (`OthersKeep`). `PaidOrVoucher` follows in the
promise: `MakeUp` and `Pay` start from different states, and no step leaves either.

`BlueprintRespected`, here and in `Ticketing` and `TripIncident`, is what a caller gets from the
engine in spite of its old snapshots: one transition per version, along an edge that leaves
the state the row really has. In `AfterSales` this needs `WalkInv` as well: `cancel` restores a
voucher it read before its own transaction, and the version it carries is one at which the
voucher was in use. The tickets of the portal are excluded, which `createBooking` confirms
by id. No run lists these three action properties: TLC checked them once on the instances
of the runs, and the theorems stand for them since.

### 4.6 TripIncident

A compensation loop works ticket by ticket after its transition, and may be overtaken by
another declaration, by a cancellation or by the listener.

* `DelayAccount`, for `DelayPaidPerDeclaration`: what a ticket has been given for delays
  *plus what running loops still promise it* (`Promising`) never exceeds the number of
  declarations. A declaration raises both sides by one, a step of a loop turns a
  promise into a row, a crash drops promises. The set of promising requests is proved finite
  on the way, as a part of the invariant, for any set of requests.
* `OneTransitLoop`, for `IncidentRefundOnce`: only one request ever moves the trip to
  CANCELLED_IN_TRANSIT, and its loop gives one row to a ticket that has none.
* `Apart`: an incident needs a trip that has left and the refunds of the listener one that
  never did; no edge leads from one to the other.
* `Covers`, for `DeliveredCoversTrip`: the loop of the listener skips no ticket it owes, also
  when it starts again after an error.

### 4.7 Departure

Assumptions: a finite set of tickets (`DepartureAssumption`).
`DriverDepartsSigned` is about a commit, but the manifest was looked at when the request
began. `IInv` therefore adds `InFlight`: a request in its transaction has a snapshot that is
not ahead of its row and *is* the row when the versions agree, and one that carries a
departure either comes from the dispatcher or finds the manifest signed *now*. Three facts
carry the induction. A row only moves along an edge of the blueprint (`RowSteps`, from the
coherence of the snapshot that commits). The only edge out of SIGNED leads to ARCHIVED and
none leaves that (`EdgeFacts`), so that what the driver saw stays true while others sign,
reject and generate (`SignedStays`). A plan whose first action is DEPART has no other
(`PlanFacts`), so that no request reaches a departure it did not start with.
`BlueprintRespected` is `RowSteps` read as an action property.

The second half of `DepartureProofs` is about `Freight` (`FreightAssumption`: weights and
capacities are numbers, sets of parcels and shipments finite). A sum over a set is out of
reach when it is computed by recursion; `TotalOf(f, S)` is the number of pairs of an element
and one of its kilograms, for which `TotalAdd`, `TotalSame` and `TotalPart` follow from
cardinalities. `FreightInv` adds to the two properties what the requests know (`InHand`: the
snapshot is the row at equal versions, the shipment they add to exists) and `GroupedOnce`: the
states a parcel is grouped from are never reached again, so that the decrement of
`addParcel` is never made twice for a parcel, although its check precedes the transaction.
`CapacityRespected` is kept because what a shipment promises is fixed when it is created, under
the row lock of the trip, and shipments only leave the set that counts. `FreightBlueprint` says
in addition that a parcel in a shipment is not grouped again; TLC checked it, and
`FreightInv`, on the instance of the run, which lists neither.

### 4.8 Subscription

`OneRenewalPerPeriod` does not depend on the mark `renewalSent`, which a stale write of
`externalRefs` may lose: the unique key of the intent, made of the subscription and the end of
the period, decides, and the invariant is the property with the types it needs. For the
reminders, `Warned` and `Carries` say that every mark in the row *or in a copy a worker will
write back* stands for a reminder that was sent, and that a worker about to suspend has seen
all of `Warnings`: the last reminder and those due by the day of the suspension.

`WarningsTheorem` holds for every configuration. `SuspendedTheorem`, with all three reminders,
supposes that each is due before a suspension. The defaults are 24, 72 and 168 hours
against 10 days (`platform-config.registry.ts`), but the accepted ranges, up to 720 hours and
from 1 day, allow an operator to suspend before a reminder is due; without the hypothesis
the statement would be false.

### 4.9 What stays with TLC

* Liveness (`EveryRequestAnswered`, `EveryRowSettles`, `IntentCloses`, `OverdueEnds`): beyond
  this prover, which knows neither ENABLED nor fairness.
* The two violations, which are counterexamples.

The proofs about `Ticketing`, `AfterSales`, `TripIncident` and `Departure` take a transition
of the engine as one step on a possibly stale snapshot; `Implements` is what justifies it.

## 5. What is not modelled

External services (payment providers, Redis, object storage, Vault, mail and SMS) appear
as environments where they matter. Cryptography is an oracle. Row-level security is
enforced by PostgreSQL. Records without a protocol, rendering, reporting and the front
ends are left out. Tax and routing inside `createIntent` are data: they do not change its
control. `PROJECT.json` gives the reason part by part.

What a trip has to offer is constant in `Ticketing` (`Seats`, `MaxSeatsOpen`, `Departure`) and
in `Freight` (`BusCapacity`). The code lets it change: `TripService.update`
(`trip.service.ts:307-360`) may give a PLANNED or OPEN trip another bus and other times without
a look at its tickets or shipments, and the bus itself can be edited. `CounterWithinCapacity`
and `CapacityRespected` therefore speak of concurrent sales and shipments between two such
edits; after a change to a smaller bus nothing in the code restores them.

## 6. Plan

Modules still to write, in this order:

1. `WorkflowStudio`: concurrent saves of a tenant's graph; the validator as a graph
   algorithm against a reference definition.
2. `Guards`: the rate limiter and the in-flight marker of the idempotency guard.
3. Sessions, password reset and MFA challenges: one-time tokens.
4. The scheduling guard and the cancellation policy as pure operators checked against
   reference definitions.
5. Physical cash registers: the shift, its totals and the late rows.

Every safety property of a run that passes is stated by a theorem of section 4 (`SuspendedWarned`
under the hypothesis of 4.8). Each module above would
come with its own; the next refinements are `Ticketing` against the seats and journeys a
passenger buys, and `Subscription` against the periods a tenant has paid for.
