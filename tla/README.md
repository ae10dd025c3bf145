# Verification of go-airline-booking

TLA+ models of the booking service: seat inventory with the booking and payment lifecycle,
as whole transactions and statement by statement; payments against an unreliable provider;
the transactional outbox and its workers; idempotent requests and the rate limiter; sessions
and tokens; price quotes. TLC checks small instances. TLAPS proves for every instance every
invariant and action property the runs check, the three refinements, and that the statements of
a transaction amount to the atomic step it is modelled as.

Paths below are relative to `src/`. A name in code font that is not a path is a definition
of a module here or an identifier of the Go code; the two are called alike on purpose.

## 1. The system

The service is an HTTP API and a worker over one PostgreSQL database. All state that
matters is in tables; every operation is one READ COMMITTED transaction with explicit row
locks, and no network call is made inside one (ADR 002 and 003 in `docs/architecture.md`).

| Component | State | Operations | Interacts with |
|---|---|---|---|
| bookings (`internal/booking/create.go`, `lifecycle.go`) | `bookings`, `booking_segments`, `booking_passengers` | Create, SavePassenger, Release, cancel, ExpireHolds | consumes quotes; frees seats; outbox |
| seat holds (`internal/booking/hold_seats.go`) | `flight_seats`, `seat_assignments` | HoldSeats | reclaims lapsed seats of other bookings |
| payments (`internal/payment/store.go`) | `payments`, `payment_attempts`, `webhook_events` | Start, Dispatch, Apply | confirms bookings; provider; webhooks; outbox |
| refunds (`internal/payment/refund.go`) | `refunds` | RequestRefund, DispatchRefund | frees booked seats; provider |
| outbox (`internal/outbox`) | `outbox_events`, `outbox_receipts` | Batch: claim, publish, acknowledge or back off | calls Dispatch and DispatchRefund |
| worker (`cmd/worker`) | none | a one-second loop: ExpireHolds(25), Batch(10), 15 s deadline | all of the above |
| idempotency (`internal/idempotency`) | `idempotency_records`, advisory locks | Begin, Save | inside every mutating transaction |
| quotes (`internal/quote`) | `price_quotes`, `price_quote_items` | Create | read by booking Create |
| seat map, search (`internal/flight`) | none | Seats, Search, Get | reads inventory |
| sessions (`internal/auth`) | `auth_sessions`, `auth_credentials` | Login, Refresh, Logout, Authenticate | guards the API |
| rate limiter (`internal/httpapi/rate.go`) | `rate_limit_buckets` | Allow | guards the API |
| HTTP layer, configuration, metrics, UI, seed data | none | | |

What is hard here, and what correct means:

* **Two tables for one fact.** A held seat is a row of `flight_seats` and a row of
  `seat_assignments`; five transactions write both. They must always agree
  (`InventoryAgrees`) and never leave a seat with a booking that has no claim to it
  (`NoStrandedSeat`).
* **Lazy expiry.** A lapsed hold stays in the tables until the worker comes. Meanwhile
  another booking may reclaim single seats of it, without touching the old booking, and the
  provider may report a success. Live holds are safe (`SeatNotTakenFromOwner`), holds are
  never prolonged (`HoldNeverExtended`), all of them end (`HoldsEnd`), and the seat map
  offers exactly what can be had (`SeatMapTruthful`).
* **Money and seats.** Charges happen outside transactions, answers come late, twice, in
  any order or not at all. A confirmed booking has all its seats (`ConfirmedIsSeated`), the
  payment says what the booking says (`PaymentMatchesBooking`), and a paid live hold is
  confirmed (`PaidHoldConfirms`).
* **Several segments.** One booking-wide expiry has to respect each flight's departure
  (`HoldWithinDeparture`, `ConfirmedBeforeDeparture`).
* **Locks and waits.** A transaction waits between what it has read and what it writes.
  What it decides must still be right when it commits (`Atomic`), and nobody may wait for
  each other (`NoDeadlock`, in `SeatTx` and in `AuthSessions`).
* **An unreliable provider.** Calls and answers get lost, two workers may hold one event. A
  payment is charged once (`ChargedOnce`), the books match the provider's (`MoneyMatches`),
  a settled payment is not reopened (`NeverBack`), and money owed goes back (`OwingEnds`).
* **At-least-once delivery.** Workers crash and are paused; leases lapse (`Settles`,
  `DeliveredWasPublished`, `OneEnd`, `LeaseRespected`, `NoOverlap`, `DeliversAsPromised`).
* **Retries.** A client that got no answer sends its request again, perhaps while the first
  still runs: one effect, one answer (`KeptPromise`), and every request ends (`RequestsEnd`).
* **Sessions.** Refreshes, logouts and logins of one user overlap (`RotatedOnce`,
  `RevokedIsFinal`, `EndedIsDead`).
* **Prices.** Sums must not leave 64 bits (`TotalExact`) and fares change while they are
  being read (`OffersStand`, `BookedAsQuoted`).

`PROJECT.json` lists the hazards one by one, each at its line, with the properties about it.

## 2. The models

### SeatInventory

One action per transaction. A transaction that returns an error rolls back, so its
condition is the action's guard. What a transaction does once its checks have passed is an
operator of its own (`HoldWrites`, `ReleaseWrites`, ...), which `SeatTx` uses again. That one
atomic action per transaction is faithful is what `SeatTx` checks.

* `seats[s]` is a row of `flight_seats`, `assignments` the active rows of
  `seat_assignments`: every statement of the program filters on an active status, so a row
  that becomes CANCELLED or EXPIRED leaves the set. `bookings[b]` has `status` and
  `expires` (`hold_expires_at`), with status NONE for a quote not yet consumed.
* `HoldSeats(b, f, sel)` is the whole of `HoldSeats`. `sel` maps seats to passengers
  (`Selections`: what `normalizeHoldParams` accepts). `Holdable` collects the early
  returns, `NewExpiry` the expiry, `Free`, `Reclaimable` and `AlreadyHeld` the cases of
  `applySeatAssignments`; any other case returns an error in the code and fails the guard
  here. The unique index on active passengers is a guard; the one on active seats is left
  out on purpose, so that `InventoryAgrees` shows the program does not depend on it.
* `ExpireHolds(batch)` takes any nonempty part of the lapsed bookings up to the limit, as
  SKIP LOCKED may leave any of them out.
* `Apply` is `ApplyFailed`, `ApplyLate` or `ApplyConfirm`, enabled at any time after
  `Start`: a webhook or the worker may bring any result whenever it likes, also several
  times. The case that `HoldConsistent` fails is the rollback with ErrInventoryConflict.
* The clock is `now`; `Tick` advances it. Constants describe the quote of each booking
  (itinerary, party, expiry), the flights and the cabins.
* `RequestRefund` compares departures with a clock it reads before it waits for seats, so it
  may be late by `LockWait`, the longest such wait (lock_timeout); `SeatTx` has the wait itself.

Left out: versions, timestamps for display, prices, PNRs, users, and events that only get a
receipt. CHECKED_IN and TICKETED are never written by this code.

### SeatOwnership

What `SeatInventory` promises to somebody who only knows who has a claim on a seat: a live
claim is given up by its owner or sold to it, never taken; a seat changes hands only when it
is free or its claim has lapsed; and a whole booking is sold or refunded at once.
`SeatsOwned` is the refinement, with the rows of `flight_seats` as claims.

### SeatTx

The same transactions under READ COMMITTED. `Begin` actions lock the booking and read its row,
`LockSeat` locks one seat after the other in the order of ids and reads it as it is then, and
`Commit` actions do the last checks with the clock read anew, write, and commit. Any of them
may be rolled back in between, other transactions run, and time passes up to `LockWait`. `View`
is what a transaction has read. Start's first statement is two steps (`AskStart`,
`BeginStart`), because its answer may be as old as its wait. Bookings start with all their
passengers; what touches one booking and no seat is left to `SeatInventory`.

`Atomic` is `[][Next]_vars` of `SeatInventory`: every commit is a step that the atomic model
allows at that moment. It is checked on the shared variables, without a mapping.

### Outbox and Delivery

`Outbox` has one action per statement of `Batch`, since a worker may stop between any two:
`Claim`, `Publish`, `Ack` or `Fail`. `GiveUp` is an early return or a crash; the rows stay
claimed. `Pause` stops a worker past its deadline with an update under way, the case lease
tokens exist for. `Publish` may report an error although the consumer did its work. Times are
kept as what is left of them, which makes the state space finite without a bound on the clock.
`Tick` does not pass the deadline of a job in progress: its context ends it there. A worker
forgets its claim before it makes another, so its name stands for the claim's token.

`Delivery` is the same without leases, attempts, batches and time: an event is processed any
number of times, is recorded as delivered only after that, and ends in one way.
`DeliversAsPromised` is the refinement.

### Payments

The two dispatchers step by step (status read, Lookup, Charge, Apply; status read, Refund,
settlement), with the provider's own records `charges` and `returned`. A call or its answer
may be lost and a worker may crash at any step (`Fault`); webhooks of a charge arrive in any
order, late, repeatedly, under several ids (`Webhook`). The events that set workers to work
come through an instance of `Delivery`: two workers may hold one event, and an event may be
dead-lettered at any time. Of a booking only its status and the liveness of its hold are
kept, and Start, Apply and RequestRefund are single steps, as `SeatTx` justifies.

The provider is idempotent by key, as `FakeProvider` is, and an answer to a key does not
change; `docs/architecture.md` asks this of a real one. The program as it is wired has no
provider (`cmd/api/main.go`, `cmd/worker/main.go`): payments answer 503 there, and the model is
of the code with a provider plugged in. ErrInventoryConflict is in `SeatInventory` only. Events
that only get a receipt are left out.

### Requests and OnceOnly

A mutating request's way through `mutation`, the rate limiter's upsert (`Allow`), and
`idempotency.Begin` and `Save` around the handler. `Lock` is the advisory lock, `Fresh`,
`Replay` and `KeyReused` the outcomes of the SELECT after it, `Run` the handler's own
statements, `Commit` Save and the commit, `Abort` any rollback. A client may send anything
again at any time, and answers may be lost after the commit, by the network or because
TimeoutHandler has answered already. `OnceOnly` is the promise to the client: one effect for a
key, and answers about that effect only. `KeptPromise` is the refinement. Retention of records
(`ops/retention.sql`) is outside the program: the promise lasts as long as the record.

### AuthSessions

Each request is a sequence of statements with the row locks they take. Modes of locks matter
and are modelled (`Conflict`): Login takes its user FOR UPDATE, Logout FOR NO KEY UPDATE, and the
audit record of a reused token KEY SHARE through its foreign key. Refresh judges expiry when
its SELECT begins and reads revoked_at and used_at when its locks are granted; Logout takes
its snapshot of the sessions when its UPDATE begins and reaches the rows in any order.
`ended` is a history variable: the sessions that a committed logout or an answered reuse
was about.

### Quotes

`quote.Create` reads fares one after the other, each under a share lock, and adds them up in
machine integers (`Int64`, `Overflows`); `booking.Create` locks the quote, then its fares,
checks them and inserts. An operator (`Change`) reprices and withdraws fares that nobody has
locked. The clock is left out here: expiry of quotes is in `SeatInventory`.

### MC modules

The `MC` modules name model values, give functions to constants and define symmetries.

### How the models fit together

    SeatTx --Atomic--> SeatInventory --SeatsOwned--> SeatOwnership
    Outbox --DeliversAsPromised--> Delivery <--used by-- Payments
    Requests --KeptPromise--> OnceOnly

All four arrows are proved.

## 3. Runs

| Run | Instance | Shows |
|---|---|---|
| `inventory` | 2 bookings (a couple, a single), 1 flight, 2 seats, hold 2, departure 3, clock to 4 | inventory, bookings, money and seat map agree; holds are not extended or taken, and all end; the transition trigger never fires; the refinement of `SeatOwnership` |
| `itinerary` | a connection and a single flight, 3 seats, equal departures | a paid live hold is always confirmed |
| `connection` | the same, the second flight departs at 2 with holds of 3 | holds and confirmations respect every departure; confirmed means seated |
| `connection_expiry` | the same | **violation** of `PaidHoldConfirms` |
| `seat_tx` | 2 couples, 2 seats, 2 connections | every commit is a step of `SeatInventory` |
| `seat_tx_batch` | 2 singles and a couple, 2 seats, 2 connections, batches of 2 | no deadlock |
| `outbox` | 2 workers, 2 events, 2 attempts, lease 2, job 1, 2 faults | no event is lost, ended twice, acknowledged unprocessed or worked on twice at a time; the refinement of `Delivery` |
| `outbox_dead` | the same | **violation** of `DeadAfterMaxAttempts` |
| `payments` | 1 payment, 2 workers, 2 webhook ids, 2 faults | charged once, books agree, nothing reopened, money owed goes back |
| `requests` | 1 user, 2 keys, 2 payloads, 2 requests at a time, limit 2, 2 windows | one effect for a key; the limit holds; every request ends |
| `sessions` | 1 user, 2 sessions, 4 pairs of tokens, 3 requests at a time | rotation, revocation and reuse under all interleavings; no deadlock |
| `quotes` | 3 fares on 2 flights, 4-bit integers, 1 quote, 2 requests, 1 change | exact totals, prices that stand, one booking for a quote |

Bounds. Two bookings suffice for every race on a seat, as all transactions involve at most
two parties: the owner and a reclaimer (or the worker). The couple makes holds of several
seats, of which one may be reclaimed; two seats make it impossible to serve everybody.
`MaxTime` exceeds every expiry and departure by one in `inventory`, `itinerary` and
`connection`, so that each of them is met before, at and after its moment. Seats may be
BLOCKED from the start. A deadlock over seats in order of ids needs two transactions and two
seats; the third booking of `seat_tx_batch` makes a batch of two meet another transaction. In
`outbox` two faults allow one worker to be paused and another to crash, which is what the
races on a lease need, and attempts beyond `MaxAttempts` behave like `MaxAttempts`.
`BackoffCap` 1 is below 2^1, so the cap is met on the first failure. In `payments` two faults
lose the answer of a charge and then that of its Lookup, or delay a refund's worker while the
other settles it; payments do not interact. In `requests` two attempts and two keys let a
retry overlap its first request, follow it, or carry another payload; with limit 2 the count
saturates. In `sessions` users do not interact; the three requests allow a refresh, a reuse
and a logout-all, or a login between, at once, and four pairs of tokens a token that is
exchanged and presented again. Symmetric ids are interchangeable and no liveness is checked
there. In `quotes` the numbers are chosen so that sums of two fares just fit, just do not, or
overflow on their own; four bits stand for 64, as the guard is the same for any width.

Deadlock is not checked where the clock or the ids are bounded, or where all events may be
settled; `requests` and `quotes` never stop.

Fairness. `inventory`: weak fairness of the clock and of `ExpireHolds`, which the worker's
ticker calls each second. No fairness is assumed of customers or of the provider. `outbox`:
weak fairness of the clock and of each worker's next step (its loop goes on, and each call it
makes has a deadline). `MaxFaults` bounds crashes, as a worker that crashes for ever on its
first step delivers nothing. `payments`: weak fairness of each worker's next step and of
recording what was published, which `Settles` of `Outbox` is about; none of webhooks.
`OwingEnds` excepts payments one of whose events was dead-lettered. `requests`: strong fairness
of each handler's next step, since PostgreSQL grants a lock to its waiters in turn, so that one
handler cannot be overtaken for ever. That a request's deadline ends it is not assumed.

Each property of a passing run has a mutant in `PROJECT.json`: a plausible bug in one
definition that makes TLC find the property violated.

## 4. Findings

1. *A second hold can make a paid booking impossible to confirm* (`connection_expiry`).
   HoldSeats caps the expiry at the departure of the flight at hand and writes it to the
   booking, but not to the seats held on other segments. After a hold on a later flight and
   then one on a flight that departs before the first hold would end, Apply's check that all
   rows have the booking's expiry fails with ErrInventoryConflict; the charge is
   refunded only after the hold has lapsed. `OnlyCutHoldsFail` proves that this is the only way.
2. *Dead-lettering counts claims, not publications* (`outbox_dead`). ADR 004 says "dead-letter
   after ten attempts"; a claim whose worker gives up uses up an attempt.

## 5. Proofs

Proofs hold for all values of the constants that satisfy the ASSUMEs of the modules: any number
of bookings, seats, connections, workers, requests and faults, any times and limits. The ASSUMEs
are types of the constants, that NULL is no row, that ids are ordered (`TxAssumption`), that a
job's deadline comes before its lease ends (`OutboxAssumption`: 15 s and 30 s in
`cmd/worker/main.go` and `internal/outbox/outbox.go`), and that there are finitely many seats
(`SeatsAssumption`), without which a count could not say that everybody has one. TLC evaluates
them in every run.

Each module's proofs have an inductive invariant (`Inv`, `PaidInv`, `TxInv`), a lemma per action
that keeps it, and theorems that draw the properties from it. The idea of each:

`SeatInventoryProofs`. `TypeCorrect`: `TypeOK`, which also bounds the passengers of a booking by
its quote's (`PartyBound`), is inductive. `InventoryIsConsistent` and `SeatsAreNotStranded` share the inductive invariant `Inv`: `TypeOK`, `Inventory` (each active
row agrees with its seat; a seat has one row; a HELD or BOOKED seat has a row), the fact that a
HELD or PAYMENT_PENDING booking has an expiry, and `NoStrandedSeat`. Neither property is
inductive alone: a release finds seats through one table and rows through the other, so it
keeps them in agreement only if they agreed before; and a hold that gives a DRAFT booking an
expiry must know that the booking has no older rows left. The steps are grouped by their effect
on inventory (`InventoryReleased`, `InventoryHeld`, `InventoryConfirmed`, `InventoryRefunded`)
and on the owners of rows (`Owners...`). `SeatsAreOwned` proves the refinement of
`SeatOwnership`: given the agreement of the two tables, each transaction gives, takes, sells or
returns seats as the abstract specification allows, or leaves the claims alone.
`HoldsAreNotExtended` is an action property proved from the same invariant and from
`NewExpiryType`.

`SeatInventoryPaidProofs` adds what a payment relies on (`PaidInv`). Start counts rows and Apply
does not, so the invariant carries the count from one to the other, as "every passenger has a
row on every flight" (`AllSeated`) for as long as the hold is live. It is inductive only with
`RowsFit` (a row is for a passenger of its booking and a flight of its itinerary) and
`PassengersOnce`; `CountedIsSeated` leads from the count to the passengers. A row's expiry is
within the departure of its flight, which gives `HoldsEndByDeparture`, and through `AllSeated`
`ConfirmedBeforeDepartures`, although Apply looks at no departure. `MoneyAgrees` is
`PaymentMatchesBooking` with what the outbox holds. `EvenHolds` says that the rows of a hold that
no departure has cut short expire with their booking. Hence `OnlyCutHoldsFail`: Apply's check can
refuse a live hold only if it was cut by the departure of one of several flights, and
`PaidHoldsAreConfirmed` for itineraries whose flights depart together; in general
`PaidHoldConfirms` is false (finding 1).

`SeatTxProofs` proves `Atomic`. `TxInv` has a part for each connection: what a transaction has
read under locks is still so (`Reads`), it comes to lock every seat it will write (`Covers`), it
goes by the order of ids (`Ordered`), it is no older than `LockWait` (`Timely`), and what its first
statement checked still holds (`Kind`); and no two connections have the same row (`Exclusive`). `Covers` survives other commits because
a booking gains seats only through its own row, which is locked. With that, the `View` of a
commit is the tables themselves where it matters. The exception is Start, whose count may be as
old as its wait for the booking's row: what it counted as live is still counted if the booking
it then locks is a live hold, as rows of a live hold are not taken (`CountedIsLive`). `TxInv`
includes `PaidInv`, which every commit keeps because it is a step of `SeatInventory`; so what was
proved of the atomic transactions holds of their statements (`TablesSound` for invariants,
`StepsSound` for action properties and the refinement of `SeatOwnership`). `NoDeadlockHolds`: in a circle each would wait for a seat of a
higher rank than the one before, and there is a highest one.

`OutboxProofs`. The invariant says that a worker's published result with outcome `ok` was
processed (`Honest`), that a settled event has no token (`Settled`), and that an
event in the hands of a worker that was not paused carries its token and a lease longer than
what is left of its job (`Held`). The theorems `DeliveryIsAtLeastOnce`, `EventsEndOnce`,
`WorkersDoNotOverlap` and `LeasesAreRespected` follow, and with them
`OutboxImplementsDelivery`: an acknowledged event was processed, and one that has ended has no
token by which it could end again.

`PaymentsProofs`. What a worker carries between its steps is true at the provider (`Carries`): an
outcome to apply is that of a charge of this payment, and a refund to settle has been returned.
It stays true because the provider only ever gains records. With `Charges` (one charge for a key,
and the key stands for the payment) and `Book` (the rows of a payment, its commands in the
outbox and the provider's records fit together) it is inductive.

`RequestsProofs`. A request past Begin's lock holds it (`Holder`), so that the record it did not
find is still not there when it saves (`Unrecorded`), and records and effects come together
(`Recorded`). `KeepsPromise` maps each commit and each answer to one of `OnceOnly`.

`AuthSessionsProofs`. A refresh that goes on to rotate has its session locked and unrevoked and
its token unused (`RefreshHolds`); a logout that has its user knows all of the user's sessions
(`LogoutCovers`), since no login can add one. Both rest on `Exclusive`. `NoDeadlockHolds`
orders the waits: a rotation, and a login that has its user, wait for nobody; a reuse waits only
for such a login; a logout that has its user only for rotations and reuses; and all others hold
nothing.

`QuotesProofs`. `Exact` is a fold, and induction over finite sets is not at hand; what is needed
of sums (`SumsExist`, `SumsAgree`, `SumsInsert`) is proved from a smallest counterexample, which
exists as strict inclusion of finite sets is well founded. `OverflowsIsExact` is the arithmetic of
the guard, a division, for integers of any width. The invariant says that offers read under a
share lock still stand (`Quoting`), totals are the exact ones (`QuotingSoFar`, `Priced`), a
request that books has its quote to itself (`Alone`), and a booking's quote is USED and stays as
it is (`Booked`).

Only model-checked: the liveness properties (`HoldsEnd`, `Settles`, `OwingEnds`, `RequestsEnd`),
as fairness and ENABLED are out of the prover's reach, and the two findings.

## 6. Not modelled

Reads, HTTP decoding and error texts, configuration, metrics, the UI and seed data change no
state of interest; password hashing, token formats and webhook signatures are cryptography. No
code issues tickets or changes `users.status`. Flight status and departure are constants: no
code of this repository changes them. The lab fault in `HoldSeats` writes nothing. The
retention script is run by hand. A transaction that waits for a pooled connection holds
nothing, so the pool's size is left out.

## 7. Plan

1. `SeatInventory`, `Outbox` and their proofs (done).
2. `SeatTx`, `SeatOwnership`, `Delivery`, `Payments`, `Requests`, `OnceOnly`, `AuthSessions`,
   `Quotes`, and the proofs of two refinements (done).
3. Proofs of the invariants and action properties of all modules, of `KeptPromise` and of
   `Atomic` (done).
4. To do: a proof that the booking's side of `Payments` is what `SeatInventory` does to one
   booking, which today rests on reading the two side by side.
