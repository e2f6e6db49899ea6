# MeBike: verification models

TLA+ models of the MeBike server (`apps/server`), the back end of a bike-sharing
service, with TLC configurations that model-check them and TLAPS proofs about them.
Paths below are relative to the repository; `server/` abbreviates `apps/server/src/`.

## 1. The system

Two kinds of Node process share one PostgreSQL database: the HTTP server, and a worker
process (`server/worker/index.ts`) that dispatches the job outbox, runs the handlers of
the pg-boss queues and a set of cron jobs. Money enters and leaves through Stripe, which
is called from both and calls back by webhooks. Transactions run at READ COMMITTED
(`server/lib/effect/prisma-tx.ts`); rows are protected by conditional updates
(`UPDATE ... WHERE status = ...`), by partial unique indexes and, in two places, by
`SELECT ... FOR UPDATE`. Several HTTP requests, jobs and webhooks are in flight at once.

### Inventory

| Component | State | Operations | What is hard | What makes it correct | Status |
|---|---|---|---|---|---|
| Wallet withdrawals (`domain/wallets`) | `wallet_withdrawals`, holds, Stripe transfer and payout | request, execute job, payout webhook, SLA sweep | provider calls between transactions, lock with TTL, lost and repeated webhooks, sweep racing an execution | debited exactly once and only if paid; reserved balance = active holds; every started withdrawal closes | `Withdrawal`, proved |
| Wallet ledger and holds | `wallets.balance`, `reserved_balance`, `wallet_transactions`, `wallet_holds` | credit, debit, reserve, release | a cached sum updated by many transactions | never negative, never drifts | `Wallet`, `Escrow`; in part |
| Wallet top-ups | `payment_attempts`, Stripe session or intent | request, two webhooks, reconciliation sweep | events late, repeated, lost, out of order; sweep acting on an old answer; bounded batch | credited once, only if captured; captured money is found | `Topup`, proved |
| Reservations (`domain/reservations`) | `"Reservation"`, `"Bike".status`, rentals | reserve, confirm, cancel, refund, expire | read-validate-write at READ COMMITTED, shared bike status, station cap | one rental per bike, no stranded bike, no refund of a rental, cap at commit | `Reservation`, proved |
| Job outbox and queue (`infrastructure/jobs`) | `job_outbox`, pg-boss queues | enqueue in a transaction, claim, send, mark, reschedule | crash between send and mark, lock outlived by a slow batch | no job lost, copies need a cause, closed stays closed | `Outbox`, proved |
| Rentals and bike swaps (`domain/rentals`) | rentals, deposit holds, bike swap requests, `"Bike".status` | start, confirm return, overdue sweep, request, approve and reject a swap | sweep racing a return, forfeiture that must find its money, bikes written by id alone | deposit taken once and ended once, every ride ends, a bike stays with its rider | `Rental`, `Fleet`, proved |
| Return slots | places promised at a station, for a fee | create, replace, cancel, expire, use at return | the last free place without a station lock; a slot for a ride that has ended | overfilling bounded by what is in flight, every slot ends | `Rental`, proved |
| Fixed-slot reservations | templates, daily rows | daily assignment job | job run twice | one reservation per template and day | not modelled, section 7 |
| Redistribution (`domain/redistribution`) | requests, items, bikes | create, approve, reject, cancel, start, confirm, revert, expire | stale decisions, partial confirmation, expiry racing approval, bikes shared with rides and swaps | a bike in one request at most and with nobody else, COMPLETED means delivered, ended stays ended | `Fleet`, proved |
| Subscriptions | subscription rows, usage counter | buy, activate, use, expire | concurrent use of the last ride | usage never exceeds the package | `Rental`, in part |
| Incidents and technician teams | incidents, assignments | report, assign, start, resolve | starting replaces the bike of a ride | one open assignment | not modelled, section 7 |
| Pricing and coupons | rules | compute at return | rounding, boundaries | price within bounds | cutoff in `Rental` |
| Environment impact | statistics by rental | job | run twice | idempotent by rental id | not modelled |
| Agencies, stations, suppliers, bike administration | records | CRUD and approvals | little | | not modelled |
| Users, auth, NFC cards, ratings | records, tokens in Redis | CRUD, login | little shared state | | not modelled |
| HTTP, realtime, e-mail, push, AI assistant | none of its own | I/O | | | not modelled |
| IoT service, lock firmware | lock state | commands over MQTT | device I/O | | not modelled |
| Legacy backend (`apps/backend`), web and mobile clients | | | replaced by `apps/server`; user interfaces | | not modelled |

How they interact: a command of one component is one transaction that writes the rows of
several (a confirmation books the bike, inserts a rental, holds a deposit in the wallet)
and, in the same transaction, inserts outbox rows. The outbox hands those to pg-boss,
which calls the job handlers at least once. Crons call the sweeps. `PROJECT.json` lists
every component, and under `hazards` the places in the code where a test would hardly
reach, each with the property that covers it or the reason why none does.

## 2. Modules

How the code is mapped, in all modules:

- A transaction is one step: its conditional updates see the current rows and lock them
  until commit. What a handler has read *before* those updates, and a job or sweep before
  its transaction, is kept in variables of that handler and is stale when it is used.
- Calls to Stripe and to the queue are steps of their own between the transactions.
- A crash, a database deadlock victim, an unexpected error: the handler stops where it
  stands (`Abandon...`, `...Aborts`) and what it has committed remains.
- The queue may run a job at any time, again, or never. `Outbox` is where that comes from.

| Module | Role |
|---|---|
| `Wallet` | one wallet row; each SQL update as a function, its WHERE clause as a predicate |
| `Escrow` | abstract specification: money is held once and ends once, settled or returned |
| `Withdrawal` | the withdrawal saga; implements `Escrow` |
| `Topup` | payment attempts, Stripe objects and events, webhooks, sweep; uses `Wallet` |
| `Reservation` | reservations, bikes and rentals of one station, commands in two steps, expiry jobs |
| `Rental` | rentals with deposit, return slots, overdue sweep, subscription use; uses `Wallet`, implements `Escrow` |
| `Fleet` | rides, bike swaps and redistribution requests on the same bikes, expiry sweep |
| `Outbox` | outbox rows, dispatchers, locks |
| `MC*` | constants for TLC |
| `*Proofs` | TLAPS proofs, one module for each of the above with behaviour of its own; `StationProofs` has the one about `Rental` that counts places |

**Withdrawal.** `wallets`, `status`, `hold`, `debits`, `payoutSaved`, `createdAt`,
`updatedAt` are columns; `debits` are the ledger rows keyed by withdrawal; `payout` and
`transferred` are Stripe's side. `pc`, `job`, `startedAt` are executions of
`executeWithdrawalUseCase`: it captures the clock, locks the row (`MarkProcessing`), calls
Stripe twice and saves the payout id, and can stop between any two of these. `scanned` is
the list the sweep has read; `SweepRow` acts on it later. `SpendBalance` is all other
spending from the same wallet. Stripe's idempotency keys make a repeated call answer with
the first object. Amount validation, currency conversion, the e-mail and the user's
account status (either answer is possible) are abstracted.

**Topup.** The three steps of a request, the user's payment, Stripe's decision, webhooks
drawn from the set of events that exist (late, repeated, never), and the sweep: scan the
oldest `Limit` rows, retrieve, then act on the answer. `created`/`aged` order rows by
`created_at`. The branch for a missing wallet cannot be taken (an attempt refers to one),
and webhooks about intents that are not tracked change nothing.

**Reservation.** A command is `Prepare...` (validation on rows it has not locked) and
`Commit...` (all its writes). Reserving takes the station lock, counts available bikes and
then, in another statement, pending holds (`LockStation`, `CountStation`) before it
commits. The refund of a cancellation follows the commit. `expireJobs` are the delayed jobs
of the same transaction. Walk-up rentals and returns share the bikes. Not included:
subscription-paid reservations and the overnight window (they only choose the price or
refuse the command), staff variants (the same transactions), fixed slots, the DISABLED
bikes of the overdue sweep and staff edits of bike status, and payment, whose refusal is
a command that is abandoned.

**Rental.** One business day and its night, from the first start to the overdue sweep.
`status`, `hold`, `confirmed`, `subscribed`, `sub`, `used`, `bike`, `place` and `slot` are
columns; `cmd` is what a session has read in `PrepareStart`, `PrepareReturn` or
`PrepareSlot` and writes in the matching `Commit...`, where every WHERE clause and unique
index is evaluated. `CommitStart` uses the subscription, books the bike, inserts the rental
and reserves the deposit; `CommitReturn` releases it, debits a price from `Prices`, uses
up to the rest of the package for extra hours, inserts the confirmation and moves the bike;
`SweepOverdue` releases and debits the deposit and disables the bike. A slot has the time
from which it counts; it expires by its age, by the expiry worker's UPDATE or when night
begins. `Spend` and `UseElsewhere` are everything else that debits the wallet or uses the
subscription. Staff and agencies are refused at night; `BackDating` says whether an
administrator may send an earlier `confirmedAt`. How a price comes about, the customer's
account status and notifications are abstracted.

**Fleet.** Rides, swaps and redistribution requests write `bikes.status`, which does not
say for whom, mostly by the bike's id alone. A handler reads in `Prepare...` and writes in
`Commit...`; whatever it read may be wrong by then. `Room` is the count of return places
that a request is created and approved against. `PrepareArrival` sees as unconfirmed the
items whose bike is TRANSPORTING, whether or not they have a `delivered_at`; `full` is the
comparison of two list lengths that decides whether the request is complete, and since the
request body may name a bike twice (`Repeats`), it may be wrong either way. The sweep's
read and its two updates are steps of their own, and it may die between them. A return
frees a bike at any station: slots, capacity and money are left to `Rental`.

**Outbox.** Time appears as two flags that become true by themselves: `run_at` has come,
the lock has outlived its TTL. `Claim` is `claimOutboxJobs` on a batch; each job is sent
(`Send`, `SendFails`) and then recorded (`MarkSent`, `MarkSentFails`, `Reschedule`), where
every update matches only a row locked by this worker. Errors come in both kinds, with and
without effect. The queue is external: a job is accepted or not. The worker ids of
dispatchers that run together are taken to differ; they are process ids, so that is so on
one host.

## 3. Runs

| Run | Configuration | Shows |
|---|---|---|
| `withdrawal_race` | `MCWithdrawal` / `WithdrawalRace` | one withdrawal, two overlapping executions: types, exact ledger, debits only for paid payouts, the lock's exclusion, and that the sweep alone closes every PROCESSING row |
| `withdrawal_contention` | `WithdrawalContention` | two withdrawals and other spending on one wallet: reserved = active holds, settlement always finds its money, refinement of `Escrow` |
| `withdrawal_doc` | `WithdrawalDoc` | violation, see finding 1 |
| `topup_race` | `MCTopup` / `TopupRace` | a Checkout Session and a PaymentSheet: exact ledger, credit only if captured, captured payments are reconciled |
| `topup_retry`, `topup_starved` | `TopupRetry`, `TopupStarved` | violations, findings 4 and 5 |
| `reservation_race` | `MCReservation` / `ReservationRace` | two users, two bikes, three reservations, two commands in flight: rentals match bikes, no stranded bike, nothing both refunded and rented, holds lost only to stale commands, ended stays ended, station cap |
| `reservation_lock`, `reservation_expiry` | `ReservationLock`, `ReservationExpiry` | violations, findings 2 and 3 |
| `rental_race` | `MCRental` / `RentalRace` | two customers, three rentals of two bikes, a station with one place, two sessions, a day and its night: deposits are exactly what is reserved, rental, hold, confirmation and bike agree, a ride ends once, packages are not exceeded, stations are overfilled by at most one, refinement of `Escrow`, every ride and every slot ends |
| `fleet_race` | `MCFleet` / `FleetRace` | two bikes, two rides, a swap, two requests, two sessions and the sweep: who has a bike keeps it, COMPLETED means delivered, ended stays ended, each but for named disturbances |
| `outbox_dispatch` | `MCOutbox` / `OutboxDispatch` | two dispatchers, two rows: SENT means queued, copies need a lapse, every row closes, closed rows stay closed |

**Bounds.** Races need two actors and one thing they race for; the instances have those and
a third (a second withdrawal, a reservation of another bike, the sweep) that competes with
the outcome. Clocks stop at `MaxTime`, chosen so that an SLA, then a TTL, or a hold, can
pass after the last row is created (`RequestWithdrawal` and `LastStart` say so). The
withdrawal runs keep the order of the defaults, SLA 1 minute shorter than lock TTL 2
minutes. `TopupRace` has a sweep limit that is not exhausted (2 of 2), `TopupStarved` one
that is (1 of 2; the code has 100). `Outbox` has no clock and saturating counters, so its
behaviours are not cut off at all; its two rows have different keys, so that both can be
active, and that a key is never active twice is proved for any assignment of keys (the 4,267
states of two rows with one key satisfy it as well). `RentalRace` has one step of time
before the night and one slot length, so that a slot can expire, a return can be prepared by
day and committed at night, and the sweep finds rides of either kind; in a package of two
uses the second is contested by a start or long return of the subscriber and by uses
elsewhere; station B has one place; the third rental wants the first one's bike and the
second one's customer. The first customer can pay for a ride, the second also for one
slot. It has 180,173 states. Four larger instances are too slow for everyday use: the same
with a package of one use and money for a slot for both customers (223,948 states) or of
two uses (420,022), which hold as well, and, checked for safety only, three rentals with
money for a second ride (265,710 states up to symmetry) and two rentals with money for two
slots and slots at both stations, so that a slot is replaced by one elsewhere (617,846).
`FleetRace` admits two rows (`MaxRows`) out
of two rides and two requests, which leaves all pairs: two requests for one bike, a ride and
a request, two rides; the swap belongs to the first ride. `MinLeft` is 0, since ten bikes
that must remain only make requests rarer. stA has room for one bike and stB for two, and
stA is the station that may name a bike twice. It has 1,491,270 states up to the symmetry of
bikes, sessions and requests. Two larger instances that take too long for everyday use hold
too: room for two bikes at both stations (2,259,886 states), and one request, two rides, a
swap and three rows, where both stations may name a bike twice (5,929,234 states). Sessions
and dispatchers are symmetric in the runs that check safety only.

**Fairness.** *Withdrawal:* time passes, Stripe decides every payout, the sweep is a cron
job (weak), and a row the sweep reads again and again is one day handled (strong, since one
provider error ends a sweep). Nothing of webhooks or executions, because the queue retries
only a few times. *Topup:* time, the sweep and its rows likewise, nothing of users, Stripe
or webhooks. *Reservation:* time passes and a due job is delivered. *Rental:* time passes,
and the slot expiry worker and the overdue sweep, which are cron jobs and go on to the next
row after an error, run (weak); nothing of riders, operators or sessions. *Fleet:* none, and
no liveness: nothing in the code makes a request or a swap end. *Outbox:* time passes,
dispatchers poll, calls return (weak), and not every attempt at a row is cut off by a crash
or a lock that lapses meanwhile (strong); sending may fail for ever.

**Deadlock** is checked for reservations and top-ups, where something can always happen.
Withdrawals and the outbox really stop when every row is closed and the money is spent, a
rental's day ends, and the fleet's bikes can all be broken or disabled with no row left to
insert: their configurations say `CHECK_DEADLOCK FALSE`.

Every property of a passing run has a mutant in `PROJECT.json`: a changed definition, the
way a plausible bug would change it, with which TLC finds the property violated.

**What the fleet properties say.** The three `...BikeIsKept` properties cannot hold as they
stand, since the code writes by id after an unlocked read. They say that a bike in order
(ridden, carried or free, with the status that fits and one taker at most) stays in order
unless a step *disturbs* it, and `Disturbs` and `SweepDisturbs` list when: which command,
for which bike, after which change since it read. The list is exact: with any clause of it
removed TLC finds a violation, in this run or, for two clauses, in an instance beside it (a
request that a repeated bike completes too early needs two bikes on their way to a station
of `Repeats`, as in the instance with one request above; a swap approved twice needs a third
bike and was tried with three bikes, three rows and no requests). So the list is the
catalogue of races of these handlers, and the properties say that there is no other.

## 4. Findings

1. **A payout for a FAILED withdrawal** (`withdrawal_doc`). The sweep fails a PROCESSING row
   without payout id one SLA after it was *created*, while its execution may be between
   Stripe calls; the hold is released, the payout goes out.
2. **A hold does not keep its bike** (`reservation_lock`). Confirm and cancel overwrite the
   reservation's status without testing it and ask only whether the bike is RESERVED, not
   for whom. A stale confirm takes the bike of another user's new hold.
3. **A hold that never expires** (`reservation_expiry`). The expiry job counts a hold with
   `endTime <= now` as due, the update needs `endTime < now`. A job that runs in that very
   millisecond is consumed without effect; so is one whose host's clock is at or behind the
   hold's end while the database's, which released the job, is ahead.
4. **Money captured for a FAILED top-up** (`topup_retry`). A decline, or the sweep finding an
   intent that still waits for a payment method, fails the attempt; Stripe allows the
   payment afterwards and then nothing credits it.
5. **A sweep that starves** (`topup_starved`). Rows without provider reference are never
   closed, and the sweep reads the oldest ones first, up to its limit.

Seen while modelling, and described here without a run of their own:

- A request body that names a bike twice completes a redistribution request that has bikes
  on the road (`redistribution.service.ts:1048` compares lengths;
  `contracts/server/redistribution/README.md` promises partial completion "if only a subset
  of requested bikes are successfully delivered"). The bikes stay TRANSPORTING for ever.
  `Disturbs` has the clause.
- The same README has "only one active (non-terminal) redistribution request" per source
  station. `getIncompletedRequestAt` is read outside the transaction and no index backs it,
  so two requests created together both go through.
- `docs/database/rental-reservation-pricing-implementation-notes.md` calls a return at
  exactly 23:00:00 on time and lets a later one complete with its deposit forfeited. The
  code takes 23:00:00 itself for late (`isAtOrAfterLateReturnCutoff`) and refuses returns
  of staff and agencies from then on; the forfeiture is the sweep's.

## 5. Proofs

`tlapm` checks every step; the theorems hold for any sets of users, rows, workers, bikes
and dispatchers, any amounts and any bounds, under the named `ASSUME`s, which say that the
constants have their types, that sentinels differ from real values, that `SumOf`
satisfies the equations of a sum, and of `Rental` that rentals, bikes and sessions are
finitely many and that the morning finds no station fuller than a day can leave it. TLC
evaluates them for the instances.

| Module | Proved | Why the properties are not inductive alone |
|---|---|---|
| `WithdrawalProofs` | `TypeOK`, `ReservedIsActiveHolds`, `LedgerExact`, `SettlementNeverBlocked`, `DebitedOnlyIfPaid`, `LockExclusion`, refinement of `Escrow`, `ProcessingCloses` | a settled hold must match a SUCCEEDED row and an active one an open row; an execution past the lock started a TTL before the next; a payout id is saved only for a payout that exists |
| `TopupProofs` | `TypeOK`, `LedgerExact`, `CreditedOnlyIfCaptured`, `CapturedIsReconciled` | the sweep holds an answer of Stripe across steps: captured payments never leave that state |
| `ReservationProofs` | `TypeOK`, `BookedIsRented`, `NoStrandedBike`, `RefundedNotRented`, `HoldLostOnlyToStale`, `EndedIsFinal`, `CapHoldsAtCommit` | what a command validated bounds what its rows can have become; while the station is locked, the holds can only have shrunk since they were counted |
| `RentalProofs` | `TypeOK`, `DepositIsReserved`, `BooksAgree`, `UsageWithinMax`, `EndsOnce`, refinement of `Escrow`, `EveryRentalEnds`, `EverySlotEnds` | a customer has one RENTED rental at most, so the reserved sum is one deposit; what a start in flight has read says its row does not exist yet |
| `StationProofs` | `OvershootIsBounded` | a return to the place its own slot keeps is admitted without room, and the slot may lapse before the return is written: a rental with a slot, a return on its way, or both claims one place, and a slot about to be written one more |
| `FleetProofs` | `TypeOK`, `RiddenBikeIsKept`, `CarriedBikeIsKept`, `FreeBikeIsKept`, `CompletedIsDelivered`, `EndedIsFinal` | what each command has read of its request or ride was true and can have changed in few ways; nothing is delivered before a request is approved, and only its items; no two rides have one bike |
| `OutboxProofs` | `TypeOK`, `SentIsQueued`, `OnceUnlessLapsed`, `ClosedIsFinal`, `EveryJobCloses` | while no lock of a job lapsed, whoever works on it holds its lock, and where the job stands tells whether it was queued |

Each proof module has an invariant `IInv`, lemmas for what one kind of step does to one
part of it, the theorem `Invariance`, and one theorem per property.

The fleet's bike properties are action properties over states that need not be in order, so
their proofs go by command: for each commit, what it does to a bike it names, and that it
leaves every other bike as it is.

**Liveness.** The provers cannot reason about `ENABLED`, which is inside `WF_` and `SF_`, and
have no induction over data. So the liveness theorems do not start from `FairSpec`. They
say: `Spec`, and the hypotheses below, imply the property.

- Fairness, with the guard of the action written out where `WF_` and `SF_` have `ENABLED`
  (`SweepRuns`, `ExpiryRuns`, `ScanRuns`, `StripeDecides`, `RowIsHandled`, `JobIsHandled`).
  Each is as strong as the conjunct of `Fairness` it stands for and no stronger, so nothing
  of executions, webhooks, riders or dispatchers that `FairSpec` leaves free is assumed.
- What would take an induction over the clock, over the sweep's list or over attempts:
  the clock reaches its bound or the night (`DayEnds`, `NightComes`, `SlotsPass`), a row
  grows old (`GrowsOld`), a sweep or a batch comes to its end (`SweepRunsEnd`,
  `BatchesEnd`), attempts stop changing at some time (`AttemptsSettle`).
- `BacklogFits` for top-ups, which is no fairness but a limit of the code: the proof does not
  go through without it, and finding 5 is why. `EnoughLimit` proves it where the sweep's
  limit is at least the number of attempts.

| Property | What the proof finds |
|---|---|
| `ProcessingCloses` | once the day is over and Stripe has decided, whatever the sweep has read of a row suffices to close it, since settling is never blocked (`IInv`) and a row is read as having a payout only if it has one (`SweepInv`) |
| `CapturedIsReconciled` | a captured payment stays captured, has its reference (`PaidInv`), and is in every list once it is old; an answer asked for after the capture says so |
| `EveryRentalEnds` | at night the sweep can end any ride, because reserved money is the ride's deposit |
| `EverySlotEnds` | from the night on no slot is promised (`SlotInv`), also by a request that read the ride by day |
| `EveryJobCloses` | a row is due, unlocked, claimed, sent and recorded again, or its lock lapses; every claim uses up an attempt, and the claim that finds none left closes the row when recorded |

On the instances `WithdrawalRace`, `TopupRace`, `RentalRace` and `OutboxDispatch` TLC
confirmed that every guard equals `ENABLED <<A>>_vars` in all reachable states, and that
`FairSpec` satisfies every hypothesis.

**Only model-checked:** that the hypotheses above follow from `FairSpec`, for the reasons
given; the findings; and that the lists of disturbances in `Fleet` are not longer than they
need be.

## 6. Plan

Done: `Wallet`, `Escrow`, `Withdrawal`, `Reservation`, `Topup`, `Outbox`, `Rental`, `Fleet`.
What would come next:

1. An abstract specification of `Fleet` in which a bike has an owner, with the handlers as
   its refinement on behaviours without disturbances.
2. Payments of `Reservation` on `Wallet`, composed with `Rental`.

## 7. Not modelled

- **Fixed-slot reservations.** Each template's assignment is the reserve command's
  transaction (station lock, cap, conditional bike update, insert), which `Reservation`
  models; one per template and start is a unique index. A second worker's stale e-mail is
  named by a comment in `fixed-slot.assignment.ts`.
- **Incidents.** Starting one replaces the ride's bike by id after an unlocked read, as an
  approved swap does. A third command of that kind beside swaps and requests takes `Fleet`
  beyond what TLC explores in minutes. Reports and assignments follow single rows.
- **Buying a subscription.** One check and one insert; the check is not backed by an index,
  and `Rental` gives each customer one subscription at most.
- **Prices, coupons, policies.** Sequential arithmetic over stored rules; what is checked
  about money holds for any price.
- **Manual ledger entries, agencies, stations, suppliers, edits of bikes by staff,
  users, ratings, NFC cards.** Records edited by one request each.
- **HTTP, realtime, e-mail, push, AI assistant, IoT, lock firmware, clients.** Input and
  output; they change state through the commands that are modelled.
- **`apps/backend`.** The earlier implementation that `apps/server` replaces.
