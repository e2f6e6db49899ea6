----------------------------- MODULE Withdrawal -----------------------------
(***************************************************************************)
(* The withdrawal saga: wallet rows, withdrawal rows and holds in the      *)
(* database; job executions that call Stripe between their transactions;   *)
(* Stripe payouts and their webhooks; and the periodic sweep.              *)
(*                                                                         *)
(* A database transaction runs at READ COMMITTED and its conditional       *)
(* updates hold row locks until commit, so a transaction is one step that  *)
(* evaluates its WHERE clauses on the current rows.  Anything a handler    *)
(* read before its transaction is kept in the handler's own variables.     *)
(*                                                                         *)
(* A withdrawal is identified by its idempotency key (a unique column), so *)
(* a second request with the same key is a transaction that aborts.        *)
(***************************************************************************)
EXTENDS Wallet

CONSTANTS
    Users,           \* one wallet each
    Withdrawals,     \* idempotency keys
    Workers,         \* concurrent executions of wallets.withdraw.execute
    NoWithdrawal,    \* what an idle worker works on
    Owner,           \* [Withdrawals -> Users]
    Amount,          \* [Withdrawals -> amounts]
    InitialBalance,  \* [Users -> Nat]
    SumOf,           \* the SQL aggregate SUM(amount) over a set of holds
    Sla,             \* WITHDRAWAL_SLA_MINUTES
    ProcessingTtl,   \* WITHDRAWAL_PROCESSING_TTL_MINUTES
    MaxTime          \* bound: the clock stops here

ASSUME AmountAssumption ==
    /\ Owner \in [Withdrawals -> Users]
    /\ Amount \in [Withdrawals -> Nat \ {0}]
    /\ InitialBalance \in [Users -> Nat]
    /\ NoWithdrawal \notin Withdrawals

ASSUME TimeAssumption ==
    /\ Sla \in Nat
    /\ ProcessingTtl \in Nat \ {0}
    /\ MaxTime \in Nat

\* SumOf is the only function with these two equations; a model gives it by
\* a fold, and the proofs use nothing else about it.
ASSUME SumAssumption ==
    /\ SumOf \in [SUBSET Withdrawals -> Nat]
    /\ SumOf[{}] = 0
    /\ \A S \in SUBSET Withdrawals : \A w \in Withdrawals \ S :
          SumOf[S \cup {w}] = SumOf[S] + Amount[w]

VARIABLES
    wallets,      \* [Users -> WalletRow]
    debits,       \* withdrawals with a DEBIT row in wallet_transactions (hash unique)
    spent,        \* [Users -> Nat]: sum of the wallet's other DEBIT rows
    status,       \* wallet_withdrawals.status, "NONE" before the row exists
    payoutSaved,  \* wallet_withdrawals.stripe_payout_id is set
    createdAt,    \* wallet_withdrawals.created_at
    updatedAt,    \* wallet_withdrawals.updated_at while PROCESSING
    hold,         \* wallet_holds.status of the withdrawal's hold
    payout,       \* Stripe: the payout made with this withdrawal's key
    transferred,  \* Stripe: the transfer made with this withdrawal's key
    pc,           \* [Workers -> where the execution stands]
    job,          \* [Workers -> the withdrawal it executes]
    startedAt,    \* [Workers -> the "now" it captured first]
    scanned,      \* the sweep's list: rows it read and has still to handle
    now

dbVars     == <<wallets, debits, spent, status, payoutSaved, createdAt, updatedAt, hold>>
stripeVars == <<payout, transferred>>
workerVars == <<pc, job, startedAt>>
vars       == <<dbVars, stripeVars, workerVars, scanned, now>>

Open     == {"PENDING", "PROCESSING"}
Closed   == {"SUCCEEDED", "FAILED"}
Statuses == {"NONE"} \cup Open \cup Closed
Holds    == {"NONE", "ACTIVE", "RELEASED", "SETTLED"}
Payouts  == {"none", "pending", "paid", "failed"}

\* An execution is between calls: before its own transaction ("locking",
\* "rejecting") or inside the section that talks to Stripe.
ProviderSection == {"transferring", "paying", "saving"}
WorkerPcs       == {"idle", "locking", "rejecting"} \cup ProviderSection

\* What the sweep saw of a row: not read, read without or with a payout id.
ScanMarks == {"no", "withoutPayout", "withPayout"}

Init ==
    /\ wallets = [u \in Users |-> [balance |-> InitialBalance[u], reserved |-> 0]]
    /\ debits = {}
    /\ spent = [u \in Users |-> 0]
    /\ status = [w \in Withdrawals |-> "NONE"]
    /\ payoutSaved = [w \in Withdrawals |-> FALSE]
    /\ createdAt = [w \in Withdrawals |-> 0]
    /\ updatedAt = [w \in Withdrawals |-> 0]
    /\ hold = [w \in Withdrawals |-> "NONE"]
    /\ payout = [w \in Withdrawals |-> "none"]
    /\ transferred = [w \in Withdrawals |-> FALSE]
    /\ pc = [k \in Workers |-> "idle"]
    /\ job = [k \in Workers |-> NoWithdrawal]
    /\ startedAt = [k \in Workers |-> 0]
    /\ scanned = [w \in Withdrawals |-> "no"]
    /\ now = 0

-----------------------------------------------------------------------------
(* Transactions on a withdrawal row.                                       *)

\* requestWithdrawalInTransaction: row, reservation, hold and outbox job in
\* one transaction.  Without the money, or with a key already used, it aborts.
\* The user's Stripe account is read outside it and may change at any time.
\* Bound: a row is created early enough for its SLA to pass before MaxTime.
RequestWithdrawal(w) ==
    /\ status[w] = "NONE"
    /\ CanReserve(wallets[Owner[w]], Amount[w])
    /\ now + Sla <= MaxTime
    /\ status' = [status EXCEPT ![w] = "PENDING"]
    /\ wallets' = [wallets EXCEPT ![Owner[w]] = Reserve(@, Amount[w])]
    /\ hold' = [hold EXCEPT ![w] = "ACTIVE"]
    /\ createdAt' = [createdAt EXCEPT ![w] = now]
    /\ UNCHANGED <<debits, spent, payoutSaved, updatedAt, stripeVars, workerVars, scanned, now>>

\* Mutant: the result of markFailed is not looked at.
MutFailAndReleaseHold(w) ==
    /\ status' = [status EXCEPT ![w] = "FAILED"]
    /\ wallets' = [wallets EXCEPT ![Owner[w]] = Release(@, Amount[w])]
    /\ hold' = [hold EXCEPT ![w] = IF @ = "ACTIVE" THEN "RELEASED" ELSE @]
    /\ UNCHANGED <<debits, spent, payoutSaved, createdAt, updatedAt>>

\* markFailedAndReleaseHold: only a row still PENDING or PROCESSING is failed.
FailAndReleaseHold(w) ==
    /\ IF status[w] \in Open
         THEN /\ status' = [status EXCEPT ![w] = "FAILED"]
              /\ wallets' = [wallets EXCEPT ![Owner[w]] = Release(@, Amount[w])]
              /\ hold' = [hold EXCEPT ![w] = IF @ = "ACTIVE" THEN "RELEASED" ELSE @]
         ELSE UNCHANGED <<status, wallets, hold>>
    /\ UNCHANGED <<debits, spent, payoutSaved, createdAt, updatedAt>>

\* Mutants: the settling transaction checks nothing; it debits without releasing.
MutCanSettle(w) == status[w] # "NONE"

MutSucceedAndSettle(w) ==
    /\ status[w] \in Open /\ CanDebit(wallets[Owner[w]], Amount[w])
    /\ status' = [status EXCEPT ![w] = "SUCCEEDED"]
    /\ payoutSaved' = [payoutSaved EXCEPT ![w] = TRUE]
    /\ wallets' = [wallets EXCEPT ![Owner[w]] = Debit(@, Amount[w])]
    /\ hold' = [hold EXCEPT ![w] = "SETTLED"]
    /\ debits' = debits \cup {w}
    /\ UNCHANGED <<spent, createdAt, updatedAt>>

\* markSucceededAndSettle: release, settle, debit.  A debit that is refused,
\* for want of money or because its hash exists, aborts the transaction.
CanSettle(w) ==
    /\ status[w] \in Open
    /\ CanDebit(Release(wallets[Owner[w]], Amount[w]), Amount[w])
    /\ w \notin debits

SucceedAndSettle(w) ==
    /\ IF CanSettle(w)
         THEN /\ status' = [status EXCEPT ![w] = "SUCCEEDED"]
              /\ payoutSaved' = [payoutSaved EXCEPT ![w] = TRUE]
              /\ wallets' = [wallets EXCEPT ![Owner[w]] =
                                 Debit(Release(@, Amount[w]), Amount[w])]
              /\ hold' = [hold EXCEPT ![w] = IF @ = "ACTIVE" THEN "SETTLED" ELSE @]
              /\ debits' = debits \cup {w}
         ELSE UNCHANGED <<status, payoutSaved, wallets, hold, debits>>
    /\ UNCHANGED <<spent, createdAt, updatedAt>>

\* Any other debit of the wallet: rental prices, reservation fees, passes.
SpendBalance(u) ==
    /\ \E a \in 1..Available(wallets[u]) :
          /\ wallets' = [wallets EXCEPT ![u] = Debit(@, a)]
          /\ spent' = [spent EXCEPT ![u] = @ + a]
    /\ UNCHANGED <<debits, status, payoutSaved, createdAt, updatedAt, hold>>
    /\ UNCHANGED <<stripeVars, workerVars, scanned, now>>

-----------------------------------------------------------------------------
(* executeWithdrawalUseCase.                                               *)

\* Mutant: staleness measured from created_at, which the lock does not renew.
MutStale(w, at) == createdAt[w] <= at - ProcessingTtl

Stale(w, at) == updatedAt[w] <= at - ProcessingTtl
Lockable(w, at) ==
    \/ status[w] = "PENDING"
    \/ status[w] = "PROCESSING" /\ Stale(w, at)

SetWorker(k, place) == pc' = [pc EXCEPT ![k] = place]
Stop(k) ==
    /\ SetWorker(k, "idle")
    /\ job' = [job EXCEPT ![k] = NoWithdrawal]
    /\ startedAt' = [startedAt EXCEPT ![k] = 0]

\* The queue delivers the job at least once: an idle worker may pick up any
\* withdrawal that exists.  It captures the clock and reads the row; a row that
\* is closed or freshly locked ends the execution at once.  The user row decides
\* whether the execution goes on to lock the withdrawal or to reject it.
StartExecution(k, w) ==
    /\ pc[k] = "idle"
    /\ status[w] # "NONE"
    /\ Lockable(w, now)
    /\ \E place \in {"locking", "rejecting"} : SetWorker(k, place)
    /\ job' = [job EXCEPT ![k] = w]
    /\ startedAt' = [startedAt EXCEPT ![k] = now]
    /\ UNCHANGED <<dbVars, stripeVars, scanned, now>>

\* markFailedAndReleaseHold for an unusable account or a terminal provider error.
RejectExecution(k) ==
    /\ pc[k] = "rejecting"
    /\ FailAndReleaseHold(job[k])
    /\ Stop(k)
    /\ UNCHANGED <<stripeVars, scanned, now>>

\* markProcessing with the staleBefore computed when the execution started.
MarkProcessing(k) ==
    /\ pc[k] = "locking"
    /\ IF Lockable(job[k], startedAt[k])
         THEN /\ status' = [status EXCEPT ![job[k]] = "PROCESSING"]
              /\ updatedAt' = [updatedAt EXCEPT ![job[k]] = now]
              /\ SetWorker(k, "transferring")
              /\ UNCHANGED <<job, startedAt>>
         ELSE /\ Stop(k)
              /\ UNCHANGED <<status, updatedAt>>
    /\ UNCHANGED <<wallets, debits, spent, payoutSaved, createdAt, hold, stripeVars, scanned, now>>

\* createTransfer and createPayout carry keys derived from the withdrawal's, so
\* Stripe answers a repeated call with the object it made the first time.
CreateTransfer(k) ==
    /\ pc[k] = "transferring"
    /\ transferred' = [transferred EXCEPT ![job[k]] = TRUE]
    /\ SetWorker(k, "paying")
    /\ UNCHANGED <<dbVars, payout, job, startedAt, scanned, now>>

CreatePayout(k) ==
    /\ pc[k] = "paying"
    /\ payout' = [payout EXCEPT ![job[k]] = IF @ = "none" THEN "pending" ELSE @]
    /\ SetWorker(k, "saving")
    /\ UNCHANGED <<dbVars, transferred, job, startedAt, scanned, now>>

\* balance_insufficient from either call: terminal once the SLA has passed.
ProviderBalanceInsufficient(k) ==
    LET w == job[k] IN
    /\ \/ pc[k] = "transferring" /\ ~transferred[w]
       \/ pc[k] = "paying" /\ payout[w] = "none"
    /\ startedAt[k] - createdAt[w] >= Sla
    /\ SetWorker(k, "rejecting")
    /\ UNCHANGED <<dbVars, stripeVars, job, startedAt, scanned, now>>

\* setStripeRefs: only a row still PROCESSING takes the payout id.
SaveStripeRefs(k) ==
    /\ pc[k] = "saving"
    /\ IF status[job[k]] = "PROCESSING"
         THEN /\ payoutSaved' = [payoutSaved EXCEPT ![job[k]] = TRUE]
              /\ updatedAt' = [updatedAt EXCEPT ![job[k]] = now]
         ELSE UNCHANGED <<payoutSaved, updatedAt>>
    /\ Stop(k)
    /\ UNCHANGED <<wallets, debits, spent, status, createdAt, hold, stripeVars, scanned, now>>

\* Any other provider error, a lost answer, a database error or a crash ends the
\* execution where it stands; the queue may deliver the job again.
AbandonExecution(k) ==
    /\ pc[k] # "idle"
    /\ Stop(k)
    /\ UNCHANGED <<dbVars, stripeVars, scanned, now>>

-----------------------------------------------------------------------------
(* Stripe and its webhooks.                                                *)

PayoutTerminates(w) ==
    /\ payout[w] = "pending"
    /\ \E outcome \in {"paid", "failed"} : payout' = [payout EXCEPT ![w] = outcome]
    /\ UNCHANGED <<dbVars, transferred, workerVars, scanned, now>>

\* payout.paid and payout.failed/canceled may arrive late, again, or never.
\* The row is looked up by payout id; an unknown id is answered "missing".
PayoutWebhook(w) ==
    /\ payoutSaved[w]
    /\ \/ payout[w] = "paid" /\ SucceedAndSettle(w)
       \/ payout[w] = "failed" /\ FailAndReleaseHold(w)
    /\ UNCHANGED <<stripeVars, workerVars, scanned, now>>

-----------------------------------------------------------------------------
(* sweepWithdrawalsUseCase: one query, then the rows one by one.           *)

Sweepable(w) == status[w] = "PROCESSING" /\ createdAt[w] <= now - Sla
SweepIdle == \A w \in Withdrawals : scanned[w] = "no"

SweepScan ==
    /\ SweepIdle
    /\ \E w \in Withdrawals : Sweepable(w)
    /\ scanned' = [w \in Withdrawals |->
                      IF ~Sweepable(w) THEN "no"
                      ELSE IF payoutSaved[w] THEN "withPayout" ELSE "withoutPayout"]
    /\ UNCHANGED <<dbVars, stripeVars, workerVars, now>>

\* Mutants: a payout that has not failed yet is taken for paid; a row without a
\* payout id is skipped instead of failed.
MutSweepRowTrusts(w) ==
    /\ \/ scanned[w] = "withoutPayout" /\ FailAndReleaseHold(w)
       \/ scanned[w] = "withPayout" /\ payout[w] # "failed" /\ SucceedAndSettle(w)
       \/ scanned[w] = "withPayout" /\ payout[w] = "failed" /\ FailAndReleaseHold(w)
    /\ scanned' = [scanned EXCEPT ![w] = "no"]
    /\ UNCHANGED <<stripeVars, workerVars, now>>

MutSweepRowSkips(w) ==
    /\ \/ scanned[w] = "withoutPayout" /\ UNCHANGED dbVars
       \/ scanned[w] = "withPayout" /\ payout[w] = "paid" /\ SucceedAndSettle(w)
       \/ scanned[w] = "withPayout" /\ payout[w] = "failed" /\ FailAndReleaseHold(w)
       \/ scanned[w] = "withPayout" /\ payout[w] = "pending" /\ UNCHANGED dbVars
    /\ scanned' = [scanned EXCEPT ![w] = "no"]
    /\ UNCHANGED <<stripeVars, workerVars, now>>

\* A row read without a payout id is failed as timed out; for the others the
\* payout is retrieved, and a terminal one decides.  A withdrawal is requested
\* with a Stripe account and an account id is never cleared, so the branch for a
\* missing account is not taken.
SweepRow(w) ==
    /\ \/ scanned[w] = "withoutPayout" /\ FailAndReleaseHold(w)
       \/ scanned[w] = "withPayout" /\ payout[w] = "paid" /\ SucceedAndSettle(w)
       \/ scanned[w] = "withPayout" /\ payout[w] = "failed" /\ FailAndReleaseHold(w)
       \/ scanned[w] = "withPayout" /\ payout[w] = "pending" /\ UNCHANGED dbVars
    /\ scanned' = [scanned EXCEPT ![w] = "no"]
    /\ UNCHANGED <<stripeVars, workerVars, now>>

\* retrievePayout or a transaction fails, or the process dies: the rest of the
\* list is not handled in this run.
SweepAborts ==
    /\ ~SweepIdle
    /\ scanned' = [w \in Withdrawals |-> "no"]
    /\ UNCHANGED <<dbVars, stripeVars, workerVars, now>>

-----------------------------------------------------------------------------
Tick ==
    /\ now < MaxTime
    /\ now' = now + 1
    /\ UNCHANGED <<dbVars, stripeVars, workerVars, scanned>>

Next ==
    \/ \E w \in Withdrawals :
          \/ RequestWithdrawal(w)
          \/ PayoutTerminates(w)
          \/ PayoutWebhook(w)
          \/ SweepRow(w)
          \/ \E k \in Workers : StartExecution(k, w)
    \/ \E k \in Workers :
          \/ RejectExecution(k)
          \/ MarkProcessing(k)
          \/ CreateTransfer(k)
          \/ CreatePayout(k)
          \/ ProviderBalanceInsufficient(k)
          \/ SaveStripeRefs(k)
          \/ AbandonExecution(k)
    \/ \E u \in Users : SpendBalance(u)
    \/ SweepScan
    \/ SweepAborts
    \/ Tick

Spec == Init /\ [][Next]_vars

\* Time passes, Stripe decides every payout, the sweep is a scheduled job, and
\* a row the sweep reads again and again is one day handled (retrievePayout does
\* not fail for ever).  Nothing is assumed of webhooks or job executions.
Fairness ==
    /\ WF_vars(Tick)
    /\ WF_vars(SweepScan)
    /\ \A w \in Withdrawals : WF_vars(PayoutTerminates(w)) /\ SF_vars(SweepRow(w))

FairSpec == Spec /\ Fairness

-----------------------------------------------------------------------------
(* Correctness.                                                            *)

\* Type invariant of the database rows, Stripe's objects and the processes.
TypeOK ==
    /\ wallets \in [Users -> WalletRow]
    /\ debits \in SUBSET Withdrawals
    /\ spent \in [Users -> Nat]
    /\ status \in [Withdrawals -> Statuses]
    /\ payoutSaved \in [Withdrawals -> BOOLEAN]
    /\ createdAt \in [Withdrawals -> Nat]
    /\ updatedAt \in [Withdrawals -> Nat]
    /\ hold \in [Withdrawals -> Holds]
    /\ payout \in [Withdrawals -> Payouts]
    /\ transferred \in [Withdrawals -> BOOLEAN]
    /\ pc \in [Workers -> WorkerPcs]
    /\ job \in [Workers -> Withdrawals \cup {NoWithdrawal}]
    /\ \A k \in Workers : pc[k] = "idle" \/ job[k] \in Withdrawals
    /\ startedAt \in [Workers -> Nat]
    /\ scanned \in [Withdrawals -> ScanMarks]
    /\ now \in 0..MaxTime

ActiveHolds(u) == {w \in Withdrawals : Owner[w] = u /\ hold[w] = "ACTIVE"}
DebitsOf(u)    == {w \in debits : Owner[w] = u}

\* reserved_balance is a cached SUM over the ACTIVE holds of the wallet: two
\* tables that five transactions update separately never drift apart, whichever
\* of worker, webhook and sweep closes the withdrawal, and however often.
ReservedIsActiveHolds == \A u \in Users : wallets[u].reserved = SumOf[ActiveHolds(u)]

\* Every unit that left the balance is explained by a ledger row, and a
\* withdrawal has its DEBIT row exactly when it SUCCEEDED: late webhooks and
\* repeated sweeps never debit twice and a failed withdrawal is never debited.
LedgerExact ==
    /\ \A u \in Users :
          wallets[u].balance + spent[u] + SumOf[DebitsOf(u)] = InitialBalance[u]
    /\ debits = {w \in Withdrawals : status[w] = "SUCCEEDED"}

\* What is reserved for an open withdrawal is still there when its payout ends:
\* no interleaving with other spending or other withdrawals makes the settling
\* transaction fail with InsufficientWalletBalance after Stripe has paid out.
SettlementNeverBlocked ==
    /\ \A u \in Users : wallets[u].reserved <= wallets[u].balance
    /\ \A w \in Withdrawals :
          status[w] \in Open => CanSettle(w) /\ CanRelease(wallets[Owner[w]], Amount[w])

\* The owner's balance is debited only for a payout that Stripe really paid.
DebitedOnlyIfPaid == \A w \in debits : payout[w] = "paid" /\ transferred[w]

\* The PROCESSING lock: of two executions that talk to Stripe for one withdrawal
\* at the same time, one started at least a whole TTL after the other.
LockExclusion ==
    \A k, l \in Workers :
        /\ k # l
        /\ pc[k] \in ProviderSection /\ pc[l] \in ProviderSection
        /\ job[k] = job[l]
        => \/ startedAt[k] + ProcessingTtl <= startedAt[l]
           \/ startedAt[l] + ProcessingTtl <= startedAt[k]

\* The saga implements the escrow: a withdrawal's money is held once and ends
\* once, settled or returned, and nothing else touches what is held.
Phase(w) == CASE hold[w] = "NONE"     -> "none"
              [] hold[w] = "ACTIVE"   -> "held"
              [] hold[w] = "SETTLED"  -> "settled"
              [] hold[w] = "RELEASED" -> "returned"

EscrowOf == INSTANCE Escrow WITH
    Items            <- Withdrawals,
    InitialAvailable <- InitialBalance,
    available        <- [u \in Users |-> Available(wallets[u])],
    phase            <- [w \in Withdrawals |-> Phase(w)]

ImplementsEscrow == EscrowOf!EscrowSpec

\* A withdrawal whose execution has begun is closed in the end, whatever happens
\* to its executions and to its webhooks: the sweep alone is enough.
ProcessingCloses ==
    \A w \in Withdrawals : status[w] = "PROCESSING" ~> status[w] \in Closed

\* execute-withdrawal.service.ts:95-96 says of the saga that it "waits for the
\* webhook or the sweep to settle the wallet after the payout is terminal": a
\* withdrawal that has a payout is closed only by that payout's outcome.
ClosedByTerminalPayout ==
    \A w \in Withdrawals :
        status[w] \in Closed /\ payout[w] # "none" => payout[w] \in {"paid", "failed"}
=============================================================================
