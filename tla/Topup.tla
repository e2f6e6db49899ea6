------------------------------- MODULE Topup -------------------------------
(***************************************************************************)
(* Topping up a wallet through Stripe: the payment attempt a request       *)
(* creates, the Checkout Session or PaymentIntent made for it, the         *)
(* webhooks about it and the sweep that asks Stripe when no webhook came.  *)
(*                                                                         *)
(* A webhook or the sweep looks at an attempt first, but what it then      *)
(* changes is conditional on the attempt being PENDING, and no attempt     *)
(* leaves another status: the look and the change are one step.            *)
(***************************************************************************)
EXTENDS Wallet, Sequences, FiniteSets

CONSTANTS
    Users,           \* one wallet each
    Attempts,        \* payment_attempts rows, one for each request
    NoAttempt,
    Owner,           \* [Attempts -> Users]
    Amount,          \* [Attempts -> amounts]
    Kind,            \* [Attempts -> {"checkout", "sheet"}]
    InitialBalance,  \* [Users -> Nat]
    SumOf,           \* the SQL aggregate SUM(amount) over a set of attempts
    Limit            \* TOPUP_RECONCILE_LIMIT

ASSUME AttemptAssumption ==
    /\ Owner \in [Attempts -> Users]
    /\ Amount \in [Attempts -> Nat \ {0}]
    /\ Kind \in [Attempts -> {"checkout", "sheet"}]
    /\ InitialBalance \in [Users -> Nat]
    /\ NoAttempt \notin Attempts
    /\ Limit \in Nat

\* The equations of a sum over a set; the proofs use nothing else about it.
ASSUME SumAssumption ==
    /\ SumOf \in [SUBSET Attempts -> Nat]
    /\ SumOf[{}] = 0
    /\ \A S \in SUBSET Attempts : \A a \in Attempts \ S :
          SumOf[S \cup {a}] = SumOf[S] + Amount[a]

VARIABLES
    wallets,   \* [Users -> WalletRow]
    deposits,  \* attempts with a DEPOSIT row in wallet_transactions
    status,    \* payment_attempts.status, "NONE" before the row exists
    ref,       \* payment_attempts.provider_ref is set
    created,   \* the rows by created_at
    aged,      \* how many of them are older than TOPUP_RECONCILE_STALE_MINUTES
    provider,  \* Stripe: the session or intent made for the attempt
    events,    \* Stripe: the events about it that this server handles
    batch,     \* the sweep's rows still to look at
    looking,   \* the row whose Stripe object it has retrieved
    seen       \* and what it saw

dbVars    == <<wallets, deposits, status, ref, created>>
sweepVars == <<batch, looking, seen>>
vars      == <<dbVars, aged, provider, events, sweepVars>>

Statuses == {"NONE", "PENDING", "SUCCEEDED", "FAILED"}

\* "paidOther" is a payment of another amount or currency; "closed" is an expired
\* session or a cancelled intent.
Providers == {"none", "open", "processing", "declined", "paid", "paidOther", "closed"}
Captured  == {"paid", "paidOther"}

Init ==
    /\ wallets = [u \in Users |-> [balance |-> InitialBalance[u], reserved |-> 0]]
    /\ deposits = {}
    /\ status = [a \in Attempts |-> "NONE"]
    /\ ref = [a \in Attempts |-> FALSE]
    /\ created = << >>
    /\ aged = 0
    /\ provider = [a \in Attempts |-> "none"]
    /\ events = [a \in Attempts |-> {}]
    /\ batch = {}
    /\ looking = NoAttempt
    /\ seen = "none"

-----------------------------------------------------------------------------
(* createStripeCheckoutSession and createStripePaymentSheet: three calls.  *)
(* A request that fails or crashes in between does not take the next one.  *)

CreateAttempt(a) ==
    /\ status[a] = "NONE"
    /\ status' = [status EXCEPT ![a] = "PENDING"]
    /\ created' = Append(created, a)
    /\ UNCHANGED <<wallets, deposits, ref, aged, provider, events, sweepVars>>

CreateProviderObject(a) ==
    /\ status[a] # "NONE" /\ provider[a] = "none"
    /\ provider' = [provider EXCEPT ![a] = "open"]
    /\ UNCHANGED <<dbVars, aged, events, sweepVars>>

\* Mutant: the reference is saved before the call to Stripe has succeeded.
MutAttachProviderRef(a) ==
    /\ status[a] # "NONE" /\ ~ref[a]
    /\ ref' = [ref EXCEPT ![a] = TRUE]
    /\ UNCHANGED <<wallets, deposits, status, created, aged, provider, events, sweepVars>>

\* attachProviderRef; the user is given the URL or the client secret only now.
AttachProviderRef(a) ==
    /\ provider[a] # "none" /\ ~ref[a]
    /\ ref' = [ref EXCEPT ![a] = TRUE]
    /\ UNCHANGED <<wallets, deposits, status, created, aged, provider, events, sweepVars>>

-----------------------------------------------------------------------------
(* Stripe.                                                                 *)

\* A declined payment may be tried again with the same session or intent.
SubmitPayment(a) ==
    /\ ref[a] /\ provider[a] \in {"open", "declined"}
    /\ provider' = [provider EXCEPT ![a] = "processing"]
    /\ UNCHANGED <<dbVars, aged, events, sweepVars>>

\* The events about the payment: a payment_intent event of a sheet carries the
\* attempt's id, one of a Checkout Session's intent does not.  A session completed
\* before it was paid has no later event that the server handles.
PaymentDecided(a) ==
    /\ provider[a] = "processing"
    /\ \/ /\ \E outcome \in Captured : provider' = [provider EXCEPT ![a] = outcome]
          /\ \/ events' = [events EXCEPT ![a] = @ \cup {"paid"}]
             \/ Kind[a] = "checkout" /\ UNCHANGED events
       \/ /\ provider' = [provider EXCEPT ![a] = "declined"]
          /\ events' = [events EXCEPT ![a] = IF Kind[a] = "sheet" THEN @ \cup {"declined"} ELSE @]
    /\ UNCHANGED <<dbVars, aged, sweepVars>>

CloseProviderObject(a) ==
    /\ provider[a] \in {"open", "declined"}
    /\ provider' = [provider EXCEPT ![a] = "closed"]
    /\ UNCHANGED <<dbVars, aged, events, sweepVars>>

-----------------------------------------------------------------------------
(* Settling.                                                               *)

\* markFailedIfPending.
Fail(a) ==
    /\ status' = [status EXCEPT ![a] = IF @ = "PENDING" THEN "FAILED" ELSE @]
    /\ UNCHANGED <<wallets, deposits, ref, created>>

\* Mutant: the result of markSucceededIfPending is not looked at, nor the hash.
MutSettle(a) ==
    /\ status' = [status EXCEPT ![a] = IF @ = "PENDING" THEN "SUCCEEDED" ELSE @]
    /\ wallets' = [wallets EXCEPT ![Owner[a]] = Credit(@, Amount[a])]
    /\ deposits' = deposits \cup {a}
    /\ UNCHANGED <<ref, created>>

\* settleSuccessfulTopup: the attempt and the wallet in one transaction.  The
\* wallet exists as long as its attempts do.
Settle(a) ==
    /\ IF status[a] = "PENDING"
         THEN /\ status' = [status EXCEPT ![a] = "SUCCEEDED"]
              /\ wallets' = [wallets EXCEPT ![Owner[a]] = Credit(@, Amount[a])]
              /\ deposits' = deposits \cup {a}
         ELSE UNCHANGED <<status, wallets, deposits>>
    /\ UNCHANGED <<ref, created>>

\* Mutant: the amount Stripe reports is not compared with the attempt's.
MutWebhook(a) ==
    /\ \/ "paid" \in events[a] /\ Settle(a)
       \/ "declined" \in events[a] /\ Fail(a)
    /\ UNCHANGED <<aged, provider, events, sweepVars>>

\* An event may be delivered late, again, or never.
Webhook(a) ==
    /\ \/ "paid" \in events[a] /\ provider[a] = "paid" /\ Settle(a)
       \/ "paid" \in events[a] /\ provider[a] = "paidOther" /\ Fail(a)
       \/ "declined" \in events[a] /\ Fail(a)
    /\ UNCHANGED <<aged, provider, events, sweepVars>>

-----------------------------------------------------------------------------
(* sweepTopupReconciliation.                                               *)

Age ==
    /\ aged < Len(created)
    /\ aged' = aged + 1
    /\ UNCHANGED <<dbVars, provider, events, sweepVars>>

\* findPendingTopupsBefore: the oldest Limit rows that are PENDING and old enough.
StalePending == {i \in 1..aged : status[created[i]] = "PENDING"}
Oldest       == {i \in StalePending : Cardinality({j \in StalePending : j <= i}) <= Limit}

SweepIdle == batch = {} /\ looking = NoAttempt

\* A row read without a provider_ref is left PENDING.
SweepScan ==
    /\ SweepIdle
    /\ batch' = {a \in {created[i] : i \in Oldest} : ref[a]}
    /\ UNCHANGED <<dbVars, aged, provider, events, looking, seen>>

\* What the sweep acts on is the answer it got; Stripe may have moved on since.
SweepRetrieve(a) ==
    /\ a \in batch /\ looking = NoAttempt
    /\ batch' = batch \ {a}
    /\ looking' = a
    /\ seen' = provider[a]
    /\ UNCHANGED <<dbVars, aged, provider, events>>

\* An unpaid session may still be paid; an intent that waits for a payment method,
\* after a decline or from the start, is taken for a failure.
FailsOn(a, answer) ==
    \/ answer \in {"paidOther", "declined", "closed"}
    \/ answer = "open" /\ Kind[a] = "sheet"

\* Mutant: an intent or session that was paid is left to its webhook.
MutSweepSettle(a) ==
    /\ looking = a
    /\ IF FailsOn(a, seen) THEN Fail(a) ELSE UNCHANGED dbVars
    /\ looking' = NoAttempt
    /\ seen' = "none"
    /\ UNCHANGED <<aged, provider, events, batch>>

\* settleCheckoutSession and settlePaymentIntent, on the answer received.
SweepSettle(a) ==
    /\ looking = a
    /\ \/ seen = "paid" /\ Settle(a)
       \/ FailsOn(a, seen) /\ Fail(a)
       \/ seen # "paid" /\ ~FailsOn(a, seen) /\ UNCHANGED dbVars
    /\ looking' = NoAttempt
    /\ seen' = "none"
    /\ UNCHANGED <<aged, provider, events, batch>>

\* An error of Stripe or a crash ends the sweep.
SweepAborts ==
    /\ ~SweepIdle
    /\ batch' = {}
    /\ looking' = NoAttempt
    /\ seen' = "none"
    /\ UNCHANGED <<dbVars, aged, provider, events>>

Next ==
    \/ \E a \in Attempts :
          \/ CreateAttempt(a)
          \/ CreateProviderObject(a)
          \/ AttachProviderRef(a)
          \/ SubmitPayment(a)
          \/ PaymentDecided(a)
          \/ CloseProviderObject(a)
          \/ Webhook(a)
          \/ SweepRetrieve(a)
          \/ SweepSettle(a)
    \/ Age
    \/ SweepScan
    \/ SweepAborts

Spec == Init /\ [][Next]_vars

\* Time passes, the sweep is a scheduled job, and a row it reads again and again is
\* one day handled.  Nothing is assumed of requests, users, Stripe or webhooks.
FairSpec ==
    /\ Spec
    /\ WF_vars(Age) /\ WF_vars(SweepScan)
    /\ \A a \in Attempts : SF_vars(SweepRetrieve(a)) /\ SF_vars(SweepSettle(a))

-----------------------------------------------------------------------------
(* Correctness.                                                            *)

\* Type invariant; a provider reference names an object that exists at Stripe, and
\* the sweep asks about no other rows.
TypeOK ==
    /\ wallets \in [Users -> WalletRow]
    /\ deposits \in SUBSET Attempts
    /\ status \in [Attempts -> Statuses]
    /\ ref \in [Attempts -> BOOLEAN]
    /\ created \in Seq(Attempts)
    /\ aged \in 0..Len(created)
    /\ provider \in [Attempts -> Providers]
    /\ events \in [Attempts -> SUBSET {"paid", "declined"}]
    /\ batch \in SUBSET Attempts
    /\ looking \in Attempts \cup {NoAttempt}
    /\ seen \in Providers
    /\ \A a \in Attempts : ref[a] => provider[a] # "none"
    /\ \A a \in batch \cup {looking} : a # NoAttempt => ref[a]

\* Webhooks repeat and race with the sweep, and a session and its intent have
\* different ledger hashes: still a wallet is credited for an attempt once, exactly
\* when the attempt is SUCCEEDED.
LedgerExact ==
    /\ deposits = {a \in Attempts : status[a] = "SUCCEEDED"}
    /\ \A u \in Users :
          wallets[u].balance = InitialBalance[u] + SumOf[{a \in deposits : Owner[a] = u}]

\* Whatever order the events and the sweep's answers are applied in, a wallet is
\* credited only for a payment that Stripe captured with the attempt's amount.
CreditedOnlyIfCaptured == \A a \in deposits : provider[a] = "paid"

\* stripe-topup.payment-sheet.int.test.ts:160 "reconciles a stale succeeded
\* PaymentIntent without a webhook": no captured payment stays PENDING.
CapturedIsReconciled ==
    \A a \in Attempts :
        status[a] = "PENDING" /\ provider[a] \in Captured ~> status[a] # "PENDING"

\* stripe-topup.payment-sheet.int.test.ts:56 "credits the wallet on
\* payment_intent.succeeded": a payment captured in full is never a FAILED attempt.
CapturedNotFailed == \A a \in Attempts : provider[a] = "paid" => status[a] # "FAILED"
=============================================================================
