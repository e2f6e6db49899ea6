---------------------------- MODULE TopupProofs ----------------------------
(***************************************************************************)
(* Proofs about Topup, for any users, attempts and amounts and any limit   *)
(* of the sweep.  The invariant adds to the properties what the sweep      *)
(* knows while it holds an answer of Stripe: a payment it saw captured     *)
(* still is, because no payment leaves that state.                         *)
(***************************************************************************)
EXTENDS Topup, FiniteSetTheorems, TLAPS

AnswerInv == seen = "paid" => looking \in Attempts /\ provider[looking] = "paid"

IInv == TypeOK /\ LedgerExact /\ CreditedOnlyIfCaptured /\ AnswerInv

\* The deposits of one user.
DepositsOf(u) == {a \in deposits : Owner[a] = u}

-----------------------------------------------------------------------------
(* Settling.                                                               *)

\* Closing an attempt leaves the rows well typed.
LEMMA CloseType ==
    ASSUME NEW a \in Attempts, TypeOK, Settle(a) \/ Fail(a)
    PROVE  /\ wallets' \in [Users -> WalletRow]
           /\ deposits' \in SUBSET Attempts
           /\ status' \in [Attempts -> Statuses]
           /\ ref' = ref /\ created' = created
<1>1. CASE Fail(a)
  BY <1>1 DEF Fail, TypeOK, Statuses
<1>2. CASE Settle(a)
  <2>1. ASSUME status[a] = "PENDING" PROVE wallets' \in [Users -> WalletRow]
    <3>1. Owner[a] \in Users /\ Amount[a] \in Nat
      BY AttemptAssumption
    <3>2. wallets[Owner[a]] \in WalletRow
      BY <3>1 DEF TypeOK
    <3>3. Credit(wallets[Owner[a]], Amount[a]) \in WalletRow
      BY <3>1, <3>2 DEF Credit, WalletRow
    <3>4. wallets' = [wallets EXCEPT ![Owner[a]] = Credit(wallets[Owner[a]], Amount[a])]
      BY <1>2, <2>1 DEF Settle
    <3> QED BY <3>3, <3>4 DEF TypeOK
  <2>2. ASSUME status[a] # "PENDING" PROVE wallets' \in [Users -> WalletRow]
    BY <1>2, <2>2 DEF Settle, TypeOK
  <2> QED BY <1>2, <2>1, <2>2 DEF Settle, TypeOK, Statuses
<1> QED BY <1>1, <1>2

\* Closing an attempt keeps the ledger exact: it credits at most once.
LEMMA CloseLedger ==
    ASSUME NEW a \in Attempts, TypeOK, LedgerExact, Settle(a) \/ Fail(a)
    PROVE  LedgerExact'
<1>1. CASE Fail(a)
  BY <1>1 DEF Fail, LedgerExact, TypeOK
<1>2. CASE Settle(a) /\ status[a] # "PENDING"
  BY <1>2 DEF Settle, LedgerExact
<1>3. CASE Settle(a) /\ status[a] = "PENDING"
  <2>1. /\ status' = [status EXCEPT ![a] = "SUCCEEDED"]
        /\ wallets' = [wallets EXCEPT ![Owner[a]] = Credit(wallets[Owner[a]], Amount[a])]
        /\ deposits' = deposits \cup {a}
        /\ a \notin deposits
    BY <1>3 DEF Settle, LedgerExact
  <2>2. deposits' = {b \in Attempts : status'[b] = "SUCCEEDED"}
    BY <2>1 DEF LedgerExact, TypeOK
  <2>3. ASSUME NEW u \in Users
        PROVE  wallets'[u].balance = InitialBalance[u] + SumOf[{b \in deposits' : Owner[b] = u}]
    <3>0. /\ wallets[u] \in WalletRow /\ DepositsOf(u) \in SUBSET Attempts
          /\ a \notin DepositsOf(u)
          /\ wallets[u].balance = InitialBalance[u] + SumOf[DepositsOf(u)]
      BY <2>1 DEF TypeOK, DepositsOf, LedgerExact
    <3>1. CASE Owner[a] = u
      <4>1. {b \in deposits' : Owner[b] = u} = DepositsOf(u) \cup {a}
        BY <2>1, <3>1 DEF DepositsOf
      <4>2. SumOf[DepositsOf(u) \cup {a}] = SumOf[DepositsOf(u)] + Amount[a]
        BY <3>0, SumAssumption
      <4>3. wallets'[u] = Credit(wallets[u], Amount[a])
        BY <2>1, <3>1 DEF TypeOK
      <4>4. wallets'[u].balance = wallets[u].balance + Amount[a]
        BY <3>0, <4>3 DEF Credit, WalletRow
      <4>5. /\ InitialBalance[u] \in Nat /\ Amount[a] \in Nat
            /\ SumOf[DepositsOf(u)] \in Nat
        BY <3>0, AttemptAssumption, SumAssumption
      <4>6. SumOf[{b \in deposits' : Owner[b] = u}] = SumOf[DepositsOf(u)] + Amount[a]
        BY <4>1, <4>2
      <4>7. wallets[u].balance = InitialBalance[u] + SumOf[DepositsOf(u)]
        BY <3>0
      <4> QED BY <4>4, <4>5, <4>6, <4>7
    <3>2. CASE Owner[a] # u
      <4>1. {b \in deposits' : Owner[b] = u} = DepositsOf(u)
        BY <2>1, <3>2 DEF DepositsOf
      <4>2. wallets'[u] = wallets[u]
        BY <2>1, <3>2 DEF TypeOK
      <4> QED BY <3>0, <4>1, <4>2
    <3> QED BY <3>1, <3>2
  <2> QED BY <2>2, <2>3 DEF LedgerExact
<1> QED BY <1>1, <1>2, <1>3

-----------------------------------------------------------------------------
(* The invariant.                                                          *)

\* The first state satisfies the invariant.
LEMMA InvInit == Init => IInv
<1> SUFFICES ASSUME Init PROVE IInv
  OBVIOUS
<1>1. TypeOK
  BY AttemptAssumption DEF Init, TypeOK, WalletRow, Statuses, Providers
<1>2. LedgerExact
  <2>1. deposits = {a \in Attempts : status[a] = "SUCCEEDED"}
    BY DEF Init
  <2>2. ASSUME NEW u \in Users
        PROVE  wallets[u].balance = InitialBalance[u] + SumOf[{a \in deposits : Owner[a] = u}]
    <3>1. {a \in deposits : Owner[a] = u} = {}
      BY DEF Init
    <3>2. wallets[u].balance = InitialBalance[u] /\ InitialBalance[u] \in Nat
      BY AttemptAssumption DEF Init
    <3>3. SumOf[{a \in deposits : Owner[a] = u}] = 0
      BY <3>1, SumAssumption
    <3> QED BY <3>2, <3>3
  <2> QED BY <2>1, <2>2 DEF LedgerExact
<1>3. CreditedOnlyIfCaptured /\ AnswerInv
  BY DEF Init, CreditedOnlyIfCaptured, AnswerInv
<1> QED BY <1>1, <1>2, <1>3 DEF IInv

\* A step of Stripe never takes a captured payment back.
LEMMA CapturedStays == TypeOK /\ [Next]_vars =>
    \A a \in Attempts : provider[a] = "paid" => provider'[a] = "paid"
BY DEF Next, vars, dbVars, sweepVars, TypeOK, CreateAttempt, CreateProviderObject,
       AttachProviderRef, SubmitPayment, PaymentDecided, CloseProviderObject, Webhook,
       SweepRetrieve, SweepSettle, Age, SweepScan, SweepAborts

\* Every step keeps the types and what a provider reference and the sweep refer to.
LEMMA TypeStep == TypeOK /\ [Next]_vars => TypeOK'
<1> SUFFICES ASSUME TypeOK, [Next]_vars PROVE TypeOK'
  OBVIOUS
<1> USE AttemptAssumption
<1>1. ASSUME NEW a \in Attempts, CreateAttempt(a) PROVE TypeOK'
  <2>1. /\ created' \in Seq(Attempts) /\ Len(created') = Len(created) + 1
        /\ Len(created) \in Nat
    BY <1>1 DEF CreateAttempt, TypeOK
  <2>2. aged' \in 0..Len(created')
    BY <1>1, <2>1 DEF CreateAttempt, TypeOK
  <2> QED BY <1>1, <2>1, <2>2 DEF CreateAttempt, TypeOK, Statuses, sweepVars
<1>2. ASSUME NEW a \in Attempts,
             CreateProviderObject(a) \/ SubmitPayment(a) \/ CloseProviderObject(a)
      PROVE  TypeOK'
  BY <1>2 DEF CreateProviderObject, SubmitPayment, CloseProviderObject,
              TypeOK, Providers, dbVars, sweepVars
<1>11. ASSUME NEW a \in Attempts, PaymentDecided(a) PROVE TypeOK'
  <2>1. /\ provider' \in [Attempts -> Providers]
        /\ \A c \in Attempts : provider'[c] = "none" => provider[c] = "none"
    BY <1>11 DEF PaymentDecided, TypeOK, Providers, Captured
  <2>2. events' \in [Attempts -> SUBSET {"paid", "declined"}]
    <3>1. CASE events' = [events EXCEPT ![a] = @ \cup {"paid"}]
      BY <3>1 DEF TypeOK
    <3>2. CASE events' = events
      BY <3>2 DEF TypeOK
    <3>3. CASE events' = [events EXCEPT ![a] = IF Kind[a] = "sheet" THEN @ \cup {"declined"} ELSE @]
      BY <3>3 DEF TypeOK
    <3> QED BY <1>11, <3>1, <3>2, <3>3 DEF PaymentDecided
  <2> QED BY <1>11, <2>1, <2>2 DEF PaymentDecided, TypeOK, dbVars, sweepVars
<1>3. ASSUME NEW a \in Attempts, AttachProviderRef(a) PROVE TypeOK'
  BY <1>3 DEF AttachProviderRef, TypeOK, sweepVars
<1>4. ASSUME NEW a \in Attempts, Webhook(a) PROVE TypeOK'
  <2>1. Settle(a) \/ Fail(a)
    BY <1>4 DEF Webhook
  <2> QED BY <1>4, <2>1, CloseType DEF Webhook, TypeOK, sweepVars
<1>5. ASSUME NEW a \in Attempts, SweepRetrieve(a) PROVE TypeOK'
  BY <1>5 DEF SweepRetrieve, TypeOK, dbVars
<1>6. ASSUME NEW a \in Attempts, SweepSettle(a) PROVE TypeOK'
  <2>1. CASE Settle(a) \/ Fail(a)
    BY <1>6, <2>1, CloseType DEF SweepSettle, TypeOK, Providers
  <2>2. CASE UNCHANGED dbVars
    BY <1>6, <2>2 DEF SweepSettle, TypeOK, dbVars, Providers
  <2> QED BY <1>6, <2>1, <2>2 DEF SweepSettle
<1>7. CASE Age
  BY <1>7 DEF Age, TypeOK, dbVars, sweepVars
<1>8. CASE SweepScan
  <2>1. \A i \in Oldest : created[i] \in Attempts
    BY DEF Oldest, StalePending, TypeOK
  <2> QED BY <1>8, <2>1 DEF SweepScan, SweepIdle, TypeOK, dbVars
<1>9. CASE SweepAborts
  BY <1>9 DEF SweepAborts, TypeOK, dbVars, Providers
<1>10. CASE UNCHANGED vars
  BY <1>10 DEF TypeOK, vars, dbVars, sweepVars
<1> QED BY <1>1, <1>2, <1>3, <1>4, <1>5, <1>6, <1>7, <1>8, <1>9, <1>10, <1>11 DEF Next

\* A step that closes no attempt keeps the ledger and what it rests on.
LEMMA LedgerUnchanged ==
    ASSUME LedgerExact, UNCHANGED <<wallets, deposits>>,
           \A a \in Attempts : status'[a] = "SUCCEEDED" <=> status[a] = "SUCCEEDED"
    PROVE  LedgerExact'
BY DEF LedgerExact

\* Every step keeps the ledger exact, and what was credited captured.
LEMMA LedgerStep ==
    TypeOK /\ LedgerExact /\ CreditedOnlyIfCaptured /\ AnswerInv /\ [Next]_vars
        => LedgerExact' /\ CreditedOnlyIfCaptured'
<1> SUFFICES ASSUME TypeOK, LedgerExact, CreditedOnlyIfCaptured, AnswerInv, [Next]_vars
             PROVE  LedgerExact' /\ CreditedOnlyIfCaptured'
  OBVIOUS
<1>0. ASSUME deposits' = deposits PROVE CreditedOnlyIfCaptured'
  BY <1>0, CapturedStays DEF CreditedOnlyIfCaptured, TypeOK
<1>a. ASSUME NEW a \in Attempts, Settle(a), provider[a] = "paid" PROVE CreditedOnlyIfCaptured'
  <2>1. deposits' = deposits \/ deposits' = deposits \cup {a}
    BY <1>a DEF Settle
  <2> QED BY <1>a, <2>1, CapturedStays DEF CreditedOnlyIfCaptured, TypeOK
<1>b. ASSUME NEW a \in Attempts, Fail(a) PROVE CreditedOnlyIfCaptured'
  BY <1>0, <1>b DEF Fail
<1>1. ASSUME NEW a \in Attempts, CreateAttempt(a) PROVE LedgerExact' /\ CreditedOnlyIfCaptured'
  BY <1>0, <1>1, LedgerUnchanged DEF CreateAttempt, TypeOK
<1>2. ASSUME NEW a \in Attempts,
             CreateProviderObject(a) \/ AttachProviderRef(a) \/ SubmitPayment(a)
                \/ PaymentDecided(a) \/ CloseProviderObject(a) \/ SweepRetrieve(a)
      PROVE  LedgerExact' /\ CreditedOnlyIfCaptured'
  BY <1>0, <1>2, LedgerUnchanged
     DEF CreateProviderObject, AttachProviderRef, SubmitPayment, PaymentDecided,
         CloseProviderObject, SweepRetrieve, dbVars
<1>3. ASSUME NEW a \in Attempts, Webhook(a) PROVE LedgerExact' /\ CreditedOnlyIfCaptured'
  BY <1>3, <1>a, <1>b, CloseLedger DEF Webhook
<1>4. ASSUME NEW a \in Attempts, SweepSettle(a) PROVE LedgerExact' /\ CreditedOnlyIfCaptured'
  <2>1. CASE seen = "paid" /\ Settle(a)
    <3>1. provider[a] = "paid"
      BY <1>4, <2>1 DEF SweepSettle, AnswerInv
    <3> QED BY <2>1, <3>1, <1>a, CloseLedger
  <2>2. CASE Fail(a)
    BY <2>2, <1>b, CloseLedger
  <2>3. CASE UNCHANGED dbVars
    BY <2>3, <1>0, LedgerUnchanged DEF dbVars
  <2> QED BY <1>4, <2>1, <2>2, <2>3 DEF SweepSettle
<1>5. CASE Age \/ SweepScan \/ SweepAborts \/ UNCHANGED vars
  BY <1>0, <1>5, LedgerUnchanged DEF Age, SweepScan, SweepAborts, vars, dbVars
<1> QED BY <1>1, <1>2, <1>3, <1>4, <1>5 DEF Next

\* What the sweep saw captured stays captured while it holds the answer.
LEMMA AnswerStep == TypeOK /\ AnswerInv /\ [Next]_vars => AnswerInv'
<1> SUFFICES ASSUME TypeOK, AnswerInv, [Next]_vars PROVE AnswerInv'
  OBVIOUS
<1>1. ASSUME UNCHANGED sweepVars \/ UNCHANGED <<looking, seen>> PROVE AnswerInv'
  BY <1>1, CapturedStays DEF AnswerInv, sweepVars
<1>2. ASSUME NEW a \in Attempts, SweepRetrieve(a) PROVE AnswerInv'
  BY <1>2 DEF SweepRetrieve, AnswerInv
<1>3. ASSUME seen' = "none" PROVE AnswerInv'
  BY <1>3 DEF AnswerInv
<1> QED BY <1>1, <1>2, <1>3
        DEF Next, vars, CreateAttempt, CreateProviderObject, AttachProviderRef, SubmitPayment,
            PaymentDecided, CloseProviderObject, Webhook, SweepSettle, Age, SweepScan, SweepAborts

\* The inductive invariant holds in every reachable state.
THEOREM Invariance == Spec => []IInv
<1>1. IInv /\ [Next]_vars => IInv'
  BY TypeStep, LedgerStep, AnswerStep DEF IInv
<1> QED BY InvInit, <1>1, PTL DEF Spec

\* The rows have their types, and the sweep asks about objects that exist.
THEOREM TypeCorrect == Spec => []TypeOK
<1>1. IInv => TypeOK
  BY DEF IInv
<1> QED BY Invariance, <1>1, PTL

\* Each wallet holds exactly its initial balance and its SUCCEEDED attempts.
THEOREM LedgerCorrect == Spec => []LedgerExact
<1>1. IInv => LedgerExact
  BY DEF IInv
<1> QED BY Invariance, <1>1, PTL

\* A wallet is credited only for a payment captured in full.
THEOREM CreditCorrect == Spec => []CreditedOnlyIfCaptured
<1>1. IInv => CreditedOnlyIfCaptured
  BY DEF IInv
<1> QED BY Invariance, <1>1, PTL

-----------------------------------------------------------------------------
(* Liveness.  The provers know nothing of ENABLED, so fairness is stated   *)
(* with the guards themselves.  Two facts that need an induction, over     *)
(* time and over the sweep's list, are hypotheses: rows grow old, and a    *)
(* run of the sweep comes to its end.  The third hypothesis is the one     *)
(* TopupStarved shows to be needed: the backlog fits in the sweep's limit. *)

\* The attempt's row is older than TOPUP_RECONCILE_STALE_MINUTES.
Old(a) == \E i \in 1..aged : created[i] = a

Exists(a)    == status[a] # "NONE"
GrowsOld(a)  == Exists(a) ~> Old(a)
SweepRunsEnd == []<>SweepIdle
Fits         == Cardinality(StalePending) <= Limit
BacklogFits  == []Fits

\* Weak fairness of the sweep's query; strong fairness of the two steps that
\* handle a row which runs of the sweep read again and again.
ScanGuard == SweepIdle /\ \E i \in Oldest : ref[created[i]]
ScanRuns  == []<>~ScanGuard \/ []<><<SweepScan>>_vars
Listed(a) == a \in batch /\ looking = NoAttempt
Asked(a)  == looking = a
RowIsHandled(a) ==
    /\ <>[]~Listed(a) \/ []<><<SweepRetrieve(a)>>_vars
    /\ <>[]~Asked(a) \/ []<><<SweepSettle(a)>>_vars

\* Nobody pays before the reference is saved.
PaidInv == \A a \in Attempts :
    provider[a] \in {"processing", "declined"} \cup Captured => ref[a]

\* Paying and deciding need the reference, and nothing takes it away.
LEMMA PaidStep == TypeOK /\ PaidInv /\ [Next]_vars => PaidInv'
<1> SUFFICES ASSUME TypeOK, PaidInv, [Next]_vars PROVE PaidInv'
  OBVIOUS
<1>1. ASSUME UNCHANGED provider, \A a \in Attempts : ref[a] => ref'[a] PROVE PaidInv'
  BY <1>1 DEF PaidInv
<1>2. ASSUME NEW a \in Attempts, AttachProviderRef(a) PROVE PaidInv'
  BY <1>1, <1>2 DEF AttachProviderRef, TypeOK
<1>3. ASSUME NEW a \in Attempts,
             \/ CreateProviderObject(a) \/ SubmitPayment(a)
             \/ PaymentDecided(a) \/ CloseProviderObject(a)
      PROVE  PaidInv'
  BY <1>3 DEF CreateProviderObject, SubmitPayment, PaymentDecided, CloseProviderObject, dbVars,
              Captured, PaidInv, TypeOK
<1>4. ASSUME \/ \E a \in Attempts : CreateAttempt(a) \/ Webhook(a) \/ SweepRetrieve(a) \/ SweepSettle(a)
             \/ Age \/ SweepScan \/ SweepAborts \/ UNCHANGED vars
      PROVE  UNCHANGED <<provider, ref>>
  BY <1>4 DEF CreateAttempt, Webhook, SweepRetrieve, SweepSettle, Settle, Fail, Age, SweepScan,
              SweepAborts, vars, dbVars
<1> QED BY <1>1, <1>2, <1>3, <1>4 DEF Next

\* A payment that reached Stripe has its reference in the row.
LEMMA PaidInvariance == Spec => []PaidInv
<1>1. Init => PaidInv
  BY DEF Init, PaidInv, Captured
<1> QED BY <1>1, PaidStep, TypeCorrect, PTL DEF Spec

\* A backlog within the limit is read as a whole.
LEMMA WholeBacklog ==
    ASSUME TypeOK, Fits
    PROVE  Oldest = StalePending
<1>1. IsFiniteSet(StalePending)
  <2>1. aged \in Nat
    BY DEF TypeOK
  <2>2. IsFiniteSet(1..aged)
    BY <2>1, FS_Interval
  <2> QED BY <2>2, FS_Subset DEF StalePending
<1>2. ASSUME NEW i \in StalePending
      PROVE  Cardinality({j \in StalePending : j <= i}) <= Limit
  <2> DEFINE before == {j \in StalePending : j <= i}
  <2>1. before \subseteq StalePending
    OBVIOUS
  <2>2. /\ Cardinality(before) \in Nat /\ Cardinality(StalePending) \in Nat
        /\ Cardinality(before) <= Cardinality(StalePending)
    BY <1>1, <2>1, FS_Subset, FS_CardinalityType
  <2> QED BY <2>2, AttemptAssumption DEF Fits
<1> QED BY <1>2 DEF Oldest

\* So an old PENDING attempt that has been paid gives the sweep something to do.
LEMMA PaidIsRead ==
    ASSUME TypeOK, PaidInv, Fits, NEW a \in Attempts, Old(a),
           status[a] = "PENDING", provider[a] \in Captured
    PROVE  /\ SweepIdle => ScanGuard
           /\ SweepScan => Listed(a)'
<1>1. PICK i \in 1..aged : created[i] = a
  BY DEF Old
<1>2. i \in Oldest /\ ref[a]
  BY <1>1, WholeBacklog DEF StalePending, PaidInv
<1> QED BY <1>1, <1>2 DEF ScanGuard, SweepScan, SweepIdle, Listed

\* Rows do not get younger.
LEMMA OldStays ==
    ASSUME TypeOK, NEW a \in Attempts, Old(a), [Next]_vars
    PROVE  Old(a)'
<1>1. PICK i \in 1..aged : created[i] = a
  BY DEF Old
<1>2. aged' \in Int /\ aged \in Int /\ aged <= aged'
  BY DEF Next, vars, dbVars, sweepVars, TypeOK, CreateAttempt, CreateProviderObject,
         AttachProviderRef, SubmitPayment, PaymentDecided, CloseProviderObject, Webhook,
         SweepRetrieve, SweepSettle, Age, SweepScan, SweepAborts
<1>3. created' = created \/ \E b \in Attempts : created' = Append(created, b)
  BY DEF Next, vars, dbVars, CreateAttempt, CreateProviderObject, AttachProviderRef,
         SubmitPayment, PaymentDecided, CloseProviderObject, Webhook, Settle, Fail,
         SweepRetrieve, SweepSettle, Age, SweepScan, SweepAborts
<1>4. created'[i] = created[i]
  BY <1>3 DEF TypeOK
<1> QED BY <1>1, <1>2, <1>4 DEF Old

\* A captured payment stays captured.
LEMMA CaptureStays ==
    ASSUME TypeOK, NEW a \in Attempts, provider[a] \in Captured, [Next]_vars
    PROVE  provider'[a] = provider[a]
BY DEF Captured, Next, vars, dbVars, sweepVars, TypeOK, CreateAttempt, CreateProviderObject,
       AttachProviderRef, SubmitPayment, PaymentDecided, CloseProviderObject, Webhook,
       SweepRetrieve, SweepSettle, Age, SweepScan, SweepAborts

\* An answer received after the capture says so.
Informed(a) == looking = a => seen \in Captured

\* A captured payment stays captured, so an answer asked for now says so, and one
\* that says so stays true.
LEMMA InformedStays ==
    ASSUME TypeOK, NEW a \in Attempts, provider[a] \in Captured, [Next]_vars
    PROVE  /\ Informed(a) => Informed(a)'
           /\ SweepRetrieve(a) => Informed(a)' /\ Asked(a)'
<1>1. ASSUME NEW b \in Attempts, SweepRetrieve(b)
      PROVE  looking' = b /\ seen' = provider[b]
  BY <1>1 DEF SweepRetrieve
<1>2. ASSUME (\E b \in Attempts : SweepSettle(b)) \/ SweepAborts
      PROVE  looking' = NoAttempt
  BY <1>2 DEF SweepSettle, SweepAborts
<1>3. ASSUME \/ \E b \in Attempts : \/ CreateAttempt(b) \/ CreateProviderObject(b)
                                    \/ AttachProviderRef(b) \/ SubmitPayment(b)
                                    \/ PaymentDecided(b) \/ CloseProviderObject(b) \/ Webhook(b)
             \/ Age \/ SweepScan \/ UNCHANGED vars
      PROVE  UNCHANGED <<looking, seen>>
  BY <1>3 DEF vars, sweepVars, CreateAttempt, CreateProviderObject, AttachProviderRef,
     SubmitPayment, PaymentDecided, CloseProviderObject, Webhook, Age, SweepScan
<1>4. NoAttempt # a
  BY AttemptAssumption
<1> QED BY <1>1, <1>2, <1>3, <1>4 DEF Next, Informed, Asked

\* Only the query makes a list.
LEMMA ListIsMadeByScan ==
    ASSUME SweepIdle, [Next]_vars, ~SweepIdle'
    PROVE  <<SweepScan>>_vars
<1>1. batch' # batch \/ looking' # looking
  BY DEF SweepIdle
<1>2. ASSUME NEW a \in Attempts, SweepRetrieve(a) \/ SweepSettle(a) PROVE FALSE
  BY <1>2, AttemptAssumption DEF SweepRetrieve, SweepSettle, SweepIdle
<1>3. SweepScan
  BY <1>1, <1>2 DEF Next, vars, sweepVars, CreateAttempt, CreateProviderObject, AttachProviderRef,
     SubmitPayment, PaymentDecided, CloseProviderObject, Webhook, Age, SweepAborts
<1> QED BY <1>1, <1>3 DEF vars, sweepVars

\* Settling on an answer that says captured closes the attempt.
LEMMA SettleCloses ==
    ASSUME TypeOK, NEW a \in Attempts, SweepSettle(a), Informed(a), status[a] = "PENDING"
    PROVE  status'[a] # "PENDING"
<1>1. seen \in Captured
  BY DEF SweepSettle, Informed
<1>2. seen = "paid" \/ FailsOn(a, seen)
  BY <1>1 DEF Captured, FailsOn
<1>3. Settle(a) \/ Fail(a)
  BY <1>2 DEF SweepSettle
<1> QED BY <1>3 DEF Settle, Fail, TypeOK

\* A captured, old row is in every list the sweep reads, until the sweep settles it.
LEMMA CaptureIsReconciled ==
    ASSUME NEW a \in Attempts
    PROVE  Spec /\ BacklogFits /\ GrowsOld(a) /\ SweepRunsEnd /\ ScanRuns /\ RowIsHandled(a)
             => (status[a] = "PENDING" /\ provider[a] \in Captured ~> status[a] # "PENDING")
<1> DEFINE P == status[a] = "PENDING"
           Cp == provider[a] \in Captured
           Done == status[a] # "PENDING"
<1>1. P \/ Done
  OBVIOUS
<1>2. TypeOK /\ Cp /\ [Next]_vars => Cp'
  BY CaptureStays
<1>3. P => Exists(a)
  BY DEF Exists
<1>4. TypeOK /\ Old(a) /\ [Next]_vars => Old(a)'
  BY OldStays
<1>5. TypeOK /\ PaidInv /\ Fits /\ Old(a) /\ P /\ Cp /\ SweepIdle => ScanGuard
  BY PaidIsRead
<1>6. SweepIdle /\ [Next]_vars => SweepIdle' \/ <<SweepScan>>_vars
  BY ListIsMadeByScan
<1>7. TypeOK /\ PaidInv /\ Fits /\ Old(a) /\ P /\ Cp /\ <<SweepScan>>_vars => Listed(a)'
  BY PaidIsRead
<1>8. TypeOK /\ Cp /\ Informed(a) /\ [Next]_vars => Informed(a)'
  BY InformedStays
<1>9. TypeOK /\ Cp /\ <<SweepRetrieve(a)>>_vars => Informed(a)' /\ Asked(a)'
  BY InformedStays DEF Next
<1>10. TypeOK /\ P /\ Informed(a) /\ <<SweepSettle(a)>>_vars => Done'
  BY SettleCloses
<1>11. ~(P /\ Done)
  OBVIOUS
<1> HIDE DEF P, Cp, Done
<1>12. Spec /\ BacklogFits /\ GrowsOld(a) /\ SweepRunsEnd /\ ScanRuns /\ RowIsHandled(a)
         => (P /\ Cp ~> Done)
  BY <1>1, <1>2, <1>3, <1>4, <1>5, <1>6, <1>7, <1>8, <1>9, <1>10, <1>11,
     TypeCorrect, PaidInvariance, PTL
     DEF Spec, BacklogFits, GrowsOld, SweepRunsEnd, ScanRuns, RowIsHandled
<1> QED BY <1>12 DEF P, Cp, Done

\* An attempt has one row.
CreatedInv ==
    \A i, k \in 1..Len(created) :
        status[created[i]] # "NONE" /\ (created[i] = created[k] => i = k)

\* A row enters the order of creation once, when it is inserted.
LEMMA CreatedStep == TypeOK /\ CreatedInv /\ [Next]_vars => CreatedInv'
<1> SUFFICES ASSUME TypeOK, CreatedInv, [Next]_vars PROVE CreatedInv'
  OBVIOUS
<1>0. \A i \in 1..Len(created) : created[i] \in Attempts
  BY DEF TypeOK
<1>1. ASSUME NEW a \in Attempts, CreateAttempt(a) PROVE CreatedInv'
  <2>1. /\ \A i \in 1..Len(created) : created[i] # a
        /\ \A b \in Attempts : status'[b] # "NONE" <=> (b = a \/ status[b] # "NONE")
    BY <1>1 DEF CreateAttempt, CreatedInv, TypeOK
  <2>2. /\ Len(created') = Len(created) + 1 /\ Len(created) \in Nat
        /\ created'[Len(created) + 1] = a
        /\ \A i \in 1..Len(created) : created'[i] = created[i]
    BY <1>1 DEF CreateAttempt, TypeOK
  <2>3. ASSUME NEW i \in 1..Len(created')
        PROVE  i \in 1..Len(created) \/ i = Len(created) + 1
    BY <2>2
  <2> QED BY <1>0, <2>1, <2>2, <2>3 DEF CreatedInv
<1>2. ASSUME created' = created,
             \A a \in Attempts : status[a] # "NONE" => status'[a] # "NONE"
      PROVE  CreatedInv'
  BY <1>0, <1>2 DEF CreatedInv
<1>3. ASSUME NEW a \in Attempts, Webhook(a) \/ SweepSettle(a) PROVE CreatedInv'
  <2>1. Settle(a) \/ Fail(a) \/ UNCHANGED dbVars
    BY <1>3 DEF Webhook, SweepSettle
  <2> QED BY <1>2, <2>1 DEF Settle, Fail, dbVars, TypeOK
<1>4. ASSUME \/ \E a \in Attempts : \/ CreateProviderObject(a) \/ AttachProviderRef(a)
                                    \/ SubmitPayment(a) \/ PaymentDecided(a)
                                    \/ CloseProviderObject(a) \/ SweepRetrieve(a)
             \/ Age \/ SweepScan \/ SweepAborts \/ UNCHANGED vars
      PROVE  UNCHANGED <<created, status>>
  BY <1>4 DEF CreateProviderObject, AttachProviderRef, SubmitPayment, PaymentDecided,
     CloseProviderObject, SweepRetrieve, Age, SweepScan, SweepAborts, vars, dbVars
<1> QED BY <1>1, <1>2, <1>3, <1>4 DEF Next

\* The order of creation names no attempt twice.
LEMMA CreatedInvariance == Spec => []CreatedInv
<1>1. Init => CreatedInv
  BY DEF Init, CreatedInv
<1> QED BY <1>1, CreatedStep, TypeCorrect, PTL DEF Spec

\* The backlog fits as long as there are no more attempts than the sweep reads
\* in one run: one row too many is what TopupStarved starves.
THEOREM EnoughLimit ==
    ASSUME IsFiniteSet(Attempts), Cardinality(Attempts) <= Limit
    PROVE  Spec => BacklogFits
<1>1. ASSUME TypeOK, CreatedInv PROVE Fits
  <2> DEFINE f == [i \in StalePending |-> created[i]]
  <2>1. StalePending \subseteq 1..Len(created) /\ aged \in Nat
    BY <1>1 DEF StalePending, TypeOK
  <2>2. IsFiniteSet(StalePending)
    <3>1. IsFiniteSet(1..aged)
      BY <2>1, FS_Interval
    <3> QED BY <3>1, FS_Subset DEF StalePending
  <2>3. f \in [StalePending -> Attempts]
    BY <1>1, <2>1 DEF TypeOK
  <2>4. \A i, k \in StalePending : f[i] = f[k] => i = k
    BY <1>1, <2>1 DEF CreatedInv
  <2> HIDE DEF f
  <2>5. ~(Cardinality(Attempts) < Cardinality(StalePending))
    BY <2>2, <2>3, <2>4, FS_PigeonHole
  <2>6. Cardinality(StalePending) \in Nat /\ Cardinality(Attempts) \in Nat /\ Limit \in Nat
    BY <2>2, FS_CardinalityType, AttemptAssumption
  <2> QED BY <2>5, <2>6 DEF Fits
<1> QED BY <1>1, TypeCorrect, CreatedInvariance, PTL DEF BacklogFits

\* While the backlog of stale PENDING attempts fits in the sweep's limit, the
\* sweep alone reconciles every captured payment, whatever becomes of webhooks.
THEOREM CapturedIsReconciledCorrect ==
    Spec /\ BacklogFits /\ SweepRunsEnd /\ ScanRuns
         /\ (\A a \in Attempts : GrowsOld(a) /\ RowIsHandled(a))
      => CapturedIsReconciled
<1> SUFFICES ASSUME NEW a \in Attempts
             PROVE  Spec /\ BacklogFits /\ GrowsOld(a) /\ SweepRunsEnd /\ ScanRuns /\ RowIsHandled(a)
                      => (status[a] = "PENDING" /\ provider[a] \in Captured ~> status[a] # "PENDING")
  BY DEF CapturedIsReconciled
<1> QED BY CaptureIsReconciled
=============================================================================
