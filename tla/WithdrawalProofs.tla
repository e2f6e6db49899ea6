-------------------------- MODULE WithdrawalProofs --------------------------
(***************************************************************************)
(* Proofs about Withdrawal, for every set of users, withdrawals and        *)
(* executions, every amount and every bound of the clock.                  *)
(*                                                                         *)
(* The inductive invariant is IInv: the type invariant; HoldTracksStatus,  *)
(* which ties the hold to the withdrawal row; Solvent; the two sums; and   *)
(* what an execution knows while it is between two calls.                  *)
(***************************************************************************)
EXTENDS Withdrawal, TLAPS

\* The hold and the withdrawal row close together.
HoldTracksStatus ==
    \A w \in Withdrawals :
        /\ status[w] = "NONE"      <=> hold[w] = "NONE"
        /\ status[w] \in Open      <=> hold[w] = "ACTIVE"
        /\ status[w] = "SUCCEEDED" <=> hold[w] = "SETTLED"
        /\ status[w] = "FAILED"    <=> hold[w] = "RELEASED"

\* reserveBalance and decreaseBalance never let the reserved part outgrow the rest.
Solvent == \A u \in Users : wallets[u].reserved <= wallets[u].balance

MoneyInv == HoldTracksStatus /\ Solvent /\ ReservedIsActiveHolds /\ LedgerExact

\* An execution has started after its withdrawal was created, and the lock it
\* took is at least as young as the clock it captured.
ExecutionInv ==
    /\ \A w \in Withdrawals : updatedAt[w] <= now
    /\ \A k \in Workers :
          /\ pc[k] # "idle" => status[job[k]] # "NONE"
          /\ startedAt[k] <= now
          /\ pc[k] \in ProviderSection =>
                /\ status[job[k]] \in {"PROCESSING"} \cup Closed
                /\ startedAt[k] <= updatedAt[job[k]]

\* A payout is made after the transfer, and its id is saved after it is made.
ProviderInv ==
    /\ \A w \in Withdrawals : payout[w] # "none" => transferred[w]
    /\ \A k \in Workers : pc[k] \in {"paying", "saving"} => transferred[job[k]]

IInv == TypeOK /\ MoneyInv /\ ExecutionInv /\ LockExclusion /\ ProviderInv /\ DebitedOnlyIfPaid

-----------------------------------------------------------------------------
(* Sums and wallet rows.                                                   *)

\* Adding a withdrawal to a set adds its amount to the sum.
LEMMA SumAdd ==
    ASSUME NEW S \in SUBSET Withdrawals, NEW w \in Withdrawals, w \notin S
    PROVE  SumOf[S \cup {w}] = SumOf[S] + Amount[w]
BY SumAssumption

\* Removing a withdrawal from a set takes its amount off the sum.
LEMMA SumRemove ==
    ASSUME NEW S \in SUBSET Withdrawals, NEW w \in S
    PROVE  SumOf[S] = SumOf[S \ {w}] + Amount[w]
<1>1. S = (S \ {w}) \cup {w} /\ w \notin S \ {w} /\ S \ {w} \in SUBSET Withdrawals
  OBVIOUS
<1> QED BY <1>1, SumAdd

\* A sum of holds or of ledger rows is a natural number.
LEMMA SumIsNat == ASSUME NEW S \in SUBSET Withdrawals PROVE SumOf[S] \in Nat
BY SumAssumption

\* The conditional updates of a wallet row keep it a row of two natural numbers.
LEMMA RowFacts ==
    ASSUME NEW row \in WalletRow, NEW a \in Nat
    PROVE  /\ Reserve(row, a) \in WalletRow
           /\ Reserve(row, a).balance = row.balance
           /\ Reserve(row, a).reserved = row.reserved + a
           /\ Release(row, a) \in WalletRow
           /\ Release(row, a).balance = row.balance
           /\ row.reserved >= a => Release(row, a).reserved = row.reserved - a
           /\ Release(row, a).reserved <= row.reserved
           /\ Debit(row, a).balance = row.balance - a
           /\ Debit(row, a).reserved = row.reserved
           /\ CanDebit(row, a) => Debit(row, a) \in WalletRow
BY DEF WalletRow, Reserve, Release, CanRelease, Debit, CanDebit, Available

\* What each update does to the available balance.
LEMMA AvailableFacts ==
    ASSUME NEW row \in WalletRow, NEW a \in Nat
    PROVE  /\ Available(row) \in Int
           /\ Available(Reserve(row, a)) = Available(row) - a
           /\ Available(Debit(row, a)) = Available(row) - a
           /\ row.reserved >= a =>
                 /\ Available(Release(row, a)) = Available(row) + a
                 /\ Available(Debit(Release(row, a), a)) = Available(row)
BY DEF WalletRow, Reserve, Release, CanRelease, Debit, Available

\* The holds of one wallet after the hold of one withdrawal became active or ended.
LEMMA HoldsAfter ==
    ASSUME NEW w \in Withdrawals, NEW u \in Users, NEW s \in Holds, TypeOK,
           hold' = [hold EXCEPT ![w] = s]
    PROVE  ActiveHolds(u)' = IF u = Owner[w] /\ s = "ACTIVE" THEN ActiveHolds(u) \cup {w}
                             ELSE ActiveHolds(u) \ {w}
<1>1. \A x \in Withdrawals : hold'[x] = IF x = w THEN s ELSE hold[x]
  BY DEF TypeOK
<1> QED BY <1>1 DEF ActiveHolds

-----------------------------------------------------------------------------
(* Type correctness.                                                       *)

\* The rows of the database: what the two closing transactions change.
DbTypeOK ==
    /\ wallets \in [Users -> WalletRow]
    /\ debits \in SUBSET Withdrawals
    /\ spent \in [Users -> Nat]
    /\ status \in [Withdrawals -> Statuses]
    /\ payoutSaved \in [Withdrawals -> BOOLEAN]
    /\ createdAt \in [Withdrawals -> Nat]
    /\ updatedAt \in [Withdrawals -> Nat]
    /\ hold \in [Withdrawals -> Holds]

\* The failing transaction (markFailedAndReleaseHold) keeps the types of the rows.
LEMMA FailType ==
    ASSUME NEW w \in Withdrawals, DbTypeOK, FailAndReleaseHold(w)
    PROVE  DbTypeOK'
<1>1. /\ Owner[w] \in Users /\ Amount[w] \in Nat
      /\ Release(wallets[Owner[w]], Amount[w]) \in WalletRow
  BY AmountAssumption, RowFacts DEF DbTypeOK
<1> QED BY <1>1 DEF DbTypeOK, FailAndReleaseHold, Statuses, Closed, Holds

\* The settling transaction (markSucceededAndSettle) keeps the types of the rows.
LEMMA SettleType ==
    ASSUME NEW w \in Withdrawals, DbTypeOK, SucceedAndSettle(w)
    PROVE  DbTypeOK'
<1> DEFINE released == Release(wallets[Owner[w]], Amount[w])
<1>1. /\ Owner[w] \in Users /\ Amount[w] \in Nat
      /\ released \in WalletRow
  BY AmountAssumption, RowFacts DEF DbTypeOK
<1>2. CanSettle(w) => Debit(released, Amount[w]) \in WalletRow
  BY <1>1, RowFacts DEF CanSettle
<1> QED BY <1>1, <1>2 DEF DbTypeOK, SucceedAndSettle, Statuses, Closed, Holds

\* Empty tables and idle processes have the right types.
LEMMA TypeInit == Init => TypeOK
<1> SUFFICES ASSUME Init PROVE TypeOK
  OBVIOUS
<1> QED BY AmountAssumption, TimeAssumption
        DEF Init, TypeOK, WalletRow, Statuses, Holds, Payouts, WorkerPcs, ScanMarks

\* Every step keeps the types: one case per action.
LEMMA TypeStep == TypeOK /\ [Next]_vars => TypeOK'
<1> SUFFICES ASSUME TypeOK, [Next]_vars PROVE TypeOK'
  OBVIOUS
<1> USE DEF TypeOK
<1>0. DbTypeOK
  BY DEF DbTypeOK
<1>1. ASSUME NEW w \in Withdrawals, RequestWithdrawal(w) PROVE TypeOK'
  <2>1. Owner[w] \in Users /\ Reserve(wallets[Owner[w]], Amount[w]) \in WalletRow
    BY AmountAssumption, RowFacts
  <2> QED BY <1>1, <2>1 DEF RequestWithdrawal, Statuses, Open, Holds, stripeVars, workerVars
<1>2. ASSUME NEW u \in Users, SpendBalance(u) PROVE TypeOK'
  <2>1. PICK a \in 1..Available(wallets[u]) :
            /\ wallets' = [wallets EXCEPT ![u] = Debit(@, a)]
            /\ spent' = [spent EXCEPT ![u] = @ + a]
    BY <1>2 DEF SpendBalance
  <2>2. a \in Nat /\ CanDebit(wallets[u], a)
    BY <2>1 DEF CanDebit, Available, WalletRow
  <2>3. Debit(wallets[u], a) \in WalletRow
    BY <2>2, RowFacts
  <2> QED BY <1>2, <2>1, <2>2, <2>3 DEF SpendBalance, stripeVars, workerVars
<1>3. ASSUME NEW w \in Withdrawals, NEW k \in Workers, StartExecution(k, w) PROVE TypeOK'
  BY <1>3 DEF StartExecution, SetWorker, WorkerPcs, dbVars, stripeVars
<1>4. ASSUME NEW k \in Workers,
             \/ RejectExecution(k) \/ MarkProcessing(k) \/ CreateTransfer(k) \/ CreatePayout(k)
             \/ ProviderBalanceInsufficient(k) \/ SaveStripeRefs(k) \/ AbandonExecution(k)
      PROVE  TypeOK'
  <2>1. CASE RejectExecution(k)
    <3>1. DbTypeOK'
      BY <1>0, <1>4, <2>1, FailType DEF RejectExecution
    <3> QED BY <2>1, <3>1 DEF RejectExecution, Stop, SetWorker, WorkerPcs, stripeVars, DbTypeOK
  <2>2. CASE MarkProcessing(k)
    BY <2>2 DEF MarkProcessing, Stop, SetWorker, WorkerPcs, ProviderSection, Statuses, Open, stripeVars
  <2>3. CASE CreateTransfer(k)
    BY <2>3 DEF CreateTransfer, SetWorker, WorkerPcs, ProviderSection, dbVars
  <2>4. CASE CreatePayout(k)
    BY <2>4 DEF CreatePayout, SetWorker, WorkerPcs, ProviderSection, Payouts, dbVars
  <2>5. CASE ProviderBalanceInsufficient(k)
    BY <2>5 DEF ProviderBalanceInsufficient, SetWorker, WorkerPcs, dbVars, stripeVars
  <2>6. CASE SaveStripeRefs(k)
    <3>1. payoutSaved' \in [Withdrawals -> BOOLEAN] /\ updatedAt' \in [Withdrawals -> Nat]
      <4>1. CASE status[job[k]] = "PROCESSING"
        <5>1. /\ payoutSaved' = [payoutSaved EXCEPT ![job[k]] = TRUE]
              /\ updatedAt' = [updatedAt EXCEPT ![job[k]] = now]
          BY <2>6, <4>1, Zenon DEF SaveStripeRefs
        <5>2. payoutSaved' \in [Withdrawals -> BOOLEAN]
          BY <5>1, Zenon
        <5>3. now \in Nat
          BY TimeAssumption
        <5> QED BY <5>1, <5>2, <5>3
      <4>2. CASE status[job[k]] # "PROCESSING"
        BY <2>6, <4>2 DEF SaveStripeRefs
      <4> QED BY <4>1, <4>2
    <3> QED BY <2>6, <3>1 DEF SaveStripeRefs, Stop, SetWorker, WorkerPcs, stripeVars
  <2>7. CASE AbandonExecution(k)
    BY <2>7 DEF AbandonExecution, Stop, SetWorker, WorkerPcs, dbVars, stripeVars
  <2> QED BY <1>4, <2>1, <2>2, <2>3, <2>4, <2>5, <2>6, <2>7
<1>5. ASSUME NEW w \in Withdrawals, PayoutTerminates(w) PROVE TypeOK'
  BY <1>5 DEF PayoutTerminates, Payouts, dbVars, workerVars
<1>6. ASSUME NEW w \in Withdrawals, PayoutWebhook(w) \/ SweepRow(w) PROVE TypeOK'
  <2>1. DbTypeOK'
    BY <1>0, <1>6, FailType, SettleType DEF PayoutWebhook, SweepRow, dbVars, DbTypeOK
  <2>2. scanned' \in [Withdrawals -> ScanMarks]
    BY <1>6 DEF PayoutWebhook, SweepRow, ScanMarks
  <2> QED BY <1>6, <2>1, <2>2 DEF PayoutWebhook, SweepRow, stripeVars, workerVars, DbTypeOK
<1>7. CASE SweepScan \/ SweepAborts
  BY <1>7 DEF SweepScan, SweepAborts, ScanMarks, dbVars, stripeVars, workerVars
<1>8. CASE Tick
  BY <1>8, TimeAssumption DEF Tick, dbVars, stripeVars, workerVars
<1>9. CASE UNCHANGED vars
  BY <1>9 DEF vars, dbVars, stripeVars, workerVars
<1> QED BY <1>1, <1>2, <1>3, <1>4, <1>5, <1>6, <1>7, <1>8, <1>9 DEF Next

-----------------------------------------------------------------------------
(* Money.                                                                  *)

\* With no withdrawal and no debit, reserved and spent amounts are zero.
LEMMA MoneyInit == Init => MoneyInv
<1> SUFFICES ASSUME Init PROVE MoneyInv
  OBVIOUS
<1>1. \A u \in Users : ActiveHolds(u) = {} /\ DebitsOf(u) = {}
  BY DEF Init, ActiveHolds, DebitsOf
<1>2. \A u \in Users : /\ wallets[u].balance = InitialBalance[u] /\ wallets[u].reserved = 0
                       /\ InitialBalance[u] \in Nat /\ spent[u] = 0
  BY AmountAssumption DEF Init
<1>3. HoldTracksStatus
  BY DEF Init, HoldTracksStatus, Open
<1>4. Solvent
  BY <1>2 DEF Solvent
<1>5. ReservedIsActiveHolds
  BY <1>1, <1>2, SumAssumption DEF ReservedIsActiveHolds
<1>6. debits = {x \in Withdrawals : status[x] = "SUCCEEDED"}
  BY DEF Init
<1>7. ASSUME NEW u \in Users
      PROVE  wallets[u].balance + spent[u] + SumOf[DebitsOf(u)] = InitialBalance[u]
  <2>1. SumOf[DebitsOf(u)] = 0
    BY <1>1, SumAssumption
  <2> QED BY <1>2, <2>1
<1> QED BY <1>3, <1>4, <1>5, <1>6, <1>7 DEF MoneyInv, LedgerExact

\* An open withdrawal's amount is part of what its wallet has reserved.
LEMMA OpenIsReserved ==
    ASSUME NEW w \in Withdrawals, TypeOK, MoneyInv, status[w] \in Open
    PROVE  /\ w \in ActiveHolds(Owner[w])
           /\ Amount[w] <= wallets[Owner[w]].reserved
           /\ wallets[Owner[w]].reserved =
                 SumOf[ActiveHolds(Owner[w]) \ {w}] + Amount[w]
           /\ w \notin debits
<1>1. w \in ActiveHolds(Owner[w])
  BY DEF MoneyInv, HoldTracksStatus, ActiveHolds
<1>2. /\ ActiveHolds(Owner[w]) \in SUBSET Withdrawals
      /\ ActiveHolds(Owner[w]) \ {w} \in SUBSET Withdrawals
  BY DEF ActiveHolds
<1>3. SumOf[ActiveHolds(Owner[w])] = SumOf[ActiveHolds(Owner[w]) \ {w}] + Amount[w]
  BY <1>1, <1>2, SumRemove
<1>4. SumOf[ActiveHolds(Owner[w]) \ {w}] \in Nat
  BY <1>2, SumIsNat
<1>5. Owner[w] \in Users /\ Amount[w] \in Nat
  BY AmountAssumption
<1>6. wallets[Owner[w]].reserved = SumOf[ActiveHolds(Owner[w])]
  BY <1>5 DEF MoneyInv, ReservedIsActiveHolds
<1> QED BY <1>1, <1>3, <1>4, <1>5, <1>6 DEF MoneyInv, LedgerExact, Open

\* The reserved part of a wallet covers every open withdrawal, so its settling
\* transaction finds the money it needs.
LEMMA SettleIsPossible ==
    ASSUME NEW w \in Withdrawals, TypeOK, MoneyInv, status[w] \in Open
    PROVE  CanSettle(w) /\ CanRelease(wallets[Owner[w]], Amount[w])
<1>1. Owner[w] \in Users /\ Amount[w] \in Nat /\ wallets[Owner[w]] \in WalletRow
  BY AmountAssumption DEF TypeOK
<1>2. wallets[Owner[w]].reserved <= wallets[Owner[w]].balance
  BY <1>1 DEF MoneyInv, Solvent
<1>3. Amount[w] <= wallets[Owner[w]].reserved /\ w \notin debits
  BY OpenIsReserved
<1> DEFINE row == Release(wallets[Owner[w]], Amount[w])
<1>4. /\ row.balance = wallets[Owner[w]].balance
      /\ row.reserved = wallets[Owner[w]].reserved - Amount[w]
  BY <1>1, <1>3, RowFacts DEF WalletRow
<1>5. CanDebit(row, Amount[w])
  BY <1>1, <1>2, <1>3, <1>4 DEF CanDebit, Available, WalletRow
<1> QED BY <1>1, <1>3, <1>5 DEF CanSettle, CanRelease

\* A request adds its amount to the reserved balance and to the active holds alike.
LEMMA RequestMoney ==
    ASSUME NEW w \in Withdrawals, TypeOK, MoneyInv, RequestWithdrawal(w)
    PROVE  MoneyInv'
<1> DEFINE o == Owner[w]
<1>1. o \in Users /\ Amount[w] \in Nat /\ wallets[o] \in WalletRow
  BY AmountAssumption DEF TypeOK
<1>2. /\ hold' = [hold EXCEPT ![w] = "ACTIVE"]
      /\ status[w] = "NONE" /\ hold[w] = "NONE"
      /\ \A x \in Withdrawals : hold'[x] = IF x = w THEN "ACTIVE" ELSE hold[x]
      /\ \A x \in Withdrawals : status'[x] = IF x = w THEN "PENDING" ELSE status[x]
  BY DEF RequestWithdrawal, MoneyInv, HoldTracksStatus, TypeOK
<1>3. \A u \in Users : wallets'[u] = IF u = o THEN Reserve(wallets[o], Amount[w]) ELSE wallets[u]
  BY <1>1 DEF RequestWithdrawal, TypeOK
<1>4. /\ Reserve(wallets[o], Amount[w]).balance = wallets[o].balance
      /\ Reserve(wallets[o], Amount[w]).reserved = wallets[o].reserved + Amount[w]
  BY <1>1, RowFacts
<1>5. HoldTracksStatus'
  BY <1>2 DEF MoneyInv, HoldTracksStatus, Open
<1>6. Solvent'
  BY <1>1, <1>3, <1>4 DEF MoneyInv, Solvent, RequestWithdrawal, CanReserve, Available, WalletRow
<1>7. ReservedIsActiveHolds'
  <2> SUFFICES ASSUME NEW u \in Users PROVE wallets'[u].reserved = SumOf[ActiveHolds(u)']
    BY DEF ReservedIsActiveHolds
  <2>1. wallets[u].reserved = SumOf[ActiveHolds(u)]
    BY DEF MoneyInv, ReservedIsActiveHolds
  <2>2. ActiveHolds(u)' = IF u = o THEN ActiveHolds(u) \cup {w} ELSE ActiveHolds(u) \ {w}
    BY <1>2, HoldsAfter DEF Holds
  <2>3. w \notin ActiveHolds(u) /\ ActiveHolds(u) \in SUBSET Withdrawals
    BY <1>2 DEF ActiveHolds
  <2>4. CASE u = o
    BY <1>3, <1>4, <2>1, <2>2, <2>3, <2>4, SumAdd
  <2>5. CASE u # o
    <3>1. ActiveHolds(u)' = ActiveHolds(u)
      BY <2>2, <2>3, <2>5
    <3> QED BY <1>3, <2>1, <2>5, <3>1
  <2> QED BY <2>4, <2>5
<1>8. LedgerExact'
  <2>1. debits' = debits /\ spent' = spent /\ \A u \in Users : DebitsOf(u)' = DebitsOf(u)
    BY DEF RequestWithdrawal, DebitsOf
  <2>2. \A u \in Users : wallets'[u].balance = wallets[u].balance
    BY <1>3, <1>4
  <2>3. {x \in Withdrawals : status'[x] = "SUCCEEDED"} = {x \in Withdrawals : status[x] = "SUCCEEDED"}
    BY <1>2
  <2> QED BY <2>1, <2>2, <2>3 DEF MoneyInv, LedgerExact
<1> QED BY <1>5, <1>6, <1>7, <1>8 DEF MoneyInv

\* Other spending lowers the balance by what the ledger records, and nothing held.
LEMMA SpendMoney ==
    ASSUME NEW o \in Users, TypeOK, MoneyInv, SpendBalance(o)
    PROVE  MoneyInv'
<1>1. PICK a \in 1..Available(wallets[o]) :
          /\ wallets' = [wallets EXCEPT ![o] = Debit(@, a)]
          /\ spent' = [spent EXCEPT ![o] = @ + a]
  BY DEF SpendBalance
<1>2. wallets[o] \in WalletRow /\ a \in Nat /\ a <= wallets[o].balance - wallets[o].reserved
  BY <1>1 DEF TypeOK, Available, WalletRow
<1>3. /\ Debit(wallets[o], a).balance = wallets[o].balance - a
      /\ Debit(wallets[o], a).reserved = wallets[o].reserved
  BY <1>2, RowFacts
<1>4. /\ \A u \in Users : wallets'[u] = IF u = o THEN Debit(wallets[o], a) ELSE wallets[u]
      /\ \A u \in Users : spent'[u] = IF u = o THEN spent[o] + a ELSE spent[u]
  BY <1>1 DEF TypeOK
<1>5. status' = status /\ hold' = hold /\ debits' = debits
  BY DEF SpendBalance
<1>6. HoldTracksStatus'
  BY <1>5 DEF MoneyInv, HoldTracksStatus
<1>7. Solvent'
  BY <1>2, <1>3, <1>4 DEF MoneyInv, Solvent, WalletRow
<1>8. ReservedIsActiveHolds'
  BY <1>3, <1>4, <1>5 DEF MoneyInv, ReservedIsActiveHolds, ActiveHolds
<1>9. LedgerExact'
  <2>1. \A u \in Users : DebitsOf(u)' = DebitsOf(u)
    BY <1>5 DEF DebitsOf
  <2>2. \A u \in Users : /\ wallets[u].balance \in Nat /\ spent[u] \in Nat
                         /\ wallets'[u].balance + spent'[u] = wallets[u].balance + spent[u]
    BY <1>2, <1>3, <1>4 DEF TypeOK, WalletRow
  <2> QED BY <1>5, <2>1, <2>2 DEF MoneyInv, LedgerExact
<1> QED BY <1>6, <1>7, <1>8, <1>9 DEF MoneyInv

\* The failing transaction ends the hold and takes its amount off the reserved balance.
LEMMA FailMoney ==
    ASSUME NEW w \in Withdrawals, TypeOK, MoneyInv, FailAndReleaseHold(w)
    PROVE  MoneyInv'
<1> DEFINE o == Owner[w]
<1>1. CASE status[w] \notin Open
  <2>1. /\ status' = status /\ wallets' = wallets /\ hold' = hold
        /\ debits' = debits /\ spent' = spent
    BY <1>1 DEF FailAndReleaseHold
  <2> QED BY <2>1 DEF MoneyInv, HoldTracksStatus, Solvent, ReservedIsActiveHolds, LedgerExact,
                      ActiveHolds, DebitsOf
<1>2. CASE status[w] \in Open
  <2>1. /\ o \in Users /\ Amount[w] \in Nat /\ wallets[o] \in WalletRow
    BY AmountAssumption DEF TypeOK
  <2>2. /\ status' = [status EXCEPT ![w] = "FAILED"]
        /\ wallets' = [wallets EXCEPT ![o] = Release(@, Amount[w])]
        /\ hold' = [hold EXCEPT ![w] = "RELEASED"]
        /\ debits' = debits /\ spent' = spent
    BY <1>2 DEF FailAndReleaseHold, MoneyInv, HoldTracksStatus, TypeOK
  <2>3. /\ \A x \in Withdrawals : hold'[x] = IF x = w THEN "RELEASED" ELSE hold[x]
        /\ \A x \in Withdrawals : status'[x] = IF x = w THEN "FAILED" ELSE status[x]
        /\ \A u \in Users : wallets'[u] = IF u = o THEN Release(wallets[o], Amount[w]) ELSE wallets[u]
    BY <2>1, <2>2 DEF TypeOK
  <2>4. /\ Amount[w] <= wallets[o].reserved
        /\ wallets[o].reserved = SumOf[ActiveHolds(o) \ {w}] + Amount[w]
        /\ SumOf[ActiveHolds(o) \ {w}] \in Nat
    BY <1>2, OpenIsReserved, SumIsNat DEF ActiveHolds
  <2>5. /\ Release(wallets[o], Amount[w]).balance = wallets[o].balance
        /\ Release(wallets[o], Amount[w]).reserved = wallets[o].reserved - Amount[w]
    BY <2>1, <2>4, RowFacts DEF WalletRow
  <2>6. HoldTracksStatus'
    BY <2>3 DEF MoneyInv, HoldTracksStatus, Open
  <2>7. Solvent'
    BY <2>1, <2>3, <2>5 DEF MoneyInv, Solvent, WalletRow
  <2>8. ReservedIsActiveHolds'
    <3> SUFFICES ASSUME NEW u \in Users PROVE wallets'[u].reserved = SumOf[ActiveHolds(u)']
      BY DEF ReservedIsActiveHolds
    <3>1. ActiveHolds(u)' = ActiveHolds(u) \ {w}
      BY <2>2, HoldsAfter DEF Holds
    <3>2. CASE u = o
      BY <2>1, <2>3, <2>4, <2>5, <3>1, <3>2
    <3>3. CASE u # o
      <4>1. ActiveHolds(u)' = ActiveHolds(u)
        BY <3>1, <3>3 DEF ActiveHolds
      <4> QED BY <2>3, <3>3, <4>1 DEF MoneyInv, ReservedIsActiveHolds
    <3> QED BY <3>2, <3>3
  <2>9. LedgerExact'
    <3>1. \A u \in Users : DebitsOf(u)' = DebitsOf(u) /\ wallets'[u].balance = wallets[u].balance
      BY <2>2, <2>3, <2>5 DEF DebitsOf
    <3>2. {x \in Withdrawals : status'[x] = "SUCCEEDED"} = {x \in Withdrawals : status[x] = "SUCCEEDED"}
      BY <1>2, <2>3 DEF Open
    <3> QED BY <2>2, <3>1, <3>2 DEF MoneyInv, LedgerExact
  <2> QED BY <2>6, <2>7, <2>8, <2>9 DEF MoneyInv
<1> QED BY <1>1, <1>2

\* The settling transaction ends the hold and moves its amount from the reserved
\* balance to the ledger.
LEMMA SettleMoney ==
    ASSUME NEW w \in Withdrawals, TypeOK, MoneyInv, SucceedAndSettle(w)
    PROVE  MoneyInv'
<1> DEFINE o == Owner[w]
           row == Debit(Release(wallets[o], Amount[w]), Amount[w])
<1>1. CASE ~CanSettle(w)
  <2>1. /\ status' = status /\ wallets' = wallets /\ hold' = hold
        /\ debits' = debits /\ spent' = spent
    BY <1>1 DEF SucceedAndSettle
  <2> QED BY <2>1 DEF MoneyInv, HoldTracksStatus, Solvent, ReservedIsActiveHolds, LedgerExact,
                      ActiveHolds, DebitsOf
<1>2. CASE CanSettle(w)
  <2>1. /\ o \in Users /\ Amount[w] \in Nat /\ wallets[o] \in WalletRow
        /\ status[w] \in Open
    BY <1>2, AmountAssumption DEF TypeOK, CanSettle
  <2>2. /\ status' = [status EXCEPT ![w] = "SUCCEEDED"]
        /\ wallets' = [wallets EXCEPT ![o] = Debit(Release(@, Amount[w]), Amount[w])]
        /\ hold' = [hold EXCEPT ![w] = "SETTLED"]
        /\ debits' = debits \cup {w} /\ spent' = spent
    BY <1>2, <2>1 DEF SucceedAndSettle, MoneyInv, HoldTracksStatus, TypeOK
  <2>3. /\ \A x \in Withdrawals : hold'[x] = IF x = w THEN "SETTLED" ELSE hold[x]
        /\ \A x \in Withdrawals : status'[x] = IF x = w THEN "SUCCEEDED" ELSE status[x]
        /\ \A u \in Users : wallets'[u] = IF u = o THEN row ELSE wallets[u]
    BY <2>1, <2>2 DEF TypeOK
  <2>4. /\ Amount[w] <= wallets[o].reserved
        /\ wallets[o].reserved = SumOf[ActiveHolds(o) \ {w}] + Amount[w]
        /\ SumOf[ActiveHolds(o) \ {w}] \in Nat
        /\ w \notin debits
    BY <2>1, OpenIsReserved, SumIsNat DEF ActiveHolds
  <2>5. /\ row.balance = wallets[o].balance - Amount[w]
        /\ row.reserved = wallets[o].reserved - Amount[w]
    <3>1. /\ Release(wallets[o], Amount[w]) \in WalletRow
          /\ Release(wallets[o], Amount[w]).balance = wallets[o].balance
          /\ Release(wallets[o], Amount[w]).reserved = wallets[o].reserved - Amount[w]
      BY <2>1, <2>4, RowFacts DEF WalletRow
    <3>2. ASSUME NEW r \in WalletRow
          PROVE  Debit(r, Amount[w]).balance = r.balance - Amount[w] /\ Debit(r, Amount[w]).reserved = r.reserved
      BY <2>1, RowFacts
    <3> QED BY <3>1, <3>2
  <2>6. HoldTracksStatus'
    BY <2>3 DEF MoneyInv, HoldTracksStatus, Open
  <2>7. Solvent'
    BY <2>1, <2>3, <2>4, <2>5 DEF MoneyInv, Solvent, WalletRow
  <2>8. ReservedIsActiveHolds'
    <3> SUFFICES ASSUME NEW u \in Users PROVE wallets'[u].reserved = SumOf[ActiveHolds(u)']
      BY DEF ReservedIsActiveHolds
    <3>1. ActiveHolds(u)' = ActiveHolds(u) \ {w}
      BY <2>2, HoldsAfter DEF Holds
    <3>2. CASE u = o
      BY <2>1, <2>3, <2>4, <2>5, <3>1, <3>2
    <3>3. CASE u # o
      <4>1. ActiveHolds(u)' = ActiveHolds(u)
        BY <3>1, <3>3 DEF ActiveHolds
      <4> QED BY <2>3, <3>3, <4>1 DEF MoneyInv, ReservedIsActiveHolds
    <3> QED BY <3>2, <3>3
  <2>9. LedgerExact'
    <3>1. ASSUME NEW u \in Users
          PROVE  wallets'[u].balance + spent'[u] + SumOf[DebitsOf(u)'] = InitialBalance[u]
      <4>1. /\ wallets[u].balance + spent[u] + SumOf[DebitsOf(u)] = InitialBalance[u]
            /\ wallets[u].balance \in Nat /\ spent[u] \in Nat
            /\ DebitsOf(u) \in SUBSET Withdrawals /\ w \notin DebitsOf(u)
        <5>1. wallets[u] \in WalletRow /\ spent[u] \in Nat /\ debits \in SUBSET Withdrawals
          BY DEF TypeOK
        <5>2. DebitsOf(u) \in SUBSET Withdrawals /\ w \notin DebitsOf(u)
          BY <2>4, <5>1 DEF DebitsOf
        <5> QED BY <5>1, <5>2 DEF MoneyInv, LedgerExact, WalletRow
      <4>2. DebitsOf(u)' = IF u = o THEN DebitsOf(u) \cup {w} ELSE DebitsOf(u)
        BY <2>2 DEF DebitsOf
      <4>3. SumOf[DebitsOf(u)] \in Nat /\ SumOf[DebitsOf(u) \cup {w}] = SumOf[DebitsOf(u)] + Amount[w]
        BY <4>1, SumAdd, SumIsNat
      <4>4. wallets'[u].balance = IF u = o THEN wallets[u].balance - Amount[w] ELSE wallets[u].balance
        BY <2>3, <2>5
      <4> QED BY <2>1, <2>2, <4>1, <4>2, <4>3, <4>4
    <3>2. debits' = {x \in Withdrawals : status'[x] = "SUCCEEDED"}
      BY <2>2, <2>3 DEF MoneyInv, LedgerExact
    <3> QED BY <3>1, <3>2 DEF LedgerExact
  <2> QED BY <2>6, <2>7, <2>8, <2>9 DEF MoneyInv
<1> QED BY <1>1, <1>2

\* The steps that leave wallets, holds, ledger and closed rows alone.
MoneyKept ==
    /\ wallets' = wallets /\ hold' = hold /\ debits' = debits /\ spent' = spent
    /\ \A w \in Withdrawals :
          status'[w] = status[w] \/ (status[w] \in Open /\ status'[w] \in Open)

\* A step that leaves money alone and keeps open rows open keeps the money facts.
LEMMA MoneyUnchanged == TypeOK /\ MoneyInv /\ MoneyKept => MoneyInv'
<1> SUFFICES ASSUME TypeOK, MoneyInv, MoneyKept PROVE MoneyInv'
  OBVIOUS
<1> USE DEF MoneyKept
<1>1. HoldTracksStatus'
  BY DEF MoneyInv, HoldTracksStatus, Open
<1>2. Solvent' /\ ReservedIsActiveHolds'
  BY DEF MoneyInv, Solvent, ReservedIsActiveHolds, ActiveHolds
<1>3. {w \in Withdrawals : status'[w] = "SUCCEEDED"} = {w \in Withdrawals : status[w] = "SUCCEEDED"}
  BY DEF Open
<1>4. LedgerExact'
  BY <1>3 DEF MoneyInv, LedgerExact, DebitsOf
<1> QED BY <1>1, <1>2, <1>4 DEF MoneyInv

\* One lemma for the money part of a step; the refinement below uses the same cases.
LEMMA MoneyStep == TypeOK /\ MoneyInv /\ [Next]_vars => MoneyInv'
<1> SUFFICES ASSUME TypeOK, MoneyInv, [Next]_vars PROVE MoneyInv'
  OBVIOUS
<1>1. ASSUME NEW w \in Withdrawals, RequestWithdrawal(w) PROVE MoneyInv'
  BY <1>1, RequestMoney
<1>2. ASSUME NEW u \in Users, SpendBalance(u) PROVE MoneyInv'
  BY <1>2, SpendMoney
<1>3. ASSUME NEW w \in Withdrawals, PayoutWebhook(w) \/ SweepRow(w) PROVE MoneyInv'
  <2>1. FailAndReleaseHold(w) \/ SucceedAndSettle(w) \/ UNCHANGED dbVars
    BY <1>3 DEF PayoutWebhook, SweepRow
  <2>2. CASE UNCHANGED dbVars
    BY <2>2, MoneyUnchanged DEF dbVars, MoneyKept
  <2> QED BY <2>1, <2>2, FailMoney, SettleMoney
<1>4. ASSUME NEW k \in Workers, RejectExecution(k) PROVE MoneyInv'
  <2>1. job[k] \in Withdrawals /\ FailAndReleaseHold(job[k])
    BY <1>4 DEF RejectExecution, TypeOK
  <2> QED BY <2>1, FailMoney
<1>5. ASSUME NEW k \in Workers, MarkProcessing(k) PROVE MoneyInv'
  <2>1. wallets' = wallets /\ hold' = hold /\ debits' = debits /\ spent' = spent
    BY <1>5 DEF MarkProcessing
  <2>2. \A w \in Withdrawals : \/ status'[w] = status[w]
                               \/ status[w] \in Open /\ status'[w] \in Open
    BY <1>5 DEF MarkProcessing, Lockable, Open, TypeOK
  <2> QED BY <2>1, <2>2, MoneyUnchanged DEF MoneyKept
<1>6. ASSUME NEW k \in Workers, SaveStripeRefs(k) PROVE MoneyInv'
  BY <1>6, MoneyUnchanged DEF SaveStripeRefs, MoneyKept
<1>7. CASE UNCHANGED dbVars
  BY <1>7, MoneyUnchanged DEF dbVars, MoneyKept
<1>8. ASSUME NEW w \in Withdrawals, NEW k \in Workers, StartExecution(k, w) PROVE UNCHANGED dbVars
  BY <1>8 DEF StartExecution
<1>9. ASSUME NEW k \in Workers,
             \/ CreateTransfer(k) \/ CreatePayout(k)
             \/ ProviderBalanceInsufficient(k) \/ AbandonExecution(k)
      PROVE  UNCHANGED dbVars
  BY <1>9 DEF CreateTransfer, CreatePayout, ProviderBalanceInsufficient, AbandonExecution
<1>10. ASSUME NEW w \in Withdrawals, PayoutTerminates(w) PROVE UNCHANGED dbVars
  BY <1>10 DEF PayoutTerminates
<1>11. CASE SweepScan \/ SweepAborts \/ Tick \/ UNCHANGED vars
  BY <1>11, <1>7 DEF SweepScan, SweepAborts, Tick, vars
<1> QED BY <1>1, <1>2, <1>3, <1>4, <1>5, <1>6, <1>7, <1>8, <1>9, <1>10, <1>11 DEF Next

-----------------------------------------------------------------------------
(* Executions and the PROCESSING lock.                                     *)

Begun == {"PROCESSING"} \cup Closed

\* Rows and the clock only move forward.
RowsProgress ==
    /\ now <= now'
    /\ \A w \in Withdrawals :
          /\ status[w] # "NONE" => status'[w] # "NONE"
          /\ status[w] \in Begun => status'[w] \in Begun
          /\ updatedAt[w] <= updatedAt'[w]
          /\ updatedAt'[w] <= now'

\* Closing a withdrawal row never moves its clock columns back.
LEMMA CloseProgress ==
    ASSUME NEW w \in Withdrawals, TypeOK, ExecutionInv,
           FailAndReleaseHold(w) \/ SucceedAndSettle(w), now' = now
    PROVE  RowsProgress
<1>1. /\ updatedAt' = updatedAt
      /\ \/ status' = status
         \/ status[w] \in Open /\ status' = [status EXCEPT ![w] = "FAILED"]
         \/ status[w] \in Open /\ status' = [status EXCEPT ![w] = "SUCCEEDED"]
  BY DEF FailAndReleaseHold, SucceedAndSettle, CanSettle
<1> QED BY <1>1 DEF TypeOK, ExecutionInv, RowsProgress, Begun, Closed

\* No step takes a row back to before its execution began.
LEMMA StepProgress == TypeOK /\ ExecutionInv /\ [Next]_vars => RowsProgress
<1> SUFFICES ASSUME TypeOK, ExecutionInv, [Next]_vars PROVE RowsProgress
  OBVIOUS
<1>0. now \in Nat /\ \A w \in Withdrawals : updatedAt[w] \in Nat
  BY TimeAssumption DEF TypeOK
<1>1. ASSUME NEW w \in Withdrawals, RequestWithdrawal(w) PROVE RowsProgress
  BY <1>0, <1>1 DEF RequestWithdrawal, RowsProgress, TypeOK, ExecutionInv, Begun, Closed
<1>2. ASSUME UNCHANGED dbVars, now' = now \/ now' = now + 1 PROVE RowsProgress
  <2>1. status' = status /\ updatedAt' = updatedAt
    BY <1>2 DEF dbVars
  <2> QED BY <1>0, <1>2, <2>1 DEF RowsProgress, ExecutionInv
<1>3. ASSUME NEW u \in Users, SpendBalance(u) PROVE RowsProgress
  BY <1>0, <1>3 DEF SpendBalance, RowsProgress, ExecutionInv
<1>4. ASSUME NEW w \in Withdrawals, PayoutWebhook(w) \/ SweepRow(w) PROVE RowsProgress
  <2>1. now' = now /\ (FailAndReleaseHold(w) \/ SucceedAndSettle(w) \/ UNCHANGED dbVars)
    BY <1>4 DEF PayoutWebhook, SweepRow
  <2> QED BY <1>2, <2>1, CloseProgress
<1>5. ASSUME NEW k \in Workers, RejectExecution(k) PROVE RowsProgress
  <2>1. job[k] \in Withdrawals /\ FailAndReleaseHold(job[k]) /\ now' = now
    BY <1>5 DEF RejectExecution, TypeOK
  <2> QED BY <2>1, CloseProgress
<1>6. ASSUME NEW k \in Workers, MarkProcessing(k) PROVE RowsProgress
  <2>1. job[k] \in Withdrawals /\ now' = now
    BY <1>6 DEF MarkProcessing, TypeOK
  <2>2. \/ /\ Lockable(job[k], startedAt[k])
           /\ status' = [status EXCEPT ![job[k]] = "PROCESSING"]
           /\ updatedAt' = [updatedAt EXCEPT ![job[k]] = now]
        \/ status' = status /\ updatedAt' = updatedAt
    BY <1>6 DEF MarkProcessing
  <2> QED BY <1>0, <2>1, <2>2 DEF RowsProgress, TypeOK, ExecutionInv, Begun
<1>7. ASSUME NEW k \in Workers, SaveStripeRefs(k) PROVE RowsProgress
  <2>1. job[k] \in Withdrawals /\ now' = now /\ status' = status
    BY <1>7 DEF SaveStripeRefs, TypeOK
  <2>2. updatedAt' = [updatedAt EXCEPT ![job[k]] = now] \/ updatedAt' = updatedAt
    BY <1>7 DEF SaveStripeRefs
  <2> QED BY <1>0, <2>1, <2>2 DEF RowsProgress, TypeOK, ExecutionInv
<1>8. ASSUME NEW w \in Withdrawals, NEW k \in Workers, StartExecution(k, w) PROVE RowsProgress
  BY <1>2, <1>8 DEF StartExecution
<1>9. ASSUME NEW k \in Workers,
             \/ CreateTransfer(k) \/ CreatePayout(k)
             \/ ProviderBalanceInsufficient(k) \/ AbandonExecution(k)
      PROVE  RowsProgress
  BY <1>2, <1>9 DEF CreateTransfer, CreatePayout, ProviderBalanceInsufficient, AbandonExecution
<1>10. ASSUME NEW w \in Withdrawals, PayoutTerminates(w) PROVE RowsProgress
  BY <1>2, <1>10 DEF PayoutTerminates
<1>11. CASE SweepScan \/ SweepAborts \/ Tick \/ UNCHANGED vars
  BY <1>2, <1>11 DEF SweepScan, SweepAborts, Tick, vars
<1> QED BY <1>1, <1>3, <1>4, <1>5, <1>6, <1>7, <1>8, <1>9, <1>10, <1>11 DEF Next

\* What a step does to one execution: nothing; or it starts; or it takes the
\* lock; or it goes on inside the provider section, or from there to a
\* rejection; or it stops.
ExecutionSame(k) == pc'[k] = pc[k] /\ job'[k] = job[k] /\ startedAt'[k] = startedAt[k]

ExecutionMove(k) ==
    \/ ExecutionSame(k)
    \/ /\ pc'[k] \in {"locking", "rejecting"}
       /\ startedAt'[k] = now /\ now' = now
       /\ job'[k] \in Withdrawals /\ status[job'[k]] # "NONE"
    \/ /\ pc[k] = "locking" /\ pc'[k] = "transferring"
       /\ job'[k] = job[k] /\ startedAt'[k] = startedAt[k]
       /\ Lockable(job[k], startedAt[k])
       /\ status'[job[k]] = "PROCESSING" /\ updatedAt'[job[k]] = now
       /\ now' = now
    \/ /\ pc[k] \in ProviderSection /\ pc'[k] \in ProviderSection \cup {"rejecting"}
       /\ job'[k] = job[k] /\ startedAt'[k] = startedAt[k]
    \/ /\ pc'[k] = "idle" /\ startedAt'[k] = 0

\* Only one execution moves at a time.
LEMMA ExecutionMoves ==
    ASSUME TypeOK, [Next]_vars
    PROVE  /\ \A k \in Workers : ExecutionMove(k)
           /\ \A k, l \in Workers : k # l => ExecutionSame(k) \/ ExecutionSame(l)
<1> USE DEF ExecutionSame
<1> DEFINE Only(k) == ExecutionMove(k) /\ \A l \in Workers : l # k => ExecutionSame(l)
           Goal    == /\ \A k \in Workers : ExecutionMove(k)
                      /\ \A k, l \in Workers : k # l => ExecutionSame(k) \/ ExecutionSame(l)
<1>1. ASSUME UNCHANGED workerVars PROVE Goal
  BY <1>1 DEF workerVars, ExecutionMove
<1>2. ASSUME NEW k \in Workers, Only(k) PROVE Goal
  BY <1>2 DEF ExecutionMove
<1>3. ASSUME NEW k \in Workers, Stop(k) PROVE Only(k)
  BY <1>3 DEF Stop, SetWorker, ExecutionMove, TypeOK
<1>4. ASSUME NEW k \in Workers, NEW w \in Withdrawals, StartExecution(k, w) PROVE Only(k)
  BY <1>4 DEF StartExecution, SetWorker, ExecutionMove, TypeOK
<1>5. ASSUME NEW k \in Workers, MarkProcessing(k) PROVE Only(k)
  <2>1. CASE Lockable(job[k], startedAt[k])
    BY <1>5, <2>1 DEF MarkProcessing, SetWorker, ExecutionMove, TypeOK
  <2>2. CASE ~Lockable(job[k], startedAt[k])
    BY <1>3, <1>5, <2>2 DEF MarkProcessing
  <2> QED BY <2>1, <2>2
<1>6. ASSUME NEW k \in Workers, CreateTransfer(k) \/ CreatePayout(k) \/ ProviderBalanceInsufficient(k)
      PROVE  Only(k)
  BY <1>6 DEF CreateTransfer, CreatePayout, ProviderBalanceInsufficient, SetWorker,
              ExecutionMove, ProviderSection, TypeOK
<1>7. ASSUME NEW k \in Workers, RejectExecution(k) \/ SaveStripeRefs(k) \/ AbandonExecution(k)
      PROVE  Only(k)
  BY <1>3, <1>7 DEF RejectExecution, SaveStripeRefs, AbandonExecution
<1>8. ASSUME \/ \E w \in Withdrawals : \/ RequestWithdrawal(w) \/ PayoutTerminates(w)
                                       \/ PayoutWebhook(w) \/ SweepRow(w)
             \/ \E u \in Users : SpendBalance(u)
             \/ SweepScan \/ SweepAborts \/ Tick \/ UNCHANGED vars
      PROVE  UNCHANGED workerVars
  BY <1>8 DEF RequestWithdrawal, PayoutTerminates, PayoutWebhook, SweepRow, SpendBalance,
              SweepScan, SweepAborts, Tick, vars
<1>9. Goal
  BY <1>1, <1>2, <1>4, <1>5, <1>6, <1>7, <1>8 DEF Next
<1> QED BY <1>9

\* What a running execution knows of its row stays true under every step.
LEMMA ExecutionStep == TypeOK /\ ExecutionInv /\ [Next]_vars => ExecutionInv'
<1> SUFFICES ASSUME TypeOK, ExecutionInv, [Next]_vars PROVE ExecutionInv'
  OBVIOUS
<1>1. RowsProgress
  BY StepProgress
<1>2. TypeOK' /\ now \in Nat /\ now' \in Nat
  BY TypeStep, TimeAssumption DEF TypeOK
<1>3. ASSUME NEW k \in Workers
      PROVE  /\ pc'[k] # "idle" => status'[job'[k]] # "NONE"
             /\ startedAt'[k] <= now'
             /\ pc'[k] \in ProviderSection =>
                   /\ status'[job'[k]] \in Begun
                   /\ startedAt'[k] <= updatedAt'[job'[k]]
  <2>1. ExecutionMove(k)
    BY ExecutionMoves
  <2>2. /\ startedAt[k] \in Nat
        /\ pc[k] = "idle" \/ job[k] \in Withdrawals
        /\ \A w \in Withdrawals : updatedAt[w] \in Nat /\ updatedAt'[w] \in Nat
    BY <1>2 DEF TypeOK
  <2>3. CASE ExecutionSame(k) \/ (pc[k] \in ProviderSection /\ job'[k] = job[k] /\ startedAt'[k] = startedAt[k])
    BY <1>1, <1>2, <2>2, <2>3 DEF ExecutionSame, ExecutionInv, RowsProgress, Begun, ProviderSection
  <2>4. CASE /\ pc'[k] \in {"locking", "rejecting"}
             /\ startedAt'[k] = now /\ now' = now
             /\ job'[k] \in Withdrawals /\ status[job'[k]] # "NONE"
    BY <1>1, <1>2, <2>4 DEF RowsProgress, ProviderSection
  <2>5. CASE /\ pc[k] = "locking" /\ pc'[k] = "transferring"
             /\ job'[k] = job[k] /\ startedAt'[k] = startedAt[k]
             /\ status'[job[k]] = "PROCESSING" /\ updatedAt'[job[k]] = now
             /\ now' = now
    BY <1>1, <1>2, <2>2, <2>5 DEF ExecutionInv, RowsProgress, Begun, ProviderSection
  <2>6. CASE pc'[k] = "idle" /\ startedAt'[k] = 0
    BY <1>2, <2>6 DEF ProviderSection
  <2> QED BY <2>1, <2>3, <2>4, <2>5, <2>6 DEF ExecutionMove
<1> QED BY <1>1, <1>3 DEF ExecutionInv, RowsProgress, Begun

\* An execution enters the provider section only over a lock that is stale for
\* it, and every execution already there is older than that lock.
LEMMA LockStep == TypeOK /\ ExecutionInv /\ LockExclusion /\ [Next]_vars => LockExclusion'
<1> SUFFICES ASSUME TypeOK, ExecutionInv, LockExclusion, [Next]_vars,
                    NEW k \in Workers, NEW l \in Workers, k # l,
                    pc'[k] \in ProviderSection, pc'[l] \in ProviderSection, job'[k] = job'[l]
             PROVE  \/ startedAt'[k] + ProcessingTtl <= startedAt'[l]
                    \/ startedAt'[l] + ProcessingTtl <= startedAt'[k]
  BY DEF LockExclusion
<1>1. \A x \in Workers : ExecutionMove(x)
  BY ExecutionMoves
<1>2. ExecutionSame(k) \/ ExecutionSame(l)
  BY ExecutionMoves
<1> DEFINE InSection(x) == pc[x] \in ProviderSection /\ job'[x] = job[x] /\ startedAt'[x] = startedAt[x]
           Enters(x)    == /\ job'[x] = job[x] /\ startedAt'[x] = startedAt[x]
                           /\ pc[x] = "locking" /\ Lockable(job[x], startedAt[x])
<1>3. \A x \in Workers : pc'[x] \in ProviderSection => InSection(x) \/ Enters(x)
  BY <1>1 DEF ExecutionMove, ExecutionSame, ProviderSection
<1>4. ASSUME NEW x \in Workers, NEW y \in Workers, InSection(x), Enters(y), job[x] = job[y]
      PROVE  startedAt[x] + ProcessingTtl <= startedAt[y]
  <2>1. job[x] \in Withdrawals /\ startedAt[x] \in Nat /\ startedAt[y] \in Nat
        /\ updatedAt[job[x]] \in Nat
    BY <1>4 DEF TypeOK, ProviderSection
  <2>2. status[job[x]] \in Begun /\ startedAt[x] <= updatedAt[job[x]]
    BY <1>4 DEF ExecutionInv, Begun
  <2>3. updatedAt[job[x]] <= startedAt[y] - ProcessingTtl
    BY <1>4, <2>2 DEF Lockable, Stale, Begun, Closed
  <2> QED BY <2>1, <2>2, <2>3, TimeAssumption
<1>5. CASE InSection(k) /\ InSection(l)
  BY <1>5 DEF LockExclusion
<1>6. CASE InSection(k) /\ Enters(l)
  BY <1>4, <1>6
<1>7. CASE Enters(k) /\ InSection(l)
  BY <1>4, <1>7
<1>8. ~(Enters(k) /\ Enters(l))
  BY <1>2 DEF ExecutionSame, ProviderSection
<1> QED BY <1>3, <1>5, <1>6, <1>7, <1>8

-----------------------------------------------------------------------------
(* Stripe and the ledger.                                                  *)

\* A payout exists only once its transfer has been made.
LEMMA ProviderStep == TypeOK /\ ProviderInv /\ [Next]_vars => ProviderInv'
<1> SUFFICES ASSUME TypeOK, ProviderInv, [Next]_vars PROVE ProviderInv'
  OBVIOUS
<1> USE DEF ProviderInv
<1> DEFINE Kept == \A l \in Workers : pc'[l] \in {"paying", "saving"} => pc'[l] = pc[l] /\ job'[l] = job[l]
<1>1. ASSUME NEW k \in Workers, CreateTransfer(k) PROVE ProviderInv'
  <2>1. job[k] \in Withdrawals /\ job' = job /\ payout' = payout
    BY <1>1 DEF CreateTransfer, TypeOK
  <2>2. \A w \in Withdrawals : transferred'[w] = IF w = job[k] THEN TRUE ELSE transferred[w]
    BY <1>1 DEF CreateTransfer, TypeOK
  <2>3. \A l \in Workers : l # k => pc'[l] = pc[l]
    BY <1>1 DEF CreateTransfer, SetWorker, TypeOK
  <2> QED BY <2>1, <2>2, <2>3 DEF TypeOK
<1>2. ASSUME NEW k \in Workers, CreatePayout(k) PROVE ProviderInv'
  <2>1. job[k] \in Withdrawals /\ job' = job /\ transferred' = transferred /\ transferred[job[k]]
    BY <1>2 DEF CreatePayout, TypeOK
  <2>2. \A w \in Withdrawals : w # job[k] => payout'[w] = payout[w]
    BY <1>2 DEF CreatePayout, TypeOK
  <2>3. \A l \in Workers : l # k => pc'[l] = pc[l]
    BY <1>2 DEF CreatePayout, SetWorker, TypeOK
  <2> QED BY <2>1, <2>2, <2>3
<1>3. ASSUME NEW w \in Withdrawals, PayoutTerminates(w) PROVE ProviderInv'
  <2>1. \A x \in Withdrawals : payout'[x] # "none" => payout[x] # "none"
    BY <1>3 DEF PayoutTerminates, TypeOK
  <2> QED BY <1>3, <2>1 DEF PayoutTerminates, workerVars
<1>4. ASSUME UNCHANGED stripeVars, Kept
      PROVE  ProviderInv'
  <2>1. payout' = payout /\ transferred' = transferred
    BY <1>4 DEF stripeVars
  <2>2. ASSUME NEW l \in Workers, pc'[l] \in {"paying", "saving"} PROVE transferred'[job'[l]]
    <3>1. pc'[l] = pc[l] /\ job'[l] = job[l]
      BY <1>4, <2>2
    <3>2. transferred[job[l]]
      BY <2>2, <3>1
    <3> QED BY <2>1, <3>1, <3>2
  <2> QED BY <2>1, <2>2
<1>5. ASSUME NEW k \in Workers,
             \/ RejectExecution(k) \/ MarkProcessing(k) \/ ProviderBalanceInsufficient(k)
             \/ SaveStripeRefs(k) \/ AbandonExecution(k)
             \/ \E w \in Withdrawals : StartExecution(k, w)
      PROVE  ProviderInv'
  <2>1. UNCHANGED stripeVars
    BY <1>5 DEF RejectExecution, MarkProcessing, ProviderBalanceInsufficient, SaveStripeRefs,
                AbandonExecution, StartExecution
  <2>2. Kept
    BY <1>5 DEF RejectExecution, MarkProcessing, ProviderBalanceInsufficient, SaveStripeRefs,
                AbandonExecution, StartExecution, Stop, SetWorker, TypeOK
  <2> QED BY <1>4, <2>1, <2>2
<1>6. ASSUME UNCHANGED <<stripeVars, workerVars>> PROVE ProviderInv'
  BY <1>6 DEF stripeVars, workerVars
<1>7. ASSUME \/ \E w \in Withdrawals : RequestWithdrawal(w) \/ PayoutWebhook(w) \/ SweepRow(w)
             \/ \E u \in Users : SpendBalance(u)
             \/ SweepScan \/ SweepAborts \/ Tick \/ UNCHANGED vars
      PROVE  UNCHANGED <<stripeVars, workerVars>>
  BY <1>7 DEF RequestWithdrawal, PayoutWebhook, SweepRow, SpendBalance, SweepScan, SweepAborts,
              Tick, vars
<1> QED BY <1>1, <1>2, <1>3, <1>5, <1>6, <1>7 DEF Next

\* A terminal payout never changes, and a row is added to the ledger only by the
\* settling transaction, which the webhook and the sweep run for a paid payout.
LEMMA DebitedStep ==
    TypeOK /\ ProviderInv /\ ProviderInv' /\ DebitedOnlyIfPaid /\ [Next]_vars => DebitedOnlyIfPaid'
<1> SUFFICES ASSUME TypeOK, ProviderInv, ProviderInv', DebitedOnlyIfPaid, [Next]_vars
             PROVE  DebitedOnlyIfPaid'
  OBVIOUS
<1>1. \A w \in Withdrawals : payout[w] = "paid" => payout'[w] = "paid"
  <2> SUFFICES ASSUME NEW w \in Withdrawals, payout[w] = "paid" PROVE payout'[w] = "paid"
    OBVIOUS
  <2>1. ASSUME NEW k \in Workers, CreatePayout(k) PROVE payout'[w] = "paid"
    BY <2>1 DEF CreatePayout, TypeOK
  <2>2. ASSUME NEW x \in Withdrawals, PayoutTerminates(x) PROVE payout'[w] = "paid"
    BY <2>2 DEF PayoutTerminates, TypeOK
  <2>3. \/ \E k \in Workers : CreatePayout(k)
        \/ \E x \in Withdrawals : PayoutTerminates(x)
        \/ payout' = payout
    BY DEF Next, vars, stripeVars, RequestWithdrawal, PayoutWebhook, SweepRow, StartExecution,
           RejectExecution, MarkProcessing, CreateTransfer, ProviderBalanceInsufficient,
           SaveStripeRefs, AbandonExecution, SpendBalance, SweepScan, SweepAborts, Tick
  <2> QED BY <2>1, <2>2, <2>3
<1>2. \A w \in debits' : w \in debits \/ (w \in Withdrawals /\ payout[w] = "paid")
  <2> SUFFICES ASSUME NEW w \in debits', w \notin debits
               PROVE  w \in Withdrawals /\ payout[w] = "paid"
    OBVIOUS
  <2>1. ASSUME NEW x \in Withdrawals, PayoutWebhook(x) \/ SweepRow(x)
        PROVE  w = x /\ payout[x] = "paid"
    BY <2>1 DEF PayoutWebhook, SweepRow, FailAndReleaseHold, SucceedAndSettle, dbVars
  <2>2. \/ \E x \in Withdrawals : PayoutWebhook(x) \/ SweepRow(x)
        \/ debits' = debits
    BY DEF Next, vars, dbVars, RequestWithdrawal, PayoutTerminates, StartExecution,
           RejectExecution, FailAndReleaseHold, MarkProcessing, CreateTransfer, CreatePayout,
           ProviderBalanceInsufficient, SaveStripeRefs, AbandonExecution, SpendBalance,
           SweepScan, SweepAborts, Tick
  <2> QED BY <2>1, <2>2
<1>3. debits \in SUBSET Withdrawals
  BY DEF TypeOK
<1>4. \A w \in Withdrawals : payout'[w] = "paid" => transferred'[w]
  BY DEF ProviderInv
<1> QED BY <1>1, <1>2, <1>3, <1>4 DEF DebitedOnlyIfPaid

-----------------------------------------------------------------------------
(* The theorems.                                                           *)

\* The inductive invariant holds of the initial states.
LEMMA InvInit == Init => IInv
<1> SUFFICES ASSUME Init PROVE IInv
  OBVIOUS
<1>1. TypeOK /\ MoneyInv
  BY TypeInit, MoneyInit
<1>2. ExecutionInv /\ LockExclusion /\ ProviderInv /\ DebitedOnlyIfPaid
  BY DEF Init, ExecutionInv, LockExclusion, ProviderInv, DebitedOnlyIfPaid, ProviderSection
<1> QED BY <1>1, <1>2 DEF IInv

\* Every step keeps the inductive invariant.
LEMMA InvStep == IInv /\ [Next]_vars => IInv'
BY TypeStep, MoneyStep, ExecutionStep, LockStep, ProviderStep, DebitedStep DEF IInv

\* The inductive invariant.
THEOREM Invariance == Spec => []IInv
BY InvInit, InvStep, PTL DEF Spec

\* Rows, Stripe objects and executions keep their types: in particular no sequence
\* of transactions makes a balance or a reserved balance negative.
THEOREM TypeCorrect == Spec => []TypeOK
<1>1. IInv => TypeOK
  BY DEF IInv
<1> QED BY Invariance, <1>1, PTL

\* reserved_balance is the sum of the wallet's ACTIVE holds, for any number of
\* wallets, withdrawals and executions.
THEOREM ReservedCorrect == Spec => []ReservedIsActiveHolds
<1>1. IInv => ReservedIsActiveHolds
  BY DEF IInv, MoneyInv
<1> QED BY Invariance, <1>1, PTL

\* Balance and ledger agree, and a withdrawal is debited exactly when it succeeded.
THEOREM LedgerCorrect == Spec => []LedgerExact
<1>1. IInv => LedgerExact
  BY DEF IInv, MoneyInv
<1> QED BY Invariance, <1>1, PTL

\* The settling transaction of an open withdrawal is never refused.
THEOREM SettlementCorrect == Spec => []SettlementNeverBlocked
<1>1. IInv => SettlementNeverBlocked
  BY SettleIsPossible DEF IInv, MoneyInv, Solvent, SettlementNeverBlocked
<1> QED BY Invariance, <1>1, PTL

\* Nothing is debited that Stripe did not pay out.
THEOREM DebitCorrect == Spec => []DebitedOnlyIfPaid
<1>1. IInv => DebitedOnlyIfPaid
  BY DEF IInv
<1> QED BY Invariance, <1>1, PTL

\* The PROCESSING lock keeps executions of one withdrawal a TTL apart.
THEOREM LockCorrect == Spec => []LockExclusion
<1>1. IInv => LockExclusion
  BY DEF IInv
<1> QED BY Invariance, <1>1, PTL

-----------------------------------------------------------------------------
(* The saga implements the escrow.                                         *)

\* What the mapping shows of a wallet: the available balance.
AvailableOf == [u \in Users |-> Available(wallets[u])]
PhaseOf     == [w \in Withdrawals |-> Phase(w)]

\* The initial tables map to an escrow that holds nothing.
LEMMA EscrowStart == Init => EscrowOf!EscrowInit
<1> SUFFICES ASSUME Init PROVE EscrowOf!EscrowInit
  OBVIOUS
<1>1. \A u \in Users : Available(wallets[u]) = InitialBalance[u]
  BY AmountAssumption DEF Init, Available
<1>2. \A w \in Withdrawals : Phase(w) = "none"
  BY DEF Init, Phase
<1>3. AvailableOf = InitialBalance
  BY <1>1, AmountAssumption DEF AvailableOf
<1> QED BY <1>2, <1>3 DEF EscrowOf!EscrowInit, AvailableOf

\* The hold status determines the phase of the escrow.
LEMMA PhaseFacts ==
    ASSUME NEW w \in Withdrawals
    PROVE  /\ hold[w] = "NONE" => Phase(w) = "none"
           /\ hold[w] = "ACTIVE" => Phase(w) = "held"
           /\ hold[w] = "SETTLED" => Phase(w) = "settled"
           /\ hold[w] = "RELEASED" => Phase(w) = "returned"
BY DEF Phase

\* Changing one hold changes one phase.
LEMMA PhaseMoves ==
    ASSUME TypeOK, NEW w \in Withdrawals, NEW s \in Holds, hold' = [hold EXCEPT ![w] = s]
    PROVE  /\ s = "ACTIVE"   => PhaseOf' = [PhaseOf EXCEPT ![w] = "held"]
           /\ s = "SETTLED"  => PhaseOf' = [PhaseOf EXCEPT ![w] = "settled"]
           /\ s = "RELEASED" => PhaseOf' = [PhaseOf EXCEPT ![w] = "returned"]
<1>1. \A x \in Withdrawals : x # w => Phase(x)' = Phase(x)
  BY DEF TypeOK, Phase
<1>2. hold'[w] = s
  BY DEF TypeOK
<1>3. /\ s = "ACTIVE"   => Phase(w)' = "held"
      /\ s = "SETTLED"  => Phase(w)' = "settled"
      /\ s = "RELEASED" => Phase(w)' = "returned"
  BY <1>2 DEF Phase
<1> QED BY <1>1, <1>3 DEF PhaseOf

\* reserveBalance takes the amount out of what is available.
LEMMA EscrowHold ==
    ASSUME NEW w \in Withdrawals, TypeOK, MoneyInv, RequestWithdrawal(w)
    PROVE  EscrowOf!Hold(w)
<1> DEFINE o == Owner[w]
<1>1. o \in Users /\ Amount[w] \in Nat /\ wallets[o] \in WalletRow
  BY AmountAssumption DEF TypeOK
<1>2. wallets' = [wallets EXCEPT ![o] = Reserve(@, Amount[w])]
  BY DEF RequestWithdrawal
<1>3. Available(Reserve(wallets[o], Amount[w])) = Available(wallets[o]) - Amount[w]
  BY <1>1, AvailableFacts
<1>4. AvailableOf' = [AvailableOf EXCEPT ![o] = @ - Amount[w]]
  BY <1>1, <1>2, <1>3 DEF AvailableOf, TypeOK
<1>5. hold[w] = "NONE" /\ hold' = [hold EXCEPT ![w] = "ACTIVE"]
  BY DEF RequestWithdrawal, MoneyInv, HoldTracksStatus
<1>6. Phase(w) = "none" /\ PhaseOf' = [PhaseOf EXCEPT ![w] = "held"]
  BY <1>5, PhaseFacts, PhaseMoves DEF Holds
<1>7. Available(wallets[o]) >= Amount[w]
  BY DEF RequestWithdrawal, CanReserve
<1> QED BY <1>1, <1>4, <1>6, <1>7 DEF EscrowOf!Hold, AvailableOf, PhaseOf

\* Closing an open withdrawal as failed gives the amount back; on a closed one
\* the transaction changes nothing.
LEMMA EscrowReturn ==
    ASSUME NEW w \in Withdrawals, TypeOK, MoneyInv, FailAndReleaseHold(w)
    PROVE  EscrowOf!Return(w) \/ (AvailableOf' = AvailableOf /\ PhaseOf' = PhaseOf)
<1> DEFINE o == Owner[w]
<1>1. CASE status[w] \in Open
  <2>1. o \in Users /\ Amount[w] \in Nat /\ wallets[o] \in WalletRow
    BY AmountAssumption DEF TypeOK
  <2>2. wallets[o].reserved >= Amount[w]
    BY <1>1, <2>1, OpenIsReserved DEF WalletRow
  <2>3. /\ wallets' = [wallets EXCEPT ![o] = Release(@, Amount[w])]
        /\ hold[w] = "ACTIVE" /\ hold' = [hold EXCEPT ![w] = "RELEASED"]
    BY <1>1 DEF FailAndReleaseHold, MoneyInv, HoldTracksStatus, TypeOK
  <2>4. Available(Release(wallets[o], Amount[w])) = Available(wallets[o]) + Amount[w]
    BY <2>1, <2>2, AvailableFacts
  <2>5. AvailableOf' = [AvailableOf EXCEPT ![o] = @ + Amount[w]]
    BY <2>1, <2>3, <2>4 DEF AvailableOf, TypeOK
  <2>6. Phase(w) = "held" /\ PhaseOf' = [PhaseOf EXCEPT ![w] = "returned"]
    BY <2>3, PhaseFacts, PhaseMoves DEF Holds
  <2> QED BY <2>1, <2>5, <2>6 DEF EscrowOf!Return, AvailableOf, PhaseOf
<1>2. CASE status[w] \notin Open
  <2>1. wallets' = wallets /\ hold' = hold
    BY <1>2 DEF FailAndReleaseHold
  <2> QED BY <2>1 DEF AvailableOf, PhaseOf, Phase
<1> QED BY <1>1, <1>2

\* Settling takes the amount out of the reserved part and out of the balance.
LEMMA EscrowSettle ==
    ASSUME NEW w \in Withdrawals, TypeOK, MoneyInv, SucceedAndSettle(w)
    PROVE  EscrowOf!Settle(w) \/ (AvailableOf' = AvailableOf /\ PhaseOf' = PhaseOf)
<1> DEFINE o == Owner[w]
<1>1. CASE CanSettle(w)
  <2>1. /\ o \in Users /\ Amount[w] \in Nat /\ wallets[o] \in WalletRow
        /\ status[w] \in Open
    BY <1>1, AmountAssumption DEF TypeOK, CanSettle
  <2>2. wallets[o].reserved >= Amount[w]
    BY <2>1, OpenIsReserved DEF WalletRow
  <2>3. /\ wallets' = [wallets EXCEPT ![o] = Debit(Release(@, Amount[w]), Amount[w])]
        /\ hold[w] = "ACTIVE" /\ hold' = [hold EXCEPT ![w] = "SETTLED"]
    BY <1>1, <2>1 DEF SucceedAndSettle, MoneyInv, HoldTracksStatus, TypeOK
  <2>4. Available(Debit(Release(wallets[o], Amount[w]), Amount[w])) = Available(wallets[o])
    BY <2>1, <2>2, AvailableFacts
  <2>5. AvailableOf' = AvailableOf
    BY <2>1, <2>3, <2>4 DEF AvailableOf, TypeOK
  <2>6. Phase(w) = "held" /\ PhaseOf' = [PhaseOf EXCEPT ![w] = "settled"]
    BY <2>3, PhaseFacts, PhaseMoves DEF Holds
  <2> QED BY <2>5, <2>6 DEF EscrowOf!Settle, AvailableOf, PhaseOf
<1>2. CASE ~CanSettle(w)
  <2>1. wallets' = wallets /\ hold' = hold
    BY <1>2 DEF SucceedAndSettle
  <2> QED BY <2>1 DEF AvailableOf, PhaseOf, Phase
<1> QED BY <1>1, <1>2

\* Other spending takes what it spends out of the available balance.
LEMMA EscrowSpend ==
    ASSUME NEW o \in Users, TypeOK, SpendBalance(o)
    PROVE  EscrowOf!SpendAvailable(o)
<1>1. PICK a \in 1..Available(wallets[o]) : wallets' = [wallets EXCEPT ![o] = Debit(@, a)]
  BY DEF SpendBalance
<1>2. wallets[o] \in WalletRow /\ a \in Nat /\ AvailableOf[o] = Available(wallets[o])
  BY <1>1 DEF TypeOK, Available, AvailableOf, WalletRow
<1>3. AvailableOf' = [AvailableOf EXCEPT ![o] = @ - a]
  BY <1>1, <1>2, AvailableFacts DEF AvailableOf, TypeOK
<1>4. PhaseOf' = PhaseOf
  BY DEF SpendBalance, PhaseOf, Phase
<1> QED BY <1>1, <1>2, <1>3, <1>4 DEF EscrowOf!SpendAvailable, AvailableOf, PhaseOf

\* Every step of the saga is a step of the escrow or leaves it unchanged.
LEMMA EscrowStep == IInv /\ [Next]_vars => [EscrowOf!EscrowNext]_(EscrowOf!escrowVars)
<1> SUFFICES ASSUME IInv, [Next]_vars
             PROVE  EscrowOf!EscrowNext \/ (AvailableOf' = AvailableOf /\ PhaseOf' = PhaseOf)
  BY DEF EscrowOf!escrowVars, AvailableOf, PhaseOf
<1>0. TypeOK /\ MoneyInv
  BY DEF IInv
<1> DEFINE Goal == EscrowOf!EscrowNext \/ (AvailableOf' = AvailableOf /\ PhaseOf' = PhaseOf)
<1>1. ASSUME NEW w \in Withdrawals, RequestWithdrawal(w) PROVE Goal
  BY <1>0, <1>1, EscrowHold DEF EscrowOf!EscrowNext
<1>2. ASSUME NEW u \in Users, SpendBalance(u) PROVE Goal
  BY <1>0, <1>2, EscrowSpend DEF EscrowOf!EscrowNext
<1>3. ASSUME NEW w \in Withdrawals, FailAndReleaseHold(w) PROVE Goal
  BY <1>0, <1>3, EscrowReturn DEF EscrowOf!EscrowNext
<1>4. ASSUME NEW w \in Withdrawals, SucceedAndSettle(w) PROVE Goal
  BY <1>0, <1>4, EscrowSettle DEF EscrowOf!EscrowNext
<1>5. ASSUME wallets' = wallets, hold' = hold PROVE Goal
  BY <1>5 DEF AvailableOf, PhaseOf, Phase
<1>6. ASSUME NEW w \in Withdrawals, PayoutWebhook(w) \/ SweepRow(w) PROVE Goal
  <2>1. FailAndReleaseHold(w) \/ SucceedAndSettle(w) \/ (wallets' = wallets /\ hold' = hold)
    BY <1>6 DEF PayoutWebhook, SweepRow, dbVars
  <2> QED BY <1>3, <1>4, <1>5, <2>1
<1>7. ASSUME NEW k \in Workers, RejectExecution(k) PROVE Goal
  <2>1. job[k] \in Withdrawals /\ FailAndReleaseHold(job[k])
    BY <1>0, <1>7 DEF RejectExecution, TypeOK
  <2> QED BY <1>3, <2>1
<1>8. ASSUME \/ \E k \in Workers : \/ MarkProcessing(k) \/ CreateTransfer(k) \/ CreatePayout(k)
                                   \/ ProviderBalanceInsufficient(k) \/ SaveStripeRefs(k)
                                   \/ AbandonExecution(k)
                                   \/ \E w \in Withdrawals : StartExecution(k, w)
             \/ \E w \in Withdrawals : PayoutTerminates(w)
             \/ SweepScan \/ SweepAborts \/ Tick \/ UNCHANGED vars
      PROVE  wallets' = wallets /\ hold' = hold
  BY <1>8 DEF MarkProcessing, CreateTransfer, CreatePayout, ProviderBalanceInsufficient,
              SaveStripeRefs, AbandonExecution, StartExecution, PayoutTerminates, SweepScan,
              SweepAborts, Tick, vars, dbVars
<1> QED BY <1>1, <1>2, <1>5, <1>6, <1>7, <1>8 DEF Next

\* Every behaviour of the saga is a behaviour of the escrow.
THEOREM EscrowRefinement == Spec => ImplementsEscrow
BY EscrowStart, EscrowStep, Invariance, PTL DEF Spec, ImplementsEscrow, EscrowOf!EscrowSpec

-----------------------------------------------------------------------------
(* Liveness.  The provers know nothing of ENABLED, so fairness is stated   *)
(* with the guards themselves.  Two facts that need an induction, over     *)
(* time and over the sweep's list, are hypotheses: the clock gets past the *)
(* last SLA, and a run of the sweep comes to its end.                      *)

Terminal == {"paid", "failed"}

DayOver      == now = MaxTime
DayEnds      == <>DayOver
SweepRunsEnd == []<>SweepIdle

\* Weak fairness of the sweep's query and of Stripe; strong fairness of the
\* handling of a row that runs of the sweep read again and again.
ScanGuard        == SweepIdle /\ \E w \in Withdrawals : Sweepable(w)
ScanRuns         == []<>~ScanGuard \/ []<><<SweepScan>>_vars
PayoutOpen(w)    == payout[w] = "pending"
StripeDecides(w) == []<>~PayoutOpen(w) \/ []<><<PayoutTerminates(w)>>_vars
Listed(w)        == scanned[w] # "no"
RowIsHandled(w)  == <>[]~Listed(w) \/ []<><<SweepRow(w)>>_vars

\* What the sweep relies on: the SLA of every row passes, a saved payout id
\* belongs to a payout, and a row read with an id has one.
SweepInv ==
    /\ \A w \in Withdrawals :
          /\ status[w] # "NONE" => createdAt[w] + Sla <= MaxTime
          /\ payoutSaved[w] => payout[w] # "none"
          /\ scanned[w] = "withPayout" => payoutSaved[w]
    /\ \A k \in Workers : pc[k] = "saving" => payout[job[k]] # "none"

\* A payout, once made, ends once.
LEMMA PayoutSteps ==
    ASSUME TypeOK, [Next]_vars, NEW w \in Withdrawals
    PROVE  /\ payout[w] # "none" => payout'[w] # "none"
           /\ payout[w] = "pending" => payout'[w] \in {"pending"} \cup Terminal
           /\ payout[w] \in Terminal => payout'[w] = payout[w]
<1>1. ASSUME NEW k \in Workers, CreatePayout(k)
      PROVE  payout'[w] = payout[w] \/ (payout[w] = "none" /\ payout'[w] = "pending")
  BY <1>1 DEF CreatePayout, TypeOK
<1>2. ASSUME NEW x \in Withdrawals, PayoutTerminates(x)
      PROVE  payout'[w] = payout[w] \/ (payout[w] = "pending" /\ payout'[w] \in Terminal)
  BY <1>2 DEF PayoutTerminates, Terminal, TypeOK
<1>3. \/ \E k \in Workers : CreatePayout(k)
      \/ \E x \in Withdrawals : PayoutTerminates(x)
      \/ payout' = payout
  BY DEF Next, vars, stripeVars, RequestWithdrawal, PayoutWebhook, SweepRow, StartExecution,
         RejectExecution, MarkProcessing, CreateTransfer, ProviderBalanceInsufficient,
         SaveStripeRefs, AbandonExecution, SpendBalance, SweepScan, SweepAborts, Tick
<1> QED BY <1>1, <1>2, <1>3 DEF Terminal

\* What a step may do to the row the sweep looks at.
LEMMA RowSteps ==
    ASSUME TypeOK, SweepInv, [Next]_vars, NEW w \in Withdrawals
    PROVE  /\ \/ createdAt'[w] = createdAt[w] /\ (status'[w] # "NONE" => status[w] # "NONE")
              \/ createdAt'[w] = now /\ now + Sla <= MaxTime
           /\ payoutSaved[w] => payoutSaved'[w]
           /\ payoutSaved'[w] => payoutSaved[w] \/ payout[w] # "none"
           /\ scanned'[w] = "withPayout" => payoutSaved[w]
<1> DEFINE Goal ==
           /\ \/ createdAt'[w] = createdAt[w] /\ (status'[w] # "NONE" => status[w] # "NONE")
              \/ createdAt'[w] = now /\ now + Sla <= MaxTime
           /\ payoutSaved[w] => payoutSaved'[w]
           /\ payoutSaved'[w] => payoutSaved[w] \/ payout[w] # "none"
           /\ scanned'[w] = "withPayout" => payoutSaved[w]
<1>1. ASSUME NEW x \in Withdrawals, RequestWithdrawal(x) PROVE Goal
  BY <1>1 DEF RequestWithdrawal, TypeOK, SweepInv
<1>2. ASSUME NEW x \in Withdrawals, PayoutWebhook(x) \/ SweepRow(x) PROVE Goal
  <2>1. createdAt' = createdAt /\ (status'[w] # "NONE" => status[w] # "NONE")
    BY <1>2 DEF PayoutWebhook, SweepRow, FailAndReleaseHold, SucceedAndSettle, CanSettle, Open,
                dbVars, TypeOK
  <2>2. \/ payoutSaved' = payoutSaved
        \/ payoutSaved[x] /\ payoutSaved' = [payoutSaved EXCEPT ![x] = TRUE]
    BY <1>2 DEF PayoutWebhook, SweepRow, FailAndReleaseHold, SucceedAndSettle, dbVars, SweepInv
  <2>3. scanned'[w] \in {scanned[w], "no"}
    BY <1>2 DEF PayoutWebhook, SweepRow, TypeOK
  <2> QED BY <2>1, <2>2, <2>3 DEF SweepInv, TypeOK
<1>3. ASSUME NEW k \in Workers, RejectExecution(k) PROVE Goal
  BY <1>3 DEF RejectExecution, FailAndReleaseHold, Open, TypeOK, SweepInv
<1>4. ASSUME NEW k \in Workers, MarkProcessing(k) PROVE Goal
  BY <1>4 DEF MarkProcessing, Lockable, TypeOK, SweepInv
<1>5. ASSUME NEW k \in Workers, SaveStripeRefs(k) PROVE Goal
  <2>1. payout[job[k]] # "none" /\ job[k] \in Withdrawals
    BY <1>5 DEF SaveStripeRefs, TypeOK, SweepInv
  <2>2. payoutSaved' = payoutSaved \/ payoutSaved' = [payoutSaved EXCEPT ![job[k]] = TRUE]
    BY <1>5 DEF SaveStripeRefs
  <2>3. createdAt' = createdAt /\ status' = status /\ scanned' = scanned
    BY <1>5 DEF SaveStripeRefs
  <2> QED BY <2>1, <2>2, <2>3 DEF TypeOK, SweepInv
<1>6. ASSUME UNCHANGED dbVars, (scanned' = scanned) \/ SweepScan \/ SweepAborts PROVE Goal
  <2>1. createdAt' = createdAt /\ status' = status /\ payoutSaved' = payoutSaved
    BY <1>6 DEF dbVars
  <2>2. scanned'[w] = "withPayout" => payoutSaved[w]
    BY <1>6 DEF SweepScan, SweepAborts, SweepInv
  <2> QED BY <2>1, <2>2 DEF TypeOK
<1>7. ASSUME \/ \E k \in Workers : \/ CreateTransfer(k) \/ CreatePayout(k)
                                   \/ ProviderBalanceInsufficient(k) \/ AbandonExecution(k)
                                   \/ \E x \in Withdrawals : StartExecution(k, x)
             \/ \E x \in Withdrawals : PayoutTerminates(x)
             \/ Tick \/ UNCHANGED vars
      PROVE  UNCHANGED dbVars /\ scanned' = scanned
  BY <1>7 DEF CreateTransfer, CreatePayout, ProviderBalanceInsufficient, AbandonExecution,
              StartExecution, PayoutTerminates, Tick, vars
<1>8. ASSUME NEW u \in Users, SpendBalance(u) PROVE Goal
  BY <1>8 DEF SpendBalance, TypeOK, SweepInv
<1>9. SweepScan \/ SweepAborts => UNCHANGED dbVars
  BY DEF SweepScan, SweepAborts
<1>10. Goal
  BY <1>1, <1>2, <1>3, <1>4, <1>5, <1>6, <1>7, <1>8, <1>9 DEF Next
<1> QED BY <1>10

\* The four parts of SweepInv change with a row, a payout, an execution or the sweep.
LEMMA SweepStep == TypeOK /\ SweepInv /\ [Next]_vars => SweepInv'
<1> SUFFICES ASSUME TypeOK, SweepInv, [Next]_vars PROVE SweepInv'
  OBVIOUS
<1>1. ASSUME NEW w \in Withdrawals
      PROVE  /\ status'[w] # "NONE" => createdAt'[w] + Sla <= MaxTime
             /\ payoutSaved'[w] => payout'[w] # "none"
             /\ scanned'[w] = "withPayout" => payoutSaved'[w]
  BY RowSteps, PayoutSteps DEF SweepInv
<1>2. ASSUME NEW k \in Workers, pc'[k] = "saving"
      PROVE  payout'[job'[k]] # "none"
  <2>1. CASE ExecutionSame(k)
    BY <1>2, <2>1, PayoutSteps DEF ExecutionSame, SweepInv, TypeOK
  <2>2. ASSUME NEW l \in Workers, CreatePayout(l) PROVE payout'[job'[k]] # "none"
    <3>1. CASE l = k
      BY <2>2, <3>1 DEF CreatePayout, TypeOK
    <3>2. CASE l # k
      <4>1. ExecutionSame(k)
        BY <2>2, <3>2 DEF CreatePayout, SetWorker, ExecutionSame, TypeOK
      <4> QED BY <4>1, <2>1
    <3> QED BY <3>1, <3>2
  <2>3. ASSUME NEW l \in Workers,
               \/ RejectExecution(l) \/ MarkProcessing(l) \/ CreateTransfer(l)
               \/ ProviderBalanceInsufficient(l) \/ SaveStripeRefs(l) \/ AbandonExecution(l)
               \/ \E x \in Withdrawals : StartExecution(l, x)
        PROVE  l # k /\ ExecutionSame(k)
    BY <1>2, <2>3 DEF RejectExecution, MarkProcessing, CreateTransfer, ProviderBalanceInsufficient,
              SaveStripeRefs, AbandonExecution, StartExecution, Stop, SetWorker, ExecutionSame, TypeOK
  <2>4. ASSUME \/ \E w \in Withdrawals : \/ RequestWithdrawal(w) \/ PayoutTerminates(w)
                                         \/ PayoutWebhook(w) \/ SweepRow(w)
               \/ \E u \in Users : SpendBalance(u)
               \/ SweepScan \/ SweepAborts \/ Tick \/ UNCHANGED vars
        PROVE  ExecutionSame(k)
    BY <2>4 DEF RequestWithdrawal, PayoutTerminates, PayoutWebhook, SweepRow, SpendBalance,
                SweepScan, SweepAborts, Tick, vars, workerVars, ExecutionSame
  <2> QED BY <2>1, <2>2, <2>3, <2>4 DEF Next
<1> QED BY <1>1, <1>2 DEF SweepInv

\* What the sweep read of a row is still what it needs to close it.
LEMMA SweepInvariance == Spec => []SweepInv
<1>1. Init => SweepInv
  BY DEF Init, SweepInv
<1> QED BY <1>1, SweepStep, TypeCorrect, PTL DEF Spec

\* Only the query makes a list.
LEMMA ListIsMadeByScan ==
    ASSUME SweepIdle, [Next]_vars, ~SweepIdle'
    PROVE  <<SweepScan>>_vars
<1>1. scanned' # scanned
  BY DEF SweepIdle
<1>2. ASSUME NEW w \in Withdrawals, SweepRow(w) PROVE FALSE
  BY <1>2 DEF SweepRow, SweepIdle
<1>3. SweepScan
  BY <1>1, <1>2 DEF Next, vars, workerVars, RequestWithdrawal, PayoutTerminates, PayoutWebhook,
     StartExecution, RejectExecution, MarkProcessing, CreateTransfer, CreatePayout,
     ProviderBalanceInsufficient, SaveStripeRefs, AbandonExecution, SpendBalance, SweepAborts, Tick
<1> QED BY <1>1, <1>3 DEF vars

\* Handling a PROCESSING row closes it, unless its payout is still pending.
LEMMA RowCloses ==
    ASSUME IInv, SweepInv, NEW w \in Withdrawals, SweepRow(w), status[w] = "PROCESSING"
    PROVE  status'[w] \in Closed \/ PayoutOpen(w)
<1>1. CanSettle(w) /\ status[w] \in Open /\ TypeOK
  BY SettleIsPossible DEF IInv, Open
<1> QED BY <1>1 DEF SweepRow, FailAndReleaseHold, SucceedAndSettle, PayoutOpen, TypeOK, Closed

\* The sweep comes back to a PROCESSING row until it closes it; once the day has ended
\* and Stripe has decided, whatever it read of the row is enough for that.
LEMMA WithdrawalCloses ==
    ASSUME NEW w \in Withdrawals
    PROVE  Spec /\ DayEnds /\ SweepRunsEnd /\ ScanRuns /\ StripeDecides(w) /\ RowIsHandled(w)
             => (status[w] = "PROCESSING" ~> status[w] \in Closed)
<1> DEFINE P == status[w] = "PROCESSING"
           C == status[w] \in Closed
           T == payout[w] \in Terminal
<1>1. IInv /\ P /\ [Next]_vars => P' \/ C'
  <2>1. IInv /\ [Next]_vars => RowsProgress
    BY StepProgress DEF IInv
  <2> QED BY <2>1 DEF RowsProgress, Begun
<1>2. IInv /\ DayOver /\ [Next]_vars => DayOver'
  <2> SUFFICES ASSUME IInv, DayOver, [Next]_vars PROVE DayOver'
    OBVIOUS
  <2>1. RowsProgress /\ TypeOK'
    BY StepProgress, TypeStep DEF IInv
  <2> QED BY <2>1, TimeAssumption DEF DayOver, RowsProgress, TypeOK
<1>3. IInv /\ SweepInv /\ DayOver /\ P => Sweepable(w)
  <2> SUFFICES ASSUME IInv, SweepInv, DayOver, P PROVE Sweepable(w)
    OBVIOUS
  <2>1. createdAt[w] \in Nat /\ createdAt[w] + Sla <= MaxTime
    BY DEF IInv, TypeOK, SweepInv
  <2> QED BY <2>1, TimeAssumption DEF DayOver, Sweepable
<1>4. IInv /\ SweepInv /\ DayOver /\ P /\ SweepIdle => ScanGuard
  BY <1>3 DEF ScanGuard
<1>5. SweepIdle /\ [Next]_vars => SweepIdle' \/ <<SweepScan>>_vars
  BY ListIsMadeByScan
<1>6. IInv /\ SweepInv /\ DayOver /\ P /\ <<SweepScan>>_vars => Listed(w)'
  BY <1>3 DEF SweepScan, Listed
<1>7. IInv /\ SweepInv /\ P /\ <<SweepRow(w)>>_vars => C' \/ PayoutOpen(w)
  BY RowCloses
<1>8. IInv /\ PayoutOpen(w) /\ [Next]_vars => PayoutOpen(w)' \/ T'
  BY PayoutSteps DEF IInv, PayoutOpen
<1>9. IInv /\ T /\ [Next]_vars => T'
  BY PayoutSteps DEF IInv
<1>10. IInv /\ <<PayoutTerminates(w)>>_vars => T'
  BY DEF PayoutTerminates, Terminal, IInv, TypeOK
<1>11. T => ~PayoutOpen(w)
  BY DEF Terminal, PayoutOpen
<1> HIDE DEF P, C, T
<1>12. Spec /\ DayEnds /\ SweepRunsEnd /\ ScanRuns /\ StripeDecides(w) /\ RowIsHandled(w)
         => (P ~> C)
  BY <1>1, <1>2, <1>4, <1>5, <1>6, <1>7, <1>8, <1>9, <1>10, <1>11, Invariance, SweepInvariance, PTL
     DEF Spec, DayEnds, SweepRunsEnd, ScanRuns, StripeDecides, RowIsHandled
<1> QED BY <1>12 DEF P, C

\* The sweep alone closes every withdrawal whose execution has begun: Stripe
\* decides its payout, the sweep reads the row, and nothing refuses to close it.
THEOREM ProcessingClosesCorrect ==
    Spec /\ DayEnds /\ SweepRunsEnd /\ ScanRuns
         /\ (\A w \in Withdrawals : StripeDecides(w) /\ RowIsHandled(w))
      => ProcessingCloses
<1> SUFFICES ASSUME NEW w \in Withdrawals
             PROVE  Spec /\ DayEnds /\ SweepRunsEnd /\ ScanRuns /\ StripeDecides(w) /\ RowIsHandled(w)
                      => (status[w] = "PROCESSING" ~> status[w] \in Closed)
  BY DEF ProcessingCloses
<1> QED BY WithdrawalCloses
=============================================================================
