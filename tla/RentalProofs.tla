---------------------------- MODULE RentalProofs ----------------------------
(***************************************************************************)
(* Proofs about Rental, for any customers, rentals, bikes, stations and    *)
(* sessions.                                                               *)
(*                                                                         *)
(* The unique index on the customer of a RENTED row makes the deposits of  *)
(* a wallet one deposit or none, so what is reserved follows from the      *)
(* rental rows.  The invariant adds what a session in flight may rely on:  *)
(* the rental a start is about to create is its own and does not exist     *)
(* yet, a start that uses the subscription has seen a use left, and a ride *)
(* that named a subscription has activated it.                             *)
(***************************************************************************)
EXTENDS Rental, TLAPS

\* A start owns the row it is about to create and has seen a use left.
StartInv ==
    \A s \in Sessions : cmd[s].op = "start" =>
        /\ status[cmd[s].r] = "NONE"
        /\ \A t \in Sessions : cmd[t].op = "start" /\ cmd[t].r = cmd[s].r => t = s
        /\ cmd[s].withSub => cmd[s].count < MaxUsages

\* A ride on a subscription has activated it.
SubscribedInv == \A r \in subscribed : sub[Owner[r]] \notin {"NONE", "PENDING"}

UsageInv == UsageWithinMax /\ SubscribedInv

IInv == TypeOK /\ StartInv /\ BooksAgree /\ DepositIsReserved /\ UsageInv

-----------------------------------------------------------------------------
(* What the wallet updates and the commands are made of.                   *)

\* The conditional updates of a wallet row, field by field.
LEMMA WalletUpdates ==
    ASSUME NEW row \in WalletRow, NEW a \in Nat
    PROVE  /\ Reserve(row, a) = [balance |-> row.balance, reserved |-> row.reserved + a]
           /\ Reserve(row, a) \in WalletRow
           /\ CanRelease(row, a) =>
                Release(row, a) = [balance |-> row.balance, reserved |-> row.reserved - a]
           /\ CanRelease(row, a) => Release(row, a) \in WalletRow
           /\ Debit(row, a) = [balance |-> row.balance - a, reserved |-> row.reserved]
           /\ CanDebit(row, a) => Debit(row, a) \in WalletRow /\ row.balance - a >= row.reserved
BY DEF WalletRow, Reserve, CanRelease, Release, Debit, CanDebit, Available

\* What a session in flight carries.
LEMMA Commands ==
    ASSUME TypeOK, NEW s \in Sessions
    PROVE  /\ cmd[s].op = "start" => cmd[s] \in StartCmds
           /\ cmd[s].op = "return" => cmd[s] \in ReturnCmds
           /\ cmd[s].op = "slot" => cmd[s] \in SlotCmds
           /\ cmd[s] # NoCmd => cmd[s].r \in Rentals
<1>1. cmd[s] \in {NoCmd} \cup StartCmds \cup ReturnCmds \cup SlotCmds
  BY DEF TypeOK
<1>2. CASE cmd[s] = NoCmd
  BY <1>2 DEF NoCmd
<1>3. CASE cmd[s] \in StartCmds
  BY <1>3 DEF StartCmds
<1>4. CASE cmd[s] \in ReturnCmds
  BY <1>4 DEF ReturnCmds
<1>5. CASE cmd[s] \in SlotCmds
  BY <1>5 DEF SlotCmds
<1> QED BY <1>1, <1>2, <1>3, <1>4, <1>5

\* Committing a start: the rows it writes, and what its WHERE clauses found.
LEMMA StartEffect ==
    ASSUME TypeOK, NEW s \in Sessions, CommitStart(s), NEW r \in Rentals, r = cmd[s].r
    PROVE  /\ Owner[r] \in Users /\ wallet[Owner[r]] \in WalletRow
           /\ CanReserve(wallet[Owner[r]], Deposit)
           /\ wallet' = [wallet EXCEPT ![Owner[r]] =
                [balance |-> wallet[Owner[r]].balance,
                 reserved |-> wallet[Owner[r]].reserved + Deposit]]
           /\ wallet'[Owner[r]] \in WalletRow
<1>1. Owner[r] \in Users /\ wallet[Owner[r]] \in WalletRow /\ Deposit \in Nat
  BY OwnerAssumption, MoneyAssumption DEF TypeOK
<1>2. /\ CanReserve(wallet[Owner[r]], Deposit)
      /\ wallet' = [wallet EXCEPT ![Owner[r]] = Reserve(wallet[Owner[r]], Deposit)]
  BY DEF CommitStart
<1> QED BY <1>1, <1>2, WalletUpdates DEF TypeOK

\* Committing a return: the deposit comes back and a price goes.
LEMMA ReturnEffect ==
    ASSUME TypeOK, NEW s \in Sessions, CommitReturn(s), NEW r \in Rentals, r = cmd[s].r
    PROVE  /\ Owner[r] \in Users /\ wallet[Owner[r]] \in WalletRow
           /\ wallet[Owner[r]].reserved >= Deposit
           /\ \E price \in Prices :
                LET row == [balance |-> wallet[Owner[r]].balance - price,
                            reserved |-> wallet[Owner[r]].reserved - Deposit] IN
                /\ row \in WalletRow /\ row.reserved <= row.balance
                /\ wallet' = [wallet EXCEPT ![Owner[r]] = row]
                /\ charged' = [charged EXCEPT ![Owner[r]] = @ + price]
<1> DEFINE u == Owner[r]
           released == [balance |-> wallet[u].balance, reserved |-> wallet[u].reserved - Deposit]
<1>1. u \in Users /\ wallet[u] \in WalletRow /\ Deposit \in Nat
  BY OwnerAssumption, MoneyAssumption DEF TypeOK
<1>2. CanRelease(wallet[u], Deposit)
  BY DEF CommitReturn
<1>3. Release(wallet[u], Deposit) = released /\ released \in WalletRow
  BY <1>1, <1>2, WalletUpdates
<1>4. PICK price \in Prices :
        /\ CanDebit(released, price)
        /\ wallet' = [wallet EXCEPT ![u] = Debit(released, price)]
        /\ charged' = [charged EXCEPT ![u] = @ + price]
  BY <1>3 DEF CommitReturn
<1>5. price \in Nat
  BY MoneyAssumption
<1> HIDE DEF u
<1>6. /\ Debit(released, price) = [balance |-> wallet[u].balance - price,
                                   reserved |-> wallet[u].reserved - Deposit]
      /\ Debit(released, price) \in WalletRow
      /\ wallet[u].balance - price >= wallet[u].reserved - Deposit
  BY <1>3, <1>4, <1>5, WalletUpdates
<1>7. wallet[u].reserved >= Deposit
  BY <1>2 DEF CanRelease
<1> QED BY <1>1, <1>4, <1>6, <1>7 DEF u

\* The sweep's forfeiture: the deposit goes.
LEMMA SweepEffect ==
    ASSUME TypeOK, NEW r \in Rentals, SweepOverdue(r)
    PROVE  /\ Owner[r] \in Users /\ wallet[Owner[r]] \in WalletRow
           /\ LET row == [balance |-> wallet[Owner[r]].balance - Deposit,
                          reserved |-> wallet[Owner[r]].reserved - Deposit] IN
              /\ row \in WalletRow /\ row.reserved <= row.balance
              /\ wallet' = [wallet EXCEPT ![Owner[r]] = row]
<1> DEFINE u == Owner[r]
           released == [balance |-> wallet[u].balance, reserved |-> wallet[u].reserved - Deposit]
<1>1. u \in Users /\ wallet[u] \in WalletRow /\ Deposit \in Nat
  BY OwnerAssumption, MoneyAssumption DEF TypeOK
<1>2. CanRelease(wallet[u], Deposit)
  BY DEF SweepOverdue
<1>3. Release(wallet[u], Deposit) = released /\ released \in WalletRow
  BY <1>1, <1>2, WalletUpdates
<1>4. CanDebit(released, Deposit) /\ wallet' = [wallet EXCEPT ![u] = Debit(released, Deposit)]
  BY <1>3 DEF SweepOverdue
<1> HIDE DEF u
<1>5. /\ Debit(released, Deposit) = [balance |-> wallet[u].balance - Deposit,
                                     reserved |-> wallet[u].reserved - Deposit]
      /\ Debit(released, Deposit) \in WalletRow
      /\ wallet[u].balance - Deposit >= wallet[u].reserved - Deposit
  BY <1>1, <1>3, <1>4, WalletUpdates
<1> QED BY <1>1, <1>4, <1>5 DEF u

\* A debit of something else: a return slot's fee or another component's.
DebitStep(u) ==
    \E a \in Nat :
        LET row == [balance |-> wallet[u].balance - a, reserved |-> wallet[u].reserved] IN
        /\ row \in WalletRow /\ row.reserved <= row.balance
        /\ wallet' = [wallet EXCEPT ![u] = row]
        /\ charged' = [charged EXCEPT ![u] = @ + a]

LEMMA SlotEffect ==
    ASSUME TypeOK, NEW s \in Sessions, CommitSlot(s)
    PROVE  Owner[cmd[s].r] \in Users /\ DebitStep(Owner[cmd[s].r])
<1>1. cmd[s].op = "slot"
  BY DEF CommitSlot
<1>2. cmd[s].r \in Rentals
  BY <1>1, Commands DEF SlotCmds
<1> DEFINE u == Owner[cmd[s].r]
<1>3. u \in Users /\ wallet[u] \in WalletRow /\ Fee \in Nat
  BY <1>2, OwnerAssumption, MoneyAssumption DEF TypeOK
<1>4. /\ CanDebit(wallet[u], Fee)
      /\ wallet' = [wallet EXCEPT ![u] = Debit(wallet[u], Fee)]
      /\ charged' = [charged EXCEPT ![u] = @ + Fee]
  BY DEF CommitSlot
<1> HIDE DEF u
<1> QED BY <1>3, <1>4, WalletUpdates DEF DebitStep, u

LEMMA SpendEffect ==
    ASSUME TypeOK, NEW u \in Users, Spend(u)
    PROVE  DebitStep(u)
<1>1. PICK a \in Spending :
        /\ CanDebit(wallet[u], a)
        /\ wallet' = [wallet EXCEPT ![u] = Debit(wallet[u], a)]
        /\ charged' = [charged EXCEPT ![u] = @ + a]
  BY DEF Spend
<1>2. a \in Nat /\ wallet[u] \in WalletRow
  BY MoneyAssumption DEF TypeOK
<1> QED BY <1>1, <1>2, WalletUpdates DEF DebitStep

-----------------------------------------------------------------------------
(* Which steps touch which rows.                                           *)

\* Only a start, a return and the sweep write rentals, holds and bikes.
LEMMA RowsFrame ==
    ASSUME [Next]_vars
    PROVE  \/ \E s \in Sessions : CommitStart(s)
           \/ \E s \in Sessions : CommitReturn(s)
           \/ \E r \in Rentals : SweepOverdue(r)
           \/ UNCHANGED <<status, hold, confirmed, bike, place>>
BY DEF Next, vars, rentalRows, bikeRows, PrepareStart, PrepareReturn, PrepareSlot, CommitSlot,
       CancelSlot, ExpireSlots, NightCancelsSlots, Spend, UseElsewhere, ActivateSubscription,
       ExpireSubscription, Abandon, Tick

\* Besides those, only a slot's fee and the other components move money.
LEMMA MoneyFrame ==
    ASSUME TypeOK, [Next]_vars
    PROVE  \/ \E s \in Sessions : CommitStart(s)
           \/ \E s \in Sessions : CommitReturn(s)
           \/ \E r \in Rentals : SweepOverdue(r)
           \/ \E u \in Users : DebitStep(u) /\ UNCHANGED <<status, hold>>
           \/ UNCHANGED <<wallet, charged, status, hold>>
<1>1. ASSUME NEW s \in Sessions, CommitSlot(s)
      PROVE  \E u \in Users : DebitStep(u) /\ UNCHANGED <<status, hold>>
  BY <1>1, SlotEffect DEF CommitSlot, rentalRows
<1>2. ASSUME NEW u \in Users, Spend(u)
      PROVE  DebitStep(u) /\ UNCHANGED <<status, hold>>
  BY <1>2, SpendEffect DEF Spend, rentalRows
<1> QED
  BY <1>1, <1>2 DEF Next, vars, money, rentalRows, PrepareStart, PrepareReturn, PrepareSlot,
     CancelSlot, ExpireSlots, NightCancelsSlots, UseElsewhere, ActivateSubscription,
     ExpireSubscription, Abandon, Tick

\* Uses are added by starts, returns and reservations; the status also changes
\* when the subscription is activated or expires.
LEMMA UsageFrame ==
    ASSUME [Next]_vars
    PROVE  \/ \E s \in Sessions : CommitStart(s)
           \/ \E s \in Sessions : CommitReturn(s)
           \/ \E u \in Users : UseElsewhere(u) \/ ActivateSubscription(u) \/ ExpireSubscription(u)
           \/ UNCHANGED <<sub, used, subscribed>>
BY DEF Next, vars, subRows, rentalRows, PrepareStart, PrepareReturn, PrepareSlot, CommitSlot,
       CancelSlot, ExpireSlots, NightCancelsSlots, SweepOverdue, Spend, Abandon, Tick

\* A session is filled by its Prepare step and emptied by its other steps.
LEMMA CommandFrame ==
    ASSUME TypeOK, [Next]_vars
    PROVE  \/ \E s \in Sessions, r \in Rentals : PrepareStart(s, r)
           \/ \E s \in Sessions : \E c \in {NoCmd} \cup ReturnCmds \cup SlotCmds :
                cmd' = [cmd EXCEPT ![s] = c]
           \/ UNCHANGED cmd
<1>1. ASSUME NEW s \in Sessions, NEW r \in Rentals, NEW st \in Stations, PrepareReturn(s, r, st)
      PROVE  \E c \in ReturnCmds : cmd' = [cmd EXCEPT ![s] = c]
  <2>1. used[Owner[r]] \in Nat
    BY OwnerAssumption DEF TypeOK
  <2>2. [op |-> "return", r |-> r, st |-> st, count |-> used[Owner[r]]] \in ReturnCmds
    BY <2>1 DEF ReturnCmds
  <2> QED BY <1>1, <2>2 DEF PrepareReturn
<1>2. ASSUME NEW s \in Sessions, NEW r \in Rentals, NEW st \in Stations, PrepareSlot(s, r, st)
      PROVE  \E c \in SlotCmds : cmd' = [cmd EXCEPT ![s] = c]
  <2>1. [op |-> "slot", r |-> r, st |-> st, at |-> now,
         replaces |-> Unexpired(slot[r], now)] \in SlotCmds
    BY DEF SlotCmds, TypeOK, Unexpired
  <2> QED BY <1>2, <2>1 DEF PrepareSlot
<1>3. ASSUME NEW s \in Sessions,
             CommitStart(s) \/ CommitReturn(s) \/ CommitSlot(s) \/ Abandon(s)
      PROVE  cmd' = [cmd EXCEPT ![s] = NoCmd]
  BY <1>3 DEF CommitStart, CommitReturn, CommitSlot, Abandon
<1> QED
  BY <1>1, <1>2, <1>3 DEF Next, vars, CancelSlot, ExpireSlots, NightCancelsSlots, SweepOverdue,
     Spend, UseElsewhere, ActivateSubscription, ExpireSubscription, Tick
-----------------------------------------------------------------------------
(* Type correctness.                                                       *)

LEMMA InitInv == Init => IInv
<1> SUFFICES ASSUME Init PROVE IInv
  OBVIOUS
<1>1. TypeOK
  BY OwnerAssumption, MoneyAssumption, TimeAssumption DEF Init, TypeOK, WalletRow
<1>2. StartInv
  BY DEF Init, StartInv, NoCmd
<1>3. BooksAgree
  BY DEF Init, BooksAgree, Active
<1>4. DepositIsReserved
  BY MoneyAssumption DEF Init, DepositIsReserved, Active
<1>5. UsageInv
  BY SubscriptionAssumption DEF Init, UsageInv, UsageWithinMax, SubscribedInv
<1> QED BY <1>1, <1>2, <1>3, <1>4, <1>5 DEF IInv

\* The wallets and the ledger keep their types.
LEMMA MoneyTypes ==
    ASSUME TypeOK, [Next]_vars
    PROVE  wallet' \in [Users -> WalletRow] /\ charged' \in [Users -> Nat]
<1>1. ASSUME NEW s \in Sessions, CommitStart(s)
      PROVE  wallet' \in [Users -> WalletRow] /\ charged' \in [Users -> Nat]
  <2>1. cmd[s].r \in Rentals
    BY <1>1, Commands DEF CommitStart, StartCmds
  <2>2. wallet' \in [Users -> WalletRow]
    BY <1>1, <2>1, StartEffect DEF TypeOK
  <2> QED BY <1>1, <2>2 DEF CommitStart, TypeOK
<1>2. ASSUME NEW s \in Sessions, CommitReturn(s)
      PROVE  wallet' \in [Users -> WalletRow] /\ charged' \in [Users -> Nat]
  <2>1. cmd[s].r \in Rentals
    BY <1>2, Commands DEF CommitReturn, ReturnCmds
  <2> DEFINE u == Owner[cmd[s].r]
  <2>2. PICK price \in Prices, row \in WalletRow :
          wallet' = [wallet EXCEPT ![u] = row] /\ charged' = [charged EXCEPT ![u] = @ + price]
    BY <1>2, <2>1, ReturnEffect
  <2>3. price \in Nat /\ u \in Users
    BY <2>1, MoneyAssumption, OwnerAssumption
  <2> HIDE DEF u
  <2> QED BY <2>2, <2>3 DEF TypeOK
<1>3. ASSUME NEW r \in Rentals, SweepOverdue(r)
      PROVE  wallet' \in [Users -> WalletRow] /\ charged' \in [Users -> Nat]
  BY <1>3, SweepEffect DEF TypeOK, SweepOverdue
<1>4. ASSUME NEW u \in Users, DebitStep(u)
      PROVE  wallet' \in [Users -> WalletRow] /\ charged' \in [Users -> Nat]
  BY <1>4 DEF DebitStep, TypeOK
<1> QED BY <1>1, <1>2, <1>3, <1>4, MoneyFrame DEF TypeOK

\* So do the rental, hold, confirmation and bike rows.
LEMMA RowTypes ==
    ASSUME TypeOK, [Next]_vars
    PROVE  /\ status' \in [Rentals -> {"NONE", "RENTED", "COMPLETED", "OVERDUE_UNRETURNED"}]
           /\ hold' \in [Rentals -> {"NONE", "ACTIVE", "RELEASED", "SETTLED"}]
           /\ confirmed' \subseteq Rentals
           /\ bike' \in [Bikes -> {"AVAILABLE", "BOOKED", "DISABLED"}]
           /\ place' \in [Bikes -> Stations]
<1>1. CASE \E s \in Sessions : CommitStart(s)
  <2>1. PICK s \in Sessions : CommitStart(s)
    BY <1>1
  <2> DEFINE r == cmd[s].r
  <2>2. r \in Rentals
    BY <2>1, Commands DEF CommitStart, StartCmds
  <2>3. /\ status' = [status EXCEPT ![r] = "RENTED"] /\ hold' = [hold EXCEPT ![r] = "ACTIVE"]
        /\ bike' = [bike EXCEPT ![BikeOf[r]] = "BOOKED"] /\ UNCHANGED <<confirmed, place>>
    BY <2>1 DEF CommitStart
  <2> HIDE DEF r
  <2> QED BY <2>2, <2>3, OwnerAssumption DEF TypeOK
<1>2. CASE \E s \in Sessions : CommitReturn(s)
  <2>1. PICK s \in Sessions : CommitReturn(s)
    BY <1>2
  <2>2. cmd[s].r \in Rentals /\ cmd[s].st \in Stations
    BY <2>1, Commands DEF CommitReturn, ReturnCmds
  <2> QED BY <2>1, <2>2, OwnerAssumption DEF CommitReturn, TypeOK
<1>3. CASE \E r \in Rentals : SweepOverdue(r)
  BY <1>3, OwnerAssumption DEF SweepOverdue, TypeOK
<1> QED BY <1>1, <1>2, <1>3, RowsFrame DEF TypeOK

\* The subscription rows.
LEMMA UsageTypes ==
    ASSUME TypeOK, [Next]_vars
    PROVE  /\ subscribed' \subseteq Rentals
           /\ sub' \in [Users -> {"NONE", "PENDING", "ACTIVE", "EXPIRED"}]
           /\ used' \in [Users -> Nat]
<1>1. CASE \E s \in Sessions : CommitStart(s)
  <2>1. PICK s \in Sessions : CommitStart(s)
    BY <1>1
  <2>2. cmd[s].r \in Rentals
    BY <2>1, Commands DEF CommitStart, StartCmds
  <2> DEFINE u == Owner[cmd[s].r]
  <2>3. u \in Users
    BY <2>2, OwnerAssumption
  <2>4. /\ subscribed' = subscribed \/ subscribed' = subscribed \cup {cmd[s].r}
        /\ sub' = sub \/ sub' = [sub EXCEPT ![u] = "ACTIVE"]
        /\ used' = used \/ used' = [used EXCEPT ![u] = @ + 1]
    BY <2>1 DEF CommitStart
  <2> HIDE DEF u
  <2> QED BY <2>2, <2>3, <2>4 DEF TypeOK
<1>2. CASE \E s \in Sessions : CommitReturn(s)
  <2>1. PICK s \in Sessions : CommitReturn(s)
    BY <1>2
  <2>2. cmd[s].r \in Rentals /\ cmd[s].count \in Nat
    BY <2>1, Commands DEF CommitReturn, ReturnCmds
  <2>3. ExtraUses(cmd[s].r, cmd[s].count) \subseteq Nat
    BY <2>2, SubscriptionAssumption DEF ExtraUses
  <2>4. PICK extra \in Nat : used' = [used EXCEPT ![Owner[cmd[s].r]] = @ + extra]
    BY <2>1, <2>3 DEF CommitReturn
  <2>5. UNCHANGED <<sub, subscribed>>
    BY <2>1 DEF CommitReturn
  <2> QED BY <2>2, <2>4, <2>5, OwnerAssumption DEF TypeOK
<1>3. CASE \E u \in Users : UseElsewhere(u) \/ ActivateSubscription(u) \/ ExpireSubscription(u)
  BY <1>3 DEF UseElsewhere, ActivateSubscription, ExpireSubscription, rentalRows, TypeOK
<1> QED BY <1>1, <1>2, <1>3, UsageFrame DEF TypeOK

\* Return slots, sessions and the clock.
LEMMA SessionTypes ==
    ASSUME TypeOK, [Next]_vars
    PROVE  /\ slot' \in [Rentals -> Slots \cup {NoSlot}]
           /\ cmd' \in [Sessions -> {NoCmd} \cup StartCmds \cup ReturnCmds \cup SlotCmds]
           /\ now' \in 0..MaxTime
<1>1. slot' \in [Rentals -> Slots \cup {NoSlot}]
  <2>1. ASSUME NEW s \in Sessions, CommitSlot(s)
        PROVE  slot' \in [Rentals -> Slots \cup {NoSlot}]
    <3>1. cmd[s] \in SlotCmds
      BY <2>1, Commands DEF CommitSlot
    <3>2. cmd[s].r \in Rentals /\ [st |-> cmd[s].st, from |-> cmd[s].at] \in Slots
      BY <3>1 DEF SlotCmds, Slots
    <3> QED BY <2>1, <3>2 DEF CommitSlot, TypeOK
  <2>2. ASSUME NEW s \in Sessions, CommitReturn(s)
        PROVE  slot' \in [Rentals -> Slots \cup {NoSlot}]
    BY <2>2 DEF CommitReturn, TypeOK
  <2>3. ASSUME NEW r \in Rentals, CancelSlot(r)
        PROVE  slot' \in [Rentals -> Slots \cup {NoSlot}]
    BY <2>3 DEF CancelSlot, TypeOK
  <2>4. CASE ExpireSlots
    <3> DEFINE kept(r) == IF Unexpired(slot[r], now) THEN slot[r] ELSE NoSlot
    <3>1. slot' = [r \in Rentals |-> kept(r)]
      BY <2>4 DEF ExpireSlots
    <3>2. \A r \in Rentals : kept(r) \in Slots \cup {NoSlot}
      BY DEF TypeOK
    <3> HIDE DEF kept
    <3> QED BY <3>1, <3>2
  <2>5. CASE NightCancelsSlots
    BY <2>5 DEF NightCancelsSlots
  <2> QED
    BY <2>1, <2>2, <2>3, <2>4, <2>5 DEF Next, vars, TypeOK, PrepareStart, PrepareReturn, PrepareSlot,
       CommitStart, SweepOverdue, Spend, UseElsewhere, ActivateSubscription,
       ExpireSubscription, Abandon, Tick
<1>2. cmd' \in [Sessions -> {NoCmd} \cup StartCmds \cup ReturnCmds \cup SlotCmds]
  <2>1. ASSUME NEW s \in Sessions, NEW r \in Rentals, PrepareStart(s, r)
        PROVE  cmd' \in [Sessions -> {NoCmd} \cup StartCmds \cup ReturnCmds \cup SlotCmds]
    <3>1. sub[Owner[r]] \in {"NONE", "PENDING", "ACTIVE", "EXPIRED"} /\ used[Owner[r]] \in Nat
      BY OwnerAssumption DEF TypeOK
    <3>2. PICK c \in StartCmds : cmd' = [cmd EXCEPT ![s] = c]
      BY <2>1, <3>1 DEF PrepareStart, StartCmds
    <3> QED BY <3>2 DEF TypeOK
  <2> QED BY <2>1, CommandFrame DEF TypeOK
<1>3. now' \in 0..MaxTime
  <2>1. Tick \/ UNCHANGED now
    BY DEF Next, vars, PrepareStart, CommitStart, PrepareReturn, CommitReturn, PrepareSlot,
       CommitSlot, CancelSlot, ExpireSlots, NightCancelsSlots, SweepOverdue, Spend,
       UseElsewhere, ActivateSubscription, ExpireSubscription, Abandon
  <2> QED BY <2>1, TimeAssumption DEF TypeOK, Tick
<1> QED BY <1>1, <1>2, <1>3

LEMMA TypeStep == TypeOK /\ [Next]_vars => TypeOK'
BY MoneyTypes, RowTypes, UsageTypes, SessionTypes DEF TypeOK

\* Every variable has its type.
THEOREM TypeCorrect == Spec => []TypeOK
BY InitInv, TypeStep, PTL DEF Spec, IInv
-----------------------------------------------------------------------------
(* Sessions.                                                               *)

\* No step but a session's own creates the row of its rental.
LEMMA StartStep == IInv /\ [Next]_vars => StartInv'
<1> SUFFICES ASSUME IInv, [Next]_vars PROVE StartInv'
  OBVIOUS
<1>0. TypeOK /\ StartInv /\ cmd \in [Sessions -> {NoCmd} \cup StartCmds \cup ReturnCmds \cup SlotCmds]
  BY DEF IInv, TypeOK
<1>1. ASSUME NEW s \in Sessions, NEW r \in Rentals, PrepareStart(s, r)
      PROVE  StartInv'
  <2>1. PICK withSub \in BOOLEAN :
          /\ withSub => used[Owner[r]] < MaxUsages
          /\ cmd' = [cmd EXCEPT ![s] = [op |-> "start", r |-> r, withSub |-> withSub,
                                        seen |-> sub[Owner[r]], count |-> used[Owner[r]]]]
    BY <1>1 DEF PrepareStart
  <2>2. status' = status /\ status[r] = "NONE"
    BY <1>1 DEF PrepareStart, rentalRows
  <2>3. \A t \in Sessions : cmd[t].op = "start" => cmd[t].r # r
    BY <1>1, <1>0 DEF PrepareStart, NoCmd
  <2> QED BY <1>0, <2>1, <2>2, <2>3 DEF StartInv
<1>2. ASSUME NEW s \in Sessions, NEW c \in {NoCmd} \cup ReturnCmds \cup SlotCmds,
             cmd' = [cmd EXCEPT ![s] = c],
             \A t \in Sessions : t # s /\ cmd[t].op = "start" => status'[cmd[t].r] = "NONE"
      PROVE  StartInv'
  <2>1. c.op # "start"
    BY DEF NoCmd, ReturnCmds, SlotCmds
  <2>2. \A t \in Sessions : cmd'[t].op = "start" => t # s /\ cmd'[t] = cmd[t]
    BY <1>0, <1>2, <2>1
  <2> QED BY <1>0, <1>2, <2>2 DEF StartInv
<1>3. ASSUME NEW s \in Sessions, CommitStart(s)
      PROVE  StartInv'
  <2>1. /\ cmd[s].op = "start" /\ status' = [status EXCEPT ![cmd[s].r] = "RENTED"]
        /\ cmd' = [cmd EXCEPT ![s] = NoCmd]
    BY <1>3 DEF CommitStart
  <2>2. \A t \in Sessions : t # s /\ cmd[t].op = "start" => status'[cmd[t].r] = "NONE"
    BY <1>0, <2>1 DEF StartInv, TypeOK
  <2> QED BY <1>2, <2>1, <2>2
<1>4. ASSUME NEW s \in Sessions, CommitReturn(s)
      PROVE  StartInv'
  <2>1. /\ status[cmd[s].r] = "RENTED" /\ status' = [status EXCEPT ![cmd[s].r] = "COMPLETED"]
        /\ cmd' = [cmd EXCEPT ![s] = NoCmd]
    BY <1>4 DEF CommitReturn, Active
  <2>2. \A t \in Sessions : t # s /\ cmd[t].op = "start" => status'[cmd[t].r] = "NONE"
    BY <1>0, <2>1 DEF StartInv, TypeOK
  <2> QED BY <1>2, <2>1, <2>2
<1>5. ASSUME NEW r \in Rentals, SweepOverdue(r)
      PROVE  StartInv'
  <2>1. /\ status[r] = "RENTED" /\ status' = [status EXCEPT ![r] = "OVERDUE_UNRETURNED"]
        /\ cmd' = cmd
    BY <1>5 DEF SweepOverdue, Active
  <2> QED BY <1>0, <2>1 DEF StartInv, TypeOK
<1>6. CASE UNCHANGED status
  <2>1. \A t \in Sessions : cmd[t].op = "start" => status'[cmd[t].r] = "NONE"
    BY <1>0, <1>6 DEF StartInv
  <2>2. CASE UNCHANGED cmd
    BY <1>0, <1>6, <2>2 DEF StartInv
  <2> QED BY <1>0, <1>1, <1>2, <2>1, <2>2, CommandFrame
<1> QED BY <1>3, <1>4, <1>5, <1>6, RowsFrame
-----------------------------------------------------------------------------
(* Rental rows, holds, confirmations and bikes.                            *)

LEMMA BooksStep == IInv /\ [Next]_vars => BooksAgree'
<1> SUFFICES ASSUME IInv, [Next]_vars PROVE BooksAgree'
  OBVIOUS
<1>0. TypeOK /\ StartInv /\ BooksAgree
  BY DEF IInv
<1>1. ASSUME NEW s \in Sessions, CommitStart(s)
      PROVE  BooksAgree'
  <2> DEFINE r == cmd[s].r
  <2>1. r \in Rentals /\ status[r] = "NONE" /\ BikeOf[r] \in Bikes
    BY <1>0, <1>1, Commands, OwnerAssumption DEF CommitStart, StartCmds, StartInv
  <2>2. /\ status' = [status EXCEPT ![r] = "RENTED"] /\ hold' = [hold EXCEPT ![r] = "ACTIVE"]
        /\ bike' = [bike EXCEPT ![BikeOf[r]] = "BOOKED"] /\ confirmed' = confirmed
        /\ NoRivalRental(r)
    BY <1>1 DEF CommitStart
  <2> HIDE DEF r
  <2>3. \A q \in Rentals : q # r => status'[q] = status[q] /\ hold'[q] = hold[q]
    BY <1>0, <2>2 DEF TypeOK
  <2>4. status'[r] = "RENTED" /\ hold'[r] = "ACTIVE" /\ r \notin confirmed
    BY <1>0, <2>1, <2>2 DEF TypeOK, BooksAgree
  <2>5. \A b \in Bikes : bike'[b] = IF b = BikeOf[r] THEN "BOOKED" ELSE bike[b]
    BY <1>0, <2>2 DEF TypeOK
  <2>6. \A b \in Bikes : bike'[b] = "BOOKED" <=> \E q \in Rentals : Active(q)' /\ BikeOf[q] = b
    BY <1>0, <2>1, <2>3, <2>4, <2>5 DEF BooksAgree, Active
  <2>7. \A p, q \in Rentals : Active(p)' /\ Active(q)' /\ p # q
                               => Owner[p] # Owner[q] /\ BikeOf[p] # BikeOf[q]
    BY <1>0, <2>1, <2>2, <2>3 DEF BooksAgree, Active, NoRivalRental
  <2>8. \A q \in Rentals :
          /\ hold'[q] = CASE status'[q] = "NONE" -> "NONE"
                         [] status'[q] = "RENTED" -> "ACTIVE"
                         [] status'[q] = "COMPLETED" -> "RELEASED"
                         [] OTHER -> "SETTLED"
          /\ q \in confirmed <=> status'[q] = "COMPLETED"
    BY <1>0, <2>3, <2>4 DEF BooksAgree
  <2> QED BY <2>2, <2>6, <2>7, <2>8 DEF BooksAgree
<1>2. ASSUME NEW r \in Rentals, NEW st \in {"COMPLETED", "OVERDUE_UNRETURNED"},
             NEW park \in {"AVAILABLE", "DISABLED"},
             Active(r),
             status' = [status EXCEPT ![r] = st],
             hold' = [hold EXCEPT ![r] = IF st = "COMPLETED" THEN "RELEASED" ELSE "SETTLED"],
             confirmed' = IF st = "COMPLETED" THEN confirmed \cup {r} ELSE confirmed,
             bike' = [bike EXCEPT ![BikeOf[r]] = park]
      PROVE  BooksAgree'
  <2>1. BikeOf[r] \in Bikes
    BY OwnerAssumption
  <2>2. \A q \in Rentals : q # r => status'[q] = status[q] /\ hold'[q] = hold[q]
    BY <1>0, <1>2 DEF TypeOK
  <2>3. /\ status'[r] = st
        /\ hold'[r] = IF st = "COMPLETED" THEN "RELEASED" ELSE "SETTLED"
    BY <1>0, <1>2 DEF TypeOK
  <2>4. \A b \in Bikes : bike'[b] = IF b = BikeOf[r] THEN park ELSE bike[b]
    BY <1>0, <1>2 DEF TypeOK
  <2>5. \A q \in Rentals : Active(q)' <=> Active(q) /\ q # r
    BY <2>2, <2>3 DEF Active
  <2>6. \A q \in Rentals : Active(q) /\ q # r => BikeOf[q] # BikeOf[r]
    BY <1>0, <1>2 DEF BooksAgree
  <2>7. \A b \in Bikes : bike[b] = "BOOKED" <=> \E q \in Rentals : Active(q) /\ BikeOf[q] = b
    BY <1>0 DEF BooksAgree
  <2>8. \A b \in Bikes : bike'[b] = "BOOKED" <=> \E q \in Rentals : Active(q)' /\ BikeOf[q] = b
    BY <2>1, <2>4, <2>5, <2>6, <2>7
  <2>9. \A p, q \in Rentals : Active(p)' /\ Active(q)' /\ p # q
                               => Owner[p] # Owner[q] /\ BikeOf[p] # BikeOf[q]
    BY <1>0, <2>5 DEF BooksAgree
  <2>10. \A q \in Rentals :
          /\ hold'[q] = CASE status'[q] = "NONE" -> "NONE"
                         [] status'[q] = "RENTED" -> "ACTIVE"
                         [] status'[q] = "COMPLETED" -> "RELEASED"
                         [] OTHER -> "SETTLED"
          /\ q \in confirmed' <=> status'[q] = "COMPLETED"
    BY <1>0, <1>2, <2>2, <2>3 DEF BooksAgree, Active
  <2> QED BY <2>8, <2>9, <2>10 DEF BooksAgree
<1>3. ASSUME NEW s \in Sessions, CommitReturn(s)
      PROVE  BooksAgree'
  <2>1. cmd[s].r \in Rentals
    BY <1>0, <1>3, Commands DEF CommitReturn, ReturnCmds
  <2>2. /\ Active(cmd[s].r) /\ status' = [status EXCEPT ![cmd[s].r] = "COMPLETED"]
        /\ hold' = [hold EXCEPT ![cmd[s].r] = "RELEASED"]
        /\ confirmed' = confirmed \cup {cmd[s].r}
        /\ bike' = [bike EXCEPT ![BikeOf[cmd[s].r]] = "AVAILABLE"]
    BY <1>3 DEF CommitReturn
  <2> QED BY <1>2, <2>1, <2>2
<1>4. ASSUME NEW r \in Rentals, SweepOverdue(r)
      PROVE  BooksAgree'
  BY <1>2, <1>4 DEF SweepOverdue
<1>5. CASE UNCHANGED <<status, hold, confirmed, bike, place>>
  BY <1>0, <1>5 DEF BooksAgree, Active
<1> QED BY <1>1, <1>3, <1>4, <1>5, RowsFrame
-----------------------------------------------------------------------------
(* The reserved part of each wallet.                                       *)

\* The customer is on a ride.
Riding(u) == \E r \in Rentals : Active(r) /\ Owner[r] = u

LEMMA DepositStep == IInv /\ [Next]_vars => DepositIsReserved'
<1> SUFFICES ASSUME IInv, [Next]_vars PROVE DepositIsReserved'
  OBVIOUS
<1>0. TypeOK /\ StartInv /\ BooksAgree /\ DepositIsReserved /\ Deposit \in Nat
  BY MoneyAssumption DEF IInv
<1>r. \A v \in Users : /\ wallet[v].reserved = IF Riding(v) THEN Deposit ELSE 0
                       /\ wallet[v].reserved <= wallet[v].balance
  BY <1>0 DEF DepositIsReserved, Riding
<1>s. SUFFICES \A v \in Users : /\ wallet'[v].reserved = IF Riding(v)' THEN Deposit ELSE 0
                                /\ wallet'[v].reserved <= wallet'[v].balance
  BY DEF DepositIsReserved, Riding
<1>1. ASSUME NEW s \in Sessions, CommitStart(s), NEW v \in Users
      PROVE  /\ wallet'[v].reserved = IF Riding(v)' THEN Deposit ELSE 0
             /\ wallet'[v].reserved <= wallet'[v].balance
  <2> DEFINE r == cmd[s].r
  <2>1. r \in Rentals
    BY <1>0, <1>1, Commands DEF CommitStart, StartCmds
  <2>2. NoRivalRental(r) /\ status' = [status EXCEPT ![r] = "RENTED"]
    BY <1>1 DEF CommitStart
  <2>3. status[r] = "NONE"
    BY <1>0, <1>1 DEF CommitStart, StartInv
  <2>4. /\ Owner[r] \in Users /\ wallet[Owner[r]] \in WalletRow
        /\ CanReserve(wallet[Owner[r]], Deposit)
        /\ wallet' = [wallet EXCEPT ![Owner[r]] =
                [balance |-> wallet[Owner[r]].balance,
                 reserved |-> wallet[Owner[r]].reserved + Deposit]]
    BY <1>0, <1>1, <2>1, StartEffect
  <2> HIDE DEF r
  <2>5. \A q \in Rentals : Active(q)' <=> Active(q) \/ q = r
    BY <1>0, <2>2 DEF Active, TypeOK
  <2>6. CASE v = Owner[r]
    <3>1. ~Riding(v) /\ Riding(v)'
      BY <2>1, <2>2, <2>5, <2>6 DEF Riding, NoRivalRental
    <3>2. wallet[v].reserved = 0
      BY <1>r, <3>1
    <3>3. wallet'[v] = [balance |-> wallet[v].balance, reserved |-> wallet[v].reserved + Deposit]
      BY <1>0, <2>4, <2>6 DEF TypeOK
    <3>4. wallet[v].balance - wallet[v].reserved >= Deposit
      BY <2>4, <2>6 DEF CanReserve, Available
    <3> QED BY <1>0, <3>1, <3>2, <3>3, <3>4 DEF TypeOK, WalletRow
  <2>7. CASE v # Owner[r]
    <3>1. Riding(v)' <=> Riding(v)
      BY <2>1, <2>5, <2>7 DEF Riding
    <3>2. wallet'[v] = wallet[v]
      BY <1>0, <2>4, <2>7 DEF TypeOK
    <3> QED BY <1>r, <3>1, <3>2
  <2> QED BY <2>6, <2>7
<1>2. ASSUME NEW r \in Rentals, Active(r), NEW row \in WalletRow,
             NEW st \in {"COMPLETED", "OVERDUE_UNRETURNED"},
             status' = [status EXCEPT ![r] = st],
             wallet' = [wallet EXCEPT ![Owner[r]] = row],
             row.reserved = wallet[Owner[r]].reserved - Deposit, row.reserved <= row.balance,
             NEW v \in Users
      PROVE  /\ wallet'[v].reserved = IF Riding(v)' THEN Deposit ELSE 0
             /\ wallet'[v].reserved <= wallet'[v].balance
  <2>1. \A q \in Rentals : Active(q)' <=> Active(q) /\ q # r
    BY <1>0, <1>2 DEF Active, TypeOK
  <2>2. \A q \in Rentals : Active(q) /\ q # r => Owner[q] # Owner[r]
    BY <1>0, <1>2 DEF BooksAgree
  <2>3. CASE v = Owner[r]
    <3>1. Riding(v) /\ ~Riding(v)'
      BY <1>2, <2>1, <2>2, <2>3 DEF Riding
    <3>2. wallet[v].reserved = Deposit /\ wallet'[v] = row
      BY <1>0, <1>2, <1>r, <2>3, <3>1 DEF TypeOK
    <3> QED BY <1>0, <1>2, <2>3, <3>1, <3>2
  <2>4. CASE v # Owner[r]
    <3>1. Riding(v)' <=> Riding(v)
      BY <2>1, <2>4 DEF Riding
    <3>2. wallet'[v] = wallet[v]
      BY <1>0, <1>2, <2>4 DEF TypeOK
    <3> QED BY <1>r, <3>1, <3>2
  <2> QED BY <2>3, <2>4
<1>3. ASSUME NEW s \in Sessions, CommitReturn(s), NEW v \in Users
      PROVE  /\ wallet'[v].reserved = IF Riding(v)' THEN Deposit ELSE 0
             /\ wallet'[v].reserved <= wallet'[v].balance
  <2> DEFINE r == cmd[s].r
  <2>1. r \in Rentals
    BY <1>0, <1>3, Commands DEF CommitReturn, ReturnCmds
  <2>2. Active(r) /\ status' = [status EXCEPT ![r] = "COMPLETED"]
    BY <1>3 DEF CommitReturn
  <2>3. PICK row \in WalletRow :
          /\ wallet' = [wallet EXCEPT ![Owner[r]] = row]
          /\ row.reserved = wallet[Owner[r]].reserved - Deposit /\ row.reserved <= row.balance
    BY <1>0, <1>3, <2>1, ReturnEffect
  <2> HIDE DEF r
  <2> QED BY <1>2, <2>1, <2>2, <2>3
<1>4. ASSUME NEW r \in Rentals, SweepOverdue(r), NEW v \in Users
      PROVE  /\ wallet'[v].reserved = IF Riding(v)' THEN Deposit ELSE 0
             /\ wallet'[v].reserved <= wallet'[v].balance
  <2>1. Active(r) /\ status' = [status EXCEPT ![r] = "OVERDUE_UNRETURNED"]
    BY <1>4 DEF SweepOverdue
  <2>2. PICK row \in WalletRow :
          /\ wallet' = [wallet EXCEPT ![Owner[r]] = row]
          /\ row.reserved = wallet[Owner[r]].reserved - Deposit /\ row.reserved <= row.balance
    BY <1>0, <1>4, SweepEffect
  <2> QED BY <1>2, <2>1, <2>2
<1>5. ASSUME NEW u \in Users, DebitStep(u), UNCHANGED <<status, hold>>, NEW v \in Users
      PROVE  /\ wallet'[v].reserved = IF Riding(v)' THEN Deposit ELSE 0
             /\ wallet'[v].reserved <= wallet'[v].balance
  <2>1. PICK row \in WalletRow :
          /\ wallet' = [wallet EXCEPT ![u] = row]
          /\ row.reserved = wallet[u].reserved /\ row.reserved <= row.balance
    BY <1>5 DEF DebitStep
  <2>2. wallet'[v] = IF v = u THEN row ELSE wallet[v]
    BY <1>0, <2>1 DEF TypeOK
  <2>3. Riding(v)' <=> Riding(v)
    BY <1>5 DEF Riding, Active
  <2> QED BY <1>r, <2>1, <2>2, <2>3
<1>6. ASSUME UNCHANGED <<wallet, charged, status, hold>>, NEW v \in Users
      PROVE  /\ wallet'[v].reserved = IF Riding(v)' THEN Deposit ELSE 0
             /\ wallet'[v].reserved <= wallet'[v].balance
  BY <1>r, <1>6 DEF Riding, Active
<1> QED BY <1>0, <1>1, <1>3, <1>4, <1>5, <1>6, MoneyFrame
-----------------------------------------------------------------------------
(* Subscriptions.                                                          *)

LEMMA UsageStep == IInv /\ [Next]_vars => UsageInv'
<1> SUFFICES ASSUME IInv, [Next]_vars PROVE UsageInv'
  OBVIOUS
<1>0. /\ TypeOK /\ StartInv /\ UsageWithinMax /\ SubscribedInv
      /\ MaxUsages \in Nat /\ Owner \in [Rentals -> Users]
  BY SubscriptionAssumption, OwnerAssumption DEF IInv, UsageInv
<1>1. ASSUME NEW s \in Sessions, CommitStart(s)
      PROVE  UsageInv'
  <2> DEFINE c == cmd[s]
             u == Owner[cmd[s].r]
  <2>1. c \in StartCmds /\ c.op = "start"
    BY <1>0, <1>1, Commands DEF CommitStart
  <2>2. c.r \in Rentals /\ u \in Users /\ c.count \in Nat /\ (c.withSub => c.count < MaxUsages)
    BY <1>0, <2>1 DEF StartCmds, StartInv
  <2>3. CASE c.withSub
    <3>1. /\ CanUseOne(u, c)
          /\ sub' = [sub EXCEPT ![u] = "ACTIVE"] /\ used' = [used EXCEPT ![u] = @ + 1]
          /\ subscribed' = subscribed \cup {c.r}
      BY <1>1, <2>3 DEF CommitStart
    <3>2. used[u] < MaxUsages
      BY <1>0, <2>2, <2>3, <3>1 DEF CanUseOne, CanIncrement, UsageWithinMax, TypeOK
    <3> HIDE DEF u, c
    <3>3. \A v \in Users : /\ used'[v] = IF v = u THEN used[v] + 1 ELSE used[v]
                           /\ sub'[v] = IF v = u THEN "ACTIVE" ELSE sub[v]
      BY <1>0, <3>1 DEF TypeOK
    <3>4. UsageWithinMax'
      BY <1>0, <2>2, <3>2, <3>3 DEF UsageWithinMax, TypeOK
    <3>5. SubscribedInv'
      BY <1>0, <2>2, <3>1, <3>3 DEF SubscribedInv, TypeOK, c, u
    <3> QED BY <3>4, <3>5 DEF UsageInv
  <2>4. CASE ~c.withSub
    <3>1. UNCHANGED <<sub, used, subscribed>>
      BY <1>1, <2>4 DEF CommitStart
    <3> QED BY <1>0, <3>1 DEF UsageInv, UsageWithinMax, SubscribedInv
  <2> QED BY <2>3, <2>4
<1>2. ASSUME NEW s \in Sessions, CommitReturn(s)
      PROVE  UsageInv'
  <2> DEFINE r == cmd[s].r
             n == cmd[s].count
             u == Owner[cmd[s].r]
  <2>1. r \in Rentals /\ n \in Nat /\ u \in Users
    BY <1>0, <1>2, Commands DEF CommitReturn, ReturnCmds
  <2>2. PICK extra \in ExtraUses(r, n) :
          (extra > 0 => CanIncrement(u, n)) /\ used' = [used EXCEPT ![u] = @ + extra]
    BY <1>2 DEF CommitReturn
  <2>3. UNCHANGED <<sub, subscribed>>
    BY <1>2 DEF CommitReturn
  <2> HIDE DEF r, n, u
  <2>4. extra \in Nat /\ (extra > 0 => r \in subscribed /\ n + extra <= MaxUsages)
    BY <1>0, <2>1, <2>2 DEF ExtraUses
  <2>5. extra > 0 => used[u] + extra <= MaxUsages /\ sub[u] \notin {"NONE", "PENDING"}
    BY <1>0, <2>2, <2>4 DEF CanIncrement, SubscribedInv, r, u
  <2>6. \A v \in Users : used'[v] = IF v = u THEN used[v] + extra ELSE used[v]
    BY <1>0, <2>2 DEF TypeOK
  <2>7. UsageWithinMax'
    BY <1>0, <2>1, <2>3, <2>4, <2>5, <2>6 DEF UsageWithinMax, TypeOK
  <2> QED BY <1>0, <2>3, <2>7 DEF UsageInv, SubscribedInv
<1>3. ASSUME NEW u \in Users, UseElsewhere(u) \/ ActivateSubscription(u) \/ ExpireSubscription(u)
      PROVE  UsageInv'
  <2>1. /\ subscribed' = subscribed
        /\ sub' = [sub EXCEPT ![u] = "ACTIVE"] \/ sub' = [sub EXCEPT ![u] = "EXPIRED"]
        /\ \/ used' = used
           \/ used' = [used EXCEPT ![u] = @ + 1] /\ used[u] < MaxUsages
    BY <1>3 DEF UseElsewhere, ActivateSubscription, ExpireSubscription, rentalRows
  <2>2. /\ \A v \in Users : v # u => sub'[v] = sub[v] /\ used'[v] = used[v]
        /\ sub'[u] \in {"ACTIVE", "EXPIRED"}
    BY <1>0, <2>1 DEF TypeOK
  <2>3. used'[u] <= MaxUsages
    BY <1>0, <2>1 DEF TypeOK, UsageWithinMax
  <2>4. UsageWithinMax'
    BY <1>0, <2>2, <2>3 DEF UsageWithinMax
  <2>5. SubscribedInv'
    BY <1>0, <2>1, <2>2 DEF SubscribedInv, TypeOK
  <2> QED BY <2>4, <2>5 DEF UsageInv
<1>4. CASE UNCHANGED <<sub, used, subscribed>>
  BY <1>0, <1>4 DEF UsageInv, UsageWithinMax, SubscribedInv
<1> QED BY <1>1, <1>2, <1>3, <1>4, UsageFrame
-----------------------------------------------------------------------------
(* The invariant and the properties that follow from it.                   *)

LEMMA Inductive == IInv /\ [Next]_vars => IInv'
BY TypeStep, StartStep, BooksStep, DepositStep, UsageStep DEF IInv

LEMMA Invariance == Spec => []IInv
BY InitInv, Inductive, PTL DEF Spec

\* Whatever races on a wallet, exactly the deposit of the customer's ride is
\* reserved in it and covered by the balance.
THEOREM DepositCorrect == Spec => []DepositIsReserved
BY Invariance, PTL DEF IInv

\* Rentals, holds, confirmations and bikes agree.
THEOREM BooksCorrect == Spec => []BooksAgree
BY Invariance, PTL DEF IInv

\* No subscription is used beyond its package.
THEOREM UsageCorrect == Spec => []UsageWithinMax
BY Invariance, PTL DEF IInv, UsageInv

LEMMA EndsStep ==
    IInv /\ [Next]_vars =>
      /\ \A r \in Rentals :
            status[r] \notin {"NONE", "RENTED"} => status'[r] = status[r] /\ hold'[r] = hold[r]
      /\ \A s \in Sessions :
            cmd[s].op = "return" /\ cmd'[s] # cmd[s]
              /\ (charged' # charged \/ bike' # bike \/ place' # place)
            => Active(cmd[s].r)
<1> SUFFICES ASSUME IInv, [Next]_vars
             PROVE  /\ \A r \in Rentals :
                          status[r] \notin {"NONE", "RENTED"}
                          => status'[r] = status[r] /\ hold'[r] = hold[r]
                    /\ \A s \in Sessions :
                          cmd[s].op = "return" /\ cmd'[s] # cmd[s]
                            /\ (charged' # charged \/ bike' # bike \/ place' # place)
                          => Active(cmd[s].r)
  OBVIOUS
<1>0. TypeOK /\ StartInv
  BY DEF IInv
<1>1. ASSUME NEW r \in Rentals, status[r] \notin {"NONE", "RENTED"}
      PROVE  status'[r] = status[r] /\ hold'[r] = hold[r]
  <2>1. ASSUME NEW s \in Sessions, CommitStart(s)
        PROVE  status'[r] = status[r] /\ hold'[r] = hold[r]
    <3>1. status[cmd[s].r] = "NONE"
      BY <1>0, <2>1 DEF CommitStart, StartInv
    <3> QED BY <1>0, <1>1, <2>1, <3>1 DEF CommitStart, TypeOK
  <2>2. ASSUME NEW s \in Sessions, CommitReturn(s)
        PROVE  status'[r] = status[r] /\ hold'[r] = hold[r]
    BY <1>0, <1>1, <2>2 DEF CommitReturn, Active, TypeOK
  <2>3. ASSUME NEW q \in Rentals, SweepOverdue(q)
        PROVE  status'[r] = status[r] /\ hold'[r] = hold[r]
    BY <1>0, <1>1, <2>3 DEF SweepOverdue, Active, TypeOK
  <2> QED BY <2>1, <2>2, <2>3, RowsFrame
<1>2. ASSUME NEW s \in Sessions, cmd[s].op = "return", cmd'[s] # cmd[s],
             charged' # charged \/ bike' # bike \/ place' # place
      PROVE  Active(cmd[s].r)
  <2>1. ASSUME NEW t \in Sessions, CommitReturn(t)
        PROVE  t = s /\ Active(cmd[s].r)
    BY <1>0, <1>2, <2>1 DEF CommitReturn, TypeOK
  <2>2. ASSUME NEW t \in Sessions, CommitStart(t) \/ CommitSlot(t)
        PROVE  FALSE
    BY <1>0, <1>2, <2>2 DEF CommitStart, CommitSlot, TypeOK
  <2> QED
    BY <1>2, <2>1, <2>2 DEF Next, vars, money, bikeRows, PrepareStart, PrepareReturn,
       PrepareSlot, CancelSlot, ExpireSlots, NightCancelsSlots, SweepOverdue, Spend, UseElsewhere,
       ActivateSubscription, ExpireSubscription, Abandon, Tick
<1> QED BY <1>1, <1>2

\* A ride ends once, however many operators and sweeps are ending it.
THEOREM EndsOnceCorrect == Spec => EndsOnce
BY Invariance, EndsStep, PTL DEF Spec, EndsOnce
-----------------------------------------------------------------------------
(* Deposits are an escrow.                                                 *)

\* What the mapping shows: the money besides deposits, and the holds' phases.
MoneyOf == [u \in Users |-> Available(wallet[u]) + charged[u]]
PhaseOf == [r \in Rentals |-> Phase(r)]

\* A step on the wallet of one customer moves that customer's money alone.
LEMMA MoneyMoves ==
    ASSUME TypeOK, NEW u \in Users, NEW row \in WalletRow, NEW n \in Nat,
           wallet' = [wallet EXCEPT ![u] = row], charged' = [charged EXCEPT ![u] = n]
    PROVE  MoneyOf' = [MoneyOf EXCEPT ![u] = row.balance - row.reserved + n]
<1>1. /\ wallet'[u] = row /\ charged'[u] = n
      /\ \A v \in Users : v # u => wallet'[v] = wallet[v] /\ charged'[v] = charged[v]
  BY DEF TypeOK
<1>2. Available(wallet'[u]) + charged'[u] = row.balance - row.reserved + n
  BY <1>1 DEF Available
<1>3. MoneyOf' = [v \in Users |-> Available(wallet'[v]) + charged'[v]]
  BY DEF MoneyOf, Available
<1>4. \A v \in Users : v # u => Available(wallet'[v]) + charged'[v] = Available(wallet[v]) + charged[v]
  BY <1>1
<1> QED BY <1>2, <1>3, <1>4 DEF MoneyOf

\* Changing one hold changes one phase.
LEMMA PhaseMoves ==
    ASSUME TypeOK, NEW r \in Rentals, NEW h, hold' = [hold EXCEPT ![r] = h]
    PROVE  /\ h = "ACTIVE"   => PhaseOf' = [PhaseOf EXCEPT ![r] = "held"]
           /\ h = "RELEASED" => PhaseOf' = [PhaseOf EXCEPT ![r] = "returned"]
           /\ h = "SETTLED"  => PhaseOf' = [PhaseOf EXCEPT ![r] = "settled"]
<1>1. hold'[r] = h /\ \A q \in Rentals : q # r => hold'[q] = hold[q]
  BY DEF TypeOK
<1>2. \A q \in Rentals : q # r => Phase(q)' = Phase(q)
  BY <1>1 DEF Phase
<1>3. /\ h = "ACTIVE"   => Phase(r)' = "held"
      /\ h = "RELEASED" => Phase(r)' = "returned"
      /\ h = "SETTLED"  => Phase(r)' = "settled"
  BY <1>1 DEF Phase
<1> QED BY <1>2, <1>3 DEF PhaseOf

LEMMA EscrowStart == Init => Deposits!EscrowInit
<1> SUFFICES ASSUME Init PROVE Deposits!EscrowInit
  OBVIOUS
<1>1. \A u \in Users : Available(wallet[u]) + charged[u] = InitialBalance[u]
  BY MoneyAssumption DEF Init, Available
<1>2. MoneyOf = InitialBalance
  BY <1>1, MoneyAssumption DEF MoneyOf
<1>3. \A r \in Rentals : Phase(r) = "none"
  BY DEF Init, Phase
<1> QED BY <1>2, <1>3 DEF Deposits!EscrowInit, MoneyOf

\* A start holds the deposit.
LEMMA EscrowHold ==
    ASSUME IInv, NEW s \in Sessions, CommitStart(s)
    PROVE  \E r \in Rentals : Deposits!Hold(r)
<1> PICK r \in Rentals : r = cmd[s].r
  BY Commands DEF IInv, CommitStart, StartCmds
<1> PICK u \in Users : u = Owner[r]
  BY OwnerAssumption
<1>1. /\ wallet[u] \in WalletRow /\ CanReserve(wallet[u], Deposit) /\ wallet'[u] \in WalletRow
      /\ wallet' = [wallet EXCEPT ![u] = [balance |-> wallet[u].balance,
                                          reserved |-> wallet[u].reserved + Deposit]]
  BY StartEffect DEF IInv
<1>2. charged[u] \in Nat /\ charged' = [charged EXCEPT ![u] = charged[u]]
  BY DEF CommitStart, IInv, TypeOK
<1> DEFINE row == [balance |-> wallet[u].balance, reserved |-> wallet[u].reserved + Deposit]
<1>3. row \in WalletRow
  BY <1>1 DEF IInv, TypeOK
<1>a. TypeOK
  BY DEF IInv
<1>b. PICK w \in WalletRow : w = row
  BY <1>3
<1>c. wallet' = [wallet EXCEPT ![u] = w]
  BY <1>1, <1>b
<1>d. MoneyOf' = [MoneyOf EXCEPT ![u] = w.balance - w.reserved + charged[u]]
  BY <1>2, <1>a, <1>c, MoneyMoves
<1>4. MoneyOf' = [MoneyOf EXCEPT ![u] = row.balance - row.reserved + charged[u]]
  BY <1>b, <1>d
<1>5. /\ MoneyOf[u] = wallet[u].balance - wallet[u].reserved + charged[u]
      /\ row.balance = wallet[u].balance /\ row.reserved = wallet[u].reserved + Deposit
      /\ wallet[u].balance \in Nat /\ wallet[u].reserved \in Nat /\ Deposit \in Nat
  BY <1>1, MoneyAssumption DEF MoneyOf, Available, WalletRow
<1>6. /\ row.balance - row.reserved + charged[u] = MoneyOf[u] - Deposit
      /\ MoneyOf[u] >= Deposit
  BY <1>1, <1>2, <1>5 DEF CanReserve, Available
<1>7. hold[r] = "NONE"
  BY DEF CommitStart, IInv, StartInv, BooksAgree
<1>8. Phase(r) = "none" /\ PhaseOf' = [PhaseOf EXCEPT ![r] = "held"]
  BY <1>7, PhaseMoves DEF CommitStart, Phase, IInv
<1>9. Deposits!Hold(r)
  BY <1>4, <1>6, <1>8 DEF Deposits!Hold, MoneyOf, PhaseOf
<1> QED BY <1>9

\* A return gives it back, and its price is another debit.
LEMMA EscrowReturn ==
    ASSUME IInv, NEW s \in Sessions, CommitReturn(s)
    PROVE  \E r \in Rentals : Deposits!Return(r)
<1> PICK r \in Rentals : r = cmd[s].r
  BY Commands DEF IInv, CommitReturn, ReturnCmds
<1> PICK u \in Users : u = Owner[r]
  BY OwnerAssumption
<1>1. PICK price \in Prices :
        LET row == [balance |-> wallet[u].balance - price,
                    reserved |-> wallet[u].reserved - Deposit] IN
        /\ row \in WalletRow
        /\ wallet' = [wallet EXCEPT ![u] = row]
        /\ charged' = [charged EXCEPT ![u] = @ + price]
  BY ReturnEffect DEF IInv
<1> DEFINE row == [balance |-> wallet[u].balance - price,
                   reserved |-> wallet[u].reserved - Deposit]
<1>2. /\ price \in Nat /\ Deposit \in Nat /\ charged[u] \in Nat /\ charged[u] + price \in Nat
      /\ wallet[u] \in WalletRow /\ charged' = [charged EXCEPT ![u] = charged[u] + price]
      /\ row \in WalletRow /\ wallet' = [wallet EXCEPT ![u] = row]
  BY <1>1, MoneyAssumption DEF IInv, TypeOK
<1>a. TypeOK
  BY DEF IInv
<1>b. PICK n \in Nat : n = charged[u] + price
  BY <1>2
<1>c. PICK w \in WalletRow : w = row
  BY <1>2
<1>d. MoneyOf' = [MoneyOf EXCEPT ![u] = w.balance - w.reserved + n]
  BY <1>2, <1>a, <1>b, <1>c, MoneyMoves
<1>3. MoneyOf' = [MoneyOf EXCEPT ![u] = row.balance - row.reserved + (charged[u] + price)]
  BY <1>b, <1>c, <1>d
<1>4. /\ MoneyOf[u] = wallet[u].balance - wallet[u].reserved + charged[u]
      /\ row.balance = wallet[u].balance - price /\ row.reserved = wallet[u].reserved - Deposit
      /\ wallet[u].balance \in Nat /\ wallet[u].reserved \in Nat
  BY <1>2 DEF MoneyOf, Available, WalletRow
<1>5. row.balance - row.reserved + (charged[u] + price) = MoneyOf[u] + Deposit
  BY <1>2, <1>4
<1>6. hold[r] = "ACTIVE" /\ hold' = [hold EXCEPT ![r] = "RELEASED"]
  BY DEF CommitReturn
<1>7. Phase(r) = "held" /\ PhaseOf' = [PhaseOf EXCEPT ![r] = "returned"]
  BY <1>6, PhaseMoves DEF Phase, IInv
<1>8. Deposits!Return(r)
  BY <1>3, <1>5, <1>7 DEF Deposits!Return, MoneyOf, PhaseOf
<1> QED BY <1>8

\* The sweep settles it.
LEMMA EscrowSettle ==
    ASSUME IInv, NEW r \in Rentals, SweepOverdue(r)
    PROVE  Deposits!Settle(r)
<1> PICK u \in Users : u = Owner[r]
  BY OwnerAssumption
<1> DEFINE row == [balance |-> wallet[u].balance - Deposit,
                   reserved |-> wallet[u].reserved - Deposit]
<1>1. row \in WalletRow /\ wallet' = [wallet EXCEPT ![u] = row] /\ wallet[u] \in WalletRow
  BY SweepEffect DEF IInv
<1>2. charged[u] \in Nat /\ charged' = [charged EXCEPT ![u] = charged[u]]
  BY DEF SweepOverdue, IInv, TypeOK
<1>a. TypeOK
  BY DEF IInv
<1>b. PICK w \in WalletRow : w = row
  BY <1>1
<1>c. wallet' = [wallet EXCEPT ![u] = w]
  BY <1>1, <1>b
<1>d. MoneyOf' = [MoneyOf EXCEPT ![u] = w.balance - w.reserved + charged[u]]
  BY <1>2, <1>a, <1>c, MoneyMoves
<1>3. MoneyOf' = [MoneyOf EXCEPT ![u] = row.balance - row.reserved + charged[u]]
  BY <1>b, <1>d
<1>4. /\ MoneyOf[u] = wallet[u].balance - wallet[u].reserved + charged[u]
      /\ row.balance = wallet[u].balance - Deposit /\ row.reserved = wallet[u].reserved - Deposit
      /\ wallet[u].balance \in Nat /\ wallet[u].reserved \in Nat /\ Deposit \in Nat
  BY <1>1, MoneyAssumption DEF MoneyOf, Available, WalletRow
<1>5. row.balance - row.reserved + charged[u] = MoneyOf[u]
  BY <1>2, <1>4
<1>6. MoneyOf' = MoneyOf
  BY <1>3, <1>5 DEF MoneyOf
<1>7. hold[r] = "ACTIVE" /\ hold' = [hold EXCEPT ![r] = "SETTLED"]
  BY DEF SweepOverdue
<1>8. Phase(r) = "held" /\ PhaseOf' = [PhaseOf EXCEPT ![r] = "settled"]
  BY <1>7, PhaseMoves DEF Phase, IInv
<1> QED BY <1>6, <1>8 DEF Deposits!Settle, MoneyOf, PhaseOf

\* Any other debit is added back by the mapping.
LEMMA EscrowDebit ==
    ASSUME IInv, NEW u \in Users, DebitStep(u)
    PROVE  MoneyOf' = MoneyOf
<1>1. PICK a \in Nat :
        LET row == [balance |-> wallet[u].balance - a, reserved |-> wallet[u].reserved] IN
        /\ row \in WalletRow
        /\ wallet' = [wallet EXCEPT ![u] = row]
        /\ charged' = [charged EXCEPT ![u] = @ + a]
  BY DEF DebitStep
<1> DEFINE row == [balance |-> wallet[u].balance - a, reserved |-> wallet[u].reserved]
<1>2. /\ charged[u] \in Nat /\ charged[u] + a \in Nat /\ wallet[u] \in WalletRow
      /\ charged' = [charged EXCEPT ![u] = charged[u] + a]
  BY <1>1 DEF IInv, TypeOK
<1>a. TypeOK
  BY DEF IInv
<1>b. PICK w \in WalletRow : w = row
  BY <1>1
<1>c. wallet' = [wallet EXCEPT ![u] = w]
  BY <1>1, <1>b
<1>d. MoneyOf' = [MoneyOf EXCEPT ![u] = w.balance - w.reserved + (charged[u] + a)]
  BY <1>2, <1>a, <1>c, MoneyMoves
<1>3. MoneyOf' = [MoneyOf EXCEPT ![u] = row.balance - row.reserved + (charged[u] + a)]
  BY <1>b, <1>d
<1>4. /\ MoneyOf[u] = wallet[u].balance - wallet[u].reserved + charged[u]
      /\ row.balance = wallet[u].balance - a /\ row.reserved = wallet[u].reserved
      /\ wallet[u].balance \in Nat /\ wallet[u].reserved \in Nat
  BY <1>2 DEF MoneyOf, Available, WalletRow
<1>5. row.balance - row.reserved + (charged[u] + a) = MoneyOf[u]
  BY <1>2, <1>4
<1> QED BY <1>3, <1>5 DEF MoneyOf

LEMMA EscrowStep == IInv /\ [Next]_vars => [Deposits!EscrowNext]_(Deposits!escrowVars)
<1> SUFFICES ASSUME IInv, [Next]_vars
             PROVE  Deposits!EscrowNext \/ (MoneyOf' = MoneyOf /\ PhaseOf' = PhaseOf)
  BY DEF Deposits!escrowVars, MoneyOf, PhaseOf
<1>1. CASE \E s \in Sessions : CommitStart(s)
  BY <1>1, EscrowHold DEF Deposits!EscrowNext
<1>2. CASE \E s \in Sessions : CommitReturn(s)
  BY <1>2, EscrowReturn DEF Deposits!EscrowNext
<1>3. CASE \E r \in Rentals : SweepOverdue(r)
  BY <1>3, EscrowSettle DEF Deposits!EscrowNext
<1>4. CASE \E u \in Users : DebitStep(u) /\ UNCHANGED <<status, hold>>
  BY <1>4, EscrowDebit DEF PhaseOf, Phase
<1>5. CASE UNCHANGED <<wallet, charged, status, hold>>
  BY <1>5 DEF MoneyOf, PhaseOf, Phase
<1> QED BY <1>1, <1>2, <1>3, <1>4, <1>5, MoneyFrame DEF IInv

\* The deposits of any customers and rentals are an escrow: what is held leaves
\* the available money once, and comes back in full or is lost in full.
THEOREM EscrowRefinement == Spec => ImplementsEscrow
<1>1. Init => Deposits!EscrowInit
  BY EscrowStart
<1>2. IInv /\ [Next]_vars => [Deposits!EscrowNext]_(Deposits!escrowVars)
  BY EscrowStep
<1> QED BY <1>1, <1>2, Invariance, PTL DEF Spec, ImplementsEscrow, Deposits!EscrowSpec
-----------------------------------------------------------------------------
(* Liveness.  The provers know nothing of ENABLED, so fairness is stated   *)
(* here with the guards themselves: a worker that could go on again and    *)
(* again without end does go on.  That the clock gets past an hour cannot  *)
(* be derived without induction over time and is a hypothesis.             *)

\* The sweep's transaction for a rental can go through.
SweepGuard(r) ==
    /\ Night
    /\ Active(r)
    /\ hold[r] = "ACTIVE"
    /\ CanRelease(wallet[Owner[r]], Deposit)
    /\ CanDebit(Release(wallet[Owner[r]], Deposit), Deposit)

\* Weak fairness of the sweep's transaction for a rental.
SweepRuns(r) == []<>~SweepGuard(r) \/ []<><<SweepOverdue(r)>>_vars

NightComes == <>Night

\* Whatever the customer has spent, the sweep finds a ride's deposit at night.
LEMMA SweepFindsMoney ==
    ASSUME NEW r \in Rentals, IInv, Night, Active(r)
    PROVE  SweepGuard(r)
<1> PICK u \in Users : u = Owner[r]
  BY OwnerAssumption
<1> PICK row \in WalletRow : row = wallet[u]
  BY DEF IInv, TypeOK
<1>1. row.reserved = Deposit /\ row.reserved <= row.balance
  BY DEF IInv, DepositIsReserved
<1>2. hold[r] = "ACTIVE"
  BY DEF IInv, BooksAgree, Active
<1>3. CanRelease(row, Deposit) /\ CanDebit(Release(row, Deposit), Deposit)
  BY <1>1, MoneyAssumption DEF CanRelease, CanDebit, Release, Available, WalletRow
<1> QED BY <1>2, <1>3 DEF SweepGuard

\* The clock does not go back.
LEMMA ClockStep ==
    ASSUME TypeOK, [Next]_vars
    PROVE  /\ now \in Nat /\ now' \in Nat /\ now <= now'
           /\ Night => Night'
<1>1. Tick \/ UNCHANGED now
  BY DEF Next, vars, PrepareStart, CommitStart, PrepareReturn, CommitReturn, PrepareSlot,
         CommitSlot, CancelSlot, ExpireSlots, NightCancelsSlots, SweepOverdue, Spend,
         UseElsewhere, ActivateSubscription, ExpireSubscription, Abandon
<1>2. now \in Nat
  BY TimeAssumption DEF TypeOK
<1>3. CASE Tick
  BY <1>2, <1>3, TimeAssumption DEF Tick, Night
<1>4. CASE UNCHANGED now
  BY <1>2, <1>4, TimeAssumption DEF Night
<1> QED BY <1>1, <1>3, <1>4

\* The overdue sweep ends the ride it takes up.
LEMMA SweepEnds ==
    ASSUME NEW r \in Rentals, TypeOK, SweepOverdue(r)
    PROVE  ~Active(r)'
BY DEF SweepOverdue, Active, TypeOK

\* At night every ride is one the sweep can end, and stays one until it has.
LEMMA RentalEnds ==
    ASSUME NEW r \in Rentals
    PROVE  Spec /\ NightComes /\ SweepRuns(r) => (Active(r) ~> ~Active(r))
<1>1. IInv /\ Night /\ Active(r) => SweepGuard(r)
  BY SweepFindsMoney
<1>2. IInv /\ Night /\ [Next]_vars => Night'
  BY ClockStep DEF IInv
<1>3. IInv /\ <<SweepOverdue(r)>>_vars => ~Active(r)'
  BY SweepEnds DEF IInv
<1> QED BY <1>1, <1>2, <1>3, Invariance, PTL DEF Spec, NightComes, SweepRuns

\* Nothing blocks the sweep for ever: once the night has come, it alone ends
\* every ride that is still going, if it goes on running.
THEOREM EveryRentalEndsCorrect ==
    Spec /\ NightComes /\ (\A r \in Rentals : SweepRuns(r)) => EveryRentalEnds
<1> SUFFICES ASSUME NEW r \in Rentals
             PROVE  Spec /\ NightComes /\ SweepRuns(r) => (Active(r) ~> ~Active(r))
  BY DEF EveryRentalEnds
<1> QED BY RentalEnds

\* Slots count from before the night, the ones about to be written as well.
SlotInv ==
    /\ \A r \in Rentals : slot[r] # NoSlot => slot[r] \in Slots /\ slot[r].from < Cutoff
    /\ \A s \in Sessions : cmd[s].op = "slot" => cmd[s].at < Cutoff

\* The hour at which the last slot of the day is over.
Over == Cutoff + SlotHold <= now + 1

ExpiryGuard == \E r \in Rentals : slot[r] # NoSlot /\ ~Unexpired(slot[r], now)

\* Weak fairness of the expiry worker.
ExpiryRuns == []<>~ExpiryGuard \/ []<><<ExpireSlots>>_vars

SlotsPass == <>Over

\* What a step may make of the slots and of the slot requests in flight.
LEMMA SlotSteps ==
    ASSUME TypeOK, [Next]_vars
    PROVE  /\ \A r \in Rentals :
                \/ slot'[r] \in {slot[r], NoSlot}
                \/ \E s \in Sessions :
                     cmd[s].op = "slot" /\ slot'[r] = [st |-> cmd[s].st, from |-> cmd[s].at]
           /\ \A s \in Sessions :
                \/ cmd'[s].op # "slot" \/ cmd'[s] = cmd[s]
                \/ ~Night /\ cmd'[s].at = now
<1>1. ASSUME NEW s \in Sessions, NEW r \in Rentals, PrepareStart(s, r)
      PROVE  /\ slot' = slot
             /\ \A t \in Sessions : cmd'[t].op # "slot" \/ cmd'[t] = cmd[t]
  BY <1>1 DEF PrepareStart, TypeOK
<1>2. ASSUME NEW s \in Sessions, NEW r \in Rentals, NEW st \in Stations, PrepareReturn(s, r, st)
      PROVE  /\ slot' = slot
             /\ \A t \in Sessions : cmd'[t].op # "slot" \/ cmd'[t] = cmd[t]
  BY <1>2 DEF PrepareReturn, TypeOK
<1>3. ASSUME NEW s \in Sessions, NEW r \in Rentals, NEW st \in Stations, PrepareSlot(s, r, st)
      PROVE  /\ slot' = slot
             /\ \A t \in Sessions :
                  cmd'[t].op # "slot" \/ cmd'[t] = cmd[t] \/ (~Night /\ cmd'[t].at = now)
  BY <1>3 DEF PrepareSlot, TypeOK
<1>4. ASSUME NEW s \in Sessions, CommitSlot(s)
      PROVE  /\ cmd[s].op = "slot"
             /\ \A q \in Rentals : \/ slot'[q] = slot[q]
                                   \/ slot'[q] = [st |-> cmd[s].st, from |-> cmd[s].at]
             /\ \A t \in Sessions : cmd'[t] \in {cmd[t], NoCmd}
  BY <1>4 DEF CommitSlot, TypeOK
<1>5. ASSUME NEW s \in Sessions, CommitStart(s) \/ CommitReturn(s) \/ Abandon(s)
      PROVE  /\ \A q \in Rentals : slot'[q] \in {slot[q], NoSlot}
             /\ \A t \in Sessions : cmd'[t] \in {cmd[t], NoCmd}
  BY <1>5 DEF CommitStart, CommitReturn, Abandon, TypeOK
<1>6. ASSUME \/ \E r \in Rentals : CancelSlot(r) \/ SweepOverdue(r)
             \/ ExpireSlots \/ NightCancelsSlots
             \/ \E u \in Users : Spend(u) \/ UseElsewhere(u) \/ ActivateSubscription(u)
                                   \/ ExpireSubscription(u)
             \/ Tick \/ UNCHANGED vars
      PROVE  /\ \A q \in Rentals : slot'[q] \in {slot[q], NoSlot}
             /\ cmd' = cmd
  BY <1>6 DEF CancelSlot, SweepOverdue, ExpireSlots, NightCancelsSlots, Spend, UseElsewhere,
              ActivateSubscription, ExpireSubscription, Tick, vars, TypeOK
<1>7. NoCmd.op # "slot"
  BY DEF NoCmd
<1>8. \/ \E s \in Sessions, r \in Rentals : PrepareStart(s, r)
      \/ \E s \in Sessions, r \in Rentals, st \in Stations : PrepareReturn(s, r, st)
      \/ \E s \in Sessions, r \in Rentals, st \in Stations : PrepareSlot(s, r, st)
      \/ \E s \in Sessions : CommitSlot(s)
      \/ \E s \in Sessions : CommitStart(s) \/ CommitReturn(s) \/ Abandon(s)
      \/ \E r \in Rentals : CancelSlot(r) \/ SweepOverdue(r)
      \/ ExpireSlots \/ NightCancelsSlots
      \/ \E u \in Users : Spend(u) \/ UseElsewhere(u) \/ ActivateSubscription(u)
                            \/ ExpireSubscription(u)
      \/ Tick \/ UNCHANGED vars
  BY DEF Next
<1>a. CASE \E s \in Sessions, r \in Rentals : PrepareStart(s, r)
  BY <1>a, <1>1
<1>b. CASE \E s \in Sessions, r \in Rentals, st \in Stations : PrepareReturn(s, r, st)
  BY <1>b, <1>2
<1>c. CASE \E s \in Sessions, r \in Rentals, st \in Stations : PrepareSlot(s, r, st)
  BY <1>c, <1>3
<1>d. CASE \E s \in Sessions : CommitSlot(s)
  BY <1>d, <1>4, <1>7
<1>e. CASE \E s \in Sessions : CommitStart(s) \/ CommitReturn(s) \/ Abandon(s)
  BY <1>e, <1>5, <1>7
<1> QED BY <1>6, <1>8, <1>a, <1>b, <1>c, <1>d, <1>e

\* A slot is asked for by day, so none counts from the night on.
LEMMA SlotStep == TypeOK /\ SlotInv /\ [Next]_vars => SlotInv'
<1> SUFFICES ASSUME TypeOK, SlotInv, [Next]_vars
             PROVE  SlotInv'
  OBVIOUS
<1>t. TypeOK'
  BY TypeStep
<1>1. ASSUME NEW s \in Sessions, cmd'[s].op = "slot"
      PROVE  cmd'[s].at < Cutoff
  <2>1. CASE cmd'[s] = cmd[s]
    BY <1>1, <2>1 DEF SlotInv
  <2>2. CASE ~Night /\ cmd'[s].at = now
    BY <2>2, TimeAssumption DEF Night, TypeOK
  <2> QED BY <1>1, <2>1, <2>2, SlotSteps
<1>2. ASSUME NEW r \in Rentals, slot'[r] # NoSlot
      PROVE  slot'[r] \in Slots /\ slot'[r].from < Cutoff
  <2>1. slot'[r] \in Slots
    BY <1>t, <1>2 DEF TypeOK
  <2>2. CASE slot'[r] = slot[r]
    BY <1>2, <2>1, <2>2 DEF SlotInv
  <2>3. ASSUME NEW s \in Sessions, cmd[s].op = "slot",
               slot'[r] = [st |-> cmd[s].st, from |-> cmd[s].at]
        PROVE  slot'[r].from < Cutoff
    BY <2>3 DEF SlotInv
  <2> QED BY <1>2, <2>1, <2>2, <2>3, SlotSteps
<1> QED BY <1>1, <1>2 DEF SlotInv

\* Every slot that exists, and every one about to be written, is of the day.
LEMMA SlotsBeforeNight == Spec => []SlotInv
<1>1. Init => SlotInv
  BY DEF Init, SlotInv, NoCmd
<1> QED BY <1>1, SlotStep, TypeCorrect, PTL DEF Spec

\* When the last slot of the day is over, the worker cancels every slot there is.
LEMMA ExpiryEnds ==
    ASSUME NEW r \in Rentals, TypeOK, SlotInv, Over
    PROVE  /\ slot[r] # NoSlot => ExpiryGuard
           /\ ExpireSlots => slot'[r] = NoSlot
<1>1. ASSUME slot[r] # NoSlot
      PROVE  ~Unexpired(slot[r], now)
  <2>1. slot[r] \in Slots /\ slot[r].from < Cutoff /\ slot[r].from \in Nat /\ now \in Nat
    BY <1>1, TimeAssumption DEF SlotInv, Slots, TypeOK
  <2> QED BY <2>1, TimeAssumption DEF Over, Unexpired
<1>2. ~Unexpired(slot[r], now)
  BY <1>1 DEF Unexpired
<1> QED BY <1>1, <1>2 DEF ExpiryGuard, ExpireSlots

\* Once the last slot is over the worker has something to do as long as a slot is left,
\* and what it does ends all of them.
LEMMA SlotEnds ==
    ASSUME NEW r \in Rentals
    PROVE  Spec /\ SlotsPass /\ ExpiryRuns => (slot[r] # NoSlot ~> slot[r] = NoSlot)
<1>1. TypeOK /\ SlotInv /\ Over /\ slot[r] # NoSlot => ExpiryGuard
  BY ExpiryEnds
<1>2. TypeOK /\ Over /\ [Next]_vars => Over'
  BY ClockStep, TimeAssumption DEF Over
<1>3. TypeOK /\ SlotInv /\ Over /\ <<ExpireSlots>>_vars => (slot[r] = NoSlot)'
  BY ExpiryEnds
<1>4. slot[r] # NoSlot \/ slot[r] = NoSlot
  OBVIOUS
<1> QED BY <1>1, <1>2, <1>3, <1>4, TypeCorrect, SlotsBeforeNight, PTL DEF Spec, SlotsPass, ExpiryRuns

\* Every slot is given up by the expiry worker alone, also one written for a
\* ride that had already ended: no slot is ever promised from the night on.
THEOREM EverySlotEndsCorrect == Spec /\ SlotsPass /\ ExpiryRuns => EverySlotEnds
<1> SUFFICES ASSUME NEW r \in Rentals
             PROVE  Spec /\ SlotsPass /\ ExpiryRuns => (slot[r] # NoSlot ~> slot[r] = NoSlot)
  BY DEF EverySlotEnds
<1> QED BY SlotEnds
=============================================================================
