------------------------------- MODULE Rental -------------------------------
(***************************************************************************)
(* A walk-up rental from the deposit to its end: start, return slots, the  *)
(* return an operator confirms, the overdue sweep, and the subscription    *)
(* and wallet they share with the rest of the server.  The model spans one *)
(* business day and the night after it.                                    *)
(*                                                                         *)
(* Starting, returning and asking for a slot are transactions that read    *)
(* everything first and write afterwards, under READ COMMITTED and without *)
(* locking what they read.  A session therefore has two steps: Prepare     *)
(* evaluates the checks and remembers what the writes will use, Commit     *)
(* performs the writes, whose own WHERE clauses and unique indexes are     *)
(* evaluated then.  A commit whose writes fail, a client that goes away    *)
(* and a server that dies all leave nothing behind: Abandon.  The short    *)
(* handlers and the background sweeps are one step each.                   *)
(***************************************************************************)
EXTENDS Wallet, FiniteSets

CONSTANTS
    Users, Rentals, Bikes, Stations, Sessions,
    Owner,             \* the customer who asks for each rental
    BikeOf,            \* the bike each rental is for
    Home,              \* where each bike stands in the morning
    InitialBalance, Deposit, Fee,
    Prices,            \* what a return may cost after discounts
    Spending,          \* amounts other components may debit
    Capacity, SlotLimit, Incoming,   \* per station
    HasSubscription,   \* the customers with a paid, PENDING subscription
    MaxUsages,
    SlotHold,          \* RETURN_SLOT_HOLD_MINUTES
    Cutoff,            \* 23:00: the late-return cutoff and the start of the night
    MaxTime,
    BackDating         \* may an administrator send a confirmedAt before Cutoff?

ASSUME OwnerAssumption ==
    /\ Owner \in [Rentals -> Users]
    /\ BikeOf \in [Rentals -> Bikes]
    /\ Home \in [Bikes -> Stations]
    /\ "none" \notin Stations
ASSUME MoneyAssumption ==
    /\ InitialBalance \in [Users -> Nat]
    /\ Deposit \in Nat /\ Fee \in Nat
    /\ Prices \subseteq Nat /\ Spending \subseteq Nat
ASSUME TimeAssumption ==
    SlotHold \in Nat \ {0} /\ Cutoff \in Nat /\ MaxTime \in Nat /\ BackDating \in BOOLEAN
ASSUME SubscriptionAssumption == HasSubscription \subseteq Users /\ MaxUsages \in Nat
ASSUME StationAssumption ==
    Capacity \in [Stations -> Nat] /\ SlotLimit \in [Stations -> Nat]
    /\ Incoming \in [Stations -> Nat]
ASSUME FiniteAssumption ==
    IsFiniteSet(Rentals) /\ IsFiniteSet(Bikes) /\ IsFiniteSet(Sessions)
\* The morning finds no station fuller than a day can leave it.
ASSUME MorningAssumption ==
    \A st \in Stations :
      Cardinality({b \in Bikes : Home[b] = st}) + Incoming[st]
        <= Capacity[st] + Cardinality(Sessions) - 1

VARIABLES
    wallet,      \* [Users -> WalletRow]
    charged,     \* ledger DEBIT rows of each user that are not forfeitures, summed
    status,      \* rentals.status, "NONE" before the row exists
    hold,        \* the rental's wallet_holds row
    confirmed,   \* rentals with a return_confirmations row
    subscribed,  \* rentals whose row names a subscription
    sub, used,   \* each user's subscription row: status and usage_count
    bike, place, \* bikes.status and bikes.station_id
    slot,        \* the ACTIVE return slot of a rental
    cmd,         \* what each session has read and is about to write
    now

money == <<wallet, charged>>
rentalRows == <<status, hold, confirmed, subscribed>>
subRows == <<sub, used>>
bikeRows == <<bike, place>>
vars == <<wallet, charged, status, hold, confirmed, subscribed, sub, used,
          bike, place, slot, cmd, now>>

Usable == {"PENDING", "ACTIVE"}
NoSlot == [st |-> "none", from |-> 0]
NoCmd == [op |-> "none"]
Slots == [st : Stations, from : 0..MaxTime]
StartCmds == [op : {"start"}, r : Rentals, withSub : BOOLEAN,
              seen : {"NONE", "PENDING", "ACTIVE", "EXPIRED"}, count : Nat]
ReturnCmds == [op : {"return"}, r : Rentals, st : Stations, count : Nat]
SlotCmds == [op : {"slot"}, r : Rentals, st : Stations, at : 0..MaxTime, replaces : BOOLEAN]

(* isWithinOvernightOperationsWindow and isPastRentalReturnDeadline are the
   same test on the day the model spans. *)
Night == now >= Cutoff

Active(r) == status[r] = "RENTED"

(* reservedFrom > now - hold. *)
Unexpired(sl, t) == sl # NoSlot /\ sl.from + SlotHold > t

BikesAt(st) == {b \in Bikes : place[b] = st /\ bike[b] = "AVAILABLE"}
SlotsAt(st) == {r \in Rentals : slot[r].st = st /\ Unexpired(slot[r], now)}

(* The places of a station that are taken or promised. *)
Load(st) == Cardinality(BikesAt(st)) + Cardinality(SlotsAt(st)) + Incoming[st]

\* Mutant: promised places are free.
MutRoom(st) == Capacity[st] - Cardinality(BikesAt(st)) - Incoming[st]

Room(st) == Capacity[st] - Load(st)
SlotsLeft(st) == SlotLimit[st] - Cardinality(SlotsAt(st)) - Incoming[st]

Init ==
    /\ wallet = [u \in Users |-> [balance |-> InitialBalance[u], reserved |-> 0]]
    /\ charged = [u \in Users |-> 0]
    /\ status = [r \in Rentals |-> "NONE"]
    /\ hold = [r \in Rentals |-> "NONE"]
    /\ confirmed = {}
    /\ subscribed = {}
    /\ sub = [u \in Users |-> IF u \in HasSubscription THEN "PENDING" ELSE "NONE"]
    /\ used = [u \in Users |-> 0]
    /\ bike = [b \in Bikes |-> "AVAILABLE"]
    /\ place = Home
    /\ slot = [r \in Rentals |-> NoSlot]
    /\ cmd = [s \in Sessions |-> NoCmd]
    /\ now = 0
-----------------------------------------------------------------------------
(* Starting a rental. *)

(* The active-rental checks, which are also the unique indexes on the user
   and on the bike of a RENTED row. *)
NoRivalRental(r) ==
    \A q \in Rentals : Active(q) => Owner[q] # Owner[r] /\ BikeOf[q] # BikeOf[r]

PrepareStart(s, r) ==
    LET u == Owner[r] IN
    /\ cmd[s] = NoCmd
    /\ ~Night
    /\ status[r] = "NONE"
    /\ \A t \in Sessions : cmd[t] # NoCmd => cmd[t].r # r
    /\ NoRivalRental(r)
    /\ bike[BikeOf[r]] = "AVAILABLE"
    /\ \E withSub \in BOOLEAN :
         /\ withSub => sub[u] \in Usable /\ used[u] < MaxUsages
         /\ cmd' = [cmd EXCEPT ![s] = [op |-> "start", r |-> r, withSub |-> withSub,
                                       seen |-> sub[u], count |-> used[u]]]
    /\ UNCHANGED <<money, rentalRows, subRows, bikeRows, slot, now>>

\* Mutant: an increment that does not compare.
MutCanIncrement(u, count) == sub[u] \in Usable

(* incrementUsage: the usage count must be the one that was read. *)
CanIncrement(u, count) == sub[u] \in Usable /\ used[u] = count

(* A PENDING row is activated first and then read again under its row lock. *)
CanUseOne(u, c) ==
    IF c.seen = "PENDING" THEN sub[u] = "PENDING" ELSE CanIncrement(u, c.count)

CommitStart(s) ==
    LET c == cmd[s]
        r == c.r
        u == Owner[r] IN
    /\ c.op = "start"
    /\ c.withSub => CanUseOne(u, c)
    /\ bike[BikeOf[r]] = "AVAILABLE"
    /\ NoRivalRental(r)
    /\ CanReserve(wallet[u], Deposit)
    /\ wallet' = [wallet EXCEPT ![u] = Reserve(@, Deposit)]
    /\ status' = [status EXCEPT ![r] = "RENTED"]
    /\ hold' = [hold EXCEPT ![r] = "ACTIVE"]
    /\ subscribed' = IF c.withSub THEN subscribed \cup {r} ELSE subscribed
    /\ sub' = IF c.withSub THEN [sub EXCEPT ![u] = "ACTIVE"] ELSE sub
    /\ used' = IF c.withSub THEN [used EXCEPT ![u] = @ + 1] ELSE used
    /\ bike' = [bike EXCEPT ![BikeOf[r]] = "BOOKED"]
    /\ cmd' = [cmd EXCEPT ![s] = NoCmd]
    /\ UNCHANGED <<charged, confirmed, place, slot, now>>
-----------------------------------------------------------------------------
(* The return an operator confirms.  Its price is whatever duration, prepaid
   amount, subscription and discounts make it. *)

PrepareReturn(s, r, st) ==
    /\ cmd[s] = NoCmd
    /\ Active(r)
    /\ Night => BackDating
    /\ (slot[r].st = st /\ Unexpired(slot[r], now)) \/ Room(st) > 0
    /\ r \notin confirmed
    /\ r \in subscribed => sub[Owner[r]] \in Usable
    /\ cmd' = [cmd EXCEPT ![s] = [op |-> "return", r |-> r, st |-> st,
                                  count |-> used[Owner[r]]]]
    /\ UNCHANGED <<money, rentalRows, subRows, bikeRows, slot, now>>

(* The hours beyond the first block of a subscribed ride use it up further,
   as far as it goes. *)
ExtraUses(r, count) ==
    IF r \in subscribed /\ count <= MaxUsages THEN 0..(MaxUsages - count) ELSE {0}

\* Mutant: the writes go by id and trust what the session has read.
MutCommitReturn(s) ==
    LET c == cmd[s]
        r == c.r
        u == Owner[r] IN
    /\ c.op = "return"
    /\ \E price \in Prices :
         /\ CanDebit(Release(wallet[u], Deposit), price)
         /\ wallet' = [wallet EXCEPT ![u] = Debit(Release(@, Deposit), price)]
         /\ charged' = [charged EXCEPT ![u] = @ + price]
    /\ hold' = [hold EXCEPT ![r] = "RELEASED"]
    /\ confirmed' = confirmed \cup {r}
    /\ status' = [status EXCEPT ![r] = "COMPLETED"]
    /\ bike' = [bike EXCEPT ![BikeOf[r]] = "AVAILABLE"]
    /\ place' = [place EXCEPT ![BikeOf[r]] = c.st]
    /\ slot' = [slot EXCEPT ![r] = NoSlot]
    /\ cmd' = [cmd EXCEPT ![s] = NoCmd]
    /\ UNCHANGED <<subscribed, subRows, now>>

CommitReturn(s) ==
    LET c == cmd[s]
        r == c.r
        u == Owner[r]
        released == Release(wallet[u], Deposit) IN
    /\ c.op = "return"
    /\ r \notin confirmed
    /\ Active(r)
    /\ hold[r] = "ACTIVE" /\ CanRelease(wallet[u], Deposit)
    /\ \E price \in Prices :
         /\ CanDebit(released, price)
         /\ wallet' = [wallet EXCEPT ![u] = Debit(released, price)]
         /\ charged' = [charged EXCEPT ![u] = @ + price]
    /\ \E extra \in ExtraUses(r, c.count) :
         /\ extra > 0 => CanIncrement(u, c.count)
         /\ used' = [used EXCEPT ![u] = @ + extra]
    /\ hold' = [hold EXCEPT ![r] = "RELEASED"]
    /\ confirmed' = confirmed \cup {r}
    /\ status' = [status EXCEPT ![r] = "COMPLETED"]
    /\ bike' = [bike EXCEPT ![BikeOf[r]] = "AVAILABLE"]
    /\ place' = [place EXCEPT ![BikeOf[r]] = c.st]
    /\ slot' = [slot EXCEPT ![r] = NoSlot]
    /\ cmd' = [cmd EXCEPT ![s] = NoCmd]
    /\ UNCHANGED <<subscribed, sub, now>>
-----------------------------------------------------------------------------
(* Return slots. *)

(* A slot the rental already has at the station is handed back unchanged, and
   its expired slots are cancelled in the same transaction. *)
PrepareSlot(s, r, st) ==
    /\ cmd[s] = NoCmd
    /\ ~Night
    /\ Active(r)
    /\ ~(slot[r].st = st /\ Unexpired(slot[r], now))
    /\ Room(st) > 0 /\ SlotsLeft(st) > 0
    /\ cmd' = [cmd EXCEPT ![s] = [op |-> "slot", r |-> r, st |-> st, at |-> now,
                                  replaces |-> Unexpired(slot[r], now)]]
    /\ UNCHANGED <<money, rentalRows, subRows, bikeRows, slot, now>>

\* Mutant: the fee is taken without looking at the balance.
MutCommitSlot(s) ==
    LET c == cmd[s]
        u == Owner[c.r] IN
    /\ c.op = "slot"
    /\ c.replaces \/ ~Unexpired(slot[c.r], c.at)
    /\ wallet' = [wallet EXCEPT ![u] = Debit(@, Fee)]
    /\ charged' = [charged EXCEPT ![u] = @ + Fee]
    /\ slot' = [slot EXCEPT ![c.r] = [st |-> c.st, from |-> c.at]]
    /\ cmd' = [cmd EXCEPT ![s] = NoCmd]
    /\ UNCHANGED <<rentalRows, subRows, bikeRows, now>>

(* Without a slot to replace, an ACTIVE row another request has written since
   violates the unique index; the reread the code then tries runs in a
   transaction Postgres has already aborted.  The rental is not read again. *)
CommitSlot(s) ==
    LET c == cmd[s]
        r == c.r
        u == Owner[r] IN
    /\ c.op = "slot"
    /\ c.replaces \/ ~Unexpired(slot[r], c.at)
    /\ CanDebit(wallet[u], Fee)
    /\ wallet' = [wallet EXCEPT ![u] = Debit(@, Fee)]
    /\ charged' = [charged EXCEPT ![u] = @ + Fee]
    /\ slot' = [slot EXCEPT ![r] = [st |-> c.st, from |-> c.at]]
    /\ cmd' = [cmd EXCEPT ![s] = NoCmd]
    /\ UNCHANGED <<rentalRows, subRows, bikeRows, now>>

CancelSlot(r) ==
    /\ Active(r)
    /\ Unexpired(slot[r], now)
    /\ slot' = [slot EXCEPT ![r] = NoSlot]
    /\ UNCHANGED <<money, rentalRows, subRows, bikeRows, cmd, now>>

\* Mutant: the worker passes over slots of rentals that have ended.
MutExpireSlots ==
    /\ \E r \in Rentals : slot[r] # NoSlot /\ ~Unexpired(slot[r], now)
    /\ slot' = [r \in Rentals |->
                  IF Active(r) /\ ~Unexpired(slot[r], now) THEN NoSlot ELSE slot[r]]
    /\ UNCHANGED <<money, rentalRows, subRows, bikeRows, cmd, now>>

(* The expiry worker: one UPDATE, whatever has become of the rental. *)
ExpireSlots ==
    /\ \E r \in Rentals : slot[r] # NoSlot /\ ~Unexpired(slot[r], now)
    /\ slot' = [r \in Rentals |-> IF Unexpired(slot[r], now) THEN slot[r] ELSE NoSlot]
    /\ UNCHANGED <<money, rentalRows, subRows, bikeRows, cmd, now>>

(* The overdue sweep begins by cancelling every slot. *)
NightCancelsSlots ==
    /\ Night
    /\ \E r \in Rentals : slot[r] # NoSlot
    /\ slot' = [r \in Rentals |-> NoSlot]
    /\ UNCHANGED <<money, rentalRows, subRows, bikeRows, cmd, now>>
-----------------------------------------------------------------------------
\* Mutant: the sweep closes the row and its hold, and neither debits the
\* deposit nor takes the bike out of use.
MutSweepOverdue(r) ==
    /\ Night
    /\ Active(r)
    /\ hold[r] = "ACTIVE"
    /\ wallet' = [wallet EXCEPT ![Owner[r]] = Release(@, Deposit)]
    /\ status' = [status EXCEPT ![r] = "OVERDUE_UNRETURNED"]
    /\ hold' = [hold EXCEPT ![r] = "SETTLED"]
    /\ UNCHANGED <<charged, confirmed, subscribed, subRows, bikeRows, slot, cmd, now>>

(* The overdue sweep's transaction for one rental; a forfeiture that cannot be
   carried out rolls it back. *)
SweepOverdue(r) ==
    LET u == Owner[r]
        released == Release(wallet[u], Deposit) IN
    /\ Night
    /\ Active(r)
    /\ hold[r] = "ACTIVE"
    /\ CanRelease(wallet[u], Deposit)
    /\ CanDebit(released, Deposit)
    /\ wallet' = [wallet EXCEPT ![u] = Debit(released, Deposit)]
    /\ status' = [status EXCEPT ![r] = "OVERDUE_UNRETURNED"]
    /\ hold' = [hold EXCEPT ![r] = "SETTLED"]
    /\ bike' = [bike EXCEPT ![BikeOf[r]] = "DISABLED"]
    /\ UNCHANGED <<charged, confirmed, subscribed, subRows, place, slot, cmd, now>>
-----------------------------------------------------------------------------
(* The rest of the server on the same wallet and subscription. *)

\* Mutant: a debit that may use the reserved money.
MutSpend(u) ==
    /\ \E a \in Spending :
         /\ wallet[u].balance >= a
         /\ wallet' = [wallet EXCEPT ![u] = Debit(@, a)]
         /\ charged' = [charged EXCEPT ![u] = @ + a]
    /\ UNCHANGED <<rentalRows, subRows, bikeRows, slot, cmd, now>>

(* Any other debit: reservations, withdrawals, purchases. *)
Spend(u) ==
    /\ \E a \in Spending :
         /\ CanDebit(wallet[u], a)
         /\ wallet' = [wallet EXCEPT ![u] = Debit(@, a)]
         /\ charged' = [charged EXCEPT ![u] = @ + a]
    /\ UNCHANGED <<rentalRows, subRows, bikeRows, slot, cmd, now>>

(* A reservation uses the subscription, activating a PENDING one. *)
UseElsewhere(u) ==
    /\ sub[u] \in Usable /\ used[u] < MaxUsages
    /\ sub' = [sub EXCEPT ![u] = "ACTIVE"]
    /\ used' = [used EXCEPT ![u] = @ + 1]
    /\ UNCHANGED <<money, rentalRows, bikeRows, slot, cmd, now>>

(* The delayed auto-activation job. *)
ActivateSubscription(u) ==
    /\ sub[u] = "PENDING"
    /\ sub' = [sub EXCEPT ![u] = "ACTIVE"]
    /\ UNCHANGED <<money, rentalRows, used, bikeRows, slot, cmd, now>>

(* The expiry sweep, when the subscription's month is over. *)
ExpireSubscription(u) ==
    /\ sub[u] = "ACTIVE"
    /\ sub' = [sub EXCEPT ![u] = "EXPIRED"]
    /\ UNCHANGED <<money, rentalRows, used, bikeRows, slot, cmd, now>>

Abandon(s) ==
    /\ cmd[s] # NoCmd
    /\ cmd' = [cmd EXCEPT ![s] = NoCmd]
    /\ UNCHANGED <<money, rentalRows, subRows, bikeRows, slot, now>>

Tick ==
    /\ now < MaxTime
    /\ now' = now + 1
    /\ UNCHANGED <<money, rentalRows, subRows, bikeRows, slot, cmd>>

Next ==
    \/ \E s \in Sessions, r \in Rentals : PrepareStart(s, r)
    \/ \E s \in Sessions : CommitStart(s)
    \/ \E s \in Sessions, r \in Rentals, st \in Stations : PrepareReturn(s, r, st)
    \/ \E s \in Sessions : CommitReturn(s)
    \/ \E s \in Sessions, r \in Rentals, st \in Stations : PrepareSlot(s, r, st)
    \/ \E s \in Sessions : CommitSlot(s)
    \/ \E r \in Rentals : CancelSlot(r)
    \/ ExpireSlots
    \/ NightCancelsSlots
    \/ \E r \in Rentals : SweepOverdue(r)
    \/ \E u \in Users : Spend(u)
    \/ \E u \in Users : UseElsewhere(u)
    \/ \E u \in Users : ActivateSubscription(u)
    \/ \E u \in Users : ExpireSubscription(u)
    \/ \E s \in Sessions : Abandon(s)
    \/ Tick

Spec == Init /\ [][Next]_vars

(* Time passes and the recurring sweeps keep running. *)
Fairness ==
    /\ WF_vars(Tick)
    /\ WF_vars(ExpireSlots)
    /\ \A r \in Rentals : WF_vars(SweepOverdue(r))

FairSpec == Spec /\ Fairness
-----------------------------------------------------------------------------
(* Every variable has its type: the rows rentals, wallets, bikes, slots and
   subscriptions can be in, and what a session in flight has read. *)
TypeOK ==
    /\ wallet \in [Users -> WalletRow]
    /\ charged \in [Users -> Nat]
    /\ status \in [Rentals -> {"NONE", "RENTED", "COMPLETED", "OVERDUE_UNRETURNED"}]
    /\ hold \in [Rentals -> {"NONE", "ACTIVE", "RELEASED", "SETTLED"}]
    /\ confirmed \subseteq Rentals
    /\ subscribed \subseteq Rentals
    /\ sub \in [Users -> {"NONE", "PENDING", "ACTIVE", "EXPIRED"}]
    /\ used \in [Users -> Nat]
    /\ bike \in [Bikes -> {"AVAILABLE", "BOOKED", "DISABLED"}]
    /\ place \in [Bikes -> Stations]
    /\ slot \in [Rentals -> Slots \cup {NoSlot}]
    /\ cmd \in [Sessions -> {NoCmd} \cup StartCmds \cup ReturnCmds \cup SlotCmds]
    /\ now \in 0..MaxTime

(* Exactly the deposit of the ride a customer is on is reserved in the wallet,
   and the balance covers it, whatever starts, returns, sweeps and payments
   race: so a forfeiture always finds its money. *)
DepositIsReserved ==
    \A u \in Users :
      /\ wallet[u].reserved = IF \E r \in Rentals : Active(r) /\ Owner[r] = u
                              THEN Deposit ELSE 0
      /\ wallet[u].reserved <= wallet[u].balance

(* The rental row, its hold, its confirmation and its bike tell one story, and
   a bike is out of the park exactly while one ride has it. *)
BooksAgree ==
    /\ \A r \in Rentals :
         /\ hold[r] = CASE status[r] = "NONE" -> "NONE"
                        [] status[r] = "RENTED" -> "ACTIVE"
                        [] status[r] = "COMPLETED" -> "RELEASED"
                        [] OTHER -> "SETTLED"
         /\ r \in confirmed <=> status[r] = "COMPLETED"
    /\ \A b \in Bikes :
         bike[b] = "BOOKED" <=> \E r \in Rentals : Active(r) /\ BikeOf[r] = b
    /\ \A q, r \in Rentals :
         Active(q) /\ Active(r) /\ q # r => Owner[q] # Owner[r] /\ BikeOf[q] # BikeOf[r]

(* A ride ends once, though two operators and the sweep may all be ending it:
   an ended rental keeps its status and the fate of its deposit, and a return
   that is charged or that moves a bike is the return of a ride still going. *)
EndsOnce ==
    [][/\ \A r \in Rentals :
            status[r] \notin {"NONE", "RENTED"} =>
              status'[r] = status[r] /\ hold'[r] = hold[r]
       /\ \A s \in Sessions :
            cmd[s].op = "return" /\ cmd'[s] # cmd[s]
              /\ (charged' # charged \/ bike' # bike \/ place' # place)
            => Active(cmd[s].r)]_vars

(* A subscription is never used beyond its package: starts, long returns and
   reservations that read the same count cannot all go through. *)
UsageWithinMax ==
    \A u \in Users :
      /\ used[u] <= MaxUsages
      /\ sub[u] \in {"NONE", "PENDING"} => used[u] = 0

(* Stations are not locked while their room is read, so returns and slots can
   overfill one, but only by the requests in flight together: a place is never
   promised while the station is already full. *)
OvershootIsBounded ==
    \A st \in Stations :
      Load(st) <= Capacity[st] + Cardinality(Sessions) - 1

(* Every ride ends: the rider returns the bike or the night's sweep forfeits
   the deposit, and nothing can block the sweep for ever. *)
EveryRentalEnds == \A r \in Rentals : Active(r) ~> ~Active(r)

(* Every return slot is given up, also one that a slow request wrote for a ride
   that had already ended. *)
EverySlotEnds == \A r \in Rentals : slot[r] # NoSlot ~> slot[r] = NoSlot

(* What deposits promise: the phases of the holds and the money a customer has
   apart from them, with the other debits added back. *)
Phase(r) == CASE hold[r] = "NONE" -> "none"
              [] hold[r] = "ACTIVE" -> "held"
              [] hold[r] = "RELEASED" -> "returned"
              [] OTHER -> "settled"

Deposits == INSTANCE Escrow WITH
    Items <- Rentals,
    Amount <- [r \in Rentals |-> Deposit],
    InitialAvailable <- InitialBalance,
    available <- [u \in Users |-> Available(wallet[u]) + charged[u]],
    phase <- [r \in Rentals |-> Phase(r)]

(* A deposit is an escrow: taken once from what is available, then either given
   back in full or lost in full, and the other debits explain the rest of the
   balance. *)
ImplementsEscrow == Deposits!EscrowSpec
=============================================================================
