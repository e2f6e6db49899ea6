---------------------------- MODULE Reservation ----------------------------
(***************************************************************************)
(* Reserving a concrete bike: the reservation rows of one station, the     *)
(* status of its bikes, the rentals, the commands in flight and the job    *)
(* that expires a hold.                                                    *)
(*                                                                         *)
(* A command reads and validates first, without locking what it read, and  *)
(* writes later in the same READ COMMITTED transaction.  Its conditional   *)
(* updates look at the rows as they are then and lock them until commit,   *)
(* so a command is a reading step and a committing step that applies all   *)
(* its writes or none.  Reserving also holds the station row locked while  *)
(* it counts and commits.                                                  *)
(*                                                                         *)
(* A reservation stands for one attempt to insert a row, for a given user  *)
(* and a given bike.  Fees and deposits are money of the wallet module:    *)
(* here, one that is refused is a command that is abandoned.               *)
(***************************************************************************)
EXTENDS Integers, FiniteSets

CONSTANTS
    Users,
    Bikes,          \* all of one station
    Reservations,
    Sessions,       \* commands that may be in flight at the same time
    NoUser,
    NoReservation,
    Owner,          \* [Reservations -> Users]
    BikeOf,         \* [Reservations -> Bikes]
    HoldTime,       \* RESERVATION_HOLD_MINUTES
    LastStart,      \* bound: no hold starts later
    MaxTime         \* bound: the clock stops here

ASSUME ReservationAssumption ==
    /\ Owner \in [Reservations -> Users]
    /\ BikeOf \in [Reservations -> Bikes]
    /\ NoUser \notin Users
    /\ NoReservation \notin Reservations
    /\ IsFiniteSet(Bikes) /\ IsFiniteSet(Reservations)

ASSUME HoldAssumption ==
    /\ HoldTime \in Nat \ {0}
    /\ LastStart \in Nat
    /\ MaxTime \in Nat

VARIABLES
    status,      \* "Reservation".status, "NONE" before the row exists
    startTime,   \* "Reservation".start_time
    bike,        \* "Bike".status
    renter,      \* who has the active rental of the bike
    rented,      \* reservations with a rental row (reservation_id is unique)
    refunded,    \* reservations with a REFUND row in the ledger (hash is unique)
    expireJobs,  \* reservations whose expireHold job is still to run
    pc,          \* [Sessions -> where the command stands]
    target,      \* [Sessions -> the reservation it works on]
    startAt,     \* [Sessions -> the start time a reserve request asks for]
    pool,        \* [Sessions -> the bikes, then the bikes and holds, a reserve command counted]
    now

rowVars     == <<status, startTime, bike, renter, rented, expireJobs>>
sessionVars == <<pc, target, startAt, pool>>
vars        == <<rowVars, refunded, sessionVars, now>>

Ended        == {"FULFILLED", "CANCELLED", "EXPIRED"}
Statuses     == {"NONE", "PENDING"} \cup Ended
BikeStatuses == {"AVAILABLE", "RESERVED", "BOOKED"}
Commands     == {"idle", "reserving", "locked", "counted", "confirming", "cancelling", "refunding"}

EndTime(r) == startTime[r] + HoldTime

Pending         == {r \in Reservations : status[r] = "PENDING"}
PendingOf(u)    == {r \in Pending : Owner[r] = u}
PendingOn(b)    == {r \in Pending : BikeOf[r] = b}
AvailableBikes  == {b \in Bikes : bike[b] = "AVAILABLE"}
RentsNothing(u) == \A b \in Bikes : renter[b] # u

Init ==
    /\ status = [r \in Reservations |-> "NONE"]
    /\ startTime = [r \in Reservations |-> 0]
    /\ bike = [b \in Bikes |-> "AVAILABLE"]
    /\ renter = [b \in Bikes |-> NoUser]
    /\ rented = {}
    /\ refunded = {}
    /\ expireJobs = {}
    /\ pc = [s \in Sessions |-> "idle"]
    /\ target = [s \in Sessions |-> NoReservation]
    /\ startAt = [s \in Sessions |-> 0]
    /\ pool = [s \in Sessions |-> 0]
    /\ now = 0

-----------------------------------------------------------------------------
(* Commands: a session takes one up, moves it on, and is idle again.       *)

Begin(s, command, r) ==
    /\ pc[s] = "idle"
    /\ pc' = [pc EXCEPT ![s] = command]
    /\ target' = [target EXCEPT ![s] = r]

Stop(s) ==
    /\ pc' = [pc EXCEPT ![s] = "idle"]
    /\ target' = [target EXCEPT ![s] = NoReservation]
    /\ startAt' = [startAt EXCEPT ![s] = 0]
    /\ pool' = [pool EXCEPT ![s] = 0]

\* A failed check, a refused fee or deposit, an error, a deadlock that the
\* database resolves, or a crash: nothing of an uncommitted command remains, and
\* of a cancellation that has committed only the refund is missing.  A refund is
\* skipped in the same way when the reservation is not eligible for one.
Abandon(s) ==
    /\ pc[s] # "idle"
    /\ Stop(s)
    /\ UNCHANGED <<rowVars, refunded, now>>

-----------------------------------------------------------------------------
(* reserveBike.                                                            *)

\* prepareReserveBikeInTx up to the station: neither the user nor the bike has a
\* hold, and the bike can be reserved.  The row is new.  The hold may start later.
PrepareReserve(s, r) ==
    /\ status[r] = "NONE" /\ \A t \in Sessions : target[t] # r
    /\ PendingOf(Owner[r]) = {}
    /\ \A q \in PendingOn(BikeOf[r]) : ~(startTime[q] <= now /\ now < EndTime(q))
    /\ bike[BikeOf[r]] = "AVAILABLE"
    /\ Begin(s, "reserving", r)
    /\ \E start \in now..LastStart : startAt' = [startAt EXCEPT ![s] = start]
    /\ UNCHANGED <<rowVars, refunded, pool, now>>

StationIsLocked == \E t \in Sessions : pc[t] \in {"locked", "counted"}

\* Mutant: no FOR UPDATE on the station row.
MutLockStation(s) ==
    /\ pc[s] = "reserving"
    /\ pc' = [pc EXCEPT ![s] = "locked"]
    /\ pool' = [pool EXCEPT ![s] = Cardinality(AvailableBikes)]
    /\ UNCHANGED <<rowVars, refunded, target, startAt, now>>

\* lockStationForReservationCheck, kept until the commit, and the first count.
LockStation(s) ==
    /\ pc[s] = "reserving"
    /\ ~StationIsLocked
    /\ pc' = [pc EXCEPT ![s] = "locked"]
    /\ pool' = [pool EXCEPT ![s] = Cardinality(AvailableBikes)]
    /\ UNCHANGED <<rowVars, refunded, target, startAt, now>>

\* stationCanAcceptReservation: at most half of the bikes that are available or
\* held may be held.  The holds are counted after the bikes, in another statement.
StationCanAccept(available) == Cardinality(Pending) < (available + Cardinality(Pending)) \div 2

CountStation(s) ==
    /\ pc[s] = "locked"
    /\ StationCanAccept(pool[s])
    /\ pc' = [pc EXCEPT ![s] = "counted"]
    /\ pool' = [pool EXCEPT ![s] = @ + Cardinality(Pending)]
    /\ UNCHANGED <<rowVars, refunded, target, startAt, now>>

\* The unique indexes on PENDING rows, and reserveBikeIfAvailable.
CanReserveBike(r) ==
    /\ PendingOf(Owner[r]) = {}
    /\ PendingOn(BikeOf[r]) = {}
    /\ bike[BikeOf[r]] = "AVAILABLE"

\* Mutant: the job is scheduled outside the transaction that may abort.
MutCommitReserve(s) ==
    LET r == target[s] IN
    /\ pc[s] = "counted"
    /\ IF CanReserveBike(r)
         THEN /\ status' = [status EXCEPT ![r] = "PENDING"]
              /\ startTime' = [startTime EXCEPT ![r] = startAt[s]]
              /\ bike' = [bike EXCEPT ![BikeOf[r]] = "RESERVED"]
         ELSE UNCHANGED <<status, startTime, bike>>
    /\ expireJobs' = expireJobs \cup {r}
    /\ Stop(s)
    /\ UNCHANGED <<renter, rented, refunded, now>>

\* persistReserveBikeInTx: fee, row, bike and the expireHold job, or nothing.
CommitReserve(s) ==
    LET r == target[s] IN
    /\ pc[s] = "counted"
    /\ CanReserveBike(r)
    /\ status' = [status EXCEPT ![r] = "PENDING"]
    /\ startTime' = [startTime EXCEPT ![r] = startAt[s]]
    /\ bike' = [bike EXCEPT ![BikeOf[r]] = "RESERVED"]
    /\ expireJobs' = expireJobs \cup {r}
    /\ Stop(s)
    /\ UNCHANGED <<renter, rented, refunded, now>>

-----------------------------------------------------------------------------
(* confirmReservation.                                                     *)

\* validatePendingReservationForConfirmationInTx.
PrepareConfirm(s, r) ==
    /\ status[r] = "PENDING"
    /\ startTime[r] <= now /\ now < EndTime(r)
    /\ Begin(s, "confirming", r)
    /\ UNCHANGED <<rowVars, refunded, startAt, pool, now>>

\* The unique indexes of active rentals, and of a rental's reservation.
CanInsertRental(u, b) == renter[b] = NoUser /\ RentsNothing(u)

\* Mutant: the result of bookBikeIfReserved is not looked at.
MutCommitConfirm(s) ==
    LET r == target[s] IN
    /\ pc[s] = "confirming"
    /\ CanInsertRental(Owner[r], BikeOf[r]) /\ r \notin rented
    /\ bike' = [bike EXCEPT ![BikeOf[r]] = IF @ = "RESERVED" THEN "BOOKED" ELSE @]
    /\ renter' = [renter EXCEPT ![BikeOf[r]] = Owner[r]]
    /\ rented' = rented \cup {r}
    /\ status' = [status EXCEPT ![r] = "FULFILLED"]
    /\ Stop(s)
    /\ UNCHANGED <<startTime, expireJobs, refunded, now>>

\* persistConfirmReservationInTx: bookBikeIfReserved and the rental row decide;
\* the reservation's own status is then set whatever it has become.
CommitConfirm(s) ==
    LET r == target[s] IN
    /\ pc[s] = "confirming"
    /\ bike[BikeOf[r]] = "RESERVED"
    /\ CanInsertRental(Owner[r], BikeOf[r]) /\ r \notin rented
    /\ bike' = [bike EXCEPT ![BikeOf[r]] = "BOOKED"]
    /\ renter' = [renter EXCEPT ![BikeOf[r]] = Owner[r]]
    /\ rented' = rented \cup {r}
    /\ status' = [status EXCEPT ![r] = "FULFILLED"]
    /\ Stop(s)
    /\ UNCHANGED <<startTime, expireJobs, refunded, now>>

-----------------------------------------------------------------------------
(* cancelReservation and its refund.                                       *)

\* prepareCancelReservationInTx.
PrepareCancel(s, r) ==
    /\ status[r] = "PENDING"
    /\ Begin(s, "cancelling", r)
    /\ UNCHANGED <<rowVars, refunded, startAt, pool, now>>

\* Mutant: the result of releaseBikeIfReserved is not looked at.
MutCommitCancel(s) ==
    LET r == target[s] IN
    /\ pc[s] = "cancelling"
    /\ status' = [status EXCEPT ![r] = "CANCELLED"]
    /\ bike' = [bike EXCEPT ![BikeOf[r]] = IF @ = "RESERVED" THEN "AVAILABLE" ELSE @]
    /\ pc' = [pc EXCEPT ![s] = "refunding"]
    /\ UNCHANGED <<startTime, renter, rented, expireJobs, refunded, target, startAt, pool, now>>

\* persistCancelReservationInTx: the status is set whatever it has become, and a
\* bike that is not RESERVED aborts the transaction.
CommitCancel(s) ==
    LET r == target[s] IN
    /\ pc[s] = "cancelling"
    /\ bike[BikeOf[r]] = "RESERVED"
    /\ status' = [status EXCEPT ![r] = "CANCELLED"]
    /\ bike' = [bike EXCEPT ![BikeOf[r]] = "AVAILABLE"]
    /\ pc' = [pc EXCEPT ![s] = "refunding"]
    /\ UNCHANGED <<startTime, renter, rented, expireJobs, refunded, target, startAt, pool, now>>

\* refundCancelledReservationIfEligible, after the transaction.
Refund(s) ==
    /\ pc[s] = "refunding"
    /\ refunded' = refunded \cup {target[s]}
    /\ Stop(s)
    /\ UNCHANGED <<rowVars, now>>

-----------------------------------------------------------------------------
(* The expireHold job, walk-up rentals and returns.                        *)

\* Mutant: the hold expires and its bike is not released.
MutExpireHold(r) ==
    /\ r \in expireJobs /\ EndTime(r) <= now
    /\ expireJobs' = expireJobs \ {r}
    /\ status' = [status EXCEPT ![r] =
                     IF status[r] = "PENDING" /\ EndTime(r) < now THEN "EXPIRED" ELSE @]
    /\ UNCHANGED <<startTime, bike, renter, rented, refunded, sessionVars, now>>

\* expireReservationHoldInTransaction, run once the job is due.  The job is done
\* with whatever it finds: expirePendingHold needs an end time before now.
ExpireHold(r) ==
    /\ r \in expireJobs /\ EndTime(r) <= now
    /\ expireJobs' = expireJobs \ {r}
    /\ IF status[r] = "PENDING" /\ EndTime(r) < now
         THEN /\ status' = [status EXCEPT ![r] = "EXPIRED"]
              /\ bike' = [bike EXCEPT ![BikeOf[r]] = IF @ = "RESERVED" THEN "AVAILABLE" ELSE @]
         ELSE UNCHANGED <<status, bike>>
    /\ UNCHANGED <<startTime, renter, rented, refunded, sessionVars, now>>

\* Mutant: any bike that is not rented can be taken.
MutStartRental(u, b) ==
    /\ CanInsertRental(u, b)
    /\ bike' = [bike EXCEPT ![b] = "BOOKED"]
    /\ renter' = [renter EXCEPT ![b] = u]
    /\ UNCHANGED <<status, startTime, rented, expireJobs, refunded, sessionVars, now>>

\* startRental without a reservation: the station is not locked.
StartRental(u, b) ==
    /\ bike[b] = "AVAILABLE"
    /\ CanInsertRental(u, b)
    /\ bike' = [bike EXCEPT ![b] = "BOOKED"]
    /\ renter' = [renter EXCEPT ![b] = u]
    /\ UNCHANGED <<status, startTime, rented, expireJobs, refunded, sessionVars, now>>

\* finalizeRentalReturnInTx sets the bike AVAILABLE whatever it was; a rental that
\* is no longer RENTED aborts it.
ReturnBike(b) ==
    /\ renter[b] # NoUser
    /\ bike' = [bike EXCEPT ![b] = "AVAILABLE"]
    /\ renter' = [renter EXCEPT ![b] = NoUser]
    /\ UNCHANGED <<status, startTime, rented, expireJobs, refunded, sessionVars, now>>

Tick ==
    /\ now < MaxTime
    /\ now' = now + 1
    /\ UNCHANGED <<rowVars, refunded, sessionVars>>

Next ==
    \/ \E s \in Sessions :
          \/ \E r \in Reservations :
                \/ PrepareReserve(s, r)
                \/ PrepareConfirm(s, r)
                \/ PrepareCancel(s, r)
          \/ LockStation(s)
          \/ CountStation(s)
          \/ CommitReserve(s)
          \/ CommitConfirm(s)
          \/ CommitCancel(s)
          \/ Refund(s)
          \/ Abandon(s)
    \/ \E r \in Reservations : ExpireHold(r)
    \/ \E b \in Bikes : ReturnBike(b) \/ \E u \in Users : StartRental(u, b)
    \/ Tick

Spec == Init /\ [][Next]_vars

\* Time passes, and the queue delivers an expireHold job that is due.
FairSpec == Spec /\ WF_vars(Tick) /\ \A r \in Reservations : WF_vars(ExpireHold(r))

-----------------------------------------------------------------------------
(* Correctness.                                                            *)

\* Type invariant; jobs, rentals and refunds refer to reservations that exist.
TypeOK ==
    /\ status \in [Reservations -> Statuses]
    /\ startTime \in [Reservations -> Nat]
    /\ bike \in [Bikes -> BikeStatuses]
    /\ renter \in [Bikes -> Users \cup {NoUser}]
    /\ rented \cup refunded \cup expireJobs \subseteq {r \in Reservations : status[r] # "NONE"}
    /\ pc \in [Sessions -> Commands]
    /\ target \in [Sessions -> Reservations \cup {NoReservation}]
    /\ \A s \in Sessions : pc[s] = "idle" \/ target[s] \in Reservations
    /\ startAt \in [Sessions -> Nat]
    /\ pool \in [Sessions -> Nat]
    /\ now \in 0..MaxTime

\* Bikes and rentals are updated separately by confirm, walk-up and return: a bike
\* is BOOKED exactly while it has an active rental, and nobody has two.
BookedIsRented ==
    /\ \A b \in Bikes : bike[b] = "BOOKED" <=> renter[b] # NoUser
    /\ \A b, c \in Bikes : renter[b] # NoUser /\ renter[b] = renter[c] => b = c

\* No bike is stranded: only a reservation that is still PENDING can make the bike
\* AVAILABLE again, so a RESERVED bike always has one.
NoStrandedBike == \A b \in Bikes : bike[b] = "RESERVED" => PendingOn(b) # {}

\* A command is stale when its reservation has ended since it validated it.
Stale(s) == pc[s] \in {"confirming", "cancelling"} /\ status[target[s]] # "PENDING"

\* While a reservation is PENDING its bike stays RESERVED, against walk-ups,
\* returns, other reservations, expiry and its own repeated commands.  The one
\* thing that takes the bike away is the commit of a stale command.
HoldLostOnlyToStale ==
    [][\A r \in Reservations :
          (/\ status[r] = "PENDING" /\ status'[r] = "PENDING"
           /\ bike[BikeOf[r]] = "RESERVED" /\ bike'[BikeOf[r]] # "RESERVED")
          => \E s \in Sessions : /\ Stale(s) /\ pc'[s] # pc[s]
                                 /\ BikeOf[target[s]] = BikeOf[r]]_vars

\* Confirm and cancel never test the status they overwrite: the bike row is what
\* keeps two endings of one reservation apart.  An ended reservation changes only
\* while another one has its bike.
EndedIsFinal ==
    [][\A r \in Reservations :
          status[r] \in Ended /\ status'[r] # status[r]
          => \E q \in PendingOn(BikeOf[r]) : q # r]_vars

\* The cap of half the station's bikes is decided on two counts read before the commit:
\* relative to the bikes that were counted it holds when the reservation appears,
\* however many reserve commands run at once.
CapHoldsAtCommit ==
    [][\A s \in Sessions : CommitReserve(s) => 2 * Cardinality(Pending') <= pool[s]]_vars

\* The fee of a reservation that became a rental comes back only if another
\* reservation of the same bike came in between: cancelling twice, or cancelling
\* and confirming, is never enough.
RefundedNotRented ==
    \A r \in refunded \cap rented :
        \E q \in Reservations : q # r /\ BikeOf[q] = BikeOf[r] /\ status[q] # "NONE"

\* docs/database/rental-reservation-pricing-implementation-notes.md:19 says that a
\* "normal one-time reservation locks a concrete bike".
HoldLocksBike == \A r \in Pending : bike[BikeOf[r]] = "RESERVED"

\* rental_reservation_diagrams.md:217 says of a pending reservation "Pending -->
\* Expired : Time expires": one whose time has passed does not stay pending.
TimeExpires == \A r \in Reservations : status[r] = "PENDING" ~> status[r] # "PENDING"
=============================================================================
