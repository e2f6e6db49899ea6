------------------------- MODULE ReservationProofs -------------------------
(***************************************************************************)
(* Proofs about Reservation, for any users, bikes, reservations and        *)
(* commands in flight.                                                     *)
(*                                                                         *)
(* The bike row decides between the endings of a reservation.  The facts   *)
(* that make this work and that the invariant adds to the properties: a    *)
(* reserve command is alone with its row, a bike has at most one PENDING   *)
(* reservation, a reservation that was rented or refunded has ended, and   *)
(* what the one command that holds the station counted is still an upper   *)
(* bound of the holds.                                                     *)
(***************************************************************************)
EXTENDS Reservation, FiniteSetTheorems, TLAPS

\* A reserve command is the only one to know its row, which does not exist yet;
\* the other commands work on rows that exist, and refund only ended ones.
CommandInv ==
    \A s \in Sessions :
        /\ pc[s] \in {"reserving", "locked", "counted"} =>
              /\ status[target[s]] = "NONE"
              /\ \A t \in Sessions : target[t] = target[s] => t = s
        /\ pc[s] \in {"confirming", "cancelling"} => status[target[s]] # "NONE"
        /\ pc[s] = "refunding" => status[target[s]] \in Ended

OnePendingPerBike ==
    \A q, r \in Reservations :
        status[q] = "PENDING" /\ status[r] = "PENDING" /\ BikeOf[q] = BikeOf[r] => q = r

\* Another reservation of the same bike exists.
Rival(r) == \E q \in Reservations : q # r /\ BikeOf[q] = BikeOf[r] /\ status[q] # "NONE"

RentalInv ==
    /\ \A r \in rented \cup refunded : status[r] \in Ended
    /\ \A r \in rented : r \in refunded => Rival(r)
    /\ \A s \in Sessions : pc[s] = "refunding" /\ target[s] \in rented => Rival(target[s])

\* The station lock: one command at a time has counted, and one more hold still
\* respects the cap it computed.
CapInv ==
    /\ \A s, t \in Sessions :
          pc[s] \in {"locked", "counted"} /\ pc[t] \in {"locked", "counted"} => s = t
    /\ \A s \in Sessions : pc[s] = "counted" => 2 * (Cardinality(Pending) + 1) <= pool[s]

BikeInv == BookedIsRented /\ NoStrandedBike /\ OnePendingPerBike

IInv == TypeOK /\ CommandInv /\ BikeInv /\ RentalInv /\ CapInv

-----------------------------------------------------------------------------
(* Counting.                                                               *)

\* Pending reservations and available bikes can be counted.
LEMMA Counts ==
    /\ IsFiniteSet(Pending) /\ Cardinality(Pending) \in Nat
    /\ IsFiniteSet(AvailableBikes) /\ Cardinality(AvailableBikes) \in Nat
<1>1. Pending \subseteq Reservations /\ AvailableBikes \subseteq Bikes
  BY DEF Pending, AvailableBikes
<1>2. IsFiniteSet(Pending) /\ IsFiniteSet(AvailableBikes)
  BY <1>1, ReservationAssumption, FS_Subset
<1> QED BY <1>2, FS_CardinalityType

\* stationCanAcceptReservation leaves room for one more hold.
LEMMA RoomForOne ==
    ASSUME NEW available \in Nat, StationCanAccept(available)
    PROVE  2 * (Cardinality(Pending) + 1) <= available + Cardinality(Pending)
BY Counts DEF StationCanAccept

\* A step that adds no PENDING reservation does not raise their number.
LEMMA FewerPending ==
    ASSUME \A r \in Reservations : status'[r] = "PENDING" => status[r] = "PENDING"
    PROVE  Cardinality(Pending') <= Cardinality(Pending) /\ Cardinality(Pending') \in Nat
<1>1. Pending' \subseteq Pending
  BY DEF Pending
<1> QED BY <1>1, Counts, FS_Subset, FS_CardinalityType

\* A step that adds one reservation raises their number by at most one.
LEMMA OneMorePending ==
    ASSUME NEW q \in Reservations,
           \A r \in Reservations : status'[r] = "PENDING" => r = q \/ status[r] = "PENDING"
    PROVE  Cardinality(Pending') <= Cardinality(Pending) + 1 /\ Cardinality(Pending') \in Nat
<1> DEFINE more == Pending \cup {q}
<1>a. IsFiniteSet(Pending) /\ Cardinality(Pending) \in Nat
  BY Counts
<1>b. /\ IsFiniteSet(more)
      /\ Cardinality(more) = IF q \in Pending THEN Cardinality(Pending) ELSE Cardinality(Pending) + 1
  BY <1>a, FS_AddElement
<1>2. /\ IsFiniteSet(more) /\ Cardinality(more) \in Nat
      /\ Cardinality(more) <= Cardinality(Pending) + 1
  BY <1>a, <1>b
<1>1. Pending' \subseteq more
  BY DEF Pending
<1> HIDE DEF more
<1>3. IsFiniteSet(Pending') /\ Cardinality(Pending') <= Cardinality(more)
  BY <1>1, <1>2, FS_Subset
<1>4. Cardinality(Pending') \in Nat
  BY <1>3, FS_CardinalityType
<1> QED BY <1>a, <1>2, <1>3, <1>4

-----------------------------------------------------------------------------
(* Types and commands.                                                     *)

\* The initial tables and idle sessions satisfy the invariant.
LEMMA InvInit == Init => IInv
<1> SUFFICES ASSUME Init PROVE IInv
  OBVIOUS
<1>1. TypeOK
  BY HoldAssumption DEF Init, TypeOK, Statuses, BikeStatuses, Commands
<1>2. CommandInv /\ BikeInv /\ RentalInv /\ CapInv
  BY DEF Init, CommandInv, BikeInv, BookedIsRented, NoStrandedBike, OnePendingPerBike,
         RentalInv, CapInv
<1> QED BY <1>1, <1>2 DEF IInv

\* A session that stops leaves the session variables well typed.
LEMMA StopType ==
    ASSUME NEW s \in Sessions, TypeOK, Stop(s)
    PROVE  /\ pc' \in [Sessions -> Commands]
           /\ target' \in [Sessions -> Reservations \cup {NoReservation}]
           /\ \A t \in Sessions : pc'[t] = "idle" \/ target'[t] \in Reservations
           /\ startAt' \in [Sessions -> Nat]
           /\ pool' \in [Sessions -> Nat]
BY DEF TypeOK, Stop, Commands

\* Every step keeps the types; rentals, refunds and jobs refer to existing rows.
LEMMA TypeStep == TypeOK /\ CommandInv /\ [Next]_vars => TypeOK'
<1> SUFFICES ASSUME TypeOK, CommandInv, [Next]_vars PROVE TypeOK'
  OBVIOUS
<1> USE ReservationAssumption
<1>1. ASSUME NEW s \in Sessions, NEW r \in Reservations, PrepareReserve(s, r) PROVE TypeOK'
  <2>1. PICK start \in now..LastStart : startAt' = [startAt EXCEPT ![s] = start]
    BY <1>1 DEF PrepareReserve
  <2>2. start \in Nat
    BY HoldAssumption DEF TypeOK
  <2> QED BY <1>1, <2>1, <2>2 DEF PrepareReserve, Begin, TypeOK, Commands, rowVars
<1>2. ASSUME NEW s \in Sessions, NEW r \in Reservations,
             PrepareConfirm(s, r) \/ PrepareCancel(s, r)
      PROVE  TypeOK'
  BY <1>2 DEF PrepareConfirm, PrepareCancel, Begin, TypeOK, Commands, rowVars
<1>3. ASSUME NEW s \in Sessions, LockStation(s) \/ CountStation(s) PROVE TypeOK'
  <2>1. Cardinality(AvailableBikes) \in Nat /\ pool[s] + Cardinality(Pending) \in Nat
    BY Counts DEF TypeOK
  <2> QED BY <1>3, <2>1 DEF LockStation, CountStation, TypeOK, Commands, rowVars
<1>4. ASSUME NEW s \in Sessions, CommitReserve(s) PROVE TypeOK'
  <2>1. target[s] \in Reservations /\ startAt[s] \in Nat
    BY <1>4 DEF CommitReserve, TypeOK
  <2> QED BY <1>4, <2>1, StopType DEF CommitReserve, TypeOK, Statuses, BikeStatuses
<1>5. ASSUME NEW s \in Sessions, CommitConfirm(s) PROVE TypeOK'
  <2>1. target[s] \in Reservations /\ Owner[target[s]] \in Users /\ BikeOf[target[s]] \in Bikes
    BY <1>5 DEF CommitConfirm, TypeOK
  <2> QED BY <1>5, <2>1, StopType DEF CommitConfirm, TypeOK, Statuses, BikeStatuses, Ended
<1>6. ASSUME NEW s \in Sessions, CommitCancel(s) PROVE TypeOK'
  <2>1. target[s] \in Reservations
    BY <1>6 DEF CommitCancel, TypeOK
  <2> QED BY <1>6, <2>1 DEF CommitCancel, TypeOK, Statuses, BikeStatuses, Ended, Commands
<1>7. ASSUME NEW s \in Sessions, Refund(s) PROVE TypeOK'
  <2>1. target[s] \in Reservations /\ status[target[s]] # "NONE"
    BY <1>7 DEF Refund, TypeOK, CommandInv, Ended
  <2> QED BY <1>7, <2>1, StopType DEF Refund, TypeOK, rowVars
<1>8. ASSUME NEW s \in Sessions, Abandon(s) PROVE TypeOK'
  BY <1>8, StopType DEF Abandon, TypeOK, rowVars
<1>9. ASSUME NEW r \in Reservations, ExpireHold(r) PROVE TypeOK'
  BY <1>9 DEF ExpireHold, TypeOK, Statuses, BikeStatuses, Ended, sessionVars
<1>10. ASSUME NEW b \in Bikes, ReturnBike(b) \/ \E u \in Users : StartRental(u, b) PROVE TypeOK'
  BY <1>10 DEF ReturnBike, StartRental, TypeOK, BikeStatuses, sessionVars
<1>11. CASE Tick \/ UNCHANGED vars
  BY <1>11, HoldAssumption DEF Tick, TypeOK, vars, rowVars, sessionVars
<1> QED BY <1>1, <1>2, <1>3, <1>4, <1>5, <1>6, <1>7, <1>8, <1>9, <1>10, <1>11 DEF Next

\* Stopping one session leaves the facts about the others alone, if rows that
\* other commands know keep existing, new rows stay new and ended ones ended.
LEMMA StopCommand ==
    ASSUME NEW s \in Sessions, TypeOK, CommandInv, Stop(s),
           \A t \in Sessions : t # s /\ pc[t] # "idle" =>
              /\ status[target[t]] = "NONE" => status'[target[t]] = "NONE"
              /\ status[target[t]] # "NONE" => status'[target[t]] # "NONE"
              /\ status[target[t]] \in Ended => status'[target[t]] \in Ended
    PROVE  CommandInv'
BY ReservationAssumption DEF Stop, TypeOK, CommandInv

\* Every step keeps what the commands know of their rows.
LEMMA CommandStep == TypeOK /\ CommandInv /\ [Next]_vars => CommandInv'
<1> SUFFICES ASSUME TypeOK, CommandInv, [Next]_vars PROVE CommandInv'
  OBVIOUS
<1> USE ReservationAssumption
<1>1. ASSUME NEW s \in Sessions, NEW r \in Reservations, PrepareReserve(s, r) PROVE CommandInv'
  BY <1>1 DEF PrepareReserve, Begin, TypeOK, CommandInv, rowVars
<1>2. ASSUME NEW s \in Sessions, NEW r \in Reservations,
             PrepareConfirm(s, r) \/ PrepareCancel(s, r)
      PROVE  CommandInv'
  BY <1>2 DEF PrepareConfirm, PrepareCancel, Begin, TypeOK, CommandInv, rowVars
<1>3. ASSUME NEW s \in Sessions, LockStation(s) \/ CountStation(s) PROVE CommandInv'
  BY <1>3 DEF LockStation, CountStation, TypeOK, CommandInv, rowVars
<1>4. ASSUME NEW s \in Sessions, CommitReserve(s) PROVE CommandInv'
  <2>1. target[s] \in Reservations /\ \A t \in Sessions : target[t] = target[s] => t = s
    BY <1>4 DEF CommitReserve, TypeOK, CommandInv
  <2>2. /\ status' = [status EXCEPT ![target[s]] = "PENDING"]
        /\ Stop(s)
    BY <1>4 DEF CommitReserve
  <2> QED BY <2>1, <2>2, StopCommand DEF TypeOK
<1>5. ASSUME NEW s \in Sessions, CommitConfirm(s) PROVE CommandInv'
  <2>1. target[s] \in Reservations /\ status[target[s]] # "NONE"
    BY <1>5 DEF CommitConfirm, TypeOK, CommandInv
  <2>2. /\ status' = [status EXCEPT ![target[s]] = "FULFILLED"]
        /\ Stop(s)
    BY <1>5 DEF CommitConfirm
  <2> QED BY <2>1, <2>2, StopCommand DEF TypeOK, Ended
<1>6. ASSUME NEW s \in Sessions, CommitCancel(s) PROVE CommandInv'
  <2>1. target[s] \in Reservations /\ status[target[s]] # "NONE"
    BY <1>6 DEF CommitCancel, TypeOK, CommandInv
  <2> QED BY <1>6, <2>1 DEF CommitCancel, TypeOK, CommandInv, Ended
<1>7. ASSUME NEW s \in Sessions, Refund(s) \/ Abandon(s) PROVE CommandInv'
  BY <1>7, StopCommand DEF Refund, Abandon, rowVars
<1>8. ASSUME NEW r \in Reservations, ExpireHold(r) PROVE CommandInv'
  BY <1>8 DEF ExpireHold, TypeOK, CommandInv, Ended, sessionVars
<1>9. ASSUME NEW b \in Bikes, ReturnBike(b) \/ \E u \in Users : StartRental(u, b) PROVE CommandInv'
  BY <1>9 DEF ReturnBike, StartRental, CommandInv, sessionVars
<1>10. CASE Tick \/ UNCHANGED vars
  BY <1>10 DEF Tick, CommandInv, vars, rowVars, sessionVars
<1> QED BY <1>1, <1>2, <1>3, <1>4, <1>5, <1>6, <1>7, <1>8, <1>9, <1>10 DEF Next

-----------------------------------------------------------------------------
(* Bikes and rentals.                                                      *)

\* Steps that touch neither rows nor bikes keep the facts about bikes.
LEMMA BikeUnchanged == BikeInv /\ UNCHANGED rowVars => BikeInv'
BY DEF BikeInv, BookedIsRented, NoStrandedBike, OnePendingPerBike, PendingOn, Pending, rowVars

\* A reservation that appears takes an AVAILABLE bike nobody holds.
LEMMA ReserveBike ==
    ASSUME NEW s \in Sessions, TypeOK, BikeInv, CommitReserve(s)
    PROVE  BikeInv'
<1> DEFINE r == target[s]
<1>1. r \in Reservations /\ BikeOf[r] \in Bikes
  BY ReservationAssumption DEF CommitReserve, TypeOK
<1>2. /\ status' = [status EXCEPT ![r] = "PENDING"]
      /\ bike' = [bike EXCEPT ![BikeOf[r]] = "RESERVED"]
      /\ bike[BikeOf[r]] = "AVAILABLE"
      /\ renter' = renter
      /\ \A q \in Reservations : status[q] = "PENDING" => BikeOf[q] # BikeOf[r]
  BY DEF CommitReserve, CanReserveBike, PendingOn, Pending
<1> HIDE DEF r
<1>3. OnePendingPerBike'
  BY <1>1, <1>2 DEF BikeInv, OnePendingPerBike, TypeOK
<1>4. NoStrandedBike'
  BY <1>1, <1>2 DEF BikeInv, NoStrandedBike, PendingOn, Pending, TypeOK
<1>5. BookedIsRented'
  BY <1>1, <1>2 DEF BikeInv, BookedIsRented, TypeOK
<1> QED BY <1>3, <1>4, <1>5 DEF BikeInv

\* An ending leaves a bike that is no longer RESERVED and fewer PENDING rows.
LEMMA EndOnBike ==
    ASSUME NEW r \in Reservations, TypeOK, BikeInv,
           status'[r] # "PENDING",
           \A q \in Reservations : q # r => status'[q] = status[q],
           bike'[BikeOf[r]] # "RESERVED",
           \A b \in Bikes : b # BikeOf[r] => bike'[b] = bike[b]
    PROVE  NoStrandedBike' /\ OnePendingPerBike'
<1>1. OnePendingPerBike'
  BY DEF BikeInv, OnePendingPerBike
<1>2. ASSUME NEW b \in Bikes, bike'[b] = "RESERVED" PROVE PendingOn(b)' # {}
  <2>1. b # BikeOf[r] /\ bike[b] = "RESERVED"
    BY <1>2
  <2>2. PICK q \in Reservations : status[q] = "PENDING" /\ BikeOf[q] = b
    BY <2>1 DEF BikeInv, NoStrandedBike, PendingOn, Pending
  <2> QED BY <2>1, <2>2 DEF PendingOn, Pending
<1> QED BY <1>1, <1>2 DEF NoStrandedBike

\* Every step keeps bikes, rentals and PENDING reservations consistent.
LEMMA BikeStep == TypeOK /\ BikeInv /\ [Next]_vars => BikeInv'
<1> SUFFICES ASSUME TypeOK, BikeInv, [Next]_vars PROVE BikeInv'
  OBVIOUS
<1> USE ReservationAssumption
<1>1. ASSUME NEW s \in Sessions, NEW r \in Reservations,
             PrepareReserve(s, r) \/ PrepareConfirm(s, r) \/ PrepareCancel(s, r)
      PROVE  BikeInv'
  BY <1>1, BikeUnchanged DEF PrepareReserve, PrepareConfirm, PrepareCancel
<1>2. ASSUME NEW s \in Sessions, LockStation(s) \/ CountStation(s) \/ Refund(s) \/ Abandon(s) PROVE BikeInv'
  BY <1>2, BikeUnchanged DEF LockStation, CountStation, Refund, Abandon
<1>3. ASSUME NEW s \in Sessions, CommitReserve(s) PROVE BikeInv'
  BY <1>3, ReserveBike
<1>4. ASSUME NEW s \in Sessions, CommitConfirm(s) PROVE BikeInv'
  <2> DEFINE r == target[s]
  <2>1. r \in Reservations /\ BikeOf[r] \in Bikes /\ Owner[r] \in Users
    BY <1>4 DEF CommitConfirm, TypeOK
  <2>2. /\ status' = [status EXCEPT ![r] = "FULFILLED"]
        /\ bike' = [bike EXCEPT ![BikeOf[r]] = "BOOKED"]
        /\ renter' = [renter EXCEPT ![BikeOf[r]] = Owner[r]]
        /\ \A b \in Bikes : renter[b] # Owner[r]
    BY <1>4 DEF CommitConfirm, CanInsertRental, RentsNothing
  <2> HIDE DEF r
  <2>3. NoStrandedBike' /\ OnePendingPerBike'
    BY <2>1, <2>2, EndOnBike DEF TypeOK
  <2>4. BookedIsRented'
    BY <2>1, <2>2 DEF BikeInv, BookedIsRented, TypeOK
  <2> QED BY <2>3, <2>4 DEF BikeInv
<1>5. ASSUME NEW s \in Sessions, CommitCancel(s) PROVE BikeInv'
  <2> DEFINE r == target[s]
  <2>1. r \in Reservations /\ BikeOf[r] \in Bikes
    BY <1>5 DEF CommitCancel, TypeOK
  <2>2. /\ status' = [status EXCEPT ![r] = "CANCELLED"]
        /\ bike[BikeOf[r]] = "RESERVED"
        /\ bike' = [bike EXCEPT ![BikeOf[r]] = "AVAILABLE"]
        /\ renter' = renter
    BY <1>5 DEF CommitCancel
  <2> HIDE DEF r
  <2>3. NoStrandedBike' /\ OnePendingPerBike'
    BY <2>1, <2>2, EndOnBike DEF TypeOK
  <2>4. BookedIsRented'
    BY <2>1, <2>2 DEF BikeInv, BookedIsRented, TypeOK
  <2> QED BY <2>3, <2>4 DEF BikeInv
<1>6. ASSUME NEW r \in Reservations, ExpireHold(r) PROVE BikeInv'
  <2>1. BikeOf[r] \in Bikes /\ renter' = renter
    BY <1>6 DEF ExpireHold
  <2>2. CASE status' = status /\ bike' = bike
    BY <2>1, <2>2 DEF BikeInv, BookedIsRented, NoStrandedBike, OnePendingPerBike, PendingOn, Pending
  <2>3. CASE /\ status' = [status EXCEPT ![r] = "EXPIRED"]
             /\ bike' = [bike EXCEPT ![BikeOf[r]] = IF @ = "RESERVED" THEN "AVAILABLE" ELSE @]
    <3>1. NoStrandedBike' /\ OnePendingPerBike'
      BY <2>1, <2>3, EndOnBike DEF TypeOK
    <3>2. BookedIsRented'
      BY <2>1, <2>3 DEF BikeInv, BookedIsRented, TypeOK
    <3> QED BY <3>1, <3>2 DEF BikeInv
  <2> QED BY <1>6, <2>2, <2>3 DEF ExpireHold
<1>7. ASSUME NEW b \in Bikes, ReturnBike(b) \/ \E u \in Users : StartRental(u, b) PROVE BikeInv'
  <2>1. status' = status
    BY <1>7 DEF ReturnBike, StartRental
  <2>2. OnePendingPerBike'
    BY <2>1 DEF BikeInv, OnePendingPerBike
  <2>3. NoStrandedBike'
    BY <1>7, <2>1 DEF ReturnBike, StartRental, BikeInv, NoStrandedBike, PendingOn, Pending, TypeOK
  <2>4. BookedIsRented'
    BY <1>7 DEF ReturnBike, StartRental, CanInsertRental, RentsNothing, BikeInv, BookedIsRented, TypeOK
  <2> QED BY <2>2, <2>3, <2>4 DEF BikeInv
<1>8. CASE Tick \/ UNCHANGED vars
  BY <1>8, BikeUnchanged DEF Tick, vars
<1> QED BY <1>1, <1>2, <1>3, <1>4, <1>5, <1>6, <1>7, <1>8 DEF Next

-----------------------------------------------------------------------------
(* Rentals and refunds.                                                    *)

\* Rows are never deleted, and an ended reservation never gets back to PENDING.
RowsStay ==
    \A r \in Reservations :
        /\ status[r] # "NONE" => status'[r] # "NONE"
        /\ status[r] \in Ended => status'[r] \in Ended

\* Every step keeps the rows there are, and the ended ones ended.
LEMMA RowsStep == TypeOK /\ CommandInv /\ [Next]_vars => RowsStay
<1> SUFFICES ASSUME TypeOK, CommandInv, [Next]_vars PROVE RowsStay
  OBVIOUS
<1>1. ASSUME UNCHANGED status PROVE RowsStay
  BY <1>1 DEF RowsStay
<1>2. ASSUME NEW s \in Sessions, NEW r \in Reservations,
             PrepareReserve(s, r) \/ PrepareConfirm(s, r) \/ PrepareCancel(s, r)
      PROVE  RowsStay
  BY <1>1, <1>2 DEF PrepareReserve, PrepareConfirm, PrepareCancel, rowVars
<1>3. ASSUME NEW s \in Sessions, LockStation(s) \/ CountStation(s) \/ Refund(s) \/ Abandon(s) PROVE RowsStay
  BY <1>1, <1>3 DEF LockStation, CountStation, Refund, Abandon, rowVars
<1>4. ASSUME NEW s \in Sessions, CommitReserve(s) PROVE RowsStay
  <2>1. status[target[s]] = "NONE" /\ status' = [status EXCEPT ![target[s]] = "PENDING"]
    BY <1>4 DEF CommitReserve, CommandInv
  <2> QED BY <2>1 DEF RowsStay, TypeOK, Ended
<1>5. ASSUME NEW s \in Sessions, CommitConfirm(s) \/ CommitCancel(s) PROVE RowsStay
  BY <1>5 DEF CommitConfirm, CommitCancel, RowsStay, TypeOK, Ended
<1>6. ASSUME NEW r \in Reservations, ExpireHold(r) PROVE RowsStay
  BY <1>6 DEF ExpireHold, RowsStay, TypeOK, Ended
<1>7. ASSUME NEW b \in Bikes, ReturnBike(b) \/ \E u \in Users : StartRental(u, b) PROVE RowsStay
  BY <1>1, <1>7 DEF ReturnBike, StartRental
<1>8. CASE Tick \/ UNCHANGED vars
  BY <1>1, <1>8 DEF Tick, vars, rowVars
<1> QED BY <1>2, <1>3, <1>4, <1>5, <1>6, <1>7, <1>8 DEF Next

\* A rival stays one.
LEMMA RivalStays == RowsStay => \A r : Rival(r) => Rival(r)'
BY DEF RowsStay, Rival

\* The bike of an ended reservation is RESERVED for another one.
LEMMA RivalOfEnded ==
    ASSUME NEW r \in Reservations, BikeInv, bike[BikeOf[r]] = "RESERVED", status[r] \in Ended
    PROVE  Rival(r)
<1>1. PICK q \in Reservations : status[q] = "PENDING" /\ BikeOf[q] = BikeOf[r]
  BY ReservationAssumption DEF BikeInv, NoStrandedBike, PendingOn, Pending
<1> QED BY <1>1 DEF Rival, Ended

\* A step that adds no rental, no refund and no refunding command keeps RentalInv.
LEMMA RentalUnchanged ==
    ASSUME TypeOK, RentalInv, RowsStay, rented' \subseteq rented, refunded' \subseteq refunded,
           \A s \in Sessions : pc'[s] = "refunding" => pc[s] = "refunding" /\ target'[s] = target[s]
    PROVE  RentalInv'
<1>1. \A r \in rented' \cup refunded' : status'[r] \in Ended
  BY DEF RentalInv, RowsStay, TypeOK
<1>2. \A r \in rented' : r \in refunded' => Rival(r)'
  BY RivalStays DEF RentalInv
<1>3. \A s \in Sessions : pc'[s] = "refunding" /\ target'[s] \in rented' => Rival(target[s])'
  <2> SUFFICES ASSUME NEW s \in Sessions, pc'[s] = "refunding", target'[s] \in rented'
               PROVE  Rival(target[s])'
    OBVIOUS
  <2>1. Rival(target[s]) /\ target'[s] = target[s]
    BY DEF RentalInv
  <2> QED BY <2>1 DEF RowsStay, Rival
<1> QED BY <1>1, <1>2, <1>3 DEF RentalInv

\* Every step keeps the facts about rentals and refunds.
LEMMA RentalStep ==
    TypeOK /\ CommandInv /\ BikeInv /\ RentalInv /\ [Next]_vars => RentalInv'
<1> SUFFICES ASSUME TypeOK, CommandInv, BikeInv, RentalInv, [Next]_vars PROVE RentalInv'
  OBVIOUS
<1> USE ReservationAssumption
<1>0. RowsStay
  BY RowsStep
<1>1. ASSUME NEW s \in Sessions, NEW r \in Reservations,
             PrepareReserve(s, r) \/ PrepareConfirm(s, r) \/ PrepareCancel(s, r)
      PROVE  RentalInv'
  BY <1>0, <1>1, RentalUnchanged
     DEF PrepareReserve, PrepareConfirm, PrepareCancel, Begin, rowVars, TypeOK
<1>2. ASSUME NEW s \in Sessions, LockStation(s) \/ CountStation(s) \/ CommitReserve(s) \/ Abandon(s)
      PROVE  RentalInv'
  BY <1>0, <1>2, RentalUnchanged DEF LockStation, CountStation, CommitReserve, Abandon, Stop, rowVars, TypeOK
<1>3. ASSUME NEW s \in Sessions, CommitConfirm(s) PROVE RentalInv'
  <2>1. /\ target[s] \in Reservations
        /\ bike[BikeOf[target[s]]] = "RESERVED"
        /\ status' = [status EXCEPT ![target[s]] = "FULFILLED"]
        /\ rented' = rented \cup {target[s]} /\ refunded' = refunded
        /\ Stop(s)
    BY <1>3 DEF CommitConfirm, TypeOK
  <2>2. ASSUME status[target[s]] \in Ended PROVE Rival(target[s])
    BY <2>1, <2>2, RivalOfEnded
  <2>3. \A r \in rented' : r \in refunded' => Rival(r)
    BY <2>1, <2>2 DEF RentalInv
  <2>4. \A t \in Sessions : pc'[t] = "refunding" => pc[t] = "refunding" /\ target'[t] = target[t]
    BY <2>1 DEF Stop, TypeOK
  <2>5. \A t \in Sessions : pc[t] = "refunding" /\ target[t] \in rented' => Rival(target[t])
    BY <2>1, <2>2 DEF RentalInv, CommandInv
  <2>6. \A r \in rented' \cup refunded' : status'[r] \in Ended
    BY <1>0, <2>1 DEF RentalInv, RowsStay, TypeOK, Ended
  <2>7. \A t \in Sessions : pc'[t] = "refunding" /\ target'[t] \in rented' => Rival(target[t])'
    <3> SUFFICES ASSUME NEW t \in Sessions, pc'[t] = "refunding", target'[t] \in rented'
                 PROVE  Rival(target[t])'
      OBVIOUS
    <3>1. Rival(target[t]) /\ target'[t] = target[t]
      BY <2>4, <2>5
    <3> QED BY <1>0, <3>1 DEF RowsStay, Rival
  <2>8. \A r \in rented' : r \in refunded' => Rival(r)'
    BY <1>0, <2>3, RivalStays
  <2> QED BY <2>6, <2>7, <2>8 DEF RentalInv
<1>4. ASSUME NEW s \in Sessions, CommitCancel(s) PROVE RentalInv'
  <2>1. /\ target[s] \in Reservations
        /\ bike[BikeOf[target[s]]] = "RESERVED"
        /\ rented' = rented /\ refunded' = refunded /\ target' = target
        /\ pc' = [pc EXCEPT ![s] = "refunding"]
    BY <1>4 DEF CommitCancel, TypeOK
  <2>2. \A t \in Sessions : pc'[t] = "refunding" /\ target[t] \in rented => Rival(target[t])
    BY <2>1, RivalOfEnded DEF RentalInv, TypeOK
  <2>3. \A t \in Sessions : pc'[t] = "refunding" /\ target'[t] \in rented' => Rival(target[t])'
    <3> SUFFICES ASSUME NEW t \in Sessions, pc'[t] = "refunding", target'[t] \in rented'
                 PROVE  Rival(target[t])'
      OBVIOUS
    <3>1. Rival(target[t]) /\ target'[t] = target[t]
      BY <2>1, <2>2
    <3> QED BY <1>0, <3>1 DEF RowsStay, Rival
  <2>4. \A r \in rented' \cup refunded' : status'[r] \in Ended
    BY <1>0, <2>1 DEF RentalInv, RowsStay, TypeOK
  <2>5. \A r \in rented' : r \in refunded' => Rival(r)'
    BY <1>0, <2>1, RivalStays DEF RentalInv
  <2> QED BY <2>3, <2>4, <2>5 DEF RentalInv
<1>5. ASSUME NEW s \in Sessions, Refund(s) PROVE RentalInv'
  <2>1. /\ pc[s] = "refunding" /\ status' = status
        /\ rented' = rented /\ refunded' = refunded \cup {target[s]}
        /\ Stop(s)
    BY <1>5 DEF Refund, rowVars
  <2>2. \A r \in rented' \cup refunded' : status'[r] \in Ended
    BY <2>1 DEF RentalInv, CommandInv
  <2>3. \A r \in rented' : r \in refunded' => Rival(r)
    BY <2>1 DEF RentalInv
  <2>4. \A r \in rented' : r \in refunded' => Rival(r)'
    BY <1>0, <2>3, RivalStays
  <2>5. \A t \in Sessions : pc'[t] = "refunding" => pc[t] = "refunding" /\ target'[t] = target[t]
    BY <2>1 DEF Stop, TypeOK
  <2>6. \A t \in Sessions : pc'[t] = "refunding" /\ target'[t] \in rented' => Rival(target[t])'
    <3> SUFFICES ASSUME NEW t \in Sessions, pc'[t] = "refunding", target'[t] \in rented'
                 PROVE  Rival(target[t])'
      OBVIOUS
    <3>1. Rival(target[t]) /\ target'[t] = target[t]
      BY <2>1, <2>5 DEF RentalInv
    <3> QED BY <1>0, <3>1 DEF RowsStay, Rival
  <2> QED BY <2>2, <2>4, <2>6 DEF RentalInv
<1>6. ASSUME NEW r \in Reservations, ExpireHold(r) PROVE RentalInv'
  BY <1>0, <1>6, RentalUnchanged DEF ExpireHold, sessionVars
<1>7. ASSUME NEW b \in Bikes, ReturnBike(b) \/ \E u \in Users : StartRental(u, b) PROVE RentalInv'
  BY <1>0, <1>7, RentalUnchanged DEF ReturnBike, StartRental, sessionVars
<1>8. CASE Tick \/ UNCHANGED vars
  BY <1>0, <1>8, RentalUnchanged DEF Tick, vars, rowVars, sessionVars
<1> QED BY <1>1, <1>2, <1>3, <1>4, <1>5, <1>6, <1>7, <1>8 DEF Next

-----------------------------------------------------------------------------
(* The cap.                                                                *)

\* Steps that neither add a hold nor count keep what was counted an upper bound.
LEMMA CapUnchanged ==
    ASSUME TypeOK, CapInv,
           \A r \in Reservations : status'[r] = "PENDING" => status[r] = "PENDING",
           \A s \in Sessions : /\ pc'[s] = "locked" => pc[s] = "locked"
                               /\ pc'[s] = "counted" => pc[s] = "counted" /\ pool'[s] = pool[s]
    PROVE  CapInv'
<1>1. Cardinality(Pending') <= Cardinality(Pending) /\ Cardinality(Pending') \in Nat
  BY FewerPending
<1>2. Cardinality(Pending) \in Nat
  BY Counts
<1> QED BY <1>1, <1>2 DEF CapInv, TypeOK

\* Every step keeps at most one count, and the count an upper bound.
LEMMA CapStep == TypeOK /\ CapInv /\ [Next]_vars => CapInv'
<1> SUFFICES ASSUME TypeOK, CapInv, [Next]_vars PROVE CapInv'
  OBVIOUS
<1>1. ASSUME NEW s \in Sessions, NEW r \in Reservations,
             PrepareReserve(s, r) \/ PrepareConfirm(s, r) \/ PrepareCancel(s, r)
      PROVE  CapInv'
  BY <1>1, CapUnchanged DEF PrepareReserve, PrepareConfirm, PrepareCancel, Begin, rowVars, TypeOK
<1>2. ASSUME NEW s \in Sessions, LockStation(s) PROVE CapInv'
  <2>1. /\ \A t \in Sessions : pc[t] \notin {"locked", "counted"}
        /\ pc' = [pc EXCEPT ![s] = "locked"]
    BY <1>2 DEF LockStation, StationIsLocked
  <2>2. \A t \in Sessions : pc'[t] # "counted" /\ (pc'[t] = "locked" => t = s)
    BY <2>1 DEF TypeOK
  <2> QED BY <2>2 DEF CapInv
<1>10. ASSUME NEW s \in Sessions, CountStation(s) PROVE CapInv'
  <2>1. /\ pc[s] = "locked" /\ pool[s] \in Nat
        /\ pc' = [pc EXCEPT ![s] = "counted"]
        /\ pool' = [pool EXCEPT ![s] = @ + Cardinality(Pending)]
        /\ status' = status
        /\ StationCanAccept(pool[s])
    BY <1>10 DEF CountStation, rowVars, TypeOK
  <2>2. 2 * (Cardinality(Pending) + 1) <= pool[s] + Cardinality(Pending)
    BY <2>1, RoomForOne
  <2>3. Pending' = Pending
    BY <2>1 DEF Pending
  <2>4. \A t \in Sessions : pc'[t] \in {"locked", "counted"} => t = s
    BY <2>1 DEF TypeOK, CapInv
  <2>5. pool'[s] = pool[s] + Cardinality(Pending)
    BY <2>1 DEF TypeOK
  <2> QED BY <2>2, <2>3, <2>4, <2>5 DEF CapInv
<1>3. ASSUME NEW s \in Sessions, CommitReserve(s) PROVE CapInv'
  <2>1. pc[s] = "counted" /\ pc' = [pc EXCEPT ![s] = "idle"]
    BY <1>3 DEF CommitReserve, Stop
  <2>2. \A t \in Sessions : pc'[t] \notin {"locked", "counted"}
    BY <2>1 DEF CapInv, TypeOK
  <2> QED BY <2>2 DEF CapInv
<1>4. ASSUME NEW s \in Sessions, Refund(s) \/ Abandon(s) PROVE CapInv'
  BY <1>4, CapUnchanged DEF Refund, Abandon, Stop, rowVars, TypeOK
<1>5. ASSUME NEW s \in Sessions, CommitConfirm(s) PROVE CapInv'
  BY <1>5, CapUnchanged DEF CommitConfirm, Stop, TypeOK
<1>6. ASSUME NEW s \in Sessions, CommitCancel(s) PROVE CapInv'
  BY <1>6, CapUnchanged DEF CommitCancel, TypeOK
<1>7. ASSUME NEW r \in Reservations, ExpireHold(r) PROVE CapInv'
  BY <1>7, CapUnchanged DEF ExpireHold, sessionVars, TypeOK
<1>8. ASSUME NEW b \in Bikes, ReturnBike(b) \/ \E u \in Users : StartRental(u, b) PROVE CapInv'
  BY <1>8, CapUnchanged DEF ReturnBike, StartRental, sessionVars
<1>9. CASE Tick \/ UNCHANGED vars
  BY <1>9, CapUnchanged DEF Tick, vars, rowVars, sessionVars
<1> QED BY <1>1, <1>2, <1>3, <1>4, <1>5, <1>6, <1>7, <1>8, <1>9, <1>10 DEF Next

-----------------------------------------------------------------------------
(* The invariant and what follows from it.                                 *)

\* The inductive invariant holds in every reachable state.
THEOREM Invariance == Spec => []IInv
<1>1. IInv /\ [Next]_vars => IInv'
  BY TypeStep, CommandStep, BikeStep, RentalStep, CapStep DEF IInv
<1> QED BY InvInit, <1>1, PTL DEF Spec

\* The tables have their types, and refer to reservations that exist.
THEOREM TypeCorrect == Spec => []TypeOK
<1>1. IInv => TypeOK
  BY DEF IInv
<1> QED BY Invariance, <1>1, PTL

\* A bike is BOOKED exactly while it has an active rental; nobody has two.
THEOREM RentalsMatchBikes == Spec => []BookedIsRented
<1>1. IInv => BookedIsRented
  BY DEF IInv, BikeInv
<1> QED BY Invariance, <1>1, PTL

\* A RESERVED bike has a PENDING reservation that can give it back.
THEOREM BikesAreReleased == Spec => []NoStrandedBike
<1>1. IInv => NoStrandedBike
  BY DEF IInv, BikeInv
<1> QED BY Invariance, <1>1, PTL

\* A reservation is both rented and refunded only if its bike had another one.
THEOREM RefundsAreEarned == Spec => []RefundedNotRented
<1>1. IInv => RefundedNotRented
  BY DEF IInv, RentalInv, Rival, RefundedNotRented
<1> QED BY Invariance, <1>1, PTL

\* A reservation that stays PENDING loses its bike only to a stale command.
THEOREM HoldsAreKept == Spec => HoldLostOnlyToStale
<1> DEFINE Lost(r) == /\ status[r] = "PENDING" /\ status'[r] = "PENDING"
                      /\ bike[BikeOf[r]] = "RESERVED" /\ bike'[BikeOf[r]] # "RESERVED"
           Culprit(r, s) == /\ Stale(s) /\ pc'[s] # pc[s]
                            /\ BikeOf[target[s]] = BikeOf[r]
<1>1. ASSUME IInv, [Next]_vars, NEW r \in Reservations, Lost(r)
      PROVE  \E s \in Sessions : Culprit(r, s)
  <2> USE ReservationAssumption
  <2>0. /\ TypeOK /\ BookedIsRented /\ OnePendingPerBike
        /\ BikeOf[r] \in Bikes
        /\ status[r] = "PENDING" /\ status'[r] = "PENDING"
        /\ bike[BikeOf[r]] = "RESERVED" /\ bike'[BikeOf[r]] # "RESERVED"
    BY <1>1 DEF IInv, BikeInv
  <2>1. CASE bike' = bike
    BY <2>0, <2>1
  <2>2. ASSUME NEW s \in Sessions, NEW q \in Reservations,
               PrepareReserve(s, q) \/ PrepareConfirm(s, q) \/ PrepareCancel(s, q)
        PROVE  bike' = bike
    BY <2>2 DEF PrepareReserve, PrepareConfirm, PrepareCancel, rowVars
  <2>3. ASSUME NEW s \in Sessions, LockStation(s) \/ CountStation(s) \/ Refund(s) \/ Abandon(s) PROVE bike' = bike
    BY <2>3 DEF LockStation, CountStation, Refund, Abandon, rowVars
  <2>4. ASSUME NEW s \in Sessions, CommitReserve(s) PROVE FALSE
    BY <2>0, <2>4 DEF CommitReserve, CanReserveBike, TypeOK
  <2>5. ASSUME NEW s \in Sessions, CommitConfirm(s) \/ CommitCancel(s) PROVE Culprit(r, s)
    <3>1. /\ pc[s] \in {"confirming", "cancelling"} /\ pc'[s] # pc[s]
          /\ target[s] \in Reservations
          /\ status'[target[s]] # "PENDING"
          /\ \A b \in Bikes : b # BikeOf[target[s]] => bike'[b] = bike[b]
      BY <2>0, <2>5 DEF CommitConfirm, CommitCancel, Stop, TypeOK
    <3>2. BikeOf[target[s]] = BikeOf[r] /\ target[s] # r
      BY <2>0, <3>1
    <3>3. status[target[s]] # "PENDING"
      BY <2>0, <3>1, <3>2 DEF OnePendingPerBike
    <3> QED BY <3>1, <3>2, <3>3 DEF Stale
  <2>6. ASSUME NEW q \in Reservations, ExpireHold(q) PROVE FALSE
    BY <2>0, <2>6 DEF ExpireHold, OnePendingPerBike, TypeOK
  <2>7. ASSUME NEW b \in Bikes, ReturnBike(b) \/ \E u \in Users : StartRental(u, b) PROVE FALSE
    BY <2>0, <2>7 DEF ReturnBike, StartRental, BookedIsRented, TypeOK
  <2>8. CASE Tick \/ UNCHANGED vars
    BY <2>1, <2>8 DEF Tick, vars, rowVars
  <2> QED BY <1>1, <2>1, <2>2, <2>3, <2>4, <2>5, <2>6, <2>7, <2>8 DEF Next
<1>2. IInv /\ [Next]_vars =>
        [\A r \in Reservations : Lost(r) => \E s \in Sessions : Culprit(r, s)]_vars
  BY <1>1
<1> QED BY Invariance, <1>2, PTL DEF Spec, HoldLostOnlyToStale

\* An ended reservation changes only while another one has its bike.
THEOREM EndingsAreFinal == Spec => EndedIsFinal
<1> DEFINE Revised(r) == status[r] \in Ended /\ status'[r] # status[r]
           HasRival(r) == \E q \in PendingOn(BikeOf[r]) : q # r
<1>1. ASSUME IInv, [Next]_vars, NEW r \in Reservations, Revised(r) PROVE HasRival(r)
  <2>0. TypeOK /\ CommandInv /\ NoStrandedBike /\ status[r] \in Ended /\ status'[r] # status[r]
    BY <1>1 DEF IInv, BikeInv
  <2>1. CASE status' = status
    BY <2>0, <2>1
  <2>2. ASSUME NEW s \in Sessions, NEW q \in Reservations,
               PrepareReserve(s, q) \/ PrepareConfirm(s, q) \/ PrepareCancel(s, q)
        PROVE  status' = status
    BY <2>2 DEF PrepareReserve, PrepareConfirm, PrepareCancel, rowVars
  <2>3. ASSUME NEW s \in Sessions, LockStation(s) \/ CountStation(s) \/ Refund(s) \/ Abandon(s)
        PROVE  status' = status
    BY <2>3 DEF LockStation, CountStation, Refund, Abandon, rowVars
  <2>4. ASSUME NEW s \in Sessions, CommitReserve(s) PROVE FALSE
    BY <2>0, <2>4 DEF CommitReserve, CommandInv, TypeOK, Ended
  <2>5. ASSUME NEW s \in Sessions, CommitConfirm(s) \/ CommitCancel(s) PROVE HasRival(r)
    <3>1. target[s] = r /\ bike[BikeOf[r]] = "RESERVED" /\ BikeOf[r] \in Bikes
      BY <2>0, <2>5, ReservationAssumption DEF CommitConfirm, CommitCancel, TypeOK
    <3>2. PICK q \in PendingOn(BikeOf[r]) : TRUE
      BY <2>0, <3>1 DEF NoStrandedBike
    <3>3. q # r
      BY <2>0, <3>2 DEF PendingOn, Pending, Ended
    <3> QED BY <3>2, <3>3
  <2>6. ASSUME NEW q \in Reservations, ExpireHold(q) PROVE FALSE
    BY <2>0, <2>6 DEF ExpireHold, TypeOK, Ended
  <2>7. ASSUME NEW b \in Bikes, ReturnBike(b) \/ \E u \in Users : StartRental(u, b)
        PROVE  status' = status
    BY <2>7 DEF ReturnBike, StartRental
  <2>8. CASE Tick \/ UNCHANGED vars
    BY <2>1, <2>8 DEF Tick, vars, rowVars
  <2> QED BY <1>1, <2>1, <2>2, <2>3, <2>4, <2>5, <2>6, <2>7, <2>8 DEF Next
<1>2. IInv /\ [Next]_vars => [\A r \in Reservations : Revised(r) => HasRival(r)]_vars
  BY <1>1
<1> QED BY Invariance, <1>2, PTL DEF Spec, EndedIsFinal

\* A hold that appears respects the cap of what its command counted.
THEOREM CapIsKept == Spec => CapHoldsAtCommit
<1>1. ASSUME IInv, NEW s \in Sessions, CommitReserve(s)
      PROVE  2 * Cardinality(Pending') <= pool[s]
  <2>1. /\ target[s] \in Reservations
        /\ status' = [status EXCEPT ![target[s]] = "PENDING"]
        /\ 2 * (Cardinality(Pending) + 1) <= pool[s] /\ pool[s] \in Nat
    BY <1>1 DEF IInv, TypeOK, CapInv, CommitReserve
  <2>2. \A r \in Reservations : status'[r] = "PENDING" => r = target[s] \/ status[r] = "PENDING"
    BY <1>1, <2>1 DEF IInv, TypeOK
  <2>3. Cardinality(Pending') <= Cardinality(Pending) + 1 /\ Cardinality(Pending') \in Nat
    BY <2>1, <2>2, OneMorePending
  <2>4. Cardinality(Pending) \in Nat
    BY Counts
  <2> QED BY <2>1, <2>3, <2>4
<1>2. IInv => [\A s \in Sessions : CommitReserve(s) => 2 * Cardinality(Pending') <= pool[s]]_vars
  BY <1>1
<1> QED BY Invariance, <1>2, PTL DEF CapHoldsAtCommit
=============================================================================
