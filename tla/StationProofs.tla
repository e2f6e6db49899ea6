---------------------------- MODULE StationProofs ----------------------------
(***************************************************************************)
(* How far a station of Rental can be overfilled, for any customers,       *)
(* rentals, bikes, stations and sessions.                                  *)
(*                                                                         *)
(* Counting what stands at a station and adding the requests in flight is  *)
(* not enough: a return that goes to the place its own slot keeps was      *)
(* admitted without room, and the slot may lapse before the return is      *)
(* written.  The invariant therefore counts rentals, not promises: a       *)
(* rental with a slot there, a return on its way there, or both, claims    *)
(* one place, so a slot that lapses under a return leaves the count as it  *)
(* is, and so do two operators who confirm the same return.                *)
(***************************************************************************)
EXTENDS RentalProofs, FiniteSetTheorems

\* The rides somebody is about to return to a station.
BeingReturned(st) ==
    {r \in Rentals : /\ Active(r)
                     /\ \E s \in Sessions :
                          cmd[s].op = "return" /\ cmd[s].r = r /\ cmd[s].st = st}

\* The rentals that claim a place of a station.
Claims(st) == SlotsAt(st) \cup BeingReturned(st)

\* The sessions about to promise a place of a station.
Promising(st) == {s \in Sessions : cmd[s].op = "slot" /\ cmd[s].st = st}

Claimed(st) ==
    Cardinality(BikesAt(st)) + Cardinality(Claims(st)) + Cardinality(Promising(st))
    + Incoming[st]

Most(st) == Capacity[st] + Cardinality(Sessions) - 1

ClaimsFit == \A st \in Stations : Claimed(st) <= Most(st)

\* Only a rental that exists is returned.
ReturnInv == \A s \in Sessions : cmd[s].op = "return" => status[cmd[s].r] # "NONE"

RoomInv == ReturnInv /\ ClaimsFit

-----------------------------------------------------------------------------
(* Counting.                                                               *)

\* A part of a finite set is counted by a natural number.
LEMMA Counted ==
    ASSUME NEW T, IsFiniteSet(T), NEW A \in SUBSET T
    PROVE  IsFiniteSet(A) /\ Cardinality(A) \in Nat
BY FS_Subset, FS_CardinalityType

LEMMA NoMore ==
    ASSUME NEW T, IsFiniteSet(T), NEW A \in SUBSET T, NEW B \in SUBSET A
    PROVE  Cardinality(B) <= Cardinality(A)
BY Counted, FS_Subset

LEMMA OneMore ==
    ASSUME NEW T, IsFiniteSet(T), NEW A \in SUBSET T, NEW x, NEW B \in SUBSET (A \cup {x})
    PROVE  Cardinality(B) <= Cardinality(A) + 1
<1>1. IsFiniteSet(A) /\ Cardinality(A) \in Nat
  BY Counted
<1>2. /\ IsFiniteSet(A \cup {x})
      /\ Cardinality(A \cup {x}) = IF x \in A THEN Cardinality(A) ELSE Cardinality(A) + 1
  BY <1>1, FS_AddElement
<1>3. /\ Cardinality(B) <= Cardinality(A \cup {x})
      /\ Cardinality(B) \in Nat /\ Cardinality(A \cup {x}) \in Nat
  BY <1>2, FS_Subset, FS_CardinalityType
<1> QED BY <1>1, <1>2, <1>3

LEMMA OneLess ==
    ASSUME NEW T, IsFiniteSet(T), NEW A \in SUBSET T, NEW x \in A, NEW B \in SUBSET (A \ {x})
    PROVE  Cardinality(B) <= Cardinality(A) - 1
<1>1. IsFiniteSet(A) /\ Cardinality(A) \in Nat
  BY Counted
<1>2. IsFiniteSet(A \ {x}) /\ Cardinality(A \ {x}) = Cardinality(A) - 1
  BY <1>1, FS_RemoveElement
<1>3. Cardinality(B) <= Cardinality(A \ {x})
  BY <1>2, FS_Subset
<1> QED BY <1>2, <1>3

\* Two parts of a set count no more together than the set, when the members of
\* the first each have one of their own outside the second.
LEMMA OneEach ==
    ASSUME NEW S, IsFiniteSet(S), NEW P \in SUBSET S, NEW R, NEW of,
           \A r \in R : \E s \in S \ P : of[s] = r
    PROVE  /\ IsFiniteSet(R) /\ Cardinality(R) \in Nat
           /\ Cardinality(R) + Cardinality(P) <= Cardinality(S)
<1> DEFINE own == [r \in R |-> CHOOSE s \in S \ P : of[s] = r]
<1>1. \A r \in R : own[r] \in S \ P /\ of[own[r]] = r
  OBVIOUS
<1>2. own \in Injection(R, S \ P)
  BY <1>1 DEF Injection, IsInjective
<1> HIDE DEF own
<1>3. IsFiniteSet(S \ P) /\ Cardinality(S \ P) = Cardinality(S) - Cardinality(S \cap P)
  BY FS_Difference
<1>4. S \cap P = P /\ Cardinality(P) \in Nat /\ Cardinality(S) \in Nat
  BY Counted
<1>5. IsFiniteSet(R) /\ Cardinality(R) <= Cardinality(S \ P)
  BY <1>2, <1>3, FS_Injection
<1>6. Cardinality(R) \in Nat
  BY <1>5, FS_CardinalityType
<1>7. Cardinality(S \ P) = Cardinality(S) - Cardinality(P)
  BY <1>3, <1>4
<1> QED BY <1>4, <1>5, <1>6, <1>7

\* What is counted at a station, before and after a step.
LEMMA Parts ==
    ASSUME NEW st \in Stations
    PROVE  /\ BikesAt(st) \in SUBSET Bikes /\ BikesAt(st)' \in SUBSET Bikes
           /\ SlotsAt(st) \in SUBSET Rentals /\ SlotsAt(st)' \in SUBSET Rentals
           /\ Claims(st) \in SUBSET Rentals /\ Claims(st)' \in SUBSET Rentals
           /\ Promising(st) \in SUBSET Sessions /\ Promising(st)' \in SUBSET Sessions
BY DEF BikesAt, SlotsAt, Claims, BeingReturned, Promising

LEMMA Numbers ==
    ASSUME NEW st \in Stations
    PROVE  /\ Cardinality(BikesAt(st)) \in Nat /\ Cardinality(BikesAt(st)') \in Nat
           /\ Cardinality(SlotsAt(st)) \in Nat /\ Cardinality(SlotsAt(st)') \in Nat
           /\ Cardinality(Claims(st)) \in Nat /\ Cardinality(Claims(st)') \in Nat
           /\ Cardinality(Promising(st)) \in Nat /\ Cardinality(Promising(st)') \in Nat
           /\ Capacity[st] \in Nat /\ Incoming[st] \in Nat /\ Cardinality(Sessions) \in Nat
           /\ Most(st) = Capacity[st] + Cardinality(Sessions) - 1 /\ Most(st) \in Int
<1>1. /\ Cardinality(BikesAt(st)) \in Nat /\ Cardinality(BikesAt(st)') \in Nat
      /\ Cardinality(SlotsAt(st)) \in Nat /\ Cardinality(SlotsAt(st)') \in Nat
      /\ Cardinality(Claims(st)) \in Nat /\ Cardinality(Claims(st)') \in Nat
      /\ Cardinality(Promising(st)) \in Nat /\ Cardinality(Promising(st)') \in Nat
  BY Parts, Counted, FiniteAssumption
<1>2. Capacity[st] \in Nat /\ Incoming[st] \in Nat /\ Cardinality(Sessions) \in Nat
  BY StationAssumption, FiniteAssumption, FS_CardinalityType
<1> QED BY <1>1, <1>2 DEF Most

-----------------------------------------------------------------------------
(* Steps that give up places.                                              *)

\* No bike appears at a station, no ride begins, no slot is written, the clock
\* does not go back and no request to return or to keep a place is read.
GivesUp ==
    /\ \A b \in Bikes : bike'[b] = "AVAILABLE" => bike[b] = "AVAILABLE"
    /\ place' = place
    /\ \A r \in Rentals : Active(r)' => Active(r)
    /\ \A r \in Rentals : slot'[r] \in {slot[r], NoSlot}
    /\ now' >= now
    /\ \A s \in Sessions : cmd'[s] = cmd[s] \/ cmd'[s].op \notin {"return", "slot"}

LEMMA SlotsLapse ==
    ASSUME TypeOK, TypeOK', now' >= now, NEW st \in Stations, NEW r \in SlotsAt(st)',
           slot'[r] \in {slot[r], NoSlot}
    PROVE  r \in SlotsAt(st)
<1>1. r \in Rentals /\ slot'[r].st = st /\ slot'[r] # NoSlot /\ slot'[r].from + SlotHold > now'
  BY DEF SlotsAt, Unexpired
<1>2. slot'[r] = slot[r] /\ slot[r] \in Slots /\ now \in Int /\ now' \in Int
  BY <1>1 DEF TypeOK
<1>3. slot[r].from + SlotHold > now
  BY <1>1, <1>2, TimeAssumption DEF Slots
<1> QED BY <1>1, <1>2, <1>3 DEF SlotsAt, Unexpired

\* Fewer of everything: fewer claimed.
LEMMA Fewer ==
    ASSUME NEW st \in Stations, BikesAt(st)' \subseteq BikesAt(st),
           Claims(st)' \subseteq Claims(st), Promising(st)' \subseteq Promising(st)
    PROVE  Claimed(st)' <= Claimed(st)
<1>1. /\ Cardinality(BikesAt(st)') <= Cardinality(BikesAt(st))
      /\ Cardinality(Claims(st)') <= Cardinality(Claims(st))
      /\ Cardinality(Promising(st)') <= Cardinality(Promising(st))
  BY Parts, NoMore, FiniteAssumption
<1> QED BY <1>1, Numbers DEF Claimed

LEMMA GivenUp ==
    ASSUME TypeOK, TypeOK', GivesUp, NEW st \in Stations
    PROVE  Claimed(st)' <= Claimed(st)
<1>1. BikesAt(st)' \subseteq BikesAt(st)
  BY DEF GivesUp, BikesAt
<1>2. SlotsAt(st)' \subseteq SlotsAt(st)
  BY SlotsLapse, Parts DEF GivesUp
<1>3. BeingReturned(st)' \subseteq BeingReturned(st)
  BY DEF GivesUp, BeingReturned
<1>4. Promising(st)' \subseteq Promising(st)
  BY DEF GivesUp, Promising
<1> QED BY <1>1, <1>2, <1>3, <1>4, Fewer DEF Claims

-----------------------------------------------------------------------------
(* Steps that take places.                                                 *)

\* While a station has room, the requests in flight cannot claim more than one
\* place each.
LEMMA RoomLeaves ==
    ASSUME NEW st \in Stations, Load(st)' < Capacity[st]
    PROVE  Claimed(st)' <= Most(st)
<1> DEFINE going == BeingReturned(st)'
           of == [s \in Sessions |-> cmd'[s].r]
<1>1. \A r \in going : \E s \in Sessions \ Promising(st)' : of[s] = r
  BY DEF BeingReturned, Promising
<1> HIDE DEF of
<1>2. /\ IsFiniteSet(going) /\ Cardinality(going) \in Nat
      /\ Cardinality(going) + Cardinality(Promising(st)') <= Cardinality(Sessions)
  BY <1>1, OneEach, Parts, FiniteAssumption
<1>3. Claims(st)' = SlotsAt(st)' \cup going
  BY DEF Claims
<1> HIDE DEF going
<1>4. IsFiniteSet(SlotsAt(st)')
  BY Parts, Counted, FiniteAssumption
<1>5. /\ Cardinality(SlotsAt(st)' \cup going)
           = Cardinality(SlotsAt(st)') + Cardinality(going) - Cardinality(SlotsAt(st)' \cap going)
      /\ Cardinality(SlotsAt(st)' \cap going) \in Nat
  BY <1>2, <1>4, FS_Union, FS_Intersection, FS_CardinalityType
<1>6. Cardinality(Claims(st)') <= Cardinality(SlotsAt(st)') + Cardinality(going)
  BY <1>2, <1>3, <1>5, Numbers
<1>7. Cardinality(BikesAt(st)') + Cardinality(SlotsAt(st)') + Incoming[st] < Capacity[st]
  BY DEF Load
<1> QED BY <1>2, <1>6, <1>7, Numbers DEF Claimed

\* Reading a return claims a place that is free or that its own slot keeps.
LEMMA ReadReturn ==
    ASSUME TypeOK, NEW s \in Sessions, NEW r \in Rentals, NEW to \in Stations,
           PrepareReturn(s, r, to), NEW st \in Stations, Claimed(st) <= Most(st)
    PROVE  Claimed(st)' <= Most(st)
<1>1. /\ UNCHANGED <<status, bike, place, slot, now>>
      /\ (slot[r].st = to /\ Unexpired(slot[r], now)) \/ Room(to) > 0
      /\ cmd[s] = NoCmd
      /\ cmd' = [cmd EXCEPT ![s] = [op |-> "return", r |-> r, st |-> to,
                                    count |-> used[Owner[r]]]]
  BY DEF PrepareReturn, rentalRows, bikeRows
<1>2. /\ \A t \in Sessions : t # s => cmd'[t] = cmd[t]
      /\ cmd'[s].op = "return" /\ cmd'[s].r = r /\ cmd'[s].st = to
  BY <1>1 DEF TypeOK
<1>3. BikesAt(st)' = BikesAt(st) /\ SlotsAt(st)' = SlotsAt(st)
  BY <1>1 DEF BikesAt, SlotsAt, Unexpired
<1>4. Promising(st)' \subseteq Promising(st)
  BY <1>2 DEF Promising
<1>5. CASE st = to /\ Room(to) > 0
  BY <1>3, <1>5, RoomLeaves, Numbers DEF Load, Room
<1>6. CASE st # to \/ (slot[r].st = to /\ Unexpired(slot[r], now))
  <2>1. Claims(st)' \subseteq Claims(st)
    BY <1>1, <1>2, <1>3, <1>6 DEF Claims, BeingReturned, SlotsAt, Active
  <2>2. Claimed(st)' <= Claimed(st)
    BY <1>3, <1>4, <2>1, Fewer
  <2> QED BY <2>2, Numbers DEF Claimed
<1> QED BY <1>1, <1>5, <1>6

\* Reading a request for a slot claims a free place.
LEMMA ReadSlot ==
    ASSUME TypeOK, NEW s \in Sessions, NEW r \in Rentals, NEW to \in Stations,
           PrepareSlot(s, r, to), NEW st \in Stations, Claimed(st) <= Most(st)
    PROVE  Claimed(st)' <= Most(st)
<1>1. /\ UNCHANGED <<status, bike, place, slot, now>>
      /\ Room(to) > 0
      /\ cmd' = [cmd EXCEPT ![s] = [op |-> "slot", r |-> r, st |-> to, at |-> now,
                                    replaces |-> Unexpired(slot[r], now)]]
  BY DEF PrepareSlot, rentalRows, bikeRows
<1>2. /\ \A t \in Sessions : t # s => cmd'[t] = cmd[t]
      /\ cmd'[s].op = "slot" /\ cmd'[s].st = to
  BY <1>1 DEF TypeOK
<1>3. BikesAt(st)' = BikesAt(st) /\ SlotsAt(st)' = SlotsAt(st)
  BY <1>1 DEF BikesAt, SlotsAt, Unexpired
<1>4. CASE st = to
  BY <1>1, <1>3, <1>4, RoomLeaves, Numbers DEF Load, Room
<1>5. CASE st # to
  <2>1. Claims(st)' \subseteq Claims(st) /\ Promising(st)' \subseteq Promising(st)
    BY <1>1, <1>2, <1>3, <1>5 DEF Claims, BeingReturned, Promising, Active
  <2>2. Claimed(st)' <= Claimed(st)
    BY <1>3, <2>1, Fewer
  <2> QED BY <2>2, Numbers DEF Claimed
<1> QED BY <1>4, <1>5

\* Writing a return: the claim of the rental becomes a bike.
LEMMA WriteReturn ==
    ASSUME TypeOK, TypeOK', NEW s \in Sessions, CommitReturn(s), NEW st \in Stations
    PROVE  Claimed(st)' <= Claimed(st)
<1> DEFINE to == cmd[s].st
<1> PICK r \in Rentals : r = cmd[s].r
  BY Commands DEF CommitReturn, ReturnCmds
<1>1. /\ cmd[s].op = "return" /\ Active(r)
      /\ status' = [status EXCEPT ![r] = "COMPLETED"]
      /\ bike' = [bike EXCEPT ![BikeOf[r]] = "AVAILABLE"]
      /\ place' = [place EXCEPT ![BikeOf[r]] = to]
      /\ slot' = [slot EXCEPT ![r] = NoSlot]
      /\ cmd' = [cmd EXCEPT ![s] = NoCmd]
      /\ now' = now
  BY DEF CommitReturn
<1> HIDE DEF to
<1>2. /\ \A b \in Bikes : b # BikeOf[r] => bike'[b] = bike[b] /\ place'[b] = place[b]
      /\ BikeOf[r] \in Bikes => place'[BikeOf[r]] = to
      /\ \A q \in Rentals : q # r => status'[q] = status[q] /\ slot'[q] = slot[q]
      /\ status'[r] = "COMPLETED" /\ slot'[r] = NoSlot
      /\ \A t \in Sessions : cmd'[t] = cmd[t] \/ cmd'[t] = NoCmd
  BY <1>1 DEF TypeOK
<1>3. Promising(st)' \subseteq Promising(st)
  BY <1>2 DEF Promising, NoCmd
<1>4. SlotsAt(st)' \subseteq SlotsAt(st) \ {r}
  BY <1>1, <1>2 DEF SlotsAt, Unexpired
<1>5. BeingReturned(st)' \subseteq BeingReturned(st) \ {r}
  BY <1>2 DEF BeingReturned, Active, NoCmd
<1>6. Claims(st)' \subseteq Claims(st) \ {r}
  BY <1>4, <1>5 DEF Claims
<1>7. CASE st # to
  <2>1. BikesAt(st)' \subseteq BikesAt(st)
    BY <1>2, <1>7 DEF BikesAt
  <2> QED BY <1>3, <1>6, <2>1, Fewer
<1>8. CASE st = to
  <2>1. BikesAt(st)' \subseteq BikesAt(st) \cup {BikeOf[r]}
    BY <1>2 DEF BikesAt
  <2>2. Cardinality(BikesAt(st)') <= Cardinality(BikesAt(st)) + 1
    BY <2>1, Parts, OneMore, FiniteAssumption
  <2>3. r \in Claims(st)
    BY <1>1, <1>8 DEF Claims, BeingReturned, to
  <2>4. Cardinality(Claims(st)') <= Cardinality(Claims(st)) - 1
    BY <1>6, <2>3, Parts, OneLess, FiniteAssumption
  <2>5. Cardinality(Promising(st)') <= Cardinality(Promising(st))
    BY <1>3, Parts, NoMore, FiniteAssumption
  <2> QED BY <2>2, <2>4, <2>5, Numbers DEF Claimed
<1> QED BY <1>7, <1>8

\* Writing a slot: the session's claim becomes the rental's.
LEMMA WriteSlot ==
    ASSUME TypeOK, TypeOK', NEW s \in Sessions, CommitSlot(s), NEW st \in Stations
    PROVE  Claimed(st)' <= Claimed(st)
<1> DEFINE to == cmd[s].st
<1> PICK r \in Rentals : r = cmd[s].r
  BY Commands DEF CommitSlot, SlotCmds
<1>1. /\ cmd[s].op = "slot"
      /\ slot' = [slot EXCEPT ![r] = [st |-> to, from |-> cmd[s].at]]
      /\ cmd' = [cmd EXCEPT ![s] = NoCmd]
      /\ UNCHANGED <<status, bike, place, now>>
  BY DEF CommitSlot, rentalRows, bikeRows
<1> HIDE DEF to
<1>2. /\ \A q \in Rentals : q # r => slot'[q] = slot[q]
      /\ slot'[r].st = to
      /\ \A t \in Sessions : t # s => cmd'[t] = cmd[t]
      /\ cmd'[s] = NoCmd
  BY <1>1 DEF TypeOK
<1>3. BikesAt(st)' = BikesAt(st)
  BY <1>1 DEF BikesAt
<1>4. BeingReturned(st)' \subseteq BeingReturned(st)
  BY <1>1, <1>2 DEF BeingReturned, Active, NoCmd
<1>5. Promising(st)' \subseteq Promising(st) \ {s}
  BY <1>2 DEF Promising, NoCmd
<1>6. CASE st # to
  <2>1. SlotsAt(st)' \subseteq SlotsAt(st)
    BY <1>1, <1>2, <1>6 DEF SlotsAt, Unexpired
  <2> QED BY <1>3, <1>4, <1>5, <2>1, Fewer DEF Claims
<1>7. CASE st = to
  <2>1. SlotsAt(st)' \subseteq SlotsAt(st) \cup {r}
    BY <1>1, <1>2 DEF SlotsAt, Unexpired
  <2>2. Claims(st)' \subseteq Claims(st) \cup {r}
    BY <1>4, <2>1 DEF Claims
  <2>3. Cardinality(Claims(st)') <= Cardinality(Claims(st)) + 1
    BY <2>2, Parts, OneMore, FiniteAssumption
  <2>4. s \in Promising(st)
    BY <1>1, <1>7 DEF Promising, to
  <2>5. Cardinality(Promising(st)') <= Cardinality(Promising(st)) - 1
    BY <1>5, <2>4, Parts, OneLess, FiniteAssumption
  <2> QED BY <1>3, <2>3, <2>5, Numbers DEF Claimed
<1> QED BY <1>6, <1>7

\* Writing a start: nobody can be returning a ride that has not begun.
LEMMA WriteStart ==
    ASSUME TypeOK, StartInv, ReturnInv, NEW s \in Sessions, CommitStart(s), NEW st \in Stations
    PROVE  Claimed(st)' <= Claimed(st)
<1> PICK r \in Rentals : r = cmd[s].r
  BY Commands DEF CommitStart, StartCmds
<1>1. /\ status[r] = "NONE" /\ status' = [status EXCEPT ![r] = "RENTED"]
      /\ bike' = [bike EXCEPT ![BikeOf[r]] = "BOOKED"]
      /\ cmd' = [cmd EXCEPT ![s] = NoCmd]
      /\ UNCHANGED <<place, slot, now>>
  BY DEF CommitStart, StartInv
<1>2. /\ \A q \in Rentals : q # r => status'[q] = status[q]
      /\ \A t \in Sessions : cmd'[t] = cmd[t] \/ cmd'[t] = NoCmd
      /\ \A b \in Bikes : bike'[b] = "AVAILABLE" => bike[b] = "AVAILABLE"
  BY <1>1 DEF TypeOK
<1>3. BikesAt(st)' \subseteq BikesAt(st)
  BY <1>1, <1>2 DEF BikesAt
<1>4. SlotsAt(st)' = SlotsAt(st)
  BY <1>1 DEF SlotsAt, Unexpired
<1>5. BeingReturned(st)' \subseteq BeingReturned(st)
  BY <1>1, <1>2 DEF BeingReturned, Active, NoCmd, ReturnInv
<1>6. Promising(st)' \subseteq Promising(st)
  BY <1>2 DEF Promising, NoCmd
<1> QED BY <1>3, <1>4, <1>5, <1>6, Fewer DEF Claims

-----------------------------------------------------------------------------
(* The invariant.                                                          *)

\* Every other step gives up places or leaves them.
LEMMA RoomFrame ==
    ASSUME TypeOK, [Next]_vars
    PROVE  \/ \E s \in Sessions : CommitStart(s) \/ CommitReturn(s) \/ CommitSlot(s)
           \/ \E s \in Sessions, r \in Rentals, st \in Stations :
                PrepareReturn(s, r, st) \/ PrepareSlot(s, r, st)
           \/ GivesUp
<1>0. now \in Int
  BY DEF TypeOK
<1>1. ASSUME NEW s \in Sessions, NEW r \in Rentals, PrepareStart(s, r)
      PROVE  GivesUp
  <2>1. PICK withSub \in BOOLEAN :
          cmd' = [cmd EXCEPT ![s] = [op |-> "start", r |-> r, withSub |-> withSub,
                                     seen |-> sub[Owner[r]], count |-> used[Owner[r]]]]
    BY <1>1 DEF PrepareStart
  <2>2. \A t \in Sessions : cmd'[t] = cmd[t] \/ cmd'[t].op = "start"
    BY <2>1 DEF TypeOK
  <2> QED BY <1>0, <1>1, <2>2 DEF PrepareStart, rentalRows, bikeRows, GivesUp, Active
<1>2. ASSUME NEW r \in Rentals, SweepOverdue(r)
      PROVE  GivesUp
  <2>1. /\ \A b \in Bikes : bike'[b] = "AVAILABLE" => bike[b] = "AVAILABLE"
        /\ \A q \in Rentals : status'[q] = "RENTED" => status[q] = "RENTED"
    BY <1>2 DEF SweepOverdue, TypeOK
  <2> QED BY <1>0, <1>2, <2>1 DEF SweepOverdue, GivesUp, Active
<1>3. ASSUME (\E r \in Rentals : CancelSlot(r)) \/ ExpireSlots \/ NightCancelsSlots
      PROVE  GivesUp
  <2>1. /\ \A r \in Rentals : slot'[r] \in {slot[r], NoSlot}
        /\ UNCHANGED <<status, bike, place, cmd, now>>
    BY <1>3 DEF CancelSlot, ExpireSlots, NightCancelsSlots, rentalRows, bikeRows, TypeOK
  <2> QED BY <1>0, <2>1 DEF GivesUp, Active
<1>4. ASSUME NEW s \in Sessions, Abandon(s)
      PROVE  GivesUp
  <2>1. \A t \in Sessions : cmd'[t] = cmd[t] \/ cmd'[t].op = "none"
    BY <1>4 DEF Abandon, NoCmd, TypeOK
  <2> QED BY <1>0, <1>4, <2>1 DEF Abandon, rentalRows, bikeRows, GivesUp, Active
<1>5. CASE Tick
  BY <1>0, <1>5 DEF Tick, rentalRows, bikeRows, GivesUp, Active
<1>6. ASSUME NEW u \in Users,
             Spend(u) \/ UseElsewhere(u) \/ ActivateSubscription(u) \/ ExpireSubscription(u)
      PROVE  GivesUp
  BY <1>0, <1>6 DEF Spend, UseElsewhere, ActivateSubscription, ExpireSubscription,
     rentalRows, bikeRows, GivesUp, Active
<1>7. CASE UNCHANGED vars
  BY <1>0, <1>7 DEF vars, GivesUp, Active
<1> QED BY <1>1, <1>2, <1>3, <1>4, <1>5, <1>6, <1>7 DEF Next

\* Rentals never go back to not existing, and a return is read of one that
\* is going on.
LEMMA ReturnStep == IInv /\ ReturnInv /\ [Next]_vars => ReturnInv'
<1> SUFFICES ASSUME IInv, ReturnInv, [Next]_vars PROVE ReturnInv'
  OBVIOUS
<1>0. TypeOK
  BY DEF IInv
<1>1. \A r \in Rentals : status[r] # "NONE" => status'[r] # "NONE"
  <2>1. ASSUME NEW s \in Sessions, CommitStart(s) \/ CommitReturn(s)
        PROVE  \A r \in Rentals : status[r] # "NONE" => status'[r] # "NONE"
    BY <1>0, <2>1 DEF CommitStart, CommitReturn, TypeOK
  <2>2. ASSUME NEW q \in Rentals, SweepOverdue(q)
        PROVE  \A r \in Rentals : status[r] # "NONE" => status'[r] # "NONE"
    BY <1>0, <2>2 DEF SweepOverdue, TypeOK
  <2> QED BY <2>1, <2>2, RowsFrame
<1>2. ASSUME NEW s \in Sessions, cmd'[s].op = "return"
      PROVE  cmd'[s].r \in Rentals /\ status[cmd'[s].r] # "NONE"
  <2>1. CASE cmd'[s] = cmd[s]
    BY <1>0, <1>2, <2>1, Commands DEF ReturnInv, ReturnCmds
  <2>2. CASE \E t \in Sessions, r \in Rentals, st \in Stations : PrepareReturn(t, r, st)
    <3> PICK t \in Sessions, r \in Rentals, st \in Stations : PrepareReturn(t, r, st)
      BY <2>2
    <3>1. /\ cmd' = [cmd EXCEPT ![t] = [op |-> "return", r |-> r, st |-> st,
                                        count |-> used[Owner[r]]]]
          /\ status[r] = "RENTED"
      BY DEF PrepareReturn, Active
    <3>2. cmd'[s] = cmd[s] \/ cmd'[s].r = r
      BY <1>0, <3>1 DEF TypeOK
    <3> QED BY <2>1, <3>1, <3>2
  <2>3. ASSUME NEW t \in Sessions, NEW r \in Rentals, NEW st \in Stations, PrepareSlot(t, r, st)
        PROVE  cmd'[s] = cmd[s]
    BY <1>0, <1>2, <2>3 DEF PrepareSlot, TypeOK
  <2>4. ASSUME NEW t \in Sessions, CommitStart(t) \/ CommitReturn(t) \/ CommitSlot(t)
        PROVE  cmd'[s] = cmd[s]
    <3>1. cmd' = [cmd EXCEPT ![t] = NoCmd]
      BY <2>4 DEF CommitStart, CommitReturn, CommitSlot
    <3> QED BY <1>0, <1>2, <3>1 DEF NoCmd, TypeOK
  <2>5. CASE GivesUp
    BY <1>2, <2>1, <2>5 DEF GivesUp
  <2> QED BY <1>0, <2>1, <2>2, <2>3, <2>4, <2>5, RoomFrame
<1> QED BY <1>1, <1>2 DEF ReturnInv

LEMMA ClaimsStep == IInv /\ IInv' /\ RoomInv /\ [Next]_vars => ClaimsFit'
<1> SUFFICES ASSUME IInv, IInv', RoomInv, [Next]_vars, NEW st \in Stations
             PROVE  Claimed(st)' <= Most(st)
  BY DEF ClaimsFit, Most
<1>0. TypeOK /\ TypeOK' /\ StartInv /\ ReturnInv /\ Claimed(st) <= Most(st)
  BY DEF IInv, RoomInv, ClaimsFit
<1>1. ASSUME NEW s \in Sessions, CommitStart(s) \/ CommitReturn(s) \/ CommitSlot(s)
      PROVE  Claimed(st)' <= Claimed(st)
  BY <1>0, <1>1, WriteStart, WriteReturn, WriteSlot
<1>2. ASSUME NEW s \in Sessions, NEW r \in Rentals, NEW to \in Stations,
             PrepareReturn(s, r, to) \/ PrepareSlot(s, r, to)
      PROVE  Claimed(st)' <= Most(st)
  BY <1>0, <1>2, ReadReturn, ReadSlot
<1>3. ASSUME GivesUp
      PROVE  Claimed(st)' <= Claimed(st)
  BY <1>0, <1>3, GivenUp
<1>4. Claimed(st) \in Int /\ Claimed(st)' \in Int /\ Most(st) \in Int
  <2>1. Claimed(st)' = Cardinality(BikesAt(st)') + Cardinality(Claims(st)')
                         + Cardinality(Promising(st)') + Incoming[st]
    BY DEF Claimed
  <2> QED BY <2>1, Numbers DEF Claimed
<1> QED BY <1>0, <1>1, <1>2, <1>3, <1>4, RoomFrame

LEMMA RoomInit == Init => RoomInv
<1> SUFFICES ASSUME Init PROVE RoomInv
  OBVIOUS
<1>1. ReturnInv
  BY DEF Init, ReturnInv, NoCmd
<1>2. ASSUME NEW st \in Stations
      PROVE  Claimed(st) <= Most(st)
  <2>1. Claims(st) = {} /\ Promising(st) = {}
    BY DEF Init, Claims, SlotsAt, BeingReturned, Promising, Unexpired, NoCmd
  <2>2. BikesAt(st) = {b \in Bikes : Home[b] = st}
    BY DEF Init, BikesAt
  <2>3. Cardinality(Claims(st)) = 0 /\ Cardinality(Promising(st)) = 0
    BY <2>1, FS_EmptySet
  <2>4. Cardinality(BikesAt(st)) + Incoming[st] <= Most(st)
    BY <2>2, MorningAssumption DEF Most
  <2> QED BY <2>3, <2>4, Numbers DEF Claimed
<1> QED BY <1>1, <1>2 DEF RoomInv, ClaimsFit

LEMMA RoomInvariance == Spec => []RoomInv
<1>1. IInv /\ IInv' /\ RoomInv /\ [Next]_vars => RoomInv'
  BY ReturnStep, ClaimsStep DEF RoomInv
<1> QED BY <1>1, RoomInit, Invariance, PTL DEF Spec

LEMMA ClaimsBound == ClaimsFit => OvershootIsBounded
<1> SUFFICES ASSUME ClaimsFit, NEW st \in Stations PROVE Load(st) <= Most(st)
  BY DEF OvershootIsBounded, Most
<1>1. Claimed(st) <= Most(st)
  BY DEF ClaimsFit
<1>2. Cardinality(SlotsAt(st)) <= Cardinality(Claims(st))
  BY Parts, NoMore, FiniteAssumption DEF Claims
<1> QED BY <1>1, <1>2, Numbers DEF Claimed, Load

\* However many returns and slots race for the last places of a station, it is
\* overfilled by less than the number of requests in flight together.
THEOREM OvershootCorrect == Spec => []OvershootIsBounded
BY RoomInvariance, ClaimsBound, PTL DEF RoomInv
=============================================================================
