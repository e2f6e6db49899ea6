-------------------------------- MODULE Fleet --------------------------------
(***************************************************************************)
(* Who has a bike: rides, bike swaps and redistribution requests all write *)
(* bikes.status, which does not say for whom.  Most of these writes go by  *)
(* the bike's id alone and undo or continue what the handler has read      *)
(* about its own rental or request.                                        *)
(*                                                                         *)
(* A handler is a transaction under READ COMMITTED that locks nothing it   *)
(* reads.  It is two steps of a session: Prepare evaluates the checks and  *)
(* remembers what the writes will use, Commit writes.  A write that fails, *)
(* a client that goes away and a server that dies leave nothing behind:    *)
(* Abandon.  The expiry sweep is not a transaction: it reads, releases the *)
(* bikes and cancels the requests one after the other and may die between. *)
(***************************************************************************)
EXTENDS FiniteSets, Integers

CONSTANTS
    Bikes, Stations, Rides, Swaps, Requests, Sessions,
    Home,        \* where each bike stands at first
    RideOf,      \* the rental each bike swap request belongs to
    Capacity,    \* per station
    MinLeft,     \* min_available_bikes_at_station, 10 by default
    MaxRows,     \* how many rentals and requests a behaviour may have
    Repeats,     \* the stations that may name a bike twice when it arrives
    NoBike, NoRoute

Routes == {r \in [from : Stations, to : Stations] : r.from # r.to}

ASSUME FleetAssumption ==
    /\ Home \in [Bikes -> Stations]
    /\ RideOf \in [Swaps -> Rides]
    /\ Capacity \in [Stations -> Nat]
    /\ MinLeft \in Nat /\ MaxRows \in Nat /\ Repeats \subseteq Stations
    /\ NoBike \notin Bikes /\ NoRoute \notin Routes

VARIABLES
    bike, place,       \* bikes.status and bikes.station_id
    ride, rideBike,    \* rentals.status and rentals.bike_id
    swap, oldBike,     \* bike_swap_requests.status and old_bike_id
    req, route,        \* redistribution_requests: status, source and target
    items, delivered,  \* its items, and those with a delivered_at
    completed,         \* the requests with a completed_at
    sweep,             \* the expiry sweep: where it stands, what it has read
    cmd                \* what each session has read and is about to write

bikeRows == <<bike, place>>
rideRows == <<ride, rideBike>>
swapRows == <<swap, oldBike>>
requestRows == <<req, route, items, delivered, completed>>
vars == <<bike, place, ride, rideBike, swap, oldBike, req, route, items,
          delivered, completed, sweep, cmd>>

Taken == {"BOOKED", "PENDING_DISPATCH", "TRANSPORTING"}
BikeStatuses == Taken \cup {"AVAILABLE", "BROKEN", "DISABLED"}
InStation == BikeStatuses \ {"BOOKED", "DISABLED"}
OnTheRoad == {"IN_TRANSIT", "PARTIALLY_COMPLETED"}
Open == OnTheRoad \cup {"PENDING_APPROVAL", "APPROVED"}
Terminal == {"COMPLETED", "CANCELLED", "REJECTED", "REVERTED"}

NoCmd == [op |-> "none"]
Idle == [pc |-> "idle", list |-> {}]
CreateCmds == [op : {"create"}, q : Requests, bikes : SUBSET Bikes,
               route : Routes]
ReviewCmds == [op : {"close", "approve", "start"}, q : Requests, seen : Open]
ArrivalCmds == [op : {"confirm", "revert"}, q : Requests, seen : Open,
                road : SUBSET Bikes, bikes : SUBSET Bikes, full : BOOLEAN]
EndCmds == [op : {"end"}, rd : Rides, b : Bikes]
SwapCmds == [op : {"request", "approveSwap", "rejectSwap"}, w : Swaps,
             old : Bikes, new : Bikes]

Active(rd) == ride[rd] = "RENTED"

BikesOf(st, statuses) == {b \in Bikes : place[b] = st /\ bike[b] \in statuses}

(* Undelivered items of the requests approved for a station. *)
Incoming(st) ==
    UNION {{q} \X (items[q] \ delivered[q]) :
             q \in {p \in Requests : /\ req[p] \in Open \ {"PENDING_APPROVAL"}
                                     /\ p \notin completed /\ route[p].to = st}}

Room(st) ==
    Capacity[st] - Cardinality(BikesOf(st, InStation)) - Cardinality(Incoming(st))

(* The unique index on the bike of a RENTED row. *)
NobodyElseRides(rd, b) == \A o \in Rides : Active(o) /\ o # rd => rideBike[o] # b

(* Rentals and requests that exist or are about to be inserted. *)
Rows ==
    Cardinality({rd \in Rides : ride[rd] # "NONE"})
    + Cardinality({q \in Requests : req[q] # "NONE"})
    + Cardinality({s \in Sessions : cmd[s].op = "create"})

SetAll(f, S, v) == [x \in DOMAIN f |-> IF x \in S THEN v ELSE f[x]]

Init ==
    /\ bike = [b \in Bikes |-> "AVAILABLE"]
    /\ place = Home
    /\ ride = [rd \in Rides |-> "NONE"]
    /\ rideBike = [rd \in Rides |-> NoBike]
    /\ swap = [w \in Swaps |-> "NONE"]
    /\ oldBike = [w \in Swaps |-> NoBike]
    /\ req = [q \in Requests |-> "NONE"]
    /\ route = [q \in Requests |-> NoRoute]
    /\ items = [q \in Requests |-> {}]
    /\ delivered = [q \in Requests |-> {}]
    /\ completed = {}
    /\ sweep = Idle
    /\ cmd = [s \in Sessions |-> NoCmd]
-----------------------------------------------------------------------------
(* What the steps of a session have in common. *)

Read(s, c) ==
    /\ cmd[s] = NoCmd
    /\ cmd' = [cmd EXCEPT ![s] = c]
    /\ UNCHANGED <<bikeRows, rideRows, swapRows, requestRows, sweep>>

Done(s) == cmd' = [cmd EXCEPT ![s] = NoCmd]

Abandon(s) ==
    /\ cmd[s] # NoCmd
    /\ Done(s)
    /\ UNCHANGED <<bikeRows, rideRows, swapRows, requestRows, sweep>>
-----------------------------------------------------------------------------
(* Rides.  Deposit, price and return slots are the business of Rental. *)

(* The one status update that looks: bookBikeIfAvailable. *)
StartRide(rd, b) ==
    /\ ride[rd] = "NONE" /\ Rows < MaxRows
    /\ bike[b] = "AVAILABLE"
    /\ NobodyElseRides(rd, b)
    /\ ride' = [ride EXCEPT ![rd] = "RENTED"]
    /\ rideBike' = [rideBike EXCEPT ![rd] = b]
    /\ bike' = [bike EXCEPT ![b] = "BOOKED"]
    /\ UNCHANGED <<place, swapRows, requestRows, sweep, cmd>>

(* An operator's return and the overdue sweep read the rental and its bike. *)
PrepareEnd(s, rd) ==
    /\ Active(rd)
    /\ Read(s, [op |-> "end", rd |-> rd, b |-> rideBike[rd]])

\* Mutant: the rental's end does not ask whether it is still RENTED.
MutCommitEnd(s) ==
    LET c == cmd[s] IN
    /\ c.op = "end"
    /\ ride' = [ride EXCEPT ![c.rd] = "ENDED"]
    /\ \/ /\ bike' = [bike EXCEPT ![c.b] = "AVAILABLE"]
          /\ \E st \in Stations : place' = [place EXCEPT ![c.b] = st]
       \/ /\ bike' = [bike EXCEPT ![c.b] = "DISABLED"]
          /\ UNCHANGED place
    /\ Done(s)
    /\ UNCHANGED <<rideBike, swapRows, requestRows, sweep>>

(* updateRentalOnEnd and markOverdueUnreturned test the rental's status; the
   bike they release, at the station of the return, or disable is the one that
   was read. *)
CommitEnd(s) ==
    LET c == cmd[s] IN
    /\ c.op = "end"
    /\ Active(c.rd)
    /\ ride' = [ride EXCEPT ![c.rd] = "ENDED"]
    /\ \/ /\ bike' = [bike EXCEPT ![c.b] = "AVAILABLE"]
          /\ \E st \in Stations : place' = [place EXCEPT ![c.b] = st]
       \/ /\ bike' = [bike EXCEPT ![c.b] = "DISABLED"]
          /\ UNCHANGED place
    /\ Done(s)
    /\ UNCHANGED <<rideBike, swapRows, requestRows, sweep>>
-----------------------------------------------------------------------------
(* Bike swaps. *)

PrepareRequestSwap(s, w) ==
    LET rd == RideOf[w] IN
    /\ swap[w] = "NONE"
    /\ Active(rd)
    /\ Read(s, [op |-> "request", w |-> w, old |-> rideBike[rd], new |-> rideBike[rd]])

\* Mutant: the request does not say which bike is to be swapped.
MutCommitRequestSwap(s) ==
    LET c == cmd[s] IN
    /\ c.op = "request"
    /\ swap[c.w] = "NONE"
    /\ \A w \in Swaps : RideOf[w] = RideOf[c.w] => swap[w] # "PENDING"
    /\ swap' = [swap EXCEPT ![c.w] = "PENDING"]
    /\ Done(s)
    /\ UNCHANGED <<bikeRows, rideRows, oldBike, requestRows, sweep>>

(* One PENDING request per rental is a unique index. *)
CommitRequestSwap(s) ==
    LET c == cmd[s] IN
    /\ c.op = "request"
    /\ swap[c.w] = "NONE"
    /\ \A w \in Swaps : RideOf[w] = RideOf[c.w] => swap[w] # "PENDING"
    /\ swap' = [swap EXCEPT ![c.w] = "PENDING"]
    /\ oldBike' = [oldBike EXCEPT ![c.w] = c.old]
    /\ Done(s)
    /\ UNCHANGED <<bikeRows, rideRows, requestRows, sweep>>

(* Any AVAILABLE bike of the station the customer named, which may be any.
   Neither here nor below does anybody look at the rental's status. *)
PrepareReviewSwap(s, w) ==
    /\ swap[w] = "PENDING"
    /\ \/ \E b \in Bikes :
            /\ bike[b] = "AVAILABLE"
            /\ Read(s, [op |-> "approveSwap", w |-> w, old |-> oldBike[w], new |-> b])
       \/ Read(s, [op |-> "rejectSwap", w |-> w, old |-> oldBike[w], new |-> oldBike[w]])

CommitApproveSwap(s) ==
    LET c == cmd[s]
        rd == RideOf[c.w] IN
    /\ c.op = "approveSwap"
    /\ Active(rd) => NobodyElseRides(rd, c.new)
    /\ bike' = [bike EXCEPT ![c.new] = "BOOKED", ![c.old] = "BROKEN"]
    /\ swap' = [swap EXCEPT ![c.w] = "CONFIRMED"]
    /\ rideBike' = [rideBike EXCEPT ![rd] = c.new]
    /\ Done(s)
    /\ UNCHANGED <<place, ride, oldBike, requestRows, sweep>>

CommitRejectSwap(s) ==
    LET c == cmd[s] IN
    /\ c.op = "rejectSwap"
    /\ swap' = [swap EXCEPT ![c.w] = "REJECTED"]
    /\ Done(s)
    /\ UNCHANGED <<bikeRows, rideRows, oldBike, requestRows, sweep>>
-----------------------------------------------------------------------------
(* Redistribution. *)

NoOpenRequestAt(st) ==
    \A q \in Requests : route[q] # NoRoute /\ route[q].from = st =>
                          req[q] \in Terminal \/ q \in completed

PrepareCreate(s, q) ==
    /\ req[q] = "NONE" /\ Rows < MaxRows
    /\ \A t \in Sessions : cmd[t].op = "create" => cmd[t].q # q
    /\ \E r \in Routes :
         /\ NoOpenRequestAt(r.from)
         /\ \E picked \in SUBSET BikesOf(r.from, {"AVAILABLE"}) \ {{}} :
              /\ Cardinality(BikesOf(r.from, {"AVAILABLE"}) \ picked) >= MinLeft
              /\ Room(r.to) >= Cardinality(picked)
              /\ Read(s, [op |-> "create", q |-> q, bikes |-> picked, route |-> r])

\* Mutant: the request is created without its items.
MutCommitCreate(s) ==
    LET c == cmd[s] IN
    /\ c.op = "create"
    /\ req' = [req EXCEPT ![c.q] = "PENDING_APPROVAL"]
    /\ route' = [route EXCEPT ![c.q] = c.route]
    /\ bike' = SetAll(bike, c.bikes, "PENDING_DISPATCH")
    /\ Done(s)
    /\ UNCHANGED <<place, rideRows, swapRows, items, delivered, completed, sweep>>

CommitCreate(s) ==
    LET c == cmd[s] IN
    /\ c.op = "create"
    /\ req' = [req EXCEPT ![c.q] = "PENDING_APPROVAL"]
    /\ route' = [route EXCEPT ![c.q] = c.route]
    /\ items' = [items EXCEPT ![c.q] = c.bikes]
    /\ bike' = SetAll(bike, c.bikes, "PENDING_DISPATCH")
    /\ Done(s)
    /\ UNCHANGED <<place, rideRows, swapRows, delivered, completed, sweep>>

(* The creator cancels the request or starts the transport, the target
   station's manager approves or rejects it. *)
PrepareReview(s, q) ==
    \/ /\ req[q] = "PENDING_APPROVAL"
       /\ Read(s, [op |-> "close", q |-> q, seen |-> req[q]])
    \/ /\ req[q] = "PENDING_APPROVAL"
       /\ Room(route[q].to) >= Cardinality(items[q])
       /\ Read(s, [op |-> "approve", q |-> q, seen |-> req[q]])
    \/ /\ req[q] = "APPROVED"
       /\ Read(s, [op |-> "start", q |-> q, seen |-> req[q]])

\* Mutant: cancelling and rejecting keep the bikes.
MutCommitClose(s) ==
    LET c == cmd[s] IN
    /\ c.op = "close"
    /\ \E end \in {"CANCELLED", "REJECTED"} : req' = [req EXCEPT ![c.q] = end]
    /\ Done(s)
    /\ UNCHANGED <<bikeRows, rideRows, swapRows, route, items, delivered, completed, sweep>>

CommitClose(s) ==
    LET c == cmd[s] IN
    /\ c.op = "close"
    /\ bike' = SetAll(bike, items[c.q], "AVAILABLE")
    /\ \E end \in {"CANCELLED", "REJECTED"} : req' = [req EXCEPT ![c.q] = end]
    /\ Done(s)
    /\ UNCHANGED <<place, rideRows, swapRows, route, items, delivered, completed, sweep>>

CommitApprove(s) ==
    LET c == cmd[s] IN
    /\ c.op = "approve"
    /\ req' = [req EXCEPT ![c.q] = "APPROVED"]
    /\ Done(s)
    /\ UNCHANGED <<bikeRows, rideRows, swapRows, route, items, delivered, completed, sweep>>

CommitTransit(s) ==
    LET c == cmd[s] IN
    /\ c.op = "start"
    /\ bike' = SetAll(bike, items[c.q], "TRANSPORTING")
    /\ req' = [req EXCEPT ![c.q] = "IN_TRANSIT"]
    /\ Done(s)
    /\ UNCHANGED <<place, rideRows, swapRows, route, items, delivered, completed, sweep>>

(* What is still on the road is told by the bikes' status alone, whether or
   not the item has a delivered_at. *)
Unconfirmed(q) == {b \in items[q] : bike[b] = "TRANSPORTING"}

\* Mutant: a request may be confirmed or reverted whatever its status.
MutPrepareArrival(s, q) ==
    LET road == Unconfirmed(q) IN
    /\ req[q] \in Open \cup Terminal
    /\ \/ \E valid \in SUBSET road \ {{}}, full \in BOOLEAN :
            /\ full # (valid = road) => route[q].to \in Repeats
            /\ Read(s, [op |-> "confirm", q |-> q, seen |-> req[q], road |-> road,
                        bikes |-> valid, full |-> full])
       \/ Read(s, [op |-> "revert", q |-> q, seen |-> req[q], road |-> road,
                   bikes |-> road, full |-> TRUE])

(* The lengths of two lists decide whether this is all of it.  The caller's may
   name a bike twice: it is then as long as the other without naming all, or
   longer although it does. *)
PrepareArrival(s, q) ==
    LET road == Unconfirmed(q) IN
    /\ req[q] \in OnTheRoad
    /\ \/ \E valid \in SUBSET road \ {{}}, full \in BOOLEAN :
            /\ full # (valid = road) => route[q].to \in Repeats
            /\ Read(s, [op |-> "confirm", q |-> q, seen |-> req[q], road |-> road,
                        bikes |-> valid, full |-> full])
       \/ Read(s, [op |-> "revert", q |-> q, seen |-> req[q], road |-> road,
                   bikes |-> road, full |-> TRUE])

\* Mutant: every confirmation completes the request.
MutCommitConfirm(s) ==
    LET c == cmd[s] IN
    /\ c.op = "confirm"
    /\ delivered' = [delivered EXCEPT ![c.q] = @ \cup c.bikes]
    /\ bike' = SetAll(bike, c.bikes, "AVAILABLE")
    /\ place' = SetAll(place, c.bikes, route[c.q].to)
    /\ req' = [req EXCEPT ![c.q] = "COMPLETED"]
    /\ completed' = completed \cup {c.q}
    /\ Done(s)
    /\ UNCHANGED <<rideRows, swapRows, route, items, sweep>>

CommitConfirm(s) ==
    LET c == cmd[s] IN
    /\ c.op = "confirm"
    /\ delivered' = [delivered EXCEPT ![c.q] = @ \cup c.bikes]
    /\ bike' = SetAll(bike, c.bikes, "AVAILABLE")
    /\ place' = SetAll(place, c.bikes, route[c.q].to)
    /\ req' = [req EXCEPT ![c.q] = IF c.full THEN "COMPLETED" ELSE "PARTIALLY_COMPLETED"]
    /\ completed' = IF c.full THEN completed \cup {c.q} ELSE completed
    /\ Done(s)
    /\ UNCHANGED <<rideRows, swapRows, route, items, sweep>>

CommitRevert(s) ==
    LET c == cmd[s] IN
    /\ c.op = "revert"
    /\ bike' = SetAll(bike, c.bikes, "AVAILABLE")
    /\ req' = [req EXCEPT ![c.q] = "REVERTED"]
    /\ completed' = completed \cup {c.q}
    /\ Done(s)
    /\ UNCHANGED <<place, rideRows, swapRows, route, items, delivered, sweep>>
-----------------------------------------------------------------------------
(* The sweep that cancels requests nobody has approved within 24 hours. *)

(* The old ones among the requests that wait; any of them may be. *)
SweepScan ==
    /\ sweep = Idle
    /\ \E list \in SUBSET {q \in Requests : req[q] = "PENDING_APPROVAL"} \ {{}} :
         sweep' = [pc |-> "scanned", list |-> list]
    /\ UNCHANGED <<bikeRows, rideRows, swapRows, requestRows, cmd>>

SweepRelease ==
    /\ sweep.pc = "scanned"
    /\ bike' = SetAll(bike, UNION {items[q] : q \in sweep.list}, "AVAILABLE")
    /\ sweep' = [sweep EXCEPT !.pc = "released"]
    /\ UNCHANGED <<place, rideRows, swapRows, requestRows, cmd>>

SweepCancel ==
    /\ sweep.pc = "released"
    /\ req' = SetAll(req, sweep.list, "CANCELLED")
    /\ sweep' = Idle
    /\ UNCHANGED <<bikeRows, rideRows, swapRows, route, items, delivered, completed, cmd>>

SweepDies ==
    /\ sweep # Idle
    /\ sweep' = Idle
    /\ UNCHANGED <<bikeRows, rideRows, swapRows, requestRows, cmd>>
-----------------------------------------------------------------------------
Next ==
    \/ \E rd \in Rides, b \in Bikes : StartRide(rd, b)
    \/ \E s \in Sessions, rd \in Rides : PrepareEnd(s, rd)
    \/ \E s \in Sessions, w \in Swaps : PrepareRequestSwap(s, w)
    \/ \E s \in Sessions, w \in Swaps : PrepareReviewSwap(s, w)
    \/ \E s \in Sessions, q \in Requests : PrepareCreate(s, q)
    \/ \E s \in Sessions, q \in Requests : PrepareReview(s, q)
    \/ \E s \in Sessions, q \in Requests : PrepareArrival(s, q)
    \/ \E s \in Sessions : CommitEnd(s)
    \/ \E s \in Sessions : CommitRequestSwap(s)
    \/ \E s \in Sessions : CommitApproveSwap(s)
    \/ \E s \in Sessions : CommitRejectSwap(s)
    \/ \E s \in Sessions : CommitCreate(s)
    \/ \E s \in Sessions : CommitClose(s)
    \/ \E s \in Sessions : CommitApprove(s)
    \/ \E s \in Sessions : CommitTransit(s)
    \/ \E s \in Sessions : CommitConfirm(s)
    \/ \E s \in Sessions : CommitRevert(s)
    \/ \E s \in Sessions : Abandon(s)
    \/ SweepScan
    \/ SweepRelease
    \/ SweepCancel
    \/ SweepDies

Spec == Init /\ [][Next]_vars
-----------------------------------------------------------------------------
BikesOK ==
    /\ bike \in [Bikes -> BikeStatuses]
    /\ place \in [Bikes -> Stations]

RidesOK ==
    /\ ride \in [Rides -> {"NONE", "RENTED", "ENDED"}]
    /\ rideBike \in [Rides -> Bikes \cup {NoBike}]
    /\ \A rd \in Rides : ride[rd] # "NONE" => rideBike[rd] \in Bikes

SwapsOK ==
    /\ swap \in [Swaps -> {"NONE", "PENDING", "CONFIRMED", "REJECTED"}]
    /\ oldBike \in [Swaps -> Bikes \cup {NoBike}]
    /\ \A w \in Swaps : swap[w] # "NONE" => oldBike[w] \in Bikes

RequestsOK ==
    /\ req \in [Requests -> {"NONE"} \cup Open \cup Terminal]
    /\ route \in [Requests -> Routes \cup {NoRoute}]
    /\ \A q \in Requests : req[q] # "NONE" => route[q] \in Routes
    /\ items \in [Requests -> SUBSET Bikes]
    /\ delivered \in [Requests -> SUBSET Bikes]
    /\ completed \subseteq Requests

SessionsOK ==
    /\ sweep \in [pc : {"idle", "scanned", "released"}, list : SUBSET Requests]
    /\ cmd \in [Sessions -> {NoCmd} \cup CreateCmds \cup ReviewCmds \cup ArrivalCmds
                              \cup EndCmds \cup SwapCmds]

(* Every variable has its type: the rows that bikes, rentals, swaps and
   redistribution requests can be, and what the sweep and a session in flight
   have read. *)
TypeOK == BikesOK /\ RidesOK /\ SwapsOK /\ RequestsOK /\ SessionsOK

(* Who counts on a bike: the ride that has it, and the open requests that have
   yet to deliver it.  A request whose bikes the sweep has released, and which
   it is about to cancel, does no more. *)
BeingSwept(q) == sweep.pc = "released" /\ q \in sweep.list
RiddenBy(rd, b) == Active(rd) /\ rideBike[rd] = b
CarriedBy(q, b) == req[q] \in Open /\ ~BeingSwept(q) /\ b \in items[q] \ delivered[q]
Ridden(b) == \E rd \in Rides : RiddenBy(rd, b)
Carried(b) == \E q \in Requests : CarriedBy(q, b)

StatusFor(q) == IF req[q] \in OnTheRoad THEN "TRANSPORTING" ELSE "PENDING_DISPATCH"

(* The bike's status says who counts on it, and nobody else does. *)
RiddenInOrder(b) == bike[b] = "BOOKED" /\ Ridden(b) /\ ~Carried(b)
CarriedInOrder(b) ==
    /\ \E q \in Requests :
         /\ bike[b] = StatusFor(q) /\ CarriedBy(q, b)
         /\ \A p \in Requests : CarriedBy(p, b) => p = q
    /\ ~Ridden(b)
FreeInOrder(b) == bike[b] \notin Taken /\ ~Ridden(b) /\ ~Carried(b)
InOrder(b) == RiddenInOrder(b) \/ CarriedInOrder(b) \/ FreeInOrder(b)

(* When the writes of a command put a bike out of order: what it has read of the
   request, the rental or the bike is not so any more; it counts a bike on the
   road that the request has delivered, or counts one twice; the swap is of a
   ride that has ended or has another bike by now. *)
Late(c) == req[c.q] # c.seen

Disturbs(c, b) ==
    CASE c.op = "create" -> b \in c.bikes /\ bike[b] # "AVAILABLE"
      [] c.op = "close" -> b \in items[c.q] /\ (Late(c) \/ BeingSwept(c.q))
      [] c.op = "approve" -> b \in items[c.q] \ delivered[c.q] /\ Late(c)
      [] c.op = "start" ->
           b \in items[c.q] /\ (Late(c) \/ BeingSwept(c.q) \/ b \in delivered[c.q])
      [] c.op \in {"confirm", "revert"} ->
           \/ b \in c.bikes /\ (b \in delivered[c.q] \/ BeingSwept(c.q))
           \/ b \in c.road \ c.bikes /\ c.full
           \/ /\ b \in c.bikes \cup (items[c.q] \ delivered[c.q])
              /\ Late(c) \/ ~(b \in c.road <=> bike[b] = "TRANSPORTING")
      [] c.op = "end" -> rideBike[c.rd] # c.b /\ b \in {c.b, rideBike[c.rd]}
      [] c.op = "approveSwap" ->
           \/ b = c.new /\ bike[b] # "AVAILABLE"
           \/ /\ ~RiddenBy(RideOf[c.w], c.old)
              /\ b \in {c.old, c.new, rideBike[RideOf[c.w]]}
      [] OTHER -> FALSE

Commits(s) == cmd'[s] = NoCmd /\ cmd[s] # NoCmd

(* The sweep's two updates are not one transaction: a request is approved
   between its read and its first update, or it dies before the second. *)
SweepDisturbs(b) ==
    /\ sweep'.pc # sweep.pc
    /\ \E q \in sweep.list :
         /\ b \in items[q]
         /\ \/ sweep.pc = "scanned" /\ req[q] # "PENDING_APPROVAL"
            \/ sweep.pc = "released" /\ req'[q] \in Open

Disturbed(b) == SweepDisturbs(b) \/ \E s \in Sessions : Commits(s) /\ Disturbs(cmd[s], b)

(* A bike somebody rides stays theirs, BOOKED and in no request, until they
   return it, swap it or lose it to the overdue sweep, whatever rides, swaps
   and requests come and go: only a disturbance takes it. *)
RiddenBikeIsKept ==
    [][\A b \in Bikes : RiddenInOrder(b) => InOrder(b)' \/ Disturbed(b)]_vars

(* A bike set aside or on its way for a request stays so until it is delivered
   or given back: nobody rents it and no other request takes it, but for a
   disturbance. *)
CarriedBikeIsKept ==
    [][\A b \in Bikes : CarriedInOrder(b) => InOrder(b)' \/ Disturbed(b)]_vars

(* Nobody's bike is not blocked, and whoever takes it is the only one: no bike
   remains BOOKED without a ride or set aside without a request, but for a
   disturbance. *)
FreeBikeIsKept ==
    [][\A b \in Bikes : FreeInOrder(b) => InOrder(b)' \/ Disturbed(b)]_vars

(* A confirmation completes a request exactly when it delivers the last of its
   bikes, provided they are in order, none is counted among those on the road
   that has been delivered, and none is named twice. *)
CompletedIsDelivered ==
    [][\A s \in Sessions :
         LET c == cmd[s]
             q == c.q IN
         /\ c.op = "confirm" /\ Commits(s) /\ delivered'[q] # delivered[q]
         /\ \A b \in items[q] : InOrder(b) /\ ~Disturbed(b)
         /\ c.road \cap delivered[q] = {}
         /\ c.full <=> c.bikes = c.road
         => (req'[q] = "COMPLETED" <=> delivered'[q] = items[q])]_vars

(* An ended request is reopened or ended differently only by a command that has
   read it before it ended, or cancelled by the second update of a sweep that has.
   That a sweep is about to cancel a request gives no other command leave to. *)
SweepCancels(q) ==
    /\ sweep.pc = "released" /\ q \in sweep.list
    /\ sweep' = Idle /\ req'[q] = "CANCELLED"

EndedIsFinal ==
    [][\A q \in Requests :
         req[q] \in Terminal /\ req'[q] # req[q] =>
           \/ SweepCancels(q)
           \/ \E s \in Sessions :
                /\ Commits(s)
                /\ cmd[s].op \in {"close", "approve", "start", "confirm", "revert"}
                /\ cmd[s].q = q /\ Late(cmd[s])]_vars
=============================================================================
