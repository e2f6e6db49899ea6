---------------------------- MODULE FleetProofs ----------------------------
(***************************************************************************)
(* Proofs about Fleet, for any bikes, stations, rides, swaps, requests and *)
(* sessions.                                                               *)
(*                                                                         *)
(* Most properties say what a step does to a bike that is in order.  They  *)
(* need little of the past: that a request is not being created twice or   *)
(* by somebody whose row exists, that nothing of a request is delivered    *)
(* before it is in transit, that a confirmation speaks of the request's    *)
(* own items, and that no two active rides have one bike.                  *)
(***************************************************************************)
EXTENDS Fleet, TLAPS

\* What a session has read, and what of it cannot change: a status never goes
\* back, and a request keeps its items.
Known(c) ==
    /\ c.op = "create" => req[c.q] = "NONE"
    /\ c.op \in {"close", "approve"} => c.seen = "PENDING_APPROVAL" /\ req[c.q] # "NONE"
    /\ c.op = "start" => c.seen = "APPROVED" /\ req[c.q] \notin {"NONE", "PENDING_APPROVAL"}
    /\ c.op \in {"confirm", "revert"} =>
         /\ c.seen \in OnTheRoad /\ req[c.q] \notin {"NONE", "PENDING_APPROVAL"}
         /\ c.bikes \subseteq c.road /\ c.road \subseteq items[c.q]
         /\ c.op = "revert" => c.bikes = c.road
    /\ c.op \in {"approveSwap", "rejectSwap"} => swap[c.w] # "NONE"

\* Nobody else creates the request.
Fresh(s, c) ==
    c.op = "create" =>
      \A t \in Sessions : cmd[t].op = "create" /\ cmd[t].q = c.q => t = s

CommandInv == \A s \in Sessions : Known(cmd[s]) /\ Fresh(s, cmd[s])

RequestInv ==
    /\ \A q \in Requests : req[q] \in {"NONE", "PENDING_APPROVAL"} => delivered[q] = {}
    /\ \A q \in Requests : delivered[q] \subseteq items[q]
    /\ \A q \in sweep.list : req[q] # "NONE"

\* The unique index on the bike of a RENTED row.
RideInv ==
    \A rd, o \in Rides : Active(rd) /\ Active(o) /\ rd # o => rideBike[rd] # rideBike[o]

IInv == TypeOK /\ CommandInv /\ RequestInv /\ RideInv

AllCmds == CreateCmds \cup ReviewCmds \cup ArrivalCmds \cup EndCmds \cup SwapCmds

-----------------------------------------------------------------------------
(* What the updates and the commands are made of.                          *)

\* Writing one value at every row of a set.
LEMMA SetAllBikes ==
    ASSUME bike \in [Bikes -> BikeStatuses], NEW S,
           NEW v \in {"AVAILABLE", "PENDING_DISPATCH", "TRANSPORTING"}
    PROVE  /\ SetAll(bike, S, v) \in [Bikes -> BikeStatuses]
           /\ \A b \in Bikes : SetAll(bike, S, v)[b] = IF b \in S THEN v ELSE bike[b]
<1>1. v \in BikeStatuses
  BY DEF BikeStatuses, Taken
<1> QED BY <1>1 DEF SetAll

LEMMA SetAllPlaces ==
    ASSUME place \in [Bikes -> Stations], NEW S, NEW v \in Stations
    PROVE  SetAll(place, S, v) \in [Bikes -> Stations]
BY DEF SetAll

LEMMA SetAllRequests ==
    ASSUME req \in [Requests -> {"NONE"} \cup Open \cup Terminal], NEW S
    PROVE  /\ SetAll(req, S, "CANCELLED") \in [Requests -> {"NONE"} \cup Open \cup Terminal]
           /\ \A q \in Requests :
                SetAll(req, S, "CANCELLED")[q] = IF q \in S THEN "CANCELLED" ELSE req[q]
<1>1. "CANCELLED" \in Terminal
  BY DEF Terminal
<1> QED BY <1>1 DEF SetAll

\* What a session in flight carries.
LEMMA Commands ==
    ASSUME TypeOK, NEW s \in Sessions
    PROVE  /\ cmd[s].op = "create" => cmd[s] \in CreateCmds
           /\ cmd[s].op \in {"close", "approve", "start"} => cmd[s] \in ReviewCmds
           /\ cmd[s].op \in {"confirm", "revert"} => cmd[s] \in ArrivalCmds
           /\ cmd[s].op = "end" => cmd[s] \in EndCmds
           /\ cmd[s].op \in {"request", "approveSwap", "rejectSwap"} => cmd[s] \in SwapCmds
           /\ cmd[s] # NoCmd => cmd[s].op # "none"
<1>1. cmd[s] \in {NoCmd} \cup CreateCmds \cup ReviewCmds \cup ArrivalCmds \cup EndCmds
                   \cup SwapCmds
  BY DEF TypeOK, SessionsOK
<1>2. CASE cmd[s] = NoCmd
  BY <1>2 DEF NoCmd
<1>3. CASE cmd[s] \in CreateCmds
  BY <1>3 DEF CreateCmds
<1>4. CASE cmd[s] \in ReviewCmds
  BY <1>4 DEF ReviewCmds
<1>5. CASE cmd[s] \in ArrivalCmds
  BY <1>5 DEF ArrivalCmds
<1>6. CASE cmd[s] \in EndCmds
  BY <1>6 DEF EndCmds
<1>7. CASE cmd[s] \in SwapCmds
  BY <1>7 DEF SwapCmds
<1> QED BY <1>1, <1>2, <1>3, <1>4, <1>5, <1>6, <1>7

\* A step of a session, and a step of the sweep, as far as commands go.
LEMMA ReadStep ==
    ASSUME TypeOK, NEW s \in Sessions, NEW c, Read(s, c),
           c \in AllCmds
    PROVE  /\ SessionsOK' /\ cmd[s] = NoCmd /\ cmd'[s] = c
           /\ \A t \in Sessions : t # s => cmd'[t] = cmd[t]
           /\ UNCHANGED <<bikeRows, rideRows, swapRows, requestRows, sweep>>
BY DEF TypeOK, SessionsOK, Read, AllCmds

LEMMA DoneStep ==
    ASSUME TypeOK, NEW s \in Sessions, Done(s), sweep' = sweep
    PROVE  /\ SessionsOK' /\ cmd'[s] = NoCmd
           /\ \A t \in Sessions : cmd'[t] = NoCmd \/ cmd'[t] = cmd[t]
BY DEF TypeOK, SessionsOK, Done, NoCmd

\* Every reading step takes a command that says what is so, and changes nothing.
Reads ==
    \/ \E s \in Sessions, rd \in Rides : PrepareEnd(s, rd)
    \/ \E s \in Sessions, w \in Swaps : PrepareRequestSwap(s, w)
    \/ \E s \in Sessions, w \in Swaps : PrepareReviewSwap(s, w)
    \/ \E s \in Sessions, q \in Requests : PrepareCreate(s, q)
    \/ \E s \in Sessions, q \in Requests : PrepareReview(s, q)
    \/ \E s \in Sessions, q \in Requests : PrepareArrival(s, q)

LEMMA ReadsKnow ==
    ASSUME TypeOK, Reads
    PROVE  \E s \in Sessions, c \in AllCmds : Read(s, c) /\ Known(c) /\ Fresh(s, c)
<1> USE DEF AllCmds, Known, Fresh
<1>1. CASE \E s \in Sessions, rd \in Rides : PrepareEnd(s, rd)
  <2>1. PICK s \in Sessions, rd \in Rides : PrepareEnd(s, rd)
    BY <1>1
  <2> DEFINE c == [op |-> "end", rd |-> rd, b |-> rideBike[rd]]
  <2>2. Read(s, c)
    BY <2>1 DEF PrepareEnd
  <2>3. c \in EndCmds
    BY <2>1 DEF PrepareEnd, EndCmds, TypeOK, RidesOK, Active
  <2> QED BY <2>2, <2>3
<1>2. CASE \E s \in Sessions, w \in Swaps : PrepareRequestSwap(s, w)
  <2>1. PICK s \in Sessions, w \in Swaps : PrepareRequestSwap(s, w)
    BY <1>2
  <2> DEFINE b == rideBike[RideOf[w]]
             c == [op |-> "request", w |-> w, old |-> b, new |-> b]
  <2>2. Read(s, c)
    BY <2>1 DEF PrepareRequestSwap
  <2>3. c \in SwapCmds
    BY <2>1, FleetAssumption DEF PrepareRequestSwap, SwapCmds, TypeOK, RidesOK, Active
  <2> QED BY <2>2, <2>3
<1>3. CASE \E s \in Sessions, w \in Swaps : PrepareReviewSwap(s, w)
  <2>1. PICK s \in Sessions, w \in Swaps : PrepareReviewSwap(s, w)
    BY <1>3
  <2>2. swap[w] = "PENDING" /\ oldBike[w] \in Bikes
    BY <2>1 DEF PrepareReviewSwap, TypeOK, SwapsOK
  <2>3. PICK b \in Bikes, op \in {"approveSwap", "rejectSwap"} :
          Read(s, [op |-> op, w |-> w, old |-> oldBike[w], new |-> b])
    BY <2>1, <2>2 DEF PrepareReviewSwap
  <2> DEFINE c == [op |-> op, w |-> w, old |-> oldBike[w], new |-> b]
  <2>4. c \in SwapCmds
    BY <2>2 DEF SwapCmds
  <2> QED BY <2>2, <2>3, <2>4
<1>4. CASE \E s \in Sessions, q \in Requests : PrepareCreate(s, q)
  <2>1. PICK s \in Sessions, q \in Requests : PrepareCreate(s, q)
    BY <1>4
  <2>2. PICK r \in Routes : \E picked \in SUBSET BikesOf(r.from, {"AVAILABLE"}) :
          Read(s, [op |-> "create", q |-> q, bikes |-> picked, route |-> r])
    BY <2>1 DEF PrepareCreate
  <2>3. PICK picked \in SUBSET Bikes :
          Read(s, [op |-> "create", q |-> q, bikes |-> picked, route |-> r])
    BY <2>2 DEF BikesOf
  <2> DEFINE c == [op |-> "create", q |-> q, bikes |-> picked, route |-> r]
  <2>4. c \in CreateCmds
    BY <2>2, <2>3 DEF CreateCmds
  <2>5. req[q] = "NONE" /\ \A t \in Sessions : cmd[t].op = "create" => cmd[t].q # q
    BY <2>1 DEF PrepareCreate
  <2> QED BY <2>3, <2>4, <2>5
<1>5. CASE \E s \in Sessions, q \in Requests : PrepareReview(s, q)
  <2>1. PICK s \in Sessions, q \in Requests : PrepareReview(s, q)
    BY <1>5
  <2>2. PICK op \in {"close", "approve", "start"} :
          /\ Read(s, [op |-> op, q |-> q, seen |-> req[q]])
          /\ req[q] = IF op = "start" THEN "APPROVED" ELSE "PENDING_APPROVAL"
    BY <2>1 DEF PrepareReview
  <2> DEFINE c == [op |-> op, q |-> q, seen |-> req[q]]
  <2>3. c \in ReviewCmds
    BY <2>2 DEF ReviewCmds, Open
  <2> QED BY <2>2, <2>3
<1>6. CASE \E s \in Sessions, q \in Requests : PrepareArrival(s, q)
  <2>1. PICK s \in Sessions, q \in Requests : PrepareArrival(s, q)
    BY <1>6
  <2> DEFINE road == Unconfirmed(q)
  <2>2. PICK op \in {"confirm", "revert"}, valid \in SUBSET road, full \in BOOLEAN :
          /\ Read(s, [op |-> op, q |-> q, seen |-> req[q], road |-> road, bikes |-> valid,
                      full |-> full])
          /\ op = "revert" => valid = road
    BY <2>1 DEF PrepareArrival
  <2>3. req[q] \in OnTheRoad /\ road \subseteq items[q] /\ items[q] \subseteq Bikes
    BY <2>1 DEF PrepareArrival, Unconfirmed, TypeOK, RequestsOK
  <2> DEFINE c == [op |-> op, q |-> q, seen |-> req[q], road |-> road, bikes |-> valid,
                   full |-> full]
  <2>4. c \in ArrivalCmds
    BY <2>3 DEF ArrivalCmds, Open
  <2> QED BY <2>2, <2>3, <2>4 DEF OnTheRoad
<1> QED BY <1>1, <1>2, <1>3, <1>4, <1>5, <1>6 DEF Reads

-----------------------------------------------------------------------------
(* The invariant.                                                          *)

\* What commits of a request's command know of it.
LEMMA CommitKnows ==
    ASSUME IInv, NEW s \in Sessions
    PROVE  /\ cmd[s].op \in {"close", "approve", "start", "confirm", "revert"} =>
                cmd[s].q \in Requests /\ req[cmd[s].q] # "NONE"
           /\ cmd[s].op \in {"confirm", "revert"} =>
                /\ cmd[s].bikes \subseteq Bikes
                /\ route[cmd[s].q] \in Routes /\ route[cmd[s].q].to \in Stations
<1>1. /\ cmd[s].op \in {"close", "approve", "start"} => cmd[s] \in ReviewCmds
      /\ cmd[s].op \in {"confirm", "revert"} => cmd[s] \in ArrivalCmds
      /\ Known(cmd[s])
  BY Commands DEF IInv, CommandInv
<1>2. /\ cmd[s].op \in {"close", "approve", "start", "confirm", "revert"} =>
           cmd[s].q \in Requests
      /\ cmd[s].op \in {"confirm", "revert"} => cmd[s].bikes \subseteq Bikes
  BY <1>1 DEF ReviewCmds, ArrivalCmds
<1>3. cmd[s].op \in {"close", "approve", "start", "confirm", "revert"} => req[cmd[s].q] # "NONE"
  BY <1>1 DEF Known
<1>4. \A q \in Requests : req[q] # "NONE" => route[q] \in Routes
  BY DEF IInv, TypeOK, RequestsOK
<1>5. \A r \in Routes : r.to \in Stations
  BY DEF Routes
<1> QED BY <1>2, <1>3, <1>4, <1>5

LEMMA TypeStays ==
    ASSUME IInv, Next
    PROVE  TypeOK'
<1> USE DEF IInv
<1>a. TypeOK
  OBVIOUS
<1>b. ASSUME NEW s \in Sessions, Done(s), sweep' = sweep, BikesOK', RidesOK', SwapsOK', RequestsOK'
      PROVE  TypeOK'
  BY <1>a, <1>b, DoneStep DEF TypeOK
<1>0. CASE Reads
  <2>1. PICK s \in Sessions, c \in AllCmds : Read(s, c)
    BY <1>0, ReadsKnow
  <2> QED BY <2>1, ReadStep
          DEF TypeOK, BikesOK, RidesOK, SwapsOK, RequestsOK, bikeRows, rideRows, swapRows,
              requestRows
<1>1. CASE \E rd \in Rides, b \in Bikes : StartRide(rd, b)
  BY <1>1 DEF StartRide, TypeOK, BikesOK, RidesOK, SwapsOK, RequestsOK, SessionsOK, swapRows,
              requestRows, BikeStatuses, Taken
<1>2. ASSUME NEW s \in Sessions, CommitEnd(s)
      PROVE  TypeOK'
  <2>1. cmd[s].b \in Bikes
    BY <1>2, Commands DEF CommitEnd, EndCmds
  <2>2. BikesOK'
    BY <1>2, <2>1 DEF CommitEnd, TypeOK, BikesOK, BikeStatuses, Taken
  <2>3. RidesOK' /\ SwapsOK' /\ RequestsOK'
    BY <1>2 DEF CommitEnd, TypeOK, RidesOK, SwapsOK, RequestsOK, swapRows, requestRows, Active
  <2> QED BY <1>2, <1>b, <2>2, <2>3 DEF CommitEnd
<1>3. ASSUME NEW s \in Sessions, CommitRequestSwap(s)
      PROVE  TypeOK'
  <2>1. cmd[s].old \in Bikes /\ cmd[s].w \in Swaps
    BY <1>3, Commands DEF CommitRequestSwap, SwapCmds
  <2>2. BikesOK' /\ RidesOK' /\ RequestsOK'
    BY <1>3 DEF CommitRequestSwap, TypeOK, BikesOK, RidesOK, RequestsOK, bikeRows, rideRows,
                requestRows
  <2>3. SwapsOK'
    BY <1>3, <2>1 DEF CommitRequestSwap, TypeOK, SwapsOK
  <2> QED BY <1>3, <1>b, <2>2, <2>3 DEF CommitRequestSwap
<1>4. ASSUME NEW s \in Sessions, CommitApproveSwap(s)
      PROVE  TypeOK'
  <2>1. /\ cmd[s].old \in Bikes /\ cmd[s].new \in Bikes /\ cmd[s].w \in Swaps
        /\ swap[cmd[s].w] # "NONE"
    BY <1>4, Commands DEF CommitApproveSwap, SwapCmds, CommandInv, Known
  <2>2. BikesOK' /\ RequestsOK'
    BY <1>4, <2>1 DEF CommitApproveSwap, TypeOK, BikesOK, RequestsOK, requestRows, BikeStatuses,
                      Taken
  <2>3. RidesOK'
    BY <1>4, <2>1, FleetAssumption DEF CommitApproveSwap, TypeOK, RidesOK
  <2>4. SwapsOK'
    BY <1>4, <2>1 DEF CommitApproveSwap, TypeOK, SwapsOK
  <2> QED BY <1>4, <1>b, <2>2, <2>3, <2>4 DEF CommitApproveSwap
<1>5. ASSUME NEW s \in Sessions, CommitRejectSwap(s)
      PROVE  TypeOK'
  <2>1. cmd[s].w \in Swaps /\ swap[cmd[s].w] # "NONE"
    BY <1>5, Commands DEF CommitRejectSwap, SwapCmds, CommandInv, Known
  <2>2. BikesOK' /\ RidesOK' /\ RequestsOK'
    BY <1>5 DEF CommitRejectSwap, TypeOK, BikesOK, RidesOK, RequestsOK, bikeRows, rideRows,
                requestRows
  <2>3. SwapsOK'
    BY <1>5, <2>1 DEF CommitRejectSwap, TypeOK, SwapsOK
  <2> QED BY <1>5, <1>b, <2>2, <2>3 DEF CommitRejectSwap
<1>6. ASSUME NEW s \in Sessions, CommitCreate(s)
      PROVE  TypeOK'
  <2>1. cmd[s].q \in Requests /\ cmd[s].bikes \subseteq Bikes /\ cmd[s].route \in Routes
    BY <1>6, Commands DEF CommitCreate, CreateCmds
  <2>2. BikesOK'
    BY <1>6, SetAllBikes DEF CommitCreate, TypeOK, BikesOK
  <2>3. RequestsOK'
    BY <1>6, <2>1 DEF CommitCreate, TypeOK, RequestsOK, Open
  <2>4. RidesOK' /\ SwapsOK'
    BY <1>6 DEF CommitCreate, TypeOK, RidesOK, SwapsOK, rideRows, swapRows
  <2> QED BY <1>6, <1>b, <2>2, <2>3, <2>4 DEF CommitCreate
<1>7. ASSUME NEW s \in Sessions, CommitClose(s) \/ CommitApprove(s) \/ CommitTransit(s)
      PROVE  TypeOK'
  <2>1. cmd[s].q \in Requests /\ req[cmd[s].q] # "NONE"
    BY <1>7, CommitKnows DEF CommitClose, CommitApprove, CommitTransit
  <2>2. BikesOK'
    BY <1>7, SetAllBikes DEF CommitClose, CommitApprove, CommitTransit, TypeOK, BikesOK, bikeRows
  <2>3. RequestsOK'
    BY <1>7, <2>1 DEF CommitClose, CommitApprove, CommitTransit, TypeOK, RequestsOK, Open,
                      Terminal, OnTheRoad
  <2>4. RidesOK' /\ SwapsOK'
    BY <1>7 DEF CommitClose, CommitApprove, CommitTransit, TypeOK, RidesOK, SwapsOK, rideRows,
                swapRows
  <2> QED BY <1>7, <1>b, <2>2, <2>3, <2>4 DEF CommitClose, CommitApprove, CommitTransit
<1>8. ASSUME NEW s \in Sessions, CommitConfirm(s) \/ CommitRevert(s)
      PROVE  TypeOK'
  <2>1. /\ cmd[s].q \in Requests /\ req[cmd[s].q] # "NONE" /\ cmd[s].bikes \subseteq Bikes
        /\ route[cmd[s].q].to \in Stations
    BY <1>8, CommitKnows DEF CommitConfirm, CommitRevert
  <2>2. BikesOK'
    BY <1>8, <2>1, SetAllBikes, SetAllPlaces DEF CommitConfirm, CommitRevert, TypeOK, BikesOK
  <2>3. req' \in [Requests -> {"NONE"} \cup Open \cup Terminal]
    BY <1>8, <2>1 DEF CommitConfirm, CommitRevert, TypeOK, RequestsOK, Open, Terminal, OnTheRoad
  <2>4. /\ UNCHANGED <<route, items>>
        /\ \A q \in Requests : req'[q] # "NONE" => req[q] # "NONE"
    BY <1>8, <2>1 DEF CommitConfirm, CommitRevert, TypeOK, RequestsOK
  <2>5. delivered' \in [Requests -> SUBSET Bikes] /\ completed' \subseteq Requests
    BY <1>8, <2>1 DEF CommitConfirm, CommitRevert, TypeOK, RequestsOK
  <2>6. RequestsOK'
    BY <2>3, <2>4, <2>5 DEF TypeOK, RequestsOK
  <2>7. RidesOK' /\ SwapsOK'
    BY <1>8 DEF CommitConfirm, CommitRevert, TypeOK, RidesOK, SwapsOK, rideRows, swapRows
  <2> QED BY <1>8, <1>b, <2>2, <2>6, <2>7 DEF CommitConfirm, CommitRevert
<1>9. ASSUME NEW s \in Sessions, Abandon(s)
      PROVE  TypeOK'
  BY <1>9, <1>b DEF Abandon, TypeOK, BikesOK, RidesOK, SwapsOK, RequestsOK, bikeRows, rideRows,
                    swapRows, requestRows
<1>10. CASE SweepScan \/ SweepDies
  BY <1>10 DEF SweepScan, SweepDies, Idle, TypeOK, BikesOK, RidesOK, SwapsOK, RequestsOK,
               SessionsOK, bikeRows, rideRows, swapRows, requestRows
<1>11. CASE SweepRelease
  <2>1. BikesOK'
    BY <1>11, SetAllBikes DEF SweepRelease, TypeOK, BikesOK
  <2> QED BY <1>11, <2>1 DEF SweepRelease, TypeOK, RidesOK, SwapsOK, RequestsOK, SessionsOK,
                             rideRows, swapRows, requestRows
<1>12. CASE SweepCancel
  <2>1. /\ req' \in [Requests -> {"NONE"} \cup Open \cup Terminal]
        /\ \A q \in Requests : req'[q] # "NONE" => req[q] # "NONE"
    BY <1>12, SetAllRequests DEF SweepCancel, TypeOK, RequestsOK, RequestInv
  <2> QED BY <1>12, <2>1 DEF SweepCancel, TypeOK, BikesOK, RidesOK, SwapsOK, RequestsOK,
                             SessionsOK, Idle, bikeRows, rideRows, swapRows
<1> QED BY <1>0, <1>1, <1>2, <1>3, <1>4, <1>5, <1>6, <1>7, <1>8, <1>9, <1>10, <1>11, <1>12
        DEF Next, Reads

\* Statuses never go back, requests keep their items, and a row appears by its
\* creation alone.
Grown(q) ==
    /\ req[q] # "NONE" => req'[q] # "NONE" /\ items'[q] = items[q]
    /\ req[q] \notin {"NONE", "PENDING_APPROVAL"} => req'[q] \notin {"NONE", "PENDING_APPROVAL"}
    /\ req[q] = "NONE" /\ req'[q] # "NONE" =>
         \E s \in Sessions : CommitCreate(s) /\ cmd[s].q = q

LEMMA StatusesGrow ==
    ASSUME IInv, Next
    PROVE  /\ \A q \in Requests : Grown(q)
           /\ \A w \in Swaps : swap[w] # "NONE" => swap'[w] # "NONE"
<1> USE DEF IInv
<1>a. SUFFICES /\ \A q \in Requests : Grown(q)
               /\ \A w \in Swaps : swap'[w] \in {swap[w], "PENDING", "CONFIRMED", "REJECTED"}
  OBVIOUS
<1>0. CASE Reads \/ (\E s \in Sessions : Abandon(s)) \/ SweepScan \/ SweepDies \/ SweepRelease
           \/ (\E rd \in Rides, b \in Bikes : StartRide(rd, b))
           \/ (\E s \in Sessions : CommitEnd(s))
  <2>1. UNCHANGED <<swap, req, items>>
    <3>1. CASE Reads
      BY <3>1, ReadsKnow DEF Read, swapRows, requestRows
    <3> QED BY <1>0, <3>1
            DEF Abandon, SweepScan, SweepDies, SweepRelease, StartRide, CommitEnd, swapRows,
                requestRows
  <2> QED BY <2>1 DEF Grown
<1>1. ASSUME NEW s \in Sessions, CommitRequestSwap(s) \/ CommitApproveSwap(s) \/ CommitRejectSwap(s)
      PROVE  /\ \A q \in Requests : Grown(q)
             /\ \A w \in Swaps : swap'[w] \in {swap[w], "PENDING", "CONFIRMED", "REJECTED"}
  BY <1>1 DEF CommitRequestSwap, CommitApproveSwap, CommitRejectSwap, requestRows, Grown, TypeOK,
              SwapsOK
<1>2. ASSUME NEW s \in Sessions, CommitCreate(s)
      PROVE  (\A q \in Requests : Grown(q)) /\ swap' = swap
  <2>1. cmd[s].q \in Requests /\ req[cmd[s].q] = "NONE"
    BY <1>2, Commands DEF CommitCreate, CreateCmds, CommandInv, Known
  <2>2. swap' = swap
    BY <1>2 DEF CommitCreate, swapRows
  <2>3. \A q \in Requests : q # cmd[s].q => req'[q] = req[q] /\ items'[q] = items[q]
    BY <1>2 DEF CommitCreate, TypeOK, RequestsOK
  <2> QED BY <1>2, <2>1, <2>2, <2>3 DEF Grown
<1>3. ASSUME NEW s \in Sessions,
             CommitClose(s) \/ CommitApprove(s) \/ CommitTransit(s) \/ CommitConfirm(s)
             \/ CommitRevert(s)
      PROVE  (\A q \in Requests : Grown(q)) /\ swap' = swap
  <2>1. cmd[s].q \in Requests /\ req[cmd[s].q] # "NONE"
    BY <1>3, CommitKnows DEF CommitClose, CommitApprove, CommitTransit, CommitConfirm, CommitRevert
  <2>2. UNCHANGED <<swap, items>>
    BY <1>3 DEF CommitClose, CommitApprove, CommitTransit, CommitConfirm, CommitRevert, swapRows
  <2>3. \E v \in {"CANCELLED", "REJECTED", "APPROVED", "IN_TRANSIT", "COMPLETED",
                   "PARTIALLY_COMPLETED", "REVERTED"} : req' = [req EXCEPT ![cmd[s].q] = v]
    BY <1>3 DEF CommitClose, CommitApprove, CommitTransit, CommitConfirm, CommitRevert
  <2>4. \A q \in Requests :
          req'[q] = req[q] \/ (q = cmd[s].q /\ req'[q] \notin {"NONE", "PENDING_APPROVAL"})
    <3>1. PICK v \in {"CANCELLED", "REJECTED", "APPROVED", "IN_TRANSIT", "COMPLETED",
                      "PARTIALLY_COMPLETED", "REVERTED"} : req' = [req EXCEPT ![cmd[s].q] = v]
      BY <2>3
    <3>2. \A q \in Requests : req'[q] = IF q = cmd[s].q THEN v ELSE req[q]
      BY <3>1 DEF TypeOK, RequestsOK
    <3> QED BY <3>2
  <2> QED BY <2>1, <2>2, <2>4 DEF Grown
<1>4. CASE SweepCancel
  <2>1. UNCHANGED <<swap, items>>
    BY <1>4 DEF SweepCancel, swapRows
  <2>2. \A q \in Requests :
          SetAll(req, sweep.list, "CANCELLED")[q] =
            IF q \in sweep.list THEN "CANCELLED" ELSE req[q]
    BY SetAllRequests DEF TypeOK, RequestsOK
  <2>3. \A q \in Requests :
          req'[q] = req[q] \/ (req[q] # "NONE" /\ req'[q] = "CANCELLED")
    <3> SUFFICES ASSUME NEW q \in Requests
                 PROVE  req'[q] = req[q] \/ (req[q] # "NONE" /\ req'[q] = "CANCELLED")
      OBVIOUS
    <3>1. q \in sweep.list => req[q] # "NONE"
      BY DEF RequestInv
    <3>2. req'[q] = IF q \in sweep.list THEN "CANCELLED" ELSE req[q]
      BY <1>4, <2>2 DEF SweepCancel
    <3> QED BY <3>1, <3>2
  <2> QED BY <2>1, <2>3 DEF Grown
<1> QED BY <1>0, <1>1, <1>2, <1>3, <1>4 DEF Next, Reads

\* A step reads one command, or empties sessions.
LEMMA SessionsMove ==
    ASSUME IInv, Next
    PROVE  \/ /\ UNCHANGED <<bikeRows, rideRows, swapRows, requestRows, sweep>>
              /\ \E s \in Sessions, c \in AllCmds :
                   /\ Known(c) /\ Fresh(s, c) /\ cmd'[s] = c
                   /\ \A t \in Sessions : t # s => cmd'[t] = cmd[t]
           \/ \A t \in Sessions : cmd'[t] = NoCmd \/ cmd'[t] = cmd[t]
<1>1. CASE Reads
  <2>1. PICK s \in Sessions, c \in AllCmds : Read(s, c) /\ Known(c) /\ Fresh(s, c)
    BY <1>1, ReadsKnow DEF IInv
  <2> QED BY <2>1, ReadStep DEF IInv
<1>2. ASSUME NEW s \in Sessions, Done(s)
      PROVE  \A t \in Sessions : cmd'[t] = NoCmd \/ cmd'[t] = cmd[t]
  BY <1>2 DEF Done, IInv, TypeOK, SessionsOK
<1>3. cmd' = cmd \/ Reads \/ \E s \in Sessions : Done(s)
  BY DEF Next, Reads, StartRide, CommitEnd, CommitRequestSwap, CommitApproveSwap, CommitRejectSwap,
         CommitCreate, CommitClose, CommitApprove, CommitTransit, CommitConfirm, CommitRevert,
         Abandon, SweepScan, SweepRelease, SweepCancel, SweepDies
<1> QED BY <1>1, <1>2, <1>3

LEMMA CommandsStay ==
    ASSUME IInv, Next
    PROVE  CommandInv'
<1> SUFFICES ASSUME NEW t \in Sessions
             PROVE  Known(cmd[t])' /\ Fresh(t, cmd[t])'
  BY DEF CommandInv
<1>1. CASE \A r \in Sessions : cmd'[r] = NoCmd \/ cmd'[r] = cmd[r]
  <2>1. CASE cmd'[t] = NoCmd
    BY <2>1 DEF NoCmd, Known, Fresh
  <2>2. CASE cmd'[t] # NoCmd
    <3> DEFINE c == cmd[t]
    <3>1. cmd'[t] = c /\ Known(c) /\ Fresh(t, c)
      BY <1>1, <2>2 DEF IInv, CommandInv
    <3>2. Fresh(t, cmd[t])'
      BY <1>1, <3>1 DEF Fresh, NoCmd
    <3>3. /\ c.op \in {"create", "close", "approve", "start", "confirm", "revert"} => c.q \in Requests
          /\ c.op \in {"approveSwap", "rejectSwap"} => c.w \in Swaps
      BY Commands DEF IInv, CreateCmds, ReviewCmds, ArrivalCmds, SwapCmds
    <3>4. c.op = "create" => req'[c.q] = "NONE"
      <4> SUFFICES ASSUME c.op = "create", req'[c.q] # "NONE"
                   PROVE  FALSE
        OBVIOUS
      <4>1. req[c.q] = "NONE"
        BY <3>1 DEF Known
      <4>2. PICK s \in Sessions : CommitCreate(s) /\ cmd[s].q = c.q
        BY <4>1, <3>3, StatusesGrow DEF Grown
      <4>3. s = t
        BY <4>2, <3>1 DEF Fresh, CommitCreate
      <4>4. cmd'[t] = NoCmd
        BY <4>2, <4>3 DEF CommitCreate, Done, IInv, TypeOK, SessionsOK
      <4> QED BY <4>4, <2>2
    <3>5. Known(c)'
      BY <3>1, <3>3, <3>4, StatusesGrow DEF Known, Grown
    <3> QED BY <3>1, <3>2, <3>5
  <2> QED BY <2>1, <2>2
<1>2. CASE /\ UNCHANGED <<bikeRows, rideRows, swapRows, requestRows, sweep>>
           /\ \E s \in Sessions, c \in AllCmds :
                /\ Known(c) /\ Fresh(s, c) /\ cmd'[s] = c
                /\ \A r \in Sessions : r # s => cmd'[r] = cmd[r]
  <2>1. PICK s \in Sessions, c \in AllCmds :
               /\ Known(c) /\ Fresh(s, c) /\ cmd'[s] = c
               /\ \A r \in Sessions : r # s => cmd'[r] = cmd[r]
    BY <1>2
  <2>2. UNCHANGED <<req, items, swap>>
    BY <1>2 DEF swapRows, requestRows
  <2>3. Known(cmd[t]) /\ Fresh(t, cmd[t])
    BY DEF IInv, CommandInv
  <2>4. Known(cmd[t])'
    BY <2>1, <2>2, <2>3 DEF Known
  <2>5. Fresh(t, cmd[t])'
    BY <2>1, <2>3 DEF Fresh
  <2> QED BY <2>4, <2>5
<1> QED BY <1>1, <1>2, SessionsMove

LEMMA RequestsStay ==
    ASSUME IInv, Next
    PROVE  RequestInv'
<1>1. \A q \in Requests : Grown(q)
  BY StatusesGrow
<1>2. \A q \in sweep'.list : req'[q] # "NONE"
  <2>1. \A q \in sweep'.list : q \in Requests /\ req[q] # "NONE"
    <3>1. \A q \in sweep.list : q \in Requests /\ req[q] # "NONE"
      BY DEF IInv, RequestInv, TypeOK, SessionsOK
    <3>2. CASE sweep' = sweep \/ sweep'.list = sweep.list \/ sweep'.list = {}
      BY <3>1, <3>2
    <3>3. CASE SweepScan
      BY <3>3 DEF SweepScan
    <3>4. CASE Reads
      BY <3>4, <3>1, ReadsKnow DEF IInv, Read
    <3>5. CASE SweepRelease
      <4>1. sweep \in [pc : {"idle", "scanned", "released"}, list : SUBSET Requests]
        BY DEF IInv, TypeOK, SessionsOK
      <4> QED BY <4>1, <3>2, <3>5 DEF SweepRelease
    <3>6. CASE SweepCancel \/ SweepDies
      BY <3>2, <3>6 DEF SweepCancel, SweepDies, Idle
    <3>7. CASE \E rd \in Rides, b \in Bikes : StartRide(rd, b)
      BY <3>2, <3>7 DEF StartRide
    <3>8. ASSUME NEW s \in Sessions,
                 \/ CommitEnd(s) \/ CommitRequestSwap(s) \/ CommitApproveSwap(s)
                 \/ CommitRejectSwap(s) \/ CommitCreate(s) \/ CommitClose(s)
                 \/ CommitApprove(s) \/ CommitTransit(s) \/ CommitConfirm(s)
                 \/ CommitRevert(s) \/ Abandon(s)
          PROVE  sweep' = sweep
      BY <3>8 DEF CommitEnd, CommitRequestSwap, CommitApproveSwap, CommitRejectSwap,
                  CommitCreate, CommitClose, CommitApprove, CommitTransit, CommitConfirm,
                  CommitRevert, Abandon
    <3> QED BY <3>2, <3>3, <3>4, <3>5, <3>6, <3>7, <3>8 DEF Next, Reads
  <2> QED BY <2>1, <1>1 DEF Grown
<1>3. CASE UNCHANGED delivered
  <2>1. \A q \in Requests : delivered[q] \subseteq items'[q]
    <3> SUFFICES ASSUME NEW q \in Requests
                 PROVE  delivered[q] \subseteq items'[q]
      OBVIOUS
    <3> QED BY <1>1 DEF Grown, IInv, RequestInv
  <2> QED BY <2>1, <1>1, <1>2, <1>3 DEF RequestInv, IInv, Grown
<1>4. ASSUME NEW s \in Sessions, CommitConfirm(s)
      PROVE  RequestInv'
  <2> DEFINE c == cmd[s]
  <2>1. /\ c.q \in Requests /\ c.bikes \subseteq items[c.q]
        /\ req[c.q] \notin {"NONE", "PENDING_APPROVAL"}
    BY <1>4, CommitKnows DEF CommitConfirm, IInv, CommandInv, Known
  <2>2. /\ \A q \in Requests :
             delivered'[q] = IF q = c.q THEN delivered[q] \cup c.bikes ELSE delivered[q]
        /\ items' = items
    BY <1>4 DEF CommitConfirm, IInv, TypeOK, RequestsOK
  <2>3. ASSUME NEW q \in Requests
        PROVE  delivered'[q] \subseteq items'[q]
    <3>1. delivered[q] \subseteq items[q]
      BY DEF IInv, RequestInv
    <3> QED BY <2>1, <2>2, <3>1
  <2>4. \A q \in Requests : req'[q] \in {"NONE", "PENDING_APPROVAL"} => delivered'[q] = {}
    BY <2>1, <2>2, <1>1 DEF IInv, RequestInv, Grown
  <2> QED BY <2>3, <2>4, <1>2 DEF RequestInv
<1>5. CASE Reads
  BY <1>5, <1>3, ReadsKnow DEF IInv, Read, requestRows
<1> QED BY <1>3, <1>4, <1>5
        DEF Next, Reads, StartRide, CommitEnd, CommitRequestSwap, CommitApproveSwap,
            CommitRejectSwap, CommitCreate, CommitClose, CommitApprove, CommitTransit,
            CommitRevert, Abandon, SweepScan, SweepRelease, SweepCancel, SweepDies, requestRows

LEMMA RidesStay ==
    ASSUME IInv, Next
    PROVE  RideInv'
<1>1. CASE UNCHANGED rideRows
  BY <1>1 DEF IInv, RideInv, Active, rideRows
<1>2. ASSUME NEW rd \in Rides, NEW b \in Bikes, StartRide(rd, b)
      PROVE  RideInv'
  BY <1>2 DEF StartRide, NobodyElseRides, IInv, TypeOK, RidesOK, RideInv, Active
<1>3. ASSUME NEW s \in Sessions, CommitEnd(s)
      PROVE  RideInv'
  BY <1>3 DEF CommitEnd, IInv, TypeOK, RidesOK, RideInv, Active
<1>4. ASSUME NEW s \in Sessions, CommitApproveSwap(s)
      PROVE  RideInv'
  BY <1>4 DEF CommitApproveSwap, NobodyElseRides, IInv, TypeOK, RidesOK, RideInv, Active
<1>5. CASE Reads
  BY <1>5, <1>1, ReadsKnow DEF IInv, Read
<1> QED BY <1>1, <1>2, <1>3, <1>4, <1>5
        DEF Next, Reads, CommitRequestSwap, CommitRejectSwap, CommitCreate, CommitClose,
            CommitApprove, CommitTransit, CommitConfirm, CommitRevert, Abandon, SweepScan,
            SweepRelease, SweepCancel, SweepDies

LEMMA Initially ==
    Init => IInv
<1> SUFFICES ASSUME Init
             PROVE  IInv
  OBVIOUS
<1>1. BikesOK /\ RidesOK /\ SwapsOK /\ RequestsOK
  BY FleetAssumption
     DEF Init, BikesOK, RidesOK, SwapsOK, RequestsOK, BikeStatuses, Taken
<1>2. SessionsOK
  BY DEF Init, SessionsOK, Idle
<1>3. CommandInv
  BY DEF Init, CommandInv, Known, Fresh, NoCmd
<1>4. RequestInv /\ RideInv
  BY DEF Init, RequestInv, RideInv, Active, Idle
<1> QED BY <1>1, <1>2, <1>3, <1>4 DEF IInv, TypeOK

LEMMA Stutter ==
    ASSUME IInv, UNCHANGED vars
    PROVE  IInv'
<1>1. TypeOK'
  BY DEF IInv, TypeOK, BikesOK, RidesOK, SwapsOK, RequestsOK, SessionsOK, vars
<1>2. RequestInv' /\ RideInv'
  BY DEF IInv, RequestInv, RideInv, Active, vars
<1>3. CommandInv'
  BY DEF IInv, CommandInv, Known, Fresh, vars
<1> QED BY <1>1, <1>2, <1>3 DEF IInv

(* What a session has read of its request stays true of what cannot change, and
   no two rides have one bike, whatever commits in between. *)
THEOREM Invariance == Spec => []IInv
<1>1. IInv /\ [Next]_vars => IInv'
  BY TypeStays, CommandsStay, RequestsStay, RidesStay, Stutter DEF IInv
<1> QED BY <1>1, Initially, PTL DEF Spec

(* Every variable has its type at every step, of any fleet. *)
THEOREM TypeCorrect == Spec => []TypeOK
<1>1. IInv => TypeOK
  BY DEF IInv
<1> QED BY <1>1, Invariance, PTL

-----------------------------------------------------------------------------
(* Requests that have ended, and confirmations.                            *)

\* A commit empties its session, which held a command.
LEMMA DoneCommits ==
    ASSUME IInv, NEW s \in Sessions, Done(s), cmd[s].op # "none"
    PROVE  /\ Commits(s)
           /\ \A t \in Sessions : Commits(t) => t = s
BY DEF IInv, TypeOK, SessionsOK, Done, Commits, NoCmd

\* Only these write a request that is there.
LEMMA RequestWrites ==
    ASSUME IInv, Next, NEW q \in Requests, req[q] # "NONE", req'[q] # req[q]
    PROVE  \/ SweepCancel /\ q \in sweep.list
           \/ \E s \in Sessions :
                /\ cmd[s].q = q /\ Done(s)
                /\ cmd[s].op \in {"close", "approve", "start", "confirm", "revert"}
<1> USE DEF IInv, TypeOK, RequestsOK
<1>1. CASE UNCHANGED req
  BY <1>1
<1>2. ASSUME NEW s \in Sessions, CommitCreate(s)
      PROVE  FALSE
  <2>1. cmd[s].q \in Requests /\ req[cmd[s].q] = "NONE"
    BY <1>2, Commands DEF CommitCreate, CreateCmds, CommandInv, Known
  <2> QED BY <1>2, <2>1 DEF CommitCreate
<1>3. ASSUME NEW s \in Sessions,
             CommitClose(s) \/ CommitApprove(s) \/ CommitTransit(s) \/ CommitConfirm(s)
             \/ CommitRevert(s)
      PROVE  /\ cmd[s].q = q /\ Done(s)
             /\ cmd[s].op \in {"close", "approve", "start", "confirm", "revert"}
  <2>1. \E v : req' = [req EXCEPT ![cmd[s].q] = v]
    BY <1>3 DEF CommitClose, CommitApprove, CommitTransit, CommitConfirm, CommitRevert
  <2>2. cmd[s].q = q
    BY <2>1
  <2> QED BY <1>3, <2>2
          DEF CommitClose, CommitApprove, CommitTransit, CommitConfirm, CommitRevert
<1>4. CASE SweepCancel
  <2>1. req'[q] = IF q \in sweep.list THEN "CANCELLED" ELSE req[q]
    BY <1>4, SetAllRequests DEF SweepCancel
  <2> QED BY <1>4, <2>1
<1>5. CASE Reads
  BY <1>5, <1>1, ReadsKnow DEF Read, requestRows
<1> QED BY <1>1, <1>2, <1>3, <1>4, <1>5
        DEF Next, Reads, StartRide, CommitEnd, CommitRequestSwap, CommitApproveSwap,
            CommitRejectSwap, Abandon, SweepScan, SweepRelease, SweepDies, requestRows

(* No cancellation, approval, transport, confirmation or reversion that has
   read an ended request reopens it or ends it in another way, in any fleet. *)
THEOREM EndedIsFinalCorrect == Spec => EndedIsFinal
<1> DEFINE Final(q) ==
      req[q] \in Terminal /\ req'[q] # req[q] =>
        \/ SweepCancels(q)
        \/ \E s \in Sessions :
             /\ Commits(s)
             /\ cmd[s].op \in {"close", "approve", "start", "confirm", "revert"}
             /\ cmd[s].q = q /\ Late(cmd[s])
<1>1. ASSUME IInv, Next, NEW q \in Requests
      PROVE  Final(q)
  <2>0. SweepCancel /\ q \in sweep.list => SweepCancels(q)
    <3>1. SweepCancel /\ q \in sweep.list => req'[q] = "CANCELLED"
      BY <1>1, SetAllRequests DEF SweepCancel, IInv, TypeOK, RequestsOK
    <3> QED BY <3>1 DEF SweepCancel, SweepCancels
  <2> SUFFICES ASSUME req[q] \in Terminal, req'[q] # req[q], ~SweepCancels(q)
               PROVE  \E s \in Sessions :
                        /\ Commits(s)
                        /\ cmd[s].op \in {"close", "approve", "start", "confirm", "revert"}
                        /\ cmd[s].q = q /\ Late(cmd[s])
    OBVIOUS
  <2>1. PICK s \in Sessions :
          /\ cmd[s].q = q /\ Done(s)
          /\ cmd[s].op \in {"close", "approve", "start", "confirm", "revert"}
    BY <1>1, <2>0, RequestWrites DEF Terminal
  <2>2. Commits(s)
    BY <1>1, <2>1, DoneCommits
  <2>3. cmd[s].seen \in {"PENDING_APPROVAL", "APPROVED", "IN_TRANSIT", "PARTIALLY_COMPLETED"}
    BY <1>1, <2>1 DEF IInv, CommandInv, Known, OnTheRoad
  <2>4. Late(cmd[s])
    BY <2>1, <2>3 DEF Late, Terminal
  <2> QED BY <2>1, <2>2, <2>4
<1>2. IInv /\ [Next]_vars => [\A q \in Requests : Final(q)]_vars
  BY <1>1
<1> QED BY <1>2, Invariance, PTL DEF Spec, EndedIsFinal

\* Only a confirmation changes what has been delivered.
LEMMA DeliveredWrites ==
    ASSUME IInv, Next, delivered' # delivered
    PROVE  \E s \in Sessions : CommitConfirm(s)
<1>1. CASE Reads
  BY <1>1, ReadsKnow DEF IInv, Read, requestRows
<1> QED BY <1>1
        DEF Next, Reads, StartRide, CommitEnd, CommitRequestSwap, CommitApproveSwap,
            CommitRejectSwap, CommitCreate, CommitClose, CommitApprove, CommitTransit,
            CommitRevert, Abandon, SweepScan, SweepRelease, SweepCancel, SweepDies, requestRows

\* A bike in order that a request carries has the status the request gives it.
LEMMA CarriedStatus ==
    ASSUME NEW b \in Bikes, NEW q \in Requests, InOrder(b), CarriedBy(q, b)
    PROVE  CarriedInOrder(b) /\ bike[b] = StatusFor(q) /\ ~Ridden(b)
           /\ \A p \in Requests : CarriedBy(p, b) => p = q
BY DEF InOrder, RiddenInOrder, CarriedInOrder, FreeInOrder, Carried

LEMMA Completes ==
    ASSUME IInv, NEW s \in Sessions, CommitConfirm(s),
           delivered'[cmd[s].q] # delivered[cmd[s].q],
           \A b \in items[cmd[s].q] : InOrder(b) /\ ~Disturbs(cmd[s], b),
           cmd[s].road \cap delivered[cmd[s].q] = {},
           cmd[s].full <=> cmd[s].bikes = cmd[s].road
    PROVE  req'[cmd[s].q] = "COMPLETED" <=> delivered'[cmd[s].q] = items[cmd[s].q]
<1> DEFINE c == cmd[s]
           q == c.q
<1>1. /\ c.op = "confirm" /\ q \in Requests /\ c.seen \in OnTheRoad
      /\ c.bikes \subseteq c.road /\ c.road \subseteq items[q]
  BY CommitKnows DEF CommitConfirm, IInv, CommandInv, Known
<1>2. /\ delivered[q] \subseteq items[q] /\ items[q] \subseteq Bikes
  BY <1>1 DEF IInv, RequestInv, TypeOK, RequestsOK
<1>3. /\ delivered'[q] = delivered[q] \cup c.bikes
      /\ req'[q] = IF c.full THEN "COMPLETED" ELSE "PARTIALLY_COMPLETED"
  BY <1>1 DEF CommitConfirm, IInv, TypeOK, RequestsOK
<1>4. PICK b0 : b0 \in c.bikes
  BY <1>3
<1>5. ASSUME NEW b \in items[q]
      PROVE  ~Disturbs(c, b) /\ InOrder(b)
  OBVIOUS
<1>6. \A b \in items[q] :
        /\ b \in c.bikes => b \notin delivered[q] /\ ~BeingSwept(q)
        /\ b \in c.bikes \cup (items[q] \ delivered[q]) =>
             ~Late(c) /\ (b \in c.road <=> bike[b] = "TRANSPORTING")
  BY <1>1, <1>5 DEF Disturbs
<1>7. ~BeingSwept(q) /\ req[q] \in OnTheRoad
  BY <1>1, <1>4, <1>6 DEF Late
<1>8. ASSUME NEW b \in items[q] \ delivered[q]
      PROVE  b \in c.road
  <2>1. CarriedBy(q, b)
    BY <1>7 DEF CarriedBy, Open
  <2>2. bike[b] = "TRANSPORTING"
    BY <1>1, <1>2, <1>5, <1>7, <2>1, CarriedStatus DEF StatusFor
  <2> QED BY <1>6, <2>2
<1>9. c.bikes = c.road => delivered'[q] = items[q]
  BY <1>1, <1>2, <1>3, <1>8
<1>10. delivered'[q] = items[q] => c.bikes = c.road
  BY <1>1, <1>3
<1> QED BY <1>3, <1>9, <1>10

(* A request with all its bikes in order is completed by the confirmation that
   delivers the last of them and by no other, in any fleet. *)
THEOREM CompletedIsDeliveredCorrect == Spec => CompletedIsDelivered
<1> DEFINE Whole(s) ==
      LET c == cmd[s]
          q == c.q IN
      /\ c.op = "confirm" /\ Commits(s) /\ delivered'[q] # delivered[q]
      /\ \A b \in items[q] : InOrder(b) /\ ~Disturbed(b)
      /\ c.road \cap delivered[q] = {}
      /\ c.full <=> c.bikes = c.road
      => (req'[q] = "COMPLETED" <=> delivered'[q] = items[q])
<1>1. ASSUME IInv, Next, NEW s \in Sessions
      PROVE  Whole(s)
  <2> DEFINE q == cmd[s].q
  <2> SUFFICES ASSUME Commits(s), delivered'[q] # delivered[q],
                      \A b \in items[q] : InOrder(b) /\ ~Disturbed(b),
                      cmd[s].road \cap delivered[q] = {},
                      cmd[s].full <=> cmd[s].bikes = cmd[s].road
               PROVE  req'[q] = "COMPLETED" <=> delivered'[q] = items[q]
    OBVIOUS
  <2>1. PICK t \in Sessions : CommitConfirm(t)
    BY <1>1, DeliveredWrites
  <2>2. t = s
    BY <1>1, <2>1, DoneCommits DEF CommitConfirm
  <2>3. \A b \in items[q] : InOrder(b) /\ ~Disturbs(cmd[s], b)
    BY DEF Disturbed
  <2> QED BY <1>1, <2>1, <2>2, <2>3, Completes
<1>2. ASSUME UNCHANGED vars, NEW s \in Sessions
      PROVE  Whole(s)
  BY <1>2 DEF vars, Commits
<1>3. IInv /\ [Next]_vars => [\A s \in Sessions : Whole(s)]_vars
  BY <1>1, <1>2
<1> QED BY <1>3, Invariance, PTL DEF Spec, CompletedIsDelivered

-----------------------------------------------------------------------------
(* Bikes that are in order: what each step does to one.                    *)

\* Nothing that counts on the bike has changed.
SameRiders(b) == \A rd \in Rides : RiddenBy(rd, b)' <=> RiddenBy(rd, b)
SameCarriers(b) ==
    \A q \in Requests : /\ CarriedBy(q, b)' <=> CarriedBy(q, b)
                        /\ CarriedBy(q, b) => StatusFor(q)' = StatusFor(q)

LEMMA SameOrder ==
    ASSUME NEW b \in Bikes, InOrder(b), SameRiders(b), SameCarriers(b), bike'[b] = bike[b]
    PROVE  InOrder(b)'
<1>1. Ridden(b)' <=> Ridden(b)
  BY DEF Ridden, SameRiders
<1>2. Carried(b)' <=> Carried(b)
  BY DEF Carried, SameCarriers
<1>3. CASE RiddenInOrder(b)
  BY <1>1, <1>2, <1>3 DEF RiddenInOrder, InOrder
<1>4. CASE FreeInOrder(b)
  BY <1>1, <1>2, <1>4 DEF FreeInOrder, InOrder
<1>5. CASE CarriedInOrder(b)
  <2>1. PICK q \in Requests : /\ CarriedBy(q, b) /\ bike[b] = StatusFor(q)
                              /\ \A p \in Requests : CarriedBy(p, b) => p = q
    BY <1>5 DEF CarriedInOrder
  <2>2. CarriedBy(q, b)' /\ bike'[b] = StatusFor(q)'
    BY <2>1 DEF SameCarriers
  <2>3. \A p \in Requests : CarriedBy(p, b)' => p = q
    BY <2>1 DEF SameCarriers
  <2>4. ~Ridden(b)'
    BY <1>1, <1>5 DEF CarriedInOrder
  <2> QED BY <2>2, <2>3, <2>4 DEF CarriedInOrder, InOrder
<1> QED BY <1>3, <1>4, <1>5 DEF InOrder

\* What a bike's status tells of a bike in order.
LEMMA OrderTells ==
    ASSUME NEW b \in Bikes, InOrder(b)
    PROVE  /\ bike[b] \notin Taken => ~Ridden(b) /\ ~Carried(b)
           /\ Ridden(b) => bike[b] = "BOOKED" /\ ~Carried(b)
BY DEF InOrder, RiddenInOrder, CarriedInOrder, FreeInOrder, Taken, StatusFor, OnTheRoad

LEMMA UnchangedRides ==
    ASSUME UNCHANGED rideRows
    PROVE  \A b : SameRiders(b)
BY DEF SameRiders, RiddenBy, Active, rideRows

LEMMA UnchangedRequests ==
    ASSUME UNCHANGED requestRows, UNCHANGED sweep
    PROVE  \A b : SameCarriers(b)
BY DEF SameCarriers, CarriedBy, BeingSwept, StatusFor, requestRows

LEMMA StartKeeps ==
    ASSUME IInv, NEW rd \in Rides, NEW d \in Bikes, StartRide(rd, d), NEW b \in Bikes, InOrder(b)
    PROVE  InOrder(b)'
<1> USE DEF IInv, TypeOK, BikesOK, RidesOK
<1>1. SameCarriers(b)
  BY UnchangedRequests DEF StartRide
<1>2. CASE b = d
  <2>1. ~Carried(b)
    BY <1>2, OrderTells DEF StartRide, Taken
  <2>2. ~Carried(b)'
    BY <1>1, <2>1 DEF SameCarriers, Carried
  <2>3. Ridden(b)' /\ bike'[b] = "BOOKED"
    BY <1>2 DEF StartRide, Ridden, RiddenBy, Active
  <2> QED BY <2>2, <2>3 DEF InOrder, RiddenInOrder
<1>3. CASE b # d
  <2>1. SameRiders(b) /\ bike'[b] = bike[b]
    BY <1>3 DEF StartRide, SameRiders, RiddenBy, Active
  <2> QED BY <1>1, <2>1, SameOrder
<1> QED BY <1>2, <1>3

LEMMA EndKeeps ==
    ASSUME IInv, NEW s \in Sessions, CommitEnd(s), NEW b \in Bikes, InOrder(b), ~Disturbs(cmd[s], b)
    PROVE  InOrder(b)'
<1> DEFINE c == cmd[s]
<1> USE DEF IInv, TypeOK, BikesOK, RidesOK
<1>1. c.op = "end" /\ c.rd \in Rides /\ c.b \in Bikes
  BY Commands DEF CommitEnd, EndCmds
<1>2. rideBike[c.rd] = c.b \/ (b # c.b /\ b # rideBike[c.rd])
  BY <1>1 DEF Disturbs
<1>3. SameCarriers(b)
  BY UnchangedRequests DEF CommitEnd
<1>4. CASE b = c.b
  <2>1. RiddenBy(c.rd, b)
    BY <1>1, <1>2, <1>4 DEF CommitEnd, RiddenBy
  <2>2. ~Carried(b)
    BY <1>1, <2>1, OrderTells DEF Ridden
  <2>3. ~Carried(b)'
    BY <1>3, <2>2 DEF SameCarriers, Carried
  <2>4. bike'[b] \notin Taken
    BY <1>4 DEF CommitEnd, Taken
  <2>5. ASSUME NEW o \in Rides, RiddenBy(o, b)'
        PROVE  FALSE
    <3>1. o # c.rd
      BY <1>1, <2>5 DEF CommitEnd, RiddenBy, Active
    <3>2. RiddenBy(o, b)
      BY <1>1, <2>5, <3>1 DEF CommitEnd, RiddenBy, Active
    <3> QED BY <1>1, <2>1, <3>1, <3>2 DEF RideInv, RiddenBy
  <2> QED BY <2>3, <2>4, <2>5 DEF InOrder, FreeInOrder, Ridden
<1>5. CASE b # c.b
  <2>1. bike'[b] = bike[b]
    BY <1>5 DEF CommitEnd
  <2>2. SameRiders(b)
    BY <1>1, <1>2, <1>5 DEF CommitEnd, SameRiders, RiddenBy, Active
  <2> QED BY <1>3, <2>1, <2>2, SameOrder
<1> QED BY <1>4, <1>5

LEMMA SwapKeeps ==
    ASSUME IInv, NEW s \in Sessions, CommitApproveSwap(s), NEW b \in Bikes, InOrder(b),
           ~Disturbs(cmd[s], b)
    PROVE  InOrder(b)'
<1> DEFINE c == cmd[s]
<1> USE DEF IInv, TypeOK, BikesOK, RidesOK
<1>0. PICK rd \in Rides : rd = RideOf[c.w]
  BY Commands, FleetAssumption DEF CommitApproveSwap, SwapCmds
<1>1. /\ c.op = "approveSwap" /\ c.w \in Swaps /\ rd = RideOf[c.w]
      /\ c.old \in Bikes /\ c.new \in Bikes
  BY <1>0, Commands DEF CommitApproveSwap, SwapCmds
<1>2. /\ b = c.new => bike[b] = "AVAILABLE"
      /\ RiddenBy(rd, c.old) \/ (b # c.old /\ b # c.new /\ b # rideBike[rd])
  BY <1>1 DEF Disturbs
<1>3. SameCarriers(b)
  BY UnchangedRequests DEF CommitApproveSwap
<1>4. \A o \in Rides :
        /\ ride'[o] = ride[o]
        /\ rideBike'[o] = IF o = rd THEN c.new ELSE rideBike[o]
  BY <1>1 DEF CommitApproveSwap
<1>5. CASE b = c.new
  <2>1. ~Carried(b) /\ ~Ridden(b)
    BY <1>2, <1>5, OrderTells DEF Taken
  <2>2. ~Carried(b)'
    BY <1>3, <2>1 DEF SameCarriers, Carried
  <2>3. RiddenBy(rd, c.old)
    BY <1>2, <1>5
  <2>4. c.old # c.new
    BY <1>1, <1>5, <2>1, <2>3 DEF Ridden
  <2>5. bike'[b] = "BOOKED"
    BY <1>1, <1>5, <2>4 DEF CommitApproveSwap
  <2>6. RiddenBy(rd, b)'
    BY <1>1, <1>4, <1>5, <2>3 DEF RiddenBy, Active
  <2> QED BY <1>1, <2>2, <2>5, <2>6 DEF InOrder, RiddenInOrder, Ridden
<1>6. CASE b = c.old /\ b # c.new
  <2>1. RiddenBy(rd, b)
    BY <1>2, <1>6
  <2>2. ~Carried(b)
    BY <1>1, <2>1, OrderTells DEF Ridden
  <2>3. ~Carried(b)'
    BY <1>3, <2>2 DEF SameCarriers, Carried
  <2>4. bike'[b] \notin Taken
    BY <1>1, <1>6 DEF CommitApproveSwap, Taken
  <2>5. ASSUME NEW o \in Rides, RiddenBy(o, b)'
        PROVE  FALSE
    <3>1. o # rd
      BY <1>4, <1>6, <2>5 DEF RiddenBy
    <3>2. RiddenBy(o, b)
      BY <1>4, <2>5, <3>1 DEF RiddenBy, Active
    <3> QED BY <1>1, <2>1, <3>1, <3>2 DEF RideInv, RiddenBy
  <2> QED BY <2>3, <2>4, <2>5 DEF InOrder, FreeInOrder, Ridden
<1>7. CASE b # c.old /\ b # c.new
  <2>1. bike'[b] = bike[b]
    BY <1>1, <1>7 DEF CommitApproveSwap
  <2>2. b # rideBike[rd]
    BY <1>2, <1>7 DEF RiddenBy
  <2>3. SameRiders(b)
    BY <1>4, <1>7, <2>2 DEF SameRiders, RiddenBy, Active
  <2> QED BY <1>3, <2>1, <2>3, SameOrder
<1> QED BY <1>5, <1>6, <1>7

\* A step of one request leaves what the others carry.
SameOthers(q, b) ==
    \A p \in Requests \ {q} : /\ CarriedBy(p, b)' <=> CarriedBy(p, b)
                              /\ StatusFor(p)' = StatusFor(p)

\* A step of the request q that writes its row alone.
LEMMA OneRequest ==
    ASSUME IInv, NEW q \in Requests, UNCHANGED sweep,
           \A p \in Requests \ {q} :
             req'[p] = req[p] /\ items'[p] = items[p] /\ delivered'[p] = delivered[p]
    PROVE  \A b : SameOthers(q, b)
BY DEF SameOthers, CarriedBy, BeingSwept, StatusFor

LEMMA NotMine ==
    ASSUME NEW b \in Bikes, InOrder(b), NEW q \in Requests, SameOthers(q, b), SameRiders(b),
           ~CarriedBy(q, b), ~CarriedBy(q, b)', bike'[b] = bike[b]
    PROVE  InOrder(b)'
<1>1. SameCarriers(b)
  BY DEF SameCarriers, SameOthers
<1> QED BY <1>1, SameOrder

LEMMA GivenBack ==
    ASSUME NEW b \in Bikes, InOrder(b), NEW q \in Requests, SameOthers(q, b), SameRiders(b),
           CarriedBy(q, b), ~CarriedBy(q, b)', bike'[b] = "AVAILABLE"
    PROVE  InOrder(b)'
<1>1. ~Ridden(b)'
  BY CarriedStatus DEF SameRiders, Ridden
<1>2. ~Carried(b)'
  BY CarriedStatus DEF SameOthers, Carried
<1> QED BY <1>1, <1>2 DEF InOrder, FreeInOrder, Taken

LEMMA StillMine ==
    ASSUME NEW b \in Bikes, InOrder(b), NEW q \in Requests, SameOthers(q, b), SameRiders(b),
           ~Ridden(b), \A p \in Requests : CarriedBy(p, b) => p = q,
           CarriedBy(q, b)', bike'[b] = StatusFor(q)'
    PROVE  InOrder(b)'
<1>1. ~Ridden(b)'
  BY DEF SameRiders, Ridden
<1>2. \A p \in Requests : CarriedBy(p, b)' => p = q
  BY DEF SameOthers
<1> QED BY <1>1, <1>2 DEF InOrder, CarriedInOrder

LEMMA CreateKeeps ==
    ASSUME IInv, NEW s \in Sessions, CommitCreate(s), NEW b \in Bikes, InOrder(b),
           ~Disturbs(cmd[s], b)
    PROVE  InOrder(b)'
<1> DEFINE c == cmd[s]
<1>0. PICK q \in Requests : q = c.q
  BY Commands DEF IInv, CommitCreate, CreateCmds
<1>1. /\ c.op = "create" /\ req[q] = "NONE" /\ delivered[q] = {} /\ q \notin sweep.list
      /\ b \in c.bikes => bike[b] = "AVAILABLE"
  BY <1>0 DEF CommitCreate, IInv, CommandInv, Known, RequestInv, Disturbs
<1>2. SameRiders(b)
  BY UnchangedRides DEF CommitCreate
<1>3. /\ req'[q] = "PENDING_APPROVAL" /\ items'[q] = c.bikes
      /\ UNCHANGED <<delivered, sweep>>
      /\ \A p \in Requests \ {q} : req'[p] = req[p] /\ items'[p] = items[p]
  BY <1>0 DEF CommitCreate, IInv, TypeOK, RequestsOK
<1>4. SameOthers(q, b)
  BY <1>3, OneRequest
<1>5. bike'[b] = IF b \in c.bikes THEN "PENDING_DISPATCH" ELSE bike[b]
  BY SetAllBikes DEF CommitCreate, IInv, TypeOK, BikesOK
<1>6. CASE b \in c.bikes
  <2>1. ~Ridden(b) /\ ~Carried(b)
    BY <1>1, <1>6, OrderTells DEF Taken
  <2>2. CarriedBy(q, b)' /\ StatusFor(q)' = "PENDING_DISPATCH"
    BY <1>1, <1>3, <1>6 DEF CarriedBy, Open, OnTheRoad, BeingSwept, StatusFor
  <2> QED BY <1>2, <1>4, <1>5, <1>6, <2>1, <2>2, StillMine DEF Carried
<1>7. CASE b \notin c.bikes
  <2>1. ~CarriedBy(q, b) /\ ~CarriedBy(q, b)'
    BY <1>1, <1>3, <1>7 DEF CarriedBy, Open, OnTheRoad
  <2> QED BY <1>2, <1>4, <1>5, <1>7, <2>1, NotMine
<1> QED BY <1>6, <1>7

LEMMA CloseKeeps ==
    ASSUME IInv, NEW s \in Sessions, CommitClose(s), NEW b \in Bikes, InOrder(b),
           ~Disturbs(cmd[s], b)
    PROVE  InOrder(b)'
<1> DEFINE c == cmd[s]
<1>0. PICK q \in Requests : q = c.q
  BY CommitKnows DEF CommitClose
<1>1. /\ c.op = "close" /\ c.seen = "PENDING_APPROVAL"
      /\ b \in items[q] => ~Late(c) /\ ~BeingSwept(q)
  BY <1>0 DEF CommitClose, IInv, CommandInv, Known, Disturbs
<1>2. SameRiders(b)
  BY UnchangedRides DEF CommitClose
<1>3. /\ req'[q] \in {"CANCELLED", "REJECTED"} /\ UNCHANGED <<items, delivered, sweep>>
      /\ \A p \in Requests \ {q} : req'[p] = req[p]
  BY <1>0 DEF CommitClose, IInv, TypeOK, RequestsOK
<1>4. SameOthers(q, b)
  BY <1>3, OneRequest
<1>5. bike'[b] = IF b \in items[q] THEN "AVAILABLE" ELSE bike[b]
  BY <1>0, SetAllBikes DEF CommitClose, IInv, TypeOK, BikesOK
<1>6. ~CarriedBy(q, b)'
  BY <1>3 DEF CarriedBy, Open, OnTheRoad
<1>7. CASE b \in items[q]
  <2>1. req[q] = "PENDING_APPROVAL" /\ ~BeingSwept(q) /\ b \notin delivered[q]
    BY <1>0, <1>1, <1>7 DEF Late, IInv, RequestInv
  <2>2. CarriedBy(q, b)
    BY <2>1, <1>7 DEF CarriedBy, Open
  <2> QED BY <1>2, <1>4, <1>5, <1>6, <1>7, <2>2, GivenBack
<1>8. CASE b \notin items[q]
  <2>1. ~CarriedBy(q, b)
    BY <1>8 DEF CarriedBy
  <2> QED BY <1>2, <1>4, <1>5, <1>6, <1>8, <2>1, NotMine
<1> QED BY <1>7, <1>8

LEMMA ApproveKeeps ==
    ASSUME IInv, NEW s \in Sessions, CommitApprove(s), NEW b \in Bikes, InOrder(b),
           ~Disturbs(cmd[s], b)
    PROVE  InOrder(b)'
<1> DEFINE c == cmd[s]
<1>0. PICK q \in Requests : q = c.q
  BY CommitKnows DEF CommitApprove
<1>1. /\ c.op = "approve" /\ c.seen = "PENDING_APPROVAL"
      /\ b \in items[q] \ delivered[q] => ~Late(c)
  BY <1>0 DEF CommitApprove, IInv, CommandInv, Known, Disturbs
<1>2. SameRiders(b) /\ bike'[b] = bike[b]
  BY UnchangedRides DEF CommitApprove, bikeRows
<1>3. /\ req'[q] = "APPROVED" /\ UNCHANGED <<items, delivered, sweep>>
      /\ \A p \in Requests \ {q} : req'[p] = req[p]
  BY <1>0 DEF CommitApprove, IInv, TypeOK, RequestsOK
<1>4. SameOthers(q, b)
  BY <1>3, OneRequest
<1>5. CarriedBy(q, b)' <=> CarriedBy(q, b)
  BY <1>0, <1>1, <1>3 DEF CarriedBy, BeingSwept, Late, Open
<1>6. CarriedBy(q, b) => StatusFor(q)' = StatusFor(q)
  BY <1>0, <1>1, <1>3 DEF CarriedBy, Late, StatusFor, OnTheRoad
<1>7. SameCarriers(b)
  BY <1>4, <1>5, <1>6 DEF SameCarriers, SameOthers
<1> QED BY <1>2, <1>7, SameOrder

LEMMA TransitKeeps ==
    ASSUME IInv, NEW s \in Sessions, CommitTransit(s), NEW b \in Bikes, InOrder(b),
           ~Disturbs(cmd[s], b)
    PROVE  InOrder(b)'
<1> DEFINE c == cmd[s]
<1>0. PICK q \in Requests : q = c.q
  BY CommitKnows DEF CommitTransit
<1>1. /\ c.op = "start" /\ c.seen = "APPROVED"
      /\ b \in items[q] => ~Late(c) /\ ~BeingSwept(q) /\ b \notin delivered[q]
  BY <1>0 DEF CommitTransit, IInv, CommandInv, Known, Disturbs
<1>2. SameRiders(b)
  BY UnchangedRides DEF CommitTransit
<1>3. /\ req'[q] = "IN_TRANSIT" /\ UNCHANGED <<items, delivered, sweep>>
      /\ \A p \in Requests \ {q} : req'[p] = req[p]
  BY <1>0 DEF CommitTransit, IInv, TypeOK, RequestsOK
<1>4. SameOthers(q, b)
  BY <1>3, OneRequest
<1>5. bike'[b] = IF b \in items[q] THEN "TRANSPORTING" ELSE bike[b]
  BY <1>0, SetAllBikes DEF CommitTransit, IInv, TypeOK, BikesOK
<1>6. CASE b \in items[q]
  <2>1. CarriedBy(q, b)
    BY <1>0, <1>1, <1>6 DEF CarriedBy, Late, Open
  <2>2. CarriedBy(q, b)' /\ StatusFor(q)' = "TRANSPORTING"
    BY <1>1, <1>3, <1>6 DEF CarriedBy, Open, OnTheRoad, BeingSwept, StatusFor
  <2> QED BY <1>2, <1>4, <1>5, <1>6, <2>1, <2>2, StillMine, CarriedStatus
<1>7. CASE b \notin items[q]
  <2>1. ~CarriedBy(q, b) /\ ~CarriedBy(q, b)'
    BY <1>3, <1>7 DEF CarriedBy
  <2> QED BY <1>2, <1>4, <1>5, <1>7, <2>1, NotMine
<1> QED BY <1>6, <1>7

LEMMA ArrivalKeeps ==
    ASSUME IInv, NEW s \in Sessions, CommitConfirm(s) \/ CommitRevert(s), NEW b \in Bikes,
           InOrder(b), ~Disturbs(cmd[s], b)
    PROVE  InOrder(b)'
<1> DEFINE c == cmd[s]
<1>0. PICK q \in Requests : q = c.q
  BY CommitKnows DEF CommitConfirm, CommitRevert
<1>1. /\ c.op \in {"confirm", "revert"} /\ c.seen \in OnTheRoad /\ c.bikes \subseteq items[q]
      /\ c.op = "revert" => c.bikes = c.road
      /\ c.bikes \subseteq c.road
  BY <1>0 DEF CommitConfirm, CommitRevert, IInv, CommandInv, Known
<1>2. /\ b \in c.bikes => b \notin delivered[q] /\ ~BeingSwept(q)
      /\ b \in c.bikes \cup (items[q] \ delivered[q]) =>
           req[q] \in OnTheRoad /\ (b \in c.road <=> bike[b] = "TRANSPORTING")
      /\ b \in c.road \ c.bikes => ~c.full
  <2>1. b \in c.bikes \cup (items[q] \ delivered[q]) =>
           ~Late(c) /\ (b \in c.road <=> bike[b] = "TRANSPORTING")
    BY <1>0, <1>1 DEF Disturbs
  <2>2. b \in c.bikes => b \notin delivered[q] /\ ~BeingSwept(q)
    BY <1>0, <1>1 DEF Disturbs
  <2>3. b \in c.road \ c.bikes => ~c.full
    BY <1>0, <1>1 DEF Disturbs
  <2> QED BY <1>0, <1>1, <2>1, <2>2, <2>3 DEF Late
<1>3. SameRiders(b)
  BY UnchangedRides DEF CommitConfirm, CommitRevert
<1>4. /\ UNCHANGED <<items, sweep>>
      /\ \A p \in Requests \ {q} : req'[p] = req[p] /\ delivered'[p] = delivered[p]
      /\ bike' = SetAll(bike, c.bikes, "AVAILABLE")
  BY <1>0 DEF CommitConfirm, CommitRevert, IInv, TypeOK, RequestsOK
<1>5. SameOthers(q, b)
  BY <1>4, OneRequest
<1>6. bike'[b] = IF b \in c.bikes THEN "AVAILABLE" ELSE bike[b]
  BY <1>4, SetAllBikes DEF IInv, TypeOK, BikesOK
<1>7. CASE c.op = "confirm"
  <2>1. /\ delivered'[q] = delivered[q] \cup c.bikes
        /\ req'[q] = IF c.full THEN "COMPLETED" ELSE "PARTIALLY_COMPLETED"
    BY <1>0, <1>7 DEF CommitConfirm, CommitRevert, IInv, TypeOK, RequestsOK
  <2>2. CASE b \in c.bikes
    <3>1. CarriedBy(q, b) /\ ~CarriedBy(q, b)'
      BY <1>1, <1>2, <1>4, <2>1, <2>2 DEF CarriedBy, Open
    <3> QED BY <1>3, <1>5, <1>6, <2>2, <3>1, GivenBack
  <2>3. CASE b \notin c.bikes /\ CarriedBy(q, b)
    <3>1. b \in items[q] \ delivered[q] /\ req[q] \in OnTheRoad /\ ~BeingSwept(q)
      BY <1>2, <2>3 DEF CarriedBy
    <3>2. bike[b] = "TRANSPORTING"
      BY <2>3, <3>1, CarriedStatus DEF StatusFor
    <3>3. req'[q] = "PARTIALLY_COMPLETED"
      BY <1>2, <2>1, <2>3, <3>1, <3>2
    <3>4. CarriedBy(q, b)' /\ StatusFor(q)' = "TRANSPORTING"
      BY <1>4, <2>1, <2>3, <3>1, <3>3 DEF CarriedBy, BeingSwept, Open, OnTheRoad, StatusFor
    <3> QED BY <1>3, <1>5, <1>6, <2>3, <3>2, <3>4, StillMine, CarriedStatus
  <2>4. CASE b \notin c.bikes /\ ~CarriedBy(q, b)
    <3>1. ~CarriedBy(q, b)'
      BY <1>2, <1>4, <2>1, <2>4 DEF CarriedBy, BeingSwept, Open
    <3> QED BY <1>3, <1>5, <1>6, <2>4, <3>1, NotMine
  <2> QED BY <2>2, <2>3, <2>4
<1>8. CASE c.op = "revert"
  <2>1. req'[q] = "REVERTED"
    BY <1>0, <1>8 DEF CommitConfirm, CommitRevert, IInv, TypeOK, RequestsOK
  <2>2. ~CarriedBy(q, b)'
    BY <2>1 DEF CarriedBy, Open, OnTheRoad
  <2>3. CASE b \in c.bikes
    <3>1. CarriedBy(q, b)
      BY <1>1, <1>2, <2>3 DEF CarriedBy, Open
    <3> QED BY <1>3, <1>5, <1>6, <2>2, <2>3, <3>1, GivenBack
  <2>4. CASE b \notin c.bikes
    <3>1. ~CarriedBy(q, b)
      <4> SUFFICES ASSUME CarriedBy(q, b)
                   PROVE  FALSE
        OBVIOUS
      <4>1. req[q] \in OnTheRoad /\ bike[b] # "TRANSPORTING"
        BY <1>1, <1>2, <1>8, <2>4 DEF CarriedBy
      <4> QED BY <4>1, CarriedStatus DEF StatusFor
    <3> QED BY <1>3, <1>5, <1>6, <2>2, <2>4, <3>1, NotMine
  <2> QED BY <2>3, <2>4
<1> QED BY <1>1, <1>7, <1>8

\* The sweep: it takes hold of the requests it has read, releases their bikes
\* and cancels them, or dies and lets go of them.
LEMMA ReleaseKeeps ==
    ASSUME IInv, SweepRelease, NEW b \in Bikes, InOrder(b), ~SweepDisturbs(b)
    PROVE  InOrder(b)'
<1>1. /\ sweep.pc = "scanned" /\ sweep'.pc = "released" /\ sweep'.list = sweep.list
      /\ UNCHANGED <<req, items, delivered>>
  BY DEF SweepRelease, IInv, TypeOK, SessionsOK, requestRows
<1>2. SameRiders(b)
  BY UnchangedRides DEF SweepRelease
<1>3. bike'[b] = IF b \in UNION {items[q] : q \in sweep.list} THEN "AVAILABLE" ELSE bike[b]
  BY SetAllBikes DEF SweepRelease, IInv, TypeOK, BikesOK
<1>4. \A q \in Requests : CarriedBy(q, b)' <=> CarriedBy(q, b) /\ q \notin sweep.list
  BY <1>1 DEF CarriedBy, BeingSwept
<1>5. CASE \E q \in sweep.list : b \in items[q]
  <2>1. PICK q \in sweep.list : b \in items[q]
    BY <1>5
  <2>2. q \in Requests /\ req[q] = "PENDING_APPROVAL"
    BY <1>1, <2>1 DEF SweepDisturbs, IInv, TypeOK, SessionsOK
  <2>3. CarriedBy(q, b)
    BY <1>1, <2>1, <2>2 DEF CarriedBy, BeingSwept, Open, IInv, RequestInv
  <2>4. ~Ridden(b)' /\ ~Carried(b)'
    BY <1>2, <1>4, <2>1, <2>2, <2>3, CarriedStatus DEF SameRiders, Ridden, Carried
  <2>5. bike'[b] = "AVAILABLE"
    BY <1>3, <2>1
  <2> QED BY <2>4, <2>5 DEF InOrder, FreeInOrder, Taken
<1>6. CASE \A q \in sweep.list : b \notin items[q]
  <2>1. bike'[b] = bike[b]
    BY <1>3, <1>6
  <2>2. SameCarriers(b)
    BY <1>1, <1>4, <1>6 DEF SameCarriers, CarriedBy, StatusFor
  <2> QED BY <1>2, <2>1, <2>2, SameOrder
<1> QED BY <1>5, <1>6

LEMMA CancelKeeps ==
    ASSUME IInv, SweepCancel, NEW b \in Bikes, InOrder(b)
    PROVE  InOrder(b)'
<1>1. /\ sweep.pc = "released" /\ sweep'.pc = "idle" /\ UNCHANGED <<items, delivered>>
  BY DEF SweepCancel, Idle
<1>2. \A q \in Requests : req'[q] = IF q \in sweep.list THEN "CANCELLED" ELSE req[q]
  BY SetAllRequests DEF SweepCancel, IInv, TypeOK, RequestsOK
<1>3. SameRiders(b) /\ bike'[b] = bike[b]
  BY UnchangedRides DEF SweepCancel, bikeRows
<1>4. SameCarriers(b)
  <2> SUFFICES ASSUME NEW q \in Requests
               PROVE  /\ CarriedBy(q, b)' <=> CarriedBy(q, b)
                      /\ CarriedBy(q, b) => StatusFor(q)' = StatusFor(q)
    BY DEF SameCarriers
  <2>1. CASE q \in sweep.list
    BY <1>1, <1>2, <2>1 DEF CarriedBy, BeingSwept, Open, OnTheRoad
  <2>2. CASE q \notin sweep.list
    BY <1>1, <1>2, <2>2 DEF CarriedBy, BeingSwept, StatusFor
  <2> QED BY <2>1, <2>2
<1> QED BY <1>3, <1>4, SameOrder

LEMMA LetGoKeeps ==
    ASSUME IInv, SweepScan \/ SweepDies, NEW b \in Bikes, InOrder(b), ~SweepDisturbs(b)
    PROVE  InOrder(b)'
<1>1. SameRiders(b) /\ bike'[b] = bike[b] /\ UNCHANGED <<req, items, delivered>>
  BY UnchangedRides DEF SweepScan, SweepDies, bikeRows, requestRows
<1>2. \A q \in Requests : StatusFor(q)' = StatusFor(q)
  BY <1>1 DEF StatusFor
<1>3. CASE sweep.pc # "released"
  <2>1. sweep'.pc # "released"
    BY DEF SweepScan, SweepDies, Idle
  <2>2. SameCarriers(b)
    BY <1>1, <1>2, <1>3, <2>1 DEF SameCarriers, CarriedBy, BeingSwept
  <2> QED BY <1>1, <2>2, SameOrder
<1>4. CASE sweep.pc = "released"
  <2>1. sweep'.pc = "idle"
    BY <1>4 DEF SweepScan, SweepDies, Idle
  <2>2. \A q \in sweep.list : ~(b \in items[q] /\ req[q] \in Open)
    BY <1>1, <1>4, <2>1 DEF SweepDisturbs
  <2>3. SameCarriers(b)
    BY <1>1, <1>2, <2>1, <2>2 DEF SameCarriers, CarriedBy, BeingSwept
  <2> QED BY <1>1, <2>3, SameOrder
<1> QED BY <1>3, <1>4

\* A step leaves a bike in order unless it is disturbed.
LEMMA OrderKeeps ==
    ASSUME IInv, Next, NEW b \in Bikes, InOrder(b), ~Disturbed(b)
    PROVE  InOrder(b)'
<1>1. CASE \/ Reads
           \/ \E s \in Sessions : Abandon(s) \/ CommitRequestSwap(s) \/ CommitRejectSwap(s)
  <2>1. UNCHANGED <<bikeRows, rideRows, requestRows, sweep>>
    BY <1>1, ReadsKnow DEF IInv, Read, Abandon, CommitRequestSwap, CommitRejectSwap
  <2>2. SameRiders(b) /\ SameCarriers(b) /\ bike'[b] = bike[b]
    BY <2>1, UnchangedRides, UnchangedRequests DEF bikeRows
  <2> QED BY <2>2, SameOrder
<1>2. ASSUME NEW s \in Sessions, Done(s), cmd[s].op # "none"
      PROVE  ~Disturbs(cmd[s], b)
  BY <1>2, DoneCommits DEF Disturbed
<1>3. ASSUME NEW rd \in Rides, NEW d \in Bikes, StartRide(rd, d)
      PROVE  InOrder(b)'
  BY <1>3, StartKeeps
<1>4. ASSUME NEW s \in Sessions, CommitEnd(s)
      PROVE  InOrder(b)'
  BY <1>4, <1>2, EndKeeps DEF CommitEnd
<1>5. ASSUME NEW s \in Sessions, CommitApproveSwap(s)
      PROVE  InOrder(b)'
  BY <1>5, <1>2, SwapKeeps DEF CommitApproveSwap
<1>6. ASSUME NEW s \in Sessions, CommitCreate(s)
      PROVE  InOrder(b)'
  BY <1>6, <1>2, CreateKeeps DEF CommitCreate
<1>7. ASSUME NEW s \in Sessions, CommitClose(s)
      PROVE  InOrder(b)'
  BY <1>7, <1>2, CloseKeeps DEF CommitClose
<1>8. ASSUME NEW s \in Sessions, CommitApprove(s)
      PROVE  InOrder(b)'
  BY <1>8, <1>2, ApproveKeeps DEF CommitApprove
<1>9. ASSUME NEW s \in Sessions, CommitTransit(s)
      PROVE  InOrder(b)'
  BY <1>9, <1>2, TransitKeeps DEF CommitTransit
<1>10. ASSUME NEW s \in Sessions, CommitConfirm(s) \/ CommitRevert(s)
       PROVE  InOrder(b)'
  BY <1>10, <1>2, ArrivalKeeps DEF CommitConfirm, CommitRevert
<1>11. CASE SweepScan \/ SweepRelease \/ SweepCancel \/ SweepDies
  BY <1>11, ReleaseKeeps, CancelKeeps, LetGoKeeps DEF Disturbed
<1> QED BY <1>1, <1>3, <1>4, <1>5, <1>6, <1>7, <1>8, <1>9, <1>10, <1>11 DEF Next, Reads

LEMMA OrderKept ==
    ASSUME IInv, [Next]_vars, NEW b \in Bikes, InOrder(b), ~Disturbed(b)
    PROVE  UNCHANGED vars \/ InOrder(b)'
BY OrderKeeps

(* Whatever the size of the fleet, whoever rides a bike that is in order keeps
   it until the ride ends or swaps it: only the named disturbances take it. *)
THEOREM RiddenBikeIsKeptCorrect == Spec => RiddenBikeIsKept
<1>1. IInv /\ [Next]_vars =>
        [\A b \in Bikes : RiddenInOrder(b) => InOrder(b)' \/ Disturbed(b)]_vars
  BY OrderKept DEF InOrder
<1> QED BY <1>1, Invariance, PTL DEF Spec, RiddenBikeIsKept

(* A bike in order that an open request carries stays with it until the
   request delivers it or gives it back, but for the named disturbances. *)
THEOREM CarriedBikeIsKeptCorrect == Spec => CarriedBikeIsKept
<1>1. IInv /\ [Next]_vars =>
        [\A b \in Bikes : CarriedInOrder(b) => InOrder(b)' \/ Disturbed(b)]_vars
  BY OrderKept DEF InOrder
<1> QED BY <1>1, Invariance, PTL DEF Spec, CarriedBikeIsKept

(* A bike nobody counts on is taken by one ride or one request at a time, and
   never blocked for nobody, but for the named disturbances. *)
THEOREM FreeBikeIsKeptCorrect == Spec => FreeBikeIsKept
<1>1. IInv /\ [Next]_vars =>
        [\A b \in Bikes : FreeInOrder(b) => InOrder(b)' \/ Disturbed(b)]_vars
  BY OrderKept DEF InOrder
<1> QED BY <1>1, Invariance, PTL DEF Spec, FreeBikeIsKept
=============================================================================
