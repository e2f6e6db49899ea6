------------------------------ MODULE MCRental ------------------------------
(***************************************************************************)
(* An instance of Rental for TLC.  r3 competes with r1 for the bike and    *)
(* with r2 for the customer, and stB has room for one bike.  u1, who has   *)
(* the subscription, can pay for a ride, and u2 for a slot besides.        *)
(***************************************************************************)
EXTENDS Rental, TLC

CONSTANTS u1, u2, b1, b2, r1, r2, r3, stA, stB

MCOwner == [r \in Rentals |-> IF r = r1 THEN u1 ELSE u2]
MCBikeOf == [r \in Rentals |-> IF r = r2 THEN b2 ELSE b1]
MCHome == [b \in Bikes |-> stA]
MCBalance == [u \in Users |-> IF u = u1 THEN 2 ELSE 3]
MCCapacity == [st \in Stations |-> IF st = stB THEN 1 ELSE 3]
MCIncoming == [st \in Stations |-> IF st = stA THEN 1 ELSE 0]
MCSlotLimit == [st \in Stations |-> 1]

SessionSymmetry == Permutations(Sessions)
=============================================================================
