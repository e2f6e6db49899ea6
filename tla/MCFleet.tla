------------------------------- MODULE MCFleet -------------------------------
(***************************************************************************)
(* An instance of Fleet for TLC: two bikes that stand at stA, which has    *)
(* fewer places than bikes.                                                *)
(***************************************************************************)
EXTENDS Fleet, TLC

CONSTANTS b1, b2, rd1, rd2, w1, q1, q2, stA, stB

MCHome == [b \in Bikes |-> stA]
MCRideOf == [w \in Swaps |-> rd1]
MCCapacity == [st \in Stations |-> IF st = stA THEN 1 ELSE 2]

FleetSymmetry == Permutations(Bikes) \cup Permutations(Sessions) \cup Permutations(Requests)
=============================================================================
