--------------------------- MODULE MCReservation ---------------------------
(***************************************************************************)
(* Instances of Reservation for TLC: two users after the same bike, and a  *)
(* second bike that one of them may also ask for.                          *)
(***************************************************************************)
EXTENDS Reservation, TLC

CONSTANTS u1, u2, b1, b2, r1, r2, r3

MCOwner  == [r \in Reservations |-> IF r = r1 THEN u1 ELSE u2]
MCBikeOf == [r \in Reservations |-> IF r = r3 THEN b2 ELSE b1]

\* Sessions are interchangeable; used in the runs without liveness.
SessionSymmetry == Permutations(Sessions)
=============================================================================
