------------------------------ MODULE MCOutbox ------------------------------
(***************************************************************************)
(* Instances of Outbox for TLC: j1 and j2 share a dedupe key.              *)
(***************************************************************************)
EXTENDS Outbox, TLC

CONSTANTS j1, j2, j3

MCKeyOf == [j \in Jobs |-> IF j = j3 THEN "other" ELSE "shared"]

=============================================================================
