------------------------------ MODULE MCTopup ------------------------------
(***************************************************************************)
(* Instances of Topup for TLC: one wallet, a Checkout Session and a        *)
(* PaymentSheet.                                                           *)
(***************************************************************************)
EXTENDS Topup, FiniteSetsExt

CONSTANTS u1, a1, a2

MCOwner          == [a \in Attempts |-> u1]
MCAmount         == [a \in Attempts |-> IF a = a1 THEN 1 ELSE 2]
MCKind           == [a \in Attempts |-> IF a = a1 THEN "checkout" ELSE "sheet"]
MCInitialBalance == [u \in Users |-> 0]
MCSumOf          == [S \in SUBSET Attempts |-> MapThenSumSet(LAMBDA a : MCAmount[a], S)]
=============================================================================
