---------------------------- MODULE MCWithdrawal ----------------------------
(***************************************************************************)
(* Instances of Withdrawal for TLC.  The constants that are functions are  *)
(* given here; the sets and the bounds are in the .cfg files.              *)
(***************************************************************************)
EXTENDS Withdrawal, FiniteSetsExt

CONSTANTS u1, w1, w2

\* One wallet with money for either withdrawal and a little more, and not for
\* both of them together with other spending.
MCOwner          == [w \in Withdrawals |-> u1]
MCAmount         == [w \in Withdrawals |-> IF w = w1 THEN 1 ELSE 2]
MCInitialBalance == [u \in Users |-> 3]
MCSumOf          == [S \in SUBSET Withdrawals |-> MapThenSumSet(LAMBDA w : MCAmount[w], S)]
=============================================================================
