------------------------------- MODULE Escrow -------------------------------
(***************************************************************************)
(* What a hold on a wallet promises, whatever keeps it.  Money that is     *)
(* held has left the owner's available balance; the hold ends once, either *)
(* settled (the money is gone) or returned (the money is available again). *)
(* Other spending only ever uses what is available.                        *)
(*                                                                         *)
(* Withdrawal implements this specification with a reserved balance, a     *)
(* wallet_holds row and a withdrawal row, Rental with the deposit of a     *)
(* ride: its wallet_holds row and the other debits of the wallet.          *)
(***************************************************************************)
EXTENDS Naturals

CONSTANTS Users, Items, Owner, Amount, InitialAvailable

VARIABLES available, phase

escrowVars == <<available, phase>>

Phases == {"none", "held", "settled", "returned"}

EscrowTypeOK ==
    /\ available \in [Users -> Nat]
    /\ phase \in [Items -> Phases]

EscrowInit ==
    /\ available = InitialAvailable
    /\ phase = [i \in Items |-> "none"]

Hold(i) ==
    /\ phase[i] = "none"
    /\ available[Owner[i]] >= Amount[i]
    /\ available' = [available EXCEPT ![Owner[i]] = @ - Amount[i]]
    /\ phase' = [phase EXCEPT ![i] = "held"]

Settle(i) ==
    /\ phase[i] = "held"
    /\ phase' = [phase EXCEPT ![i] = "settled"]
    /\ UNCHANGED available

Return(i) ==
    /\ phase[i] = "held"
    /\ available' = [available EXCEPT ![Owner[i]] = @ + Amount[i]]
    /\ phase' = [phase EXCEPT ![i] = "returned"]

SpendAvailable(u) ==
    /\ \E a \in 1..available[u] : available' = [available EXCEPT ![u] = @ - a]
    /\ UNCHANGED phase

EscrowNext ==
    \/ \E i \in Items : Hold(i) \/ Settle(i) \/ Return(i)
    \/ \E u \in Users : SpendAvailable(u)

EscrowSpec == EscrowInit /\ [][EscrowNext]_escrowVars
=============================================================================
