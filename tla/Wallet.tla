------------------------------- MODULE Wallet -------------------------------
(***************************************************************************)
(* One row of the "wallets" table and the conditional updates that the     *)
(* wallet command repository runs on it.  Every update is one SQL          *)
(* statement, so each is a function from the row before to the row after;  *)
(* the WHERE clause of the statement is a predicate of its own, because    *)
(* some callers abort when it is false and some ignore it.                 *)
(***************************************************************************)
EXTENDS Integers

WalletRow == [balance : Nat, reserved : Nat]

\* Mutant: a WHERE clause that compares with the balance alone.
MutAvailable(row) == row.balance

\* What decreaseBalance and reserveBalance compare an amount with.
Available(row) == row.balance - row.reserved

\* reserveBalance: balance - reserved_balance >= amount.
CanReserve(row, amount) == Available(row) >= amount
Reserve(row, amount) == [row EXCEPT !.reserved = @ + amount]

\* releaseReservedBalance: a row with less reserved than the amount is left
\* alone, and the callers that close a withdrawal do not look at the result.
CanRelease(row, amount) == row.reserved >= amount
Release(row, amount) ==
    IF CanRelease(row, amount) THEN [row EXCEPT !.reserved = @ - amount] ELSE row

\* decreaseBalance: the debit never eats into the reserved part.
CanDebit(row, amount) == Available(row) >= amount
Debit(row, amount) == [row EXCEPT !.balance = @ - amount]

\* increaseBalance.
Credit(row, amount) == [row EXCEPT !.balance = @ + amount]
=============================================================================
