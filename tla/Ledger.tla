------------------------------- MODULE Ledger -------------------------------
(***************************************************************************)
(* The two money columns of the customers table and the single SQL         *)
(* statements (or single transactions) that change them,                   *)
(* internal/modules/storage/customers.go.  Amounts are natural numbers of   *)
(* one smallest unit: the rounding of double precision is left out.        *)
(*                                                                         *)
(* The operators are action fragments: they constrain the two columns and  *)
(* nothing else, and are conjoined by the modules that move money.         *)
(***************************************************************************)
EXTENDS Integers

CONSTANT Customers

VARIABLES
    ton_balance,        \* what a customer may spend or withdraw
    ton_balance_locked  \* what is held for the deals of an advertiser

ledger == <<ton_balance, ton_balance_locked>>

LedgerType ==
    /\ ton_balance \in [Customers -> Int]
    /\ ton_balance_locked \in [Customers -> Int]

\* The WHERE clause ton_balance >= amount of the conditional UPDATEs.
CanAfford(c, amount) == ton_balance[c] >= amount

\* UPDATE ... SET ton_balance = ton_balance - amount,
\* ton_balance_locked = ton_balance_locked + amount WHERE ton_balance >= amount.
MoveToLocked(c, amount) ==
    /\ ton_balance' = [ton_balance EXCEPT ![c] = @ - amount]
    /\ ton_balance_locked' = [ton_balance_locked EXCEPT ![c] = @ + amount]

LockWithoutWhereClause(c, amount) == MoveToLocked(c, amount)

LockBalanceForDeal(c, amount) ==
    /\ CanAfford(c, amount)
    /\ MoveToLocked(c, amount)

UnlockForgetsLocked(c, amount) ==
    /\ ton_balance' = [ton_balance EXCEPT ![c] = @ + amount]
    /\ UNCHANGED ton_balance_locked

\* The refund has no guard: it never asks whether anything is locked.
UnlockBalanceForDeal(c, amount) ==
    /\ ton_balance' = [ton_balance EXCEPT ![c] = @ + amount]
    /\ ton_balance_locked' = [ton_balance_locked EXCEPT ![c] = @ - amount]

\* One database transaction with two updates, neither of them guarded.
TransferBalanceToManagerForDeal(advertiser, manager, amount) ==
    /\ ton_balance_locked' = [ton_balance_locked EXCEPT ![advertiser] = @ - amount]
    /\ ton_balance' = [ton_balance EXCEPT ![manager] = @ + amount]

\* A credit: ProcessDepositForTransaction, and RefundBalance after a withdrawal.
AddTonBalance(c, amount) ==
    /\ ton_balance' = [ton_balance EXCEPT ![c] = @ + amount]
    /\ UNCHANGED ton_balance_locked

RefundBalance(c, amount) == AddTonBalance(c, amount)

DeductWithoutWhereClause(c, amount) == AddTonBalance(c, -amount)

DeductBalance(c, amount) == CanAfford(c, amount) /\ AddTonBalance(c, -amount)
=============================================================================
