----------------------------- MODULE MCDeposits -----------------------------
(***************************************************************************)
(* Small instances of Deposits: two customers, and transfers to the        *)
(* subwallet of the first.                                                 *)
(***************************************************************************)
EXTENDS Deposits

CONSTANTS alice, bob, alices, t1

MCCustomers == {alice, bob}
MCOwn == [c \in MCCustomers |-> IF c = alice THEN alices ELSE Other]
MCTo == [tx \in Txs |-> alices]
MCAmount == [tx \in Txs |-> IF tx = t1 THEN 1 ELSE 2]
MCInitialBalance == [c \in MCCustomers |-> IF c = alice THEN 1 ELSE 0]
=============================================================================
