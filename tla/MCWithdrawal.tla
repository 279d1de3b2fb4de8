---------------------------- MODULE MCWithdrawal ----------------------------
(***************************************************************************)
(* Small instances of Withdrawal: deals of an advertiser and a manager.    *)
(***************************************************************************)
EXTENDS Withdrawal, TLC

CONSTANTS advertiser, manager

MCCustomers == {advertiser, manager}
MCAdvertiser == [d \in Deals |-> advertiser]
MCManager == [d \in Deals |-> manager]
MCPrice == [d \in Deals |-> 3]
MCInitialBalance == [c \in MCCustomers |-> IF c = advertiser THEN 6 ELSE 2]
MCSymmetry == Permutations(Calls) \union Permutations(Deals)
=============================================================================
