------------------------------ MODULE MCEscrow ------------------------------
(***************************************************************************)
(* Small instances of Escrow: one advertiser and one manager, one or two   *)
(* deals in the same channel.                                              *)
(***************************************************************************)
EXTENDS EscrowContract, FiniteSetsExt, TLC

CONSTANTS advertiser, manager, channel

MCCustomers == {advertiser, manager}
MCChannels == {channel}
MCAdvertiser == [d \in Deals |-> advertiser]
MCManager == [d \in Deals |-> manager]
MCChannelOf == [d \in Deals |-> channel]
\* Requests are interchangeable, and so are the deals: they differ in nothing.
MCSymmetry == Permutations(Requests) \union Permutations(Deals)

MCPrice == [d \in Deals |-> 2]

\* Enough for two locks: a third, of a deal locked twice, has to fail.
MCAmpleBalance == [c \in MCCustomers |-> IF c = advertiser THEN 4 ELSE 0]

\* Enough for one lock, whether or not a fault wasted it.
MCScarceBalance == [c \in MCCustomers |-> IF c = advertiser THEN 3 ELSE 0]

\* Total adds up what it is given.
ASSUME \A amounts \in [1..3 -> 0..2] :
           Total(amounts) = MapThenSumSet(LAMBDA i : amounts[i], 1..3)
=============================================================================
