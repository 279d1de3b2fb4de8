-------------------------- MODULE MCChannelRegistry --------------------------
(***************************************************************************)
(* A small instance of ChannelRegistry: one channel with two admins, and   *)
(* an advertiser.                                                          *)
(***************************************************************************)
EXTENDS ChannelRegistry, TLC

CONSTANTS owner, admin, advertiser, channel

MCCustomers == {owner, admin, advertiser}
MCChats == {channel}
MCAdmins == [c \in MCChats |-> {owner, admin}]
\* Requests are interchangeable, and so are the two admins.
MCSymmetry == Permutations(Requests) \union Permutations({owner, admin})
=============================================================================
