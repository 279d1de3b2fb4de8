---------------------------- MODULE DealContract ----------------------------
(***************************************************************************)
(* What the marketplace promises the two parties of a deal: the price is   *)
(* set aside once, and then it goes to the manager for a finished display  *)
(* or back to the advertiser after the deal is over, once and not both.    *)
(*                                                                         *)
(* A contract can be broken at any moment; nothing is promised afterwards. *)
(* The specification that implements this one has to say when.             *)
(***************************************************************************)
EXTENDS Naturals

CONSTANT Deals

VARIABLES
    stage,     \* how far the deal is
    reserved,  \* how often its price was set aside, ...
    returned,  \* ... given back to the advertiser, ...
    paid       \* ... and given to the manager

contract == <<stage, reserved, returned, paid>>
sums == <<reserved, returned, paid>>

Stages == {"none", "offered", "agreed", "displayed", "settled", "over", "broken"}

Init ==
    /\ stage = [d \in Deals |-> "none"]
    /\ reserved = [d \in Deals |-> 0]
    /\ returned = [d \in Deals |-> 0]
    /\ paid = [d \in Deals |-> 0]

Become(d, s) == stage' = [stage EXCEPT ![d] = s]

Offer(d) == stage[d] = "none" /\ Become(d, "offered") /\ UNCHANGED sums

\* The advertiser's offer reaches the manager: from now on it is covered.
Reserve(d) ==
    /\ stage[d] = "offered"
    /\ Become(d, "agreed")
    /\ reserved' = [reserved EXCEPT ![d] = 1]
    /\ UNCHANGED <<returned, paid>>

Display(d) == stage[d] = "agreed" /\ Become(d, "displayed") /\ UNCHANGED sums

Postpone(d) == stage[d] = "displayed" /\ paid[d] = 0 /\ Become(d, "agreed") /\ UNCHANGED sums

\* Cancelled, expired, violated or failed, before the manager was paid.
End(d) ==
    /\ stage[d] \in {"offered", "agreed", "displayed"} /\ paid[d] = 0
    /\ Become(d, "over")
    /\ UNCHANGED sums

\* One return for each deal that is over.  That its price was set aside is not
\* asked: a deal that is over before it was agreed is returned as well.
Return(d) ==
    /\ stage[d] = "over" /\ returned[d] = 0
    /\ returned' = [returned EXCEPT ![d] = 1]
    /\ UNCHANGED <<stage, reserved, paid>>

Pay(d) ==
    /\ stage[d] = "displayed" /\ paid[d] = 0
    /\ paid' = [paid EXCEPT ![d] = 1]
    /\ UNCHANGED <<stage, reserved, returned>>

Settle(d) == stage[d] = "displayed" /\ paid[d] = 1 /\ Become(d, "settled") /\ UNCHANGED sums

\* A fault may break several contracts at once.
Break(ds) ==
    /\ stage' = [d \in Deals |-> IF d \in ds THEN "broken" ELSE stage[d]]
    /\ reserved' = [d \in Deals |-> IF d \in ds THEN 0 ELSE reserved[d]]
    /\ returned' = [d \in Deals |-> IF d \in ds THEN 0 ELSE returned[d]]
    /\ paid' = [d \in Deals |-> IF d \in ds THEN 0 ELSE paid[d]]

Next ==
    \/ \E d \in Deals :
          \/ Offer(d) \/ Reserve(d) \/ Display(d) \/ Postpone(d) \/ End(d)
          \/ Return(d) \/ Pay(d) \/ Settle(d)
    \/ \E ds \in SUBSET Deals : Break(ds)

Spec == Init /\ [][Next]_contract
=============================================================================
