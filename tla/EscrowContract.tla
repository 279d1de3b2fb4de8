--------------------------- MODULE EscrowContract ---------------------------
(***************************************************************************)
(* Escrow implements DealContract.                                         *)
(***************************************************************************)
EXTENDS Escrow

\* The publisher has paid for a display that somebody ended meanwhile.
PaidTooLate(d) == Paying(d) /\ status[d] # "PUBLISHED"

\* The contract of a deal is broken by a write that lands on a deal that had
\* moved on, by a fault between two statements of a pair, or by a late payment.
Broken(d) == overrun[d] \/ torn[d] \/ PaidTooLate(d)

StageOf(d) ==
    IF Broken(d) THEN "broken"
    ELSE CASE status[d] = "NONE" -> "none"
           [] status[d] = "DRAFT" -> "offered"
           [] status[d] \in Negotiating -> "agreed"
           [] status[d] = "PUBLISHED" -> "displayed"
           [] status[d] = "COMPLETED" -> "settled"
           [] OTHER -> "over"

Unbroken(d, n) == IF Broken(d) THEN 0 ELSE n

Contract ==
    INSTANCE DealContract WITH
        stage <- [d \in Deals |-> StageOf(d)],
        reserved <- [d \in Deals |-> Unbroken(d, Landed(d))],
        returned <- [d \in Deals |-> Unbroken(d, refunds[d])],
        paid <- [d \in Deals |-> Unbroken(d, payouts[d])]

(* Every step of the handlers, loops and faults is a step of the contracts of *)
(* the deals, or none: a contract is kept until a stale write, a torn pair of *)
(* statements or a late payment breaks it, and nothing else does.             *)
KeepsContract == Contract!Spec

=============================================================================
