----------------------------- MODULE Withdrawal -----------------------------
(***************************************************************************)
(* Withdrawals: POST /customers/withdraw debits the balance, sends the     *)
(* coins from the subwallet of the customer and waits for the transaction; *)
(* an error of the sending is answered by crediting the debit back         *)
(* (internal/modules/server/balance_handlers.go, ton/wallet.go).           *)
(*                                                                         *)
(* Around it: the chain, which decides about a broadcast message whether or *)
(* not anybody still waits for it, and the deals between customers, which  *)
(* move balances and no coins.  The statements that lock, pay and return   *)
(* the price of a deal ask for no earlier one (storage/customers.go): they *)
(* come here in any order and number, Escrow says which of these happen.   *)
(***************************************************************************)
EXTENDS Ledger, Totals

CONSTANTS
    Calls,           \* the withdrawals, each one HTTP request
    Amounts,         \* what may be asked for, between the minimum and the maximum
    Fee,             \* withdrawFeeTON
    Deals,
    Advertiser, Manager,  \* [Deals -> Customers]
    Price,           \* [Deals -> Nat \ {0}]
    InitialBalance,  \* [Customers -> Nat]: deposited, credited, in the subwallet
    MaxMoved,        \* bound: what is locked, paid and returned for a deal, in all
    MaxFaults,       \* bound: crashes, failed calls to the chain and the database
    Nobody

ASSUME WithdrawalAssumption ==
    /\ IsFiniteSet(Customers) /\ IsFiniteSet(Calls) /\ IsFiniteSet(Deals)
    /\ Nobody \notin Customers
    /\ Amounts \subseteq Nat \ {0} /\ Fee \in Nat
    /\ Advertiser \in [Deals -> Customers] /\ Manager \in [Deals -> Customers]
    /\ Price \in [Deals -> Nat \ {0}]
    /\ InitialBalance \in [Customers -> Nat]
    /\ MaxMoved \in Nat /\ MaxFaults \in Nat

VARIABLES
    call,     \* the HTTP requests
    wallet,   \* the chain: coins in the subwallet of a customer
    seqno,    \* the chain: how many messages a subwallet has accepted
    message,  \* the chain: what became of the message of a call
    \* history, read by no action but for the bound
    locked,   \* what was locked for a deal, in all
    settled,  \* what was paid or returned for it, in all
    faults

deals == <<locked, settled>>
vars == <<ledger, call, wallet, seqno, message, deals, faults>>

\* A call ends refused (nothing debited), answered (202), refunded, or aborted
\* (nobody will look at it again).
Phases == {"new", "checked", "deducted", "waiting", "failed",
           "refused", "answered", "refunded", "aborted"}
CallType == [phase : Phases, customer : Customers \union {Nobody}, amount : Amounts \union {0}]
NewCall == [phase |-> "new", customer |-> Nobody, amount |-> 0]

\* empty: the wallet accepted the message and skipped the transfer.
Outcomes == {"none", "pending", "delivered", "empty", "expired"}
MessageType == [state : Outcomes, seqno : Nat]
NoMessage == [state |-> "none", seqno |-> 0]

Init ==
    /\ ton_balance = InitialBalance
    /\ ton_balance_locked = [c \in Customers |-> 0]
    /\ call = [r \in Calls |-> NewCall]
    /\ wallet = InitialBalance
    /\ seqno = [c \in Customers |-> 0]
    /\ message = [r \in Calls |-> NoMessage]
    /\ locked = [d \in Deals |-> 0]
    /\ settled = [d \in Deals |-> 0]
    /\ faults = 0

Debit(r) == call[r].amount + Fee
Fault == faults < MaxFaults /\ faults' = faults + 1
Goes(r, from, to) ==
    /\ call[r].phase = from
    /\ call' = [call EXCEPT ![r].phase = to]
-----------------------------------------------------------------------------
(* The handler Withdraw. *)

\* The amount is in range and the balance just read covers it.
Check(r, c, amount) ==
    /\ call[r] = NewCall
    /\ amount + Fee <= ton_balance[c]
    /\ call' = [call EXCEPT ![r] = [phase |-> "checked", customer |-> c, amount |-> amount]]
    /\ UNCHANGED <<ledger, wallet, seqno, message, deals, faults>>

DeductForgetsFee(r) ==
    /\ Goes(r, "checked", "deducted")
    /\ DeductBalance(call[r].customer, call[r].amount)
    /\ UNCHANGED <<wallet, seqno, message, deals, faults>>

Deduct(r) ==
    /\ Goes(r, "checked", "deducted")
    /\ DeductBalance(call[r].customer, Debit(r))
    /\ UNCHANGED <<wallet, seqno, message, deals, faults>>

\* The balance has been spent since the check.
Refuse(r) ==
    /\ Goes(r, "checked", "refused")
    /\ ~CanAfford(call[r].customer, Debit(r))
    /\ UNCHANGED <<ledger, wallet, seqno, message, deals, faults>>

\* The database does not answer: nothing is debited.
DeductFails(r) ==
    /\ Goes(r, "checked", "refused")
    /\ Fault
    /\ UNCHANGED <<ledger, wallet, seqno, message, deals>>

\* SendTON: the message carries the sequence number of the subwallet as read now,
\* and is broadcast.
Send(r) ==
    /\ Goes(r, "deducted", "waiting")
    /\ message' = [message EXCEPT ![r] = [state |-> "pending", seqno |-> seqno[call[r].customer]]]
    /\ UNCHANGED <<ledger, wallet, seqno, deals, faults>>

\* SendTON fails before anything is broadcast: bad address, no connection.
SendFails(r) ==
    /\ Goes(r, "deducted", "failed")
    /\ UNCHANGED <<ledger, wallet, seqno, message, deals, faults>>

\* SendManyWaitTxHash has found the transaction.
Confirm(r) ==
    /\ Goes(r, "waiting", "answered")
    /\ message[r].state \in {"delivered", "empty"}
    /\ UNCHANGED <<ledger, wallet, seqno, message, deals, faults>>

\* ... or it has not, in the time it waits.
GiveUp(r) ==
    /\ Goes(r, "waiting", "failed")
    /\ UNCHANGED <<ledger, wallet, seqno, message, deals, faults>>

Compensate(r) ==
    /\ Goes(r, "failed", "refunded")
    /\ RefundBalance(call[r].customer, Debit(r))
    /\ UNCHANGED <<wallet, seqno, message, deals, faults>>

\* RefundBalance fails, as it does when the context of the request was cancelled:
\* logged.
CompensateFails(r) ==
    /\ Goes(r, "failed", "aborted")
    /\ Fault
    /\ UNCHANGED <<ledger, wallet, seqno, message, deals>>

Withdraw(r) ==
    \/ \E c \in Customers, amount \in Amounts : Check(r, c, amount)
    \/ Deduct(r) \/ Refuse(r) \/ DeductFails(r)
    \/ Send(r) \/ SendFails(r) \/ Confirm(r) \/ GiveUp(r)
    \/ Compensate(r) \/ CompensateFails(r)
-----------------------------------------------------------------------------
(* The chain. *)

Accepted(r, outcome) ==
    /\ message' = [message EXCEPT ![r].state = outcome]
    /\ seqno' = [seqno EXCEPT ![call[r].customer] = @ + 1]
    /\ UNCHANGED <<ledger, call, deals, faults>>

\* The message is next in line and the coins are there; gas costs up to the fee.
Deliver(r) ==
    LET c == call[r].customer IN
    /\ message[r].state = "pending" /\ message[r].seqno = seqno[c]
    /\ \E gas \in 0..Fee :
          /\ call[r].amount + gas <= wallet[c]
          /\ wallet' = [wallet EXCEPT ![c] = @ - call[r].amount - gas]
    /\ Accepted(r, "delivered")

\* The message is next in line and the coins are not there: it costs its gas.
DeliverEmpty(r) ==
    LET c == call[r].customer IN
    /\ message[r].state = "pending" /\ message[r].seqno = seqno[c]
    /\ wallet[c] < call[r].amount
    /\ \E gas \in 0..Fee :
          /\ gas <= wallet[c]
          /\ wallet' = [wallet EXCEPT ![c] = @ - gas]
    /\ Accepted(r, "empty")

\* A message is valid for a limited time only.
Expire(r) ==
    /\ message[r].state = "pending"
    /\ message' = [message EXCEPT ![r].state = "expired"]
    /\ UNCHANGED <<ledger, call, wallet, seqno, deals, faults>>

ChainStep(r) == Deliver(r) \/ DeliverEmpty(r) \/ Expire(r)
-----------------------------------------------------------------------------
(* The deals, as the balances see them. *)

Moves(d) ==
    /\ locked[d] + settled[d] + Price[d] <= MaxMoved
    /\ UNCHANGED <<call, wallet, seqno, message, faults>>

Settles(d) ==
    /\ Moves(d)
    /\ settled' = [settled EXCEPT ![d] = @ + Price[d]]
    /\ UNCHANGED locked

\* MakeDeal, twice when two requests of one deal overlap.
HoldDeal(d) ==
    /\ Moves(d)
    /\ LockBalanceForDeal(Advertiser[d], Price[d])
    /\ locked' = [locked EXCEPT ![d] = @ + Price[d]]
    /\ UNCHANGED settled

\* The publisher, again when it dies before the status is written.
PayDeal(d) ==
    Settles(d) /\ TransferBalanceToManagerForDeal(Advertiser[d], Manager[d], Price[d])

\* The refunder, for a deal that never locked anything as well.
ReturnDeal(d) == Settles(d) /\ UnlockBalanceForDeal(Advertiser[d], Price[d])

DealStep(d) == HoldDeal(d) \/ PayDeal(d) \/ ReturnDeal(d)
-----------------------------------------------------------------------------
\* No call survives the process; the chain does not notice.
Crash ==
    /\ Fault
    /\ call' = [r \in Calls |->
                  CASE call[r].phase = "checked" -> [call[r] EXCEPT !.phase = "refused"]
                    [] call[r].phase \in {"deducted", "waiting", "failed"} ->
                           [call[r] EXCEPT !.phase = "aborted"]
                    [] OTHER -> call[r]]
    /\ UNCHANGED <<ledger, wallet, seqno, message, deals>>

Next ==
    \/ \E r \in Calls : Withdraw(r) \/ ChainStep(r)
    \/ \E d \in Deals : DealStep(d)
    \/ Crash

Spec == Init /\ [][Next]_vars
-----------------------------------------------------------------------------
(* Type invariant; a call that may still be sent has no message yet. *)
TypeOK ==
    /\ LedgerType
    /\ call \in [Calls -> CallType]
    /\ wallet \in [Customers -> Nat] /\ seqno \in [Customers -> Nat]
    /\ message \in [Calls -> MessageType]
    /\ \A r \in Calls :
          call[r].phase \in {"new", "checked", "deducted", "refused"} => message[r] = NoMessage
    /\ locked \in [Deals -> Nat] /\ settled \in [Deals -> Nat]
    /\ faults \in Nat

(* No spendable balance is ever negative, though every withdrawal checks a   *)
(* balance it read earlier and deals are made at the same time.              *)
BalanceNonNegative == \A c \in Customers : ton_balance[c] >= 0

Excess(a, b) == IF a > b THEN a - b ELSE 0

\* The coins in the subwallets, and what the customers may still claim: what they
\* may spend, and what is locked for a deal and not settled.
Coins == Total(wallet)
Owed == Total(ton_balance) + Total([d \in Deals |-> Excess(locked[d], settled[d])])

\* What was paid or returned for a deal beyond what was locked for it.
Unbacked == Total([d \in Deals |-> Excess(settled[d], locked[d])])

\* The most that left the subwallet of a customer because of a call.
Cost(r) ==
    CASE message[r].state = "delivered" -> Debit(r)
      [] message[r].state = "empty" -> Fee
      [] OTHER -> 0

\* What left the subwallets for calls that were refunded all the same.
PaidTwice == Total([r \in Calls |-> IF call[r].phase = "refunded" THEN Cost(r) ELSE 0])

(* The backend owes its customers no more than there is in their subwallets  *)
(* together, through withdrawals, deals, failures and crashes, in whatever   *)
(* order; two things break it, and by no more than they add up to: refunds   *)
(* of messages the chain accepted after all, and settlements of deals that   *)
(* were not locked, or settled already.                                      *)
Solvent == Owed <= Coins + PaidTwice + Unbacked
=============================================================================
