-------------------------- MODULE WithdrawalProofs --------------------------
(***************************************************************************)
(* Theorems about Withdrawal, for any number of customers, concurrent      *)
(* calls, amounts and faults.                                              *)
(***************************************************************************)
EXTENDS Withdrawal, TotalsTheorems

\* Types, and balances that are not negative.
LedgerInv == LedgerType /\ BalanceNonNegative

\* A call that has begun knows its customer, and one that may still be sent has no
\* message.
CallInv ==
    /\ call \in [Calls -> CallType]
    /\ message \in [Calls -> MessageType]
    /\ \A r \in Calls :
          /\ call[r].phase # "new" => call[r].customer \in Customers
          /\ call[r].phase \in {"new", "checked", "deducted", "refused"} => message[r] = NoMessage

ChainInv ==
    /\ wallet \in [Customers -> Nat] /\ seqno \in [Customers -> Nat]
    /\ locked \in [Deals -> Nat] /\ settled \in [Deals -> Nat] /\ faults \in Nat

IInv == LedgerInv /\ CallInv /\ ChainInv

LEMMA InvInit == Init => IInv
<1> SUFFICES ASSUME Init PROVE IInv
  OBVIOUS
<1>1. LedgerInv
  BY WithdrawalAssumption DEF Init, LedgerInv, LedgerType, BalanceNonNegative
<1>2. NewCall \in CallType /\ NoMessage \in MessageType /\ NewCall.phase = "new"
  BY DEF NewCall, CallType, Phases, NoMessage, MessageType, Outcomes
<1>3. CallInv
  BY <1>2 DEF Init, CallInv
<1>4. ChainInv
  BY WithdrawalAssumption DEF Init, ChainInv
<1> QED
  BY <1>1, <1>3, <1>4 DEF IInv

\* What the invariant says of one call.
LEMMA CallFields ==
    ASSUME CallInv, NEW r \in Calls
    PROVE  call[r].amount \in Nat /\ Debit(r) \in Nat
<1>1. call[r].amount \in Amounts \union {0}
  BY DEF CallInv, CallType
<1>2. call[r].amount \in Nat /\ Fee \in Nat
  <2>1. (\A a \in Amounts : a \in Nat) /\ Fee \in Nat
    BY WithdrawalAssumption
  <2> QED
    BY <1>1, <2>1
<1> QED
  BY <1>2 DEF Debit
-----------------------------------------------------------------------------
(* The balances. *)

\* A credit keeps types and signs; so does a debit that the customer can afford.
LEMMA CreditKeeps ==
    ASSUME LedgerInv, NEW c \in Customers, NEW amount \in Nat, AddTonBalance(c, amount)
    PROVE  LedgerInv'
BY DEF LedgerInv, LedgerType, BalanceNonNegative, AddTonBalance

LEMMA DebitKeeps ==
    ASSUME LedgerInv, NEW c \in Customers, NEW amount \in Nat, DeductBalance(c, amount)
    PROVE  LedgerInv'
BY DEF LedgerInv, LedgerType, BalanceNonNegative, DeductBalance, CanAfford, AddTonBalance

\* No step of anybody makes a balance negative.
LEMMA LedgerStep ==
    ASSUME IInv, [Next]_vars
    PROVE  LedgerInv'
<1> USE DEF IInv
<1>1. CASE UNCHANGED ledger
  BY <1>1 DEF ledger, LedgerInv, LedgerType, BalanceNonNegative
<1>2. ASSUME NEW r \in Calls, Deduct(r) \/ Compensate(r)
      PROVE  LedgerInv'
  <2>1. Debit(r) \in Nat /\ call[r].customer \in Customers
    BY <1>2, CallFields DEF Deduct, Compensate, Goes, CallInv
  <2>2. \/ DeductBalance(call[r].customer, Debit(r))
        \/ AddTonBalance(call[r].customer, Debit(r))
    BY <1>2 DEF Deduct, Compensate, RefundBalance
  <2> QED
    BY <2>1, <2>2, CreditKeeps, DebitKeeps
<1>3. ASSUME NEW d \in Deals, DealStep(d)
      PROVE  LedgerInv'
  <2>1. Price[d] \in Nat /\ Advertiser[d] \in Customers /\ Manager[d] \in Customers
    BY WithdrawalAssumption
  <2>2. CASE HoldDeal(d)
    BY <2>1, <2>2
    DEF HoldDeal, LockBalanceForDeal, MoveToLocked, CanAfford, LedgerInv, LedgerType,
        BalanceNonNegative
  <2>3. CASE PayDeal(d)
    BY <2>1, <2>3
    DEF PayDeal, Settles, TransferBalanceToManagerForDeal, LedgerInv, LedgerType, BalanceNonNegative
  <2>4. CASE ReturnDeal(d)
    BY <2>1, <2>4
    DEF ReturnDeal, Settles, UnlockBalanceForDeal, LedgerInv, LedgerType, BalanceNonNegative
  <2> QED
    BY <1>3, <2>2, <2>3, <2>4 DEF DealStep
<1>4. ASSUME \/ Crash \/ UNCHANGED vars
             \/ \E r \in Calls :
                   \/ \E c \in Customers : \E amount \in Amounts : Check(r, c, amount)
                   \/ Refuse(r) \/ DeductFails(r) \/ Send(r) \/ SendFails(r)
                   \/ Confirm(r) \/ GiveUp(r) \/ CompensateFails(r) \/ ChainStep(r)
      PROVE  UNCHANGED ledger
  BY <1>4 DEF Crash, vars, Check, Refuse, DeductFails, Send, SendFails, Confirm, GiveUp,
              CompensateFails, ChainStep, Deliver, DeliverEmpty, Accepted, Expire
<1> QED
  BY <1>1, <1>2, <1>3, <1>4 DEF Next, Withdraw
-----------------------------------------------------------------------------
(* The calls. *)

\* A call that moves on without a message keeps the invariant, unless it moves to
\* where no message may be.
LEMMA MovesOn ==
    ASSUME CallInv, NEW r \in Calls, NEW from, NEW to \in Phases, Goes(r, from, to),
           from # "new", UNCHANGED message,
           to \in {"deducted", "refused"} => message[r] = NoMessage,
           to \notin {"new", "checked"}
    PROVE  CallInv'
<1>1. call' = [call EXCEPT ![r].phase = to] /\ call[r].phase # "new"
  BY DEF Goes
<1>2. call' \in [Calls -> CallType]
  BY <1>1 DEF CallInv, CallType
<1>3. ASSUME NEW s \in Calls
      PROVE  /\ call'[s].phase # "new" => call'[s].customer \in Customers
             /\ call'[s].phase \in {"new", "checked", "deducted", "refused"}
                   => message[s] = NoMessage
  <2>1. CASE s = r
    BY <1>1, <2>1 DEF CallInv, CallType
  <2>2. CASE s # r
    BY <1>1, <2>2 DEF CallInv
  <2> QED
    BY <2>1, <2>2
<1> QED
  BY <1>2, <1>3 DEF CallInv

LEMMA CallStep ==
    ASSUME IInv, [Next]_vars
    PROVE  CallInv'
<1> USE DEF IInv
<1>t. call \in [Calls -> CallType] /\ message \in [Calls -> MessageType]
  BY DEF CallInv
<1>1. ASSUME NEW r \in Calls, NEW c \in Customers, NEW amount \in Amounts, Check(r, c, amount)
      PROVE  CallInv'
  <2>1. /\ call' = [call EXCEPT ![r] = [phase |-> "checked", customer |-> c, amount |-> amount]]
        /\ UNCHANGED message /\ message[r] = NoMessage
    BY <1>1 DEF Check, NewCall, CallInv
  <2>2. call' \in [Calls -> CallType]
    BY <2>1, <1>t DEF CallType, Phases
  <2> QED
    BY <2>1, <2>2 DEF CallInv
<1>2. ASSUME NEW r \in Calls,
             \/ Deduct(r) \/ Refuse(r) \/ DeductFails(r) \/ SendFails(r)
             \/ Confirm(r) \/ GiveUp(r) \/ Compensate(r) \/ CompensateFails(r)
      PROVE  CallInv'
  <2>1. UNCHANGED message
    BY <1>2 DEF Deduct, Refuse, DeductFails, SendFails, Confirm, GiveUp, Compensate,
                CompensateFails
  <2>2. PICK to \in {"deducted", "refused"} : Goes(r, "checked", to)
        \/ \E from \in {"deducted", "waiting", "failed"} :
              \E end \in {"failed", "answered", "refunded", "aborted"} : Goes(r, from, end)
    BY <1>2 DEF Deduct, Refuse, DeductFails, SendFails, Confirm, GiveUp, Compensate,
                CompensateFails
  <2>3. CASE Goes(r, "checked", to)
    <3>1. message[r] = NoMessage
      BY <2>3 DEF Goes, CallInv
    <3> QED
      BY <2>1, <2>3, <3>1, MovesOn DEF Phases
  <2>4. ASSUME NEW from \in {"deducted", "waiting", "failed"},
               NEW end \in {"failed", "answered", "refunded", "aborted"}, Goes(r, from, end)
        PROVE  CallInv'
    BY <2>1, <2>4, MovesOn DEF Phases
  <2> QED
    BY <2>2, <2>3, <2>4
<1>3. ASSUME NEW r \in Calls, Send(r)
      PROVE  CallInv'
  <2>1. /\ call' = [call EXCEPT ![r].phase = "waiting"]
        /\ call[r].customer \in Customers
        /\ message' = [message EXCEPT ![r] = [state |-> "pending",
                                              seqno |-> seqno[call[r].customer]]]
    BY <1>3 DEF Send, Goes, CallInv
  <2>2. message' \in [Calls -> MessageType]
    BY <2>1, <1>t DEF MessageType, Outcomes, ChainInv
  <2>3. call' \in [Calls -> CallType]
    BY <2>1, <1>t DEF CallType, Phases
  <2> QED
    BY <2>1, <2>2, <2>3, <1>t DEF CallInv, CallType
<1>4. ASSUME NEW r \in Calls, ChainStep(r)
      PROVE  CallInv'
  <2>1. PICK outcome \in Outcomes :
           /\ message' = [message EXCEPT ![r].state = outcome]
           /\ UNCHANGED call /\ message[r].state = "pending"
    BY <1>4 DEF ChainStep, Deliver, DeliverEmpty, Accepted, Expire, Outcomes
  <2>2. message' \in [Calls -> MessageType]
    BY <2>1, <1>t DEF MessageType
  <2>3. message[r] # NoMessage
    BY <2>1 DEF NoMessage
  <2> QED
    BY <2>1, <2>2, <2>3, <1>t DEF CallInv
<1>5. CASE Crash
  <2>1. UNCHANGED message
    BY <1>5 DEF Crash
  <2>2. ASSUME NEW r \in Calls
        PROVE  /\ call'[r] \in CallType
               /\ call'[r].phase = "new" => call[r].phase = "new"
               /\ call[r].phase = "new" => call'[r] = call[r]
               /\ call'[r].customer = call[r].customer
               /\ call'[r].phase \in {"new", "checked", "deducted", "refused"}
                     => call[r].phase \in {"new", "checked", "deducted", "refused"}
    <3>1. CASE call[r].phase = "checked"
      <4>1. call'[r] = [call[r] EXCEPT !.phase = "refused"]
        BY <1>5, <3>1 DEF Crash
      <4> QED
        BY <4>1, <3>1, <1>t DEF CallType, Phases
    <3>2. CASE call[r].phase \in {"deducted", "waiting", "failed"}
      <4>1. call'[r] = [call[r] EXCEPT !.phase = "aborted"]
        BY <1>5, <3>2 DEF Crash
      <4> QED
        BY <4>1, <3>2, <1>t DEF CallType, Phases
    <3>3. CASE call[r].phase \notin {"checked", "deducted", "waiting", "failed"}
      <4>1. call'[r] = call[r]
        BY <1>5, <3>3 DEF Crash
      <4> QED
        BY <4>1, <1>t
    <3> QED
      BY <3>1, <3>2, <3>3
  <2>3. call' \in [Calls -> CallType]
    <3>1. call' = [r \in Calls |-> call'[r]]
      BY <1>5 DEF Crash
    <3> QED
      BY <3>1, <2>2
  <2>4. ASSUME NEW r \in Calls
        PROVE  /\ call'[r].phase # "new" => call'[r].customer \in Customers
               /\ call'[r].phase \in {"new", "checked", "deducted", "refused"}
                     => message[r] = NoMessage
    <3>1. /\ call[r].phase # "new" => call[r].customer \in Customers
          /\ call[r].phase \in {"new", "checked", "deducted", "refused"} => message[r] = NoMessage
      BY DEF CallInv
    <3>2. /\ call'[r].phase = "new" => call[r].phase = "new"
          /\ call[r].phase = "new" => call'[r] = call[r]
          /\ call'[r].customer = call[r].customer
          /\ call'[r].phase \in {"new", "checked", "deducted", "refused"}
                => call[r].phase \in {"new", "checked", "deducted", "refused"}
      BY <2>2
    <3> QED
      BY <3>1, <3>2
  <2> QED
    BY <2>1, <2>3, <2>4, <1>t DEF CallInv
<1>6. ASSUME UNCHANGED vars \/ \E d \in Deals : DealStep(d)
      PROVE  CallInv'
  BY <1>6 DEF DealStep, HoldDeal, PayDeal, ReturnDeal, Settles, Moves, vars, CallInv
<1> QED
  BY <1>1, <1>2, <1>3, <1>4, <1>5, <1>6 DEF Next, Withdraw
-----------------------------------------------------------------------------
(* The rest, and the theorems. *)

\* The chain moves coins that are there.
LEMMA ChainStepKeeps ==
    ASSUME IInv, [Next]_vars
    PROVE  ChainInv'
<1> USE DEF IInv
<1>1. ASSUME NEW r \in Calls, ChainStep(r)
      PROVE  ChainInv'
  <2>t. call[r].amount \in Nat /\ Fee \in Nat
    BY CallFields, WithdrawalAssumption
  <2>1. \/ wallet' = wallet
        \/ \E paid \in Nat : /\ paid <= wallet[call[r].customer]
                             /\ wallet' = [wallet EXCEPT ![call[r].customer] = @ - paid]
    <3>1. CASE Deliver(r)
      <4>1. PICK gas \in 0..Fee :
               /\ call[r].amount + gas <= wallet[call[r].customer]
               /\ wallet' = [wallet EXCEPT ![call[r].customer]
                               = wallet[call[r].customer] - call[r].amount - gas]
        BY <3>1 DEF Deliver
      <4>2. CASE call[r].customer \in Customers
        <5>1. /\ wallet[call[r].customer] \in Nat
              /\ call[r].amount + gas \in Nat
              /\ wallet[call[r].customer] - call[r].amount - gas
                   = wallet[call[r].customer] - (call[r].amount + gas)
          BY <4>2, <2>t DEF ChainInv
        <5> QED
          BY <4>1, <5>1
      <4>3. CASE call[r].customer \notin Customers
        BY <4>1, <4>3 DEF ChainInv
      <4> QED
        BY <4>2, <4>3
    <3>2. CASE DeliverEmpty(r)
      <4>1. PICK gas \in 0..Fee :
               /\ gas <= wallet[call[r].customer]
               /\ wallet' = [wallet EXCEPT ![call[r].customer] = wallet[call[r].customer] - gas]
        BY <3>2 DEF DeliverEmpty
      <4>2. gas \in Nat
        BY <2>t
      <4> QED
        BY <4>1, <4>2
    <3>3. CASE Expire(r)
      BY <3>3 DEF Expire
    <3> QED
      BY <1>1, <3>1, <3>2, <3>3 DEF ChainStep
  <2>2. \/ seqno' = seqno
        \/ seqno' = [seqno EXCEPT ![call[r].customer] = @ + 1]
    BY <1>1 DEF ChainStep, Deliver, DeliverEmpty, Accepted, Expire
  <2>3. UNCHANGED <<deals, faults>>
    BY <1>1 DEF ChainStep, Deliver, DeliverEmpty, Accepted, Expire
  <2> QED
    BY <2>1, <2>2, <2>3 DEF ChainInv, deals
<1>2. ASSUME NEW r \in Calls, Withdraw(r)
      PROVE  ChainInv'
  BY <1>2 DEF Withdraw, Check, Deduct, Refuse, DeductFails, Send, SendFails, Confirm, GiveUp,
              Compensate, CompensateFails, Fault, deals, ChainInv
<1>3. CASE Crash \/ UNCHANGED vars
  BY <1>3 DEF Crash, Fault, vars, deals, ChainInv
<1>4. ASSUME NEW d \in Deals, DealStep(d)
      PROVE  ChainInv'
  <2>1. Price[d] \in Nat
    BY WithdrawalAssumption
  <2> QED
    BY <1>4, <2>1 DEF DealStep, HoldDeal, PayDeal, ReturnDeal, Settles, Moves, ChainInv
<1> QED
  BY <1>1, <1>2, <1>3, <1>4 DEF Next

LEMMA InvHolds == Spec => []IInv
<1>1. IInv /\ [Next]_vars => IInv'
  BY LedgerStep, CallStep, ChainStepKeeps DEF IInv
<1> QED
  BY InvInit, <1>1, PTL DEF Spec

(* Withdrawals and the chain keep their types; in particular no subwallet    *)
(* is overdrawn, and nothing is broadcast for a call that ends refused.      *)
THEOREM TypeCorrect == Spec => []TypeOK
<1>1. IInv => TypeOK
  BY DEF IInv, LedgerInv, CallInv, ChainInv, TypeOK
<1> QED
  BY InvHolds, <1>1, PTL

(* However many withdrawals of one customer pass the check of a balance      *)
(* that was read earlier, and whatever deals do in the meantime, no balance  *)
(* is ever negative: the WHERE clause of DeductBalance decides.              *)
THEOREM NeverNegative == Spec => []BalanceNonNegative
<1>1. IInv => BalanceNonNegative
  BY DEF IInv, LedgerInv
<1> QED
  BY InvHolds, <1>1, PTL
-----------------------------------------------------------------------------
(* The coins and the claims.  Two facts carry Solvent: the claims of the     *)
(* customers and what their calls have debited are, together, what was paid  *)
(* in at first and what deals have settled beyond what they locked; and of   *)
(* what was paid in the coins cover all but what the accepted messages cost. *)

\* A debit that was not given back.
Spent == {"deducted", "waiting", "failed", "answered", "aborted"}

\* What each call has debited, and what each message has cost, by the two tables.
Debits(calls) == [r \in Calls |-> IF calls[r].phase \in Spent THEN calls[r].amount + Fee ELSE 0]

Costs(calls, messages) ==
    [r \in Calls |-> CASE messages[r].state = "delivered" -> calls[r].amount + Fee
                       [] messages[r].state = "empty" -> Fee
                       [] OTHER -> 0]

\* What is locked beyond what is settled, deal by deal; with the two tables
\* exchanged, what is settled beyond what is locked.
Beyond(a, b) == [d \in Deals |-> Excess(a[d], b[d])]
Balance(a, b) == Total(Beyond(a, b)) - Total(Beyond(b, a))

ClaimsAreBacked ==
    /\ Owed + Total(Debits(call)) = Total(InitialBalance) + Unbacked
    /\ Total(InitialBalance) <= Coins + Total(Costs(call, message))

LEMMA FiniteTables == IsFiniteSet(Customers) /\ IsFiniteSet(Calls) /\ Fee \in Nat
BY WithdrawalAssumption

LEMMA AmountIsNat ==
    ASSUME NEW calls \in [Calls -> CallType], NEW r \in Calls
    PROVE  calls[r].amount \in Nat
<1>1. calls[r].amount \in Amounts \union {0}
  BY DEF CallType
<1>2. \A a \in Amounts : a \in Nat
  BY WithdrawalAssumption
<1> QED
  BY <1>1, <1>2

LEMMA DebitsType ==
    ASSUME NEW calls \in [Calls -> CallType]
    PROVE  Debits(calls) \in [Calls -> Nat] /\ Total(Debits(calls)) \in Nat
<1>1. Debits(calls) \in [Calls -> Nat]
  BY AmountIsNat, FiniteTables DEF Debits
<1> QED
  BY <1>1, FiniteTables, TotalIsNat

LEMMA CostsType ==
    ASSUME NEW calls \in [Calls -> CallType], NEW messages
    PROVE  /\ Costs(calls, messages) \in [Calls -> Nat]
           /\ Total(Costs(calls, messages)) \in Nat
<1>1. Costs(calls, messages) \in [Calls -> Nat]
  BY AmountIsNat, FiniteTables DEF Costs
<1> QED
  BY <1>1, FiniteTables, TotalIsNat

LEMMA PurseType ==
    ASSUME NEW purse \in [Customers -> Nat]
    PROVE  Total(purse) \in Nat
BY FiniteTables, TotalIsNat

\* One purse changes.
LEMMA PurseChange ==
    ASSUME NEW purse \in [Customers -> Nat], NEW c \in Customers, NEW v \in Nat
    PROVE  Total([purse EXCEPT ![c] = v]) = Total(purse) + v - purse[c]
<1> DEFINE after == [purse EXCEPT ![c] = v]
<1>1. after \in [Customers -> Nat] /\ after[c] = v
      /\ \A e \in Customers \ {c} : after[e] = purse[e]
  OBVIOUS
<1> HIDE DEF after
<1>2. Total(after) = Total(purse) + after[c] - purse[c]
  BY <1>1, FiniteTables, TotalChange
<1> QED
  BY <1>1, <1>2 DEF after

LEMMA BeyondType ==
    ASSUME NEW a \in [Deals -> Nat], NEW b \in [Deals -> Nat]
    PROVE  Beyond(a, b) \in [Deals -> Nat] /\ Total(Beyond(a, b)) \in Nat
<1>1. Beyond(a, b) \in [Deals -> Nat]
  BY DEF Beyond, Excess
<1> QED
  BY <1>1, WithdrawalAssumption, TotalIsNat

\* A deal locks more: the balance of the two tables moves by as much.
LEMMA BeyondChange ==
    ASSUME NEW a \in [Deals -> Nat], NEW b \in [Deals -> Nat],
           NEW a1 \in [Deals -> Nat], NEW d \in Deals,
           \A e \in Deals \ {d} : a1[e] = a[e]
    PROVE  Balance(a1, b) = Balance(a, b) + a1[d] - a[d]
<1>1. /\ Beyond(a, b) \in [Deals -> Nat] /\ Beyond(b, a) \in [Deals -> Nat]
      /\ Beyond(a1, b) \in [Deals -> Nat] /\ Beyond(b, a1) \in [Deals -> Nat]
      /\ Total(Beyond(a, b)) \in Nat /\ Total(Beyond(b, a)) \in Nat
  BY BeyondType
<1>2. \A e \in Deals \ {d} : /\ Beyond(a1, b)[e] = Beyond(a, b)[e]
                             /\ Beyond(b, a1)[e] = Beyond(b, a)[e]
  BY DEF Beyond
<1>3. Total(Beyond(a1, b)) = Total(Beyond(a, b)) + Beyond(a1, b)[d] - Beyond(a, b)[d]
  BY <1>1, <1>2, WithdrawalAssumption, TotalChange
<1>4. Total(Beyond(b, a1)) = Total(Beyond(b, a)) + Beyond(b, a1)[d] - Beyond(b, a)[d]
  BY <1>1, <1>2, WithdrawalAssumption, TotalChange
<1>5. /\ Beyond(a, b)[d] - Beyond(b, a)[d] = a[d] - b[d]
      /\ Beyond(a1, b)[d] - Beyond(b, a1)[d] = a1[d] - b[d]
  BY DEF Beyond, Excess
<1>6. /\ a[d] \in Nat /\ b[d] \in Nat /\ a1[d] \in Nat
      /\ Beyond(a, b)[d] \in Nat /\ Beyond(b, a)[d] \in Nat
      /\ Beyond(a1, b)[d] \in Nat /\ Beyond(b, a1)[d] \in Nat
  BY <1>1
<1> QED
  BY <1>1, <1>3, <1>4, <1>5, <1>6 DEF Balance

LEMMA SettledChange ==
    ASSUME NEW a \in [Deals -> Nat], NEW b \in [Deals -> Nat],
           NEW b1 \in [Deals -> Nat], NEW d \in Deals,
           \A e \in Deals \ {d} : b1[e] = b[e]
    PROVE  Balance(a, b1) = Balance(a, b) - (b1[d] - b[d])
<1>1. Balance(b1, a) = Balance(b, a) + b1[d] - b[d]
  BY BeyondChange
<1>2. b[d] \in Nat /\ b1[d] \in Nat
  OBVIOUS
<1>3. /\ Total(Beyond(a, b)) \in Nat /\ Total(Beyond(b, a)) \in Nat
      /\ Total(Beyond(a, b1)) \in Nat /\ Total(Beyond(b1, a)) \in Nat
  BY BeyondType
<1> QED
  BY <1>1, <1>2, <1>3 DEF Balance

\* The balances as natural numbers.
LEMMA Purses ==
    ASSUME IInv
    PROVE  /\ ton_balance \in [Customers -> Nat] /\ wallet \in [Customers -> Nat]
           /\ Total(ton_balance) \in Nat /\ Coins \in Nat
           /\ Owed = Total(ton_balance) + Total(Beyond(locked, settled)) /\ Owed \in Nat
           /\ Unbacked = Total(Beyond(settled, locked)) /\ Unbacked \in Nat
<1>1. ton_balance \in [Customers -> Nat]
  BY DEF IInv, LedgerInv, LedgerType, BalanceNonNegative
<1>2. wallet \in [Customers -> Nat]
  BY DEF IInv, ChainInv
<1>3. Total(Beyond(locked, settled)) \in Nat /\ Total(Beyond(settled, locked)) \in Nat
  BY BeyondType DEF IInv, ChainInv
<1>4. /\ Owed = Total(ton_balance) + Total(Beyond(locked, settled))
      /\ Unbacked = Total(Beyond(settled, locked))
  BY DEF Owed, Unbacked, Beyond
<1>5. Total(ton_balance) \in Nat /\ Coins \in Nat
  BY <1>1, <1>2, PurseType DEF Coins
<1> QED
  BY <1>1, <1>2, <1>3, <1>4, <1>5

\* The calls that do not touch the balances.
Quiet ==
    \/ Crash \/ UNCHANGED vars
    \/ \E r \in Calls :
          \/ \E c \in Customers : \E amount \in Amounts : Check(r, c, amount)
          \/ Refuse(r) \/ DeductFails(r) \/ Send(r) \/ SendFails(r)
          \/ Confirm(r) \/ GiveUp(r) \/ CompensateFails(r) \/ ChainStep(r)

LEMMA NextCases ==
    ASSUME [Next]_vars
    PROVE  \/ Quiet \/ \E d \in Deals : DealStep(d)
           \/ \E r \in Calls : Deduct(r) \/ Compensate(r)
BY DEF Next, Withdraw, Quiet

LEMMA QuietLedger ==
    ASSUME Quiet
    PROVE  ton_balance' = ton_balance /\ UNCHANGED deals
BY DEF Quiet, Crash, vars, ledger, Check, Refuse, DeductFails, Send, SendFails, Confirm, GiveUp,
       CompensateFails, ChainStep, Deliver, DeliverEmpty, Accepted, Expire

\* A quiet step debits nothing and gives nothing back.
LEMMA DebitsKept ==
    ASSUME IInv, IInv', Quiet \/ \E d \in Deals : DealStep(d)
    PROVE  Debits(call') = Debits(call)
<1>t. call \in [Calls -> CallType] /\ call' \in [Calls -> CallType]
  BY DEF IInv, CallInv
<1>1. SUFFICES ASSUME NEW r \in Calls
               PROVE  /\ call'[r].phase \in Spent <=> call[r].phase \in Spent
                      /\ call[r].phase \in Spent => call'[r].amount = call[r].amount
  BY DEF Debits
<1>2. ASSUME NEW q \in Calls, NEW c \in Customers, NEW amount \in Amounts, Check(q, c, amount)
      PROVE  /\ call'[r].phase \in Spent <=> call[r].phase \in Spent
             /\ call[r].phase \in Spent => call'[r].amount = call[r].amount
  BY <1>2, <1>t DEF Check, NewCall, Spent
<1>3. ASSUME NEW q \in Calls,
             \/ Refuse(q) \/ DeductFails(q) \/ Send(q) \/ SendFails(q)
             \/ Confirm(q) \/ GiveUp(q) \/ CompensateFails(q)
      PROVE  /\ call'[r].phase \in Spent <=> call[r].phase \in Spent
             /\ call[r].phase \in Spent => call'[r].amount = call[r].amount
  <2>1. \/ Goes(q, "checked", "refused") \/ Goes(q, "deducted", "waiting")
        \/ Goes(q, "deducted", "failed") \/ Goes(q, "waiting", "answered")
        \/ Goes(q, "waiting", "failed") \/ Goes(q, "failed", "aborted")
    BY <1>3 DEF Refuse, DeductFails, Send, SendFails, Confirm, GiveUp, CompensateFails
  <2>2. PICK to : call' = [call EXCEPT ![q].phase = to]
                  /\ (to \in Spent <=> call[q].phase \in Spent)
    BY <2>1 DEF Goes, Spent
  <2>3. CASE r = q
    BY <2>2, <2>3, <1>t DEF CallType
  <2>4. CASE r # q
    BY <2>2, <2>4, <1>t
  <2> QED
    BY <2>3, <2>4
<1>4. ASSUME \/ UNCHANGED vars \/ \E q \in Calls : ChainStep(q)
             \/ \E d \in Deals : DealStep(d)
      PROVE  call' = call
  BY <1>4 DEF DealStep, HoldDeal, PayDeal, ReturnDeal, Settles, Moves, vars, ChainStep, Deliver,
              DeliverEmpty, Accepted, Expire
<1>5. CASE Crash
  <2>1. CASE call[r].phase = "checked"
    <3>1. call'[r] = [call[r] EXCEPT !.phase = "refused"]
      BY <1>5, <2>1 DEF Crash
    <3> QED
      BY <3>1, <2>1, <1>t DEF CallType, Spent
  <2>2. CASE call[r].phase \in {"deducted", "waiting", "failed"}
    <3>1. call'[r] = [call[r] EXCEPT !.phase = "aborted"]
      BY <1>5, <2>2 DEF Crash
    <3> QED
      BY <3>1, <2>2, <1>t DEF CallType, Spent
  <2>3. CASE call[r].phase \notin {"checked", "deducted", "waiting", "failed"}
    <3>1. call'[r] = call[r]
      BY <1>5, <2>3 DEF Crash
    <3> QED
      BY <3>1
  <2> QED
    BY <2>1, <2>2, <2>3
<1> QED
  BY <1>2, <1>3, <1>4, <1>5 DEF Quiet

\* A debit or its return, seen from the call.
LEMMA DebitsChange ==
    ASSUME IInv, IInv', NEW r \in Calls, NEW to,
           call' = [call EXCEPT ![r].phase = to],
           ~(to \in Spent <=> call[r].phase \in Spent)
    PROVE  Total(Debits(call')) =
              IF to \in Spent THEN Total(Debits(call)) + Debit(r) ELSE Total(Debits(call)) - Debit(r)
<1>t. call \in [Calls -> CallType] /\ call' \in [Calls -> CallType]
  BY DEF IInv, CallInv
<1>1. /\ Debits(call) \in [Calls -> Nat] /\ Debits(call') \in [Calls -> Nat]
      /\ Total(Debits(call)) \in Nat
  BY <1>t, DebitsType
<1>2. \A s \in Calls \ {r} : Debits(call')[s] = Debits(call)[s]
  BY <1>t DEF Debits
<1>3. call'[r].phase = to /\ call'[r].amount = call[r].amount
  BY <1>t DEF CallType
<1>4. Debit(r) \in Nat
  BY CallFields DEF IInv
<1>5. /\ Debits(call)[r] = IF call[r].phase \in Spent THEN Debit(r) ELSE 0
      /\ Debits(call')[r] = IF to \in Spent THEN Debit(r) ELSE 0
  BY <1>3 DEF Debits, Debit
<1>6. Total(Debits(call')) = Total(Debits(call)) + Debits(call')[r] - Debits(call)[r]
  BY <1>1, <1>2, FiniteTables, TotalChange
<1> QED
  BY <1>1, <1>4, <1>5, <1>6

\* Claims and debits together change only by what is settled without a lock.
LEMMA OwedStep ==
    ASSUME IInv, IInv', [Next]_vars
    PROVE  Owed' + Total(Debits(call')) + Unbacked = Owed + Total(Debits(call)) + Unbacked'
<1>t. /\ ton_balance \in [Customers -> Nat] /\ Total(ton_balance) \in Nat
      /\ Owed = Total(ton_balance) + Total(Beyond(locked, settled)) /\ Owed \in Nat
      /\ Unbacked = Total(Beyond(settled, locked)) /\ Unbacked \in Nat
      /\ Owed' = Total(ton_balance') + Total(Beyond(locked', settled'))
      /\ Unbacked' = Total(Beyond(settled', locked'))
  <2>1. Owed' = Total(ton_balance') + Total(Beyond(locked', settled'))
    BY DEF Owed, Beyond
  <2>2. Unbacked' = Total(Beyond(settled', locked'))
    BY DEF Unbacked, Beyond
  <2> QED
    BY Purses, <2>1, <2>2
<1>b. /\ Total(Beyond(locked, settled)) \in Nat /\ Total(Beyond(settled, locked)) \in Nat
      /\ Total(Beyond(locked', settled')) \in Nat /\ Total(Beyond(settled', locked')) \in Nat
  BY BeyondType DEF IInv, ChainInv
<1>d. Total(Debits(call)) \in Nat
  BY DebitsType DEF IInv, CallInv
<1>1. CASE Quiet
  <2>1. ton_balance' = ton_balance /\ UNCHANGED deals /\ Debits(call') = Debits(call)
    BY <1>1, QuietLedger, DebitsKept
  <2> QED
    BY <1>t, <1>d, <2>1 DEF deals
<1>2. ASSUME NEW r \in Calls, Deduct(r)
      PROVE  Owed' + Total(Debits(call')) + Unbacked = Owed + Total(Debits(call)) + Unbacked'
  <2>1. /\ call[r].phase = "checked" /\ call' = [call EXCEPT ![r].phase = "deducted"]
        /\ ton_balance' = [ton_balance EXCEPT ![call[r].customer]
                                = ton_balance[call[r].customer] + (-Debit(r))]
        /\ UNCHANGED deals
        /\ ton_balance[call[r].customer] >= Debit(r)
    BY <1>2 DEF Deduct, Goes, DeductBalance, AddTonBalance, CanAfford
  <2>2. call[r].customer \in Customers /\ Debit(r) \in Nat
    BY <2>1, CallFields DEF IInv, CallInv
  <2>3. ton_balance[call[r].customer] + (-Debit(r)) \in Nat
        /\ ton_balance[call[r].customer] \in Nat
    BY <2>1, <2>2, <1>t
  <2>v. Total(ton_balance') = Total(ton_balance) + (ton_balance[call[r].customer] + (-Debit(r)))
                                - ton_balance[call[r].customer]
    BY <1>t, <2>1, <2>2, <2>3, PurseChange
  <2>4. Total(ton_balance') = Total(ton_balance) - Debit(r)
    BY <1>t, <2>2, <2>3, <2>v
  <2>5. Total(Debits(call')) = Total(Debits(call)) + Debit(r)
    BY <2>1, DebitsChange DEF Spent
  <2>6. /\ Total(Beyond(locked', settled')) = Total(Beyond(locked, settled))
        /\ Total(Beyond(settled', locked')) = Total(Beyond(settled, locked))
    BY <2>1 DEF deals
  <2> QED
    BY <1>t, <1>b, <1>d, <2>2, <2>4, <2>5, <2>6
<1>3. ASSUME NEW r \in Calls, Compensate(r)
      PROVE  Owed' + Total(Debits(call')) + Unbacked = Owed + Total(Debits(call)) + Unbacked'
  <2>1. /\ call[r].phase = "failed" /\ call' = [call EXCEPT ![r].phase = "refunded"]
        /\ ton_balance' = [ton_balance EXCEPT ![call[r].customer]
                                = ton_balance[call[r].customer] + Debit(r)]
        /\ UNCHANGED deals
    BY <1>3 DEF Compensate, Goes, RefundBalance, AddTonBalance
  <2>2. call[r].customer \in Customers /\ Debit(r) \in Nat
    BY <2>1, CallFields DEF IInv, CallInv
  <2>3. ton_balance[call[r].customer] + Debit(r) \in Nat
        /\ ton_balance[call[r].customer] \in Nat
    BY <2>1, <2>2, <1>t
  <2>v. Total(ton_balance') = Total(ton_balance) + (ton_balance[call[r].customer] + Debit(r))
                                - ton_balance[call[r].customer]
    BY <1>t, <2>1, <2>2, <2>3, PurseChange
  <2>4. Total(ton_balance') = Total(ton_balance) + Debit(r)
    BY <1>t, <2>2, <2>3, <2>v
  <2>5. Total(Debits(call')) = Total(Debits(call)) - Debit(r)
    BY <2>1, DebitsChange DEF Spent
  <2>6. /\ Total(Beyond(locked', settled')) = Total(Beyond(locked, settled))
        /\ Total(Beyond(settled', locked')) = Total(Beyond(settled, locked))
    BY <2>1 DEF deals
  <2> QED
    BY <1>t, <1>b, <1>d, <2>2, <2>4, <2>5, <2>6
<1>4. ASSUME NEW d \in Deals, DealStep(d)
      PROVE  Owed' + Total(Debits(call')) + Unbacked = Owed + Total(Debits(call)) + Unbacked'
  <2>1. Debits(call') = Debits(call)
    BY <1>4, DebitsKept
  <2>2. /\ Price[d] \in Nat /\ Advertiser[d] \in Customers /\ Manager[d] \in Customers
        /\ locked \in [Deals -> Nat] /\ settled \in [Deals -> Nat]
        /\ locked' \in [Deals -> Nat] /\ settled' \in [Deals -> Nat]
    BY WithdrawalAssumption DEF IInv, ChainInv
  <2>3. ASSUME NEW c \in Customers, NEW v \in Nat, ton_balance' = [ton_balance EXCEPT ![c] = v]
        PROVE  Total(ton_balance') = Total(ton_balance) + v - ton_balance[c]
    BY <1>t, <2>3, PurseChange
  <2>5. CASE HoldDeal(d)
    <3>1. /\ ton_balance' = [ton_balance EXCEPT ![Advertiser[d]] = ton_balance[Advertiser[d]] - Price[d]]
          /\ ton_balance[Advertiser[d]] >= Price[d]
          /\ locked' = [locked EXCEPT ![d] = locked[d] + Price[d]] /\ settled' = settled
      BY <2>5 DEF HoldDeal, LockBalanceForDeal, MoveToLocked, CanAfford
    <3>2. /\ ton_balance[Advertiser[d]] - Price[d] \in Nat /\ ton_balance[Advertiser[d]] \in Nat
          /\ locked'[d] = locked[d] + Price[d] /\ locked[d] \in Nat /\ settled[d] \in Nat
          /\ \A e \in Deals \ {d} : locked'[e] = locked[e] /\ settled'[e] = settled[e]
      BY <3>1, <1>t, <2>2
    <3>3. Total(ton_balance') = Total(ton_balance) + (ton_balance[Advertiser[d]] - Price[d])
                                  - ton_balance[Advertiser[d]]
      BY <2>2, <2>3, <3>1, <3>2
    <3>4. Total(ton_balance') = Total(ton_balance) - Price[d]
      BY <1>t, <2>2, <3>2, <3>3
    <3>b. Balance(locked', settled) = Balance(locked, settled) + locked'[d] - locked[d]
      BY <2>2, <3>2, BeyondChange
    <3>5. Total(Beyond(locked', settled')) - Total(Beyond(settled', locked'))
             = Total(Beyond(locked, settled)) - Total(Beyond(settled, locked)) + Price[d]
      BY <1>b, <2>2, <3>1, <3>2, <3>b DEF Balance
    <3> QED
      BY <1>t, <1>b, <1>d, <2>1, <2>2, <3>4, <3>5
  <2>6. ASSUME NEW to \in Customers, ton_balance' = [ton_balance EXCEPT ![to] = @ + Price[d]],
               settled' = [settled EXCEPT ![d] = settled[d] + Price[d]], locked' = locked
        PROVE  Owed' + Total(Debits(call')) + Unbacked = Owed + Total(Debits(call)) + Unbacked'
    <3>1. ton_balance' = [ton_balance EXCEPT ![to] = ton_balance[to] + Price[d]]
      BY <2>6
    <3>2. /\ ton_balance[to] + Price[d] \in Nat /\ ton_balance[to] \in Nat
          /\ settled'[d] = settled[d] + Price[d] /\ locked[d] \in Nat /\ settled[d] \in Nat
          /\ \A e \in Deals \ {d} : locked'[e] = locked[e] /\ settled'[e] = settled[e]
      BY <2>6, <1>t, <2>2
    <3>3. Total(ton_balance') = Total(ton_balance) + (ton_balance[to] + Price[d]) - ton_balance[to]
      BY <2>3, <2>6, <3>1, <3>2
    <3>4. Total(ton_balance') = Total(ton_balance) + Price[d]
      BY <1>t, <2>2, <3>2, <3>3
    <3>b. Balance(locked, settled') = Balance(locked, settled) - (settled'[d] - settled[d])
      BY <2>2, <3>2, SettledChange
    <3>5. Total(Beyond(locked', settled')) - Total(Beyond(settled', locked'))
             = Total(Beyond(locked, settled)) - Total(Beyond(settled, locked)) - Price[d]
      BY <1>b, <2>2, <2>6, <3>2, <3>b DEF Balance
    <3> QED
      BY <1>t, <1>b, <1>d, <2>1, <2>2, <3>4, <3>5
  <2>7. CASE PayDeal(d) \/ ReturnDeal(d)
    <3>1. \E to \in Customers : ton_balance' = [ton_balance EXCEPT ![to] = @ + Price[d]]
      BY <2>2, <2>7 DEF PayDeal, ReturnDeal, TransferBalanceToManagerForDeal, UnlockBalanceForDeal
    <3>2. settled' = [settled EXCEPT ![d] = settled[d] + Price[d]] /\ locked' = locked
      BY <2>7 DEF PayDeal, ReturnDeal, Settles
    <3> QED
      BY <2>6, <3>1, <3>2
  <2> QED
    BY <1>4, <2>5, <2>7 DEF DealStep
<1> QED
  BY <1>1, <1>2, <1>3, <1>4, NextCases

\* A message that costs, and the call it belongs to.
LEMMA CostsKept ==
    ASSUME IInv, IInv',
           \A s \in Calls :
              /\ message'[s].state \in {"delivered", "empty"} <=> message[s].state \in {"delivered", "empty"}
              /\ message[s].state \in {"delivered", "empty"} =>
                    message'[s].state = message[s].state /\ call'[s].amount = call[s].amount
    PROVE  Costs(call', message') = Costs(call, message)
<1> SUFFICES ASSUME NEW s \in Calls
             PROVE  Costs(call', message')[s] = Costs(call, message)[s]
  BY DEF Costs
<1>1. CASE message[s].state \in {"delivered", "empty"}
  BY <1>1 DEF Costs
<1>2. CASE message[s].state \notin {"delivered", "empty"}
  BY <1>2 DEF Costs
<1> QED
  BY <1>1, <1>2

\* An accepted message takes no more from the wallet than it is said to cost.
LEMMA AcceptedCosts ==
    ASSUME IInv, IInv', NEW r \in Calls, Deliver(r) \/ DeliverEmpty(r)
    PROVE  Total(wallet) + Total(Costs(call, message)) <= Total(wallet') + Total(Costs(call', message'))
<1>t. /\ call \in [Calls -> CallType] /\ message \in [Calls -> MessageType]
      /\ wallet \in [Customers -> Nat] /\ wallet' \in [Customers -> Nat]
  BY DEF IInv, CallInv, ChainInv
<1>a. call[r].amount \in Nat /\ Fee \in Nat
  BY <1>t, AmountIsNat, FiniteTables
<1>1. /\ message[r].state = "pending" /\ call' = call
      /\ \A s \in Calls \ {r} : message'[s] = message[s]
  BY <1>t DEF Deliver, DeliverEmpty, Accepted
<1>2. call[r].customer \in Customers
  <2>1. call[r].phase # "new"
    BY <1>1 DEF IInv, CallInv, NoMessage
  <2> QED
    BY <2>1 DEF IInv, CallInv
<1>3. /\ Costs(call, message) \in [Calls -> Nat] /\ Costs(call', message') \in [Calls -> Nat]
      /\ Total(Costs(call, message)) \in Nat
  BY <1>t, <1>1, CostsType
<1>4. \A s \in Calls \ {r} : Costs(call', message')[s] = Costs(call, message)[s]
  BY <1>1 DEF Costs
<1>5. Costs(call, message)[r] = 0
  BY <1>1 DEF Costs
<1>6. Total(Costs(call', message')) = Total(Costs(call, message)) + Costs(call', message')[r]
                                        - Costs(call, message)[r]
  BY <1>3, <1>4, FiniteTables, TotalChange
<1>w. wallet[call[r].customer] \in Nat /\ Total(wallet) \in Nat
  BY <1>t, <1>2, PurseType
<1>7. CASE Deliver(r)
  <2>1. PICK gas \in 0..Fee :
           /\ call[r].amount + gas <= wallet[call[r].customer]
           /\ wallet' = [wallet EXCEPT ![call[r].customer]
                           = wallet[call[r].customer] - call[r].amount - gas]
    BY <1>7 DEF Deliver
  <2>2. wallet[call[r].customer] - call[r].amount - gas \in Nat
    BY <2>1, <1>a, <1>w
  <2>3. Total(wallet') = Total(wallet) + (wallet[call[r].customer] - call[r].amount - gas)
                           - wallet[call[r].customer]
    BY <1>t, <1>2, <2>1, <2>2, PurseChange
  <2>4. Total(wallet') = Total(wallet) - (call[r].amount + gas)
    BY <1>a, <1>w, <2>3
  <2>5. message'[r].state = "delivered"
    BY <1>7, <1>t DEF Deliver, Accepted, MessageType
  <2>6. Costs(call', message')[r] = call[r].amount + Fee
    BY <1>1, <2>5 DEF Costs
  <2> QED
    BY <1>3, <1>5, <1>6, <1>a, <1>w, <2>4, <2>6
<1>8. CASE DeliverEmpty(r)
  <2>1. PICK gas \in 0..Fee :
           /\ gas <= wallet[call[r].customer]
           /\ wallet' = [wallet EXCEPT ![call[r].customer] = wallet[call[r].customer] - gas]
    BY <1>8 DEF DeliverEmpty
  <2>2. wallet[call[r].customer] - gas \in Nat
    BY <2>1, <1>a, <1>w
  <2>3. Total(wallet') = Total(wallet) + (wallet[call[r].customer] - gas) - wallet[call[r].customer]
    BY <1>t, <1>2, <2>1, <2>2, PurseChange
  <2>4. Total(wallet') = Total(wallet) - gas
    BY <1>a, <1>w, <2>3
  <2>5. message'[r].state = "empty"
    BY <1>8, <1>t DEF DeliverEmpty, Accepted, MessageType
  <2>6. Costs(call', message')[r] = Fee
    BY <2>5 DEF Costs
  <2> QED
    BY <1>3, <1>5, <1>6, <1>a, <1>w, <2>4, <2>6
<1> QED
  BY <1>7, <1>8

\* Coins leave the subwallets only for messages, and no more than they cost.
LEMMA CoinsStep ==
    ASSUME IInv, IInv', [Next]_vars
    PROVE  Coins + Total(Costs(call, message)) <= Coins' + Total(Costs(call', message'))
<1>t. call \in [Calls -> CallType] /\ message \in [Calls -> MessageType]
  BY DEF IInv, CallInv
<1>n. Total(wallet) \in Nat /\ Total(Costs(call, message)) \in Nat
  BY <1>t, PurseType, CostsType DEF IInv, ChainInv
<1>k. ASSUME wallet' = wallet,
             \A s \in Calls :
                /\ message'[s].state \in {"delivered", "empty"}
                      <=> message[s].state \in {"delivered", "empty"}
                /\ message[s].state \in {"delivered", "empty"} =>
                      message'[s].state = message[s].state /\ call'[s].amount = call[s].amount
      PROVE  Coins + Total(Costs(call, message)) <= Coins' + Total(Costs(call', message'))
  <2>1. Costs(call', message') = Costs(call, message)
    BY <1>k, CostsKept
  <2> QED
    BY <1>k, <1>n, <2>1 DEF Coins
<1>1. ASSUME NEW r \in Calls, Deliver(r) \/ DeliverEmpty(r)
      PROVE  Coins + Total(Costs(call, message)) <= Coins' + Total(Costs(call', message'))
  BY <1>1, AcceptedCosts DEF Coins
<1>2. ASSUME NEW r \in Calls, Expire(r)
      PROVE  Coins + Total(Costs(call, message)) <= Coins' + Total(Costs(call', message'))
  <2>1. /\ wallet' = wallet /\ call' = call /\ message[r].state = "pending"
        /\ message' = [message EXCEPT ![r].state = "expired"]
    BY <1>2 DEF Expire
  <2>2. message'[r].state = "expired" /\ \A s \in Calls \ {r} : message'[s] = message[s]
    BY <2>1, <1>t DEF MessageType
  <2> QED
    BY <2>1, <2>2, <1>k
<1>3. ASSUME NEW r \in Calls, Send(r)
      PROVE  Coins + Total(Costs(call, message)) <= Coins' + Total(Costs(call', message'))
  <2>1. /\ wallet' = wallet /\ call' = [call EXCEPT ![r].phase = "waiting"]
        /\ message' = [message EXCEPT ![r] = [state |-> "pending", seqno |-> seqno[call[r].customer]]]
        /\ message[r] = NoMessage
    BY <1>3 DEF Send, Goes, IInv, CallInv
  <2>2. /\ message'[r].state = "pending" /\ message[r].state = "none"
        /\ \A s \in Calls \ {r} : message'[s] = message[s] /\ call'[s] = call[s]
    BY <2>1, <1>t DEF NoMessage
  <2> QED
    BY <2>1, <2>2, <1>k
<1>4. ASSUME NEW r \in Calls, NEW c \in Customers, NEW amount \in Amounts, Check(r, c, amount)
      PROVE  Coins + Total(Costs(call, message)) <= Coins' + Total(Costs(call', message'))
  <2>1. /\ wallet' = wallet /\ message' = message /\ message[r] = NoMessage
        /\ call' = [call EXCEPT ![r] = [phase |-> "checked", customer |-> c, amount |-> amount]]
    BY <1>4 DEF Check, NewCall, IInv, CallInv
  <2>2. message[r].state = "none" /\ \A s \in Calls \ {r} : call'[s] = call[s]
    BY <2>1, <1>t DEF NoMessage
  <2> QED
    BY <2>1, <2>2, <1>k
<1>5. ASSUME NEW r \in Calls,
             \/ Deduct(r) \/ Refuse(r) \/ DeductFails(r) \/ SendFails(r)
             \/ Confirm(r) \/ GiveUp(r) \/ Compensate(r) \/ CompensateFails(r)
      PROVE  Coins + Total(Costs(call, message)) <= Coins' + Total(Costs(call', message'))
  <2>1. wallet' = wallet /\ message' = message
    BY <1>5 DEF Deduct, Refuse, DeductFails, SendFails, Confirm, GiveUp, Compensate,
                CompensateFails
  <2>2. PICK to : call' = [call EXCEPT ![r].phase = to]
    BY <1>5 DEF Goes, Deduct, Refuse, DeductFails, SendFails, Confirm, GiveUp, Compensate,
                CompensateFails
  <2>3. \A s \in Calls : call'[s].amount = call[s].amount
    BY <2>2, <1>t DEF CallType
  <2> QED
    BY <2>1, <2>3, <1>k
<1>6. CASE Crash
  <2>1. wallet' = wallet /\ message' = message
    BY <1>6 DEF Crash
  <2>2. ASSUME NEW s \in Calls PROVE call'[s].amount = call[s].amount
    <3>1. CASE call[s].phase = "checked"
      <4>1. call'[s] = [call[s] EXCEPT !.phase = "refused"]
        BY <1>6, <3>1 DEF Crash
      <4> QED
        BY <4>1, <1>t DEF CallType
    <3>2. CASE call[s].phase \in {"deducted", "waiting", "failed"}
      <4>1. call'[s] = [call[s] EXCEPT !.phase = "aborted"]
        BY <1>6, <3>2 DEF Crash
      <4> QED
        BY <4>1, <1>t DEF CallType
    <3>3. CASE call[s].phase \notin {"checked", "deducted", "waiting", "failed"}
      <4>1. call'[s] = call[s]
        BY <1>6, <3>3 DEF Crash
      <4> QED
        BY <4>1
    <3> QED
      BY <3>1, <3>2, <3>3
  <2> QED
    BY <2>1, <2>2, <1>k
<1>7. ASSUME UNCHANGED vars \/ \E d \in Deals : DealStep(d)
      PROVE  Coins + Total(Costs(call, message)) <= Coins' + Total(Costs(call', message'))
  BY <1>7, <1>k DEF DealStep, HoldDeal, PayDeal, ReturnDeal, Settles, Moves, vars
<1> QED
  BY <1>1, <1>2, <1>3, <1>4, <1>5, <1>6, <1>7 DEF Next, Withdraw, ChainStep

LEMMA ClaimsInit == Init => ClaimsAreBacked
<1> SUFFICES ASSUME Init PROVE ClaimsAreBacked
  OBVIOUS
<1>2. IInv
  BY InvInit
<1>3. Total(Beyond(locked, settled)) = 0 /\ Total(Beyond(settled, locked)) = 0
  <2>1. /\ Beyond(locked, settled) \in [Deals -> Nat] /\ Beyond(settled, locked) \in [Deals -> Nat]
        /\ \A d \in Deals : Beyond(locked, settled)[d] = 0 /\ Beyond(settled, locked)[d] = 0
    BY DEF Init, Beyond, Excess
  <2> QED
    BY <2>1, TotalOfNothing
<1>4. Total(Debits(call)) = 0
  <2>1. Debits(call) \in [Calls -> Nat]
    BY <1>2, DebitsType DEF IInv, CallInv
  <2>2. \A r \in Calls : Debits(call)[r] = 0
    BY DEF Init, NewCall, Debits, Spent
  <2> QED
    BY <2>1, <2>2, TotalOfNothing
<1>5. /\ Total(Costs(call, message)) \in Nat /\ Total(InitialBalance) \in Nat
      /\ ton_balance = InitialBalance /\ wallet = InitialBalance
  BY <1>2, CostsType, PurseType, WithdrawalAssumption DEF Init, IInv, CallInv
<1> QED
  BY <1>2, <1>3, <1>4, <1>5, Purses DEF ClaimsAreBacked, Coins

LEMMA ClaimsStep ==
    ASSUME IInv, IInv', ClaimsAreBacked, [Next]_vars
    PROVE  ClaimsAreBacked'
<1>1. /\ Owed \in Nat /\ Unbacked \in Nat /\ Owed' \in Nat /\ Unbacked' \in Nat
      /\ Total(Debits(call)) \in Nat /\ Total(Debits(call')) \in Nat
  <2>1. Owed \in Nat /\ Unbacked \in Nat
    BY Purses
  <2>2. Owed' \in Nat /\ Unbacked' \in Nat
    <3>1. ton_balance' \in [Customers -> Nat]
      BY DEF IInv, LedgerInv, LedgerType, BalanceNonNegative
    <3>2. Owed' = Total(ton_balance') + Total(Beyond(locked', settled'))
      BY DEF Owed, Beyond
    <3>3. Unbacked' = Total(Beyond(settled', locked'))
      BY DEF Unbacked, Beyond
    <3>4. Total(Beyond(locked', settled')) \in Nat /\ Total(Beyond(settled', locked')) \in Nat
      BY BeyondType DEF IInv, ChainInv
    <3> QED
      BY <3>1, <3>2, <3>3, <3>4, PurseType
  <2> QED
    BY <2>1, <2>2, DebitsType DEF IInv, CallInv
<1>2. Owed' + Total(Debits(call')) + Unbacked = Owed + Total(Debits(call)) + Unbacked'
  BY OwedStep
<1>3. Coins + Total(Costs(call, message)) <= Coins' + Total(Costs(call', message'))
  BY CoinsStep
<1>4. /\ call \in [Calls -> CallType] /\ call' \in [Calls -> CallType]
      /\ wallet \in [Customers -> Nat] /\ wallet' \in [Customers -> Nat]
  BY DEF IInv, CallInv, ChainInv
<1>5. /\ Total(Costs(call, message)) \in Nat /\ Total(Costs(call', message')) \in Nat
      /\ Total(wallet) \in Nat /\ Total(wallet') \in Nat /\ Total(InitialBalance) \in Nat
  BY <1>4, CostsType, PurseType, WithdrawalAssumption
<1>6. Coins \in Nat /\ Coins' \in Nat
  BY <1>5 DEF Coins
<1>7. Owed' + Total(Debits(call')) = Total(InitialBalance) + Unbacked'
  BY <1>1, <1>2, <1>5 DEF ClaimsAreBacked
<1>8. Total(InitialBalance) <= Coins' + Total(Costs(call', message'))
  BY <1>3, <1>5, <1>6 DEF ClaimsAreBacked
<1> QED
  BY <1>7, <1>8 DEF ClaimsAreBacked

\* Every accepted message was debited for, or its debit was given back.
LEMMA ClaimsGiveSolvent ==
    ASSUME IInv, ClaimsAreBacked
    PROVE  Solvent
<1> DEFINE twice == [r \in Calls |-> IF call[r].phase = "refunded" THEN Cost(r) ELSE 0]
           debits == Debits(call)
           costs == Costs(call, message)
           sums == [r \in Calls |-> debits[r] + twice[r]]
<1>t. call \in [Calls -> CallType] /\ message \in [Calls -> MessageType]
  BY DEF IInv, CallInv
<1>1. debits \in [Calls -> Nat] /\ costs \in [Calls -> Nat]
  BY <1>t, DebitsType, CostsType
<1>2. \A r \in Calls : costs[r] = Cost(r)
  BY DEF Cost, Costs, Debit
<1>3. twice \in [Calls -> Nat]
  BY <1>1, <1>2
<1>4. ASSUME NEW r \in Calls PROVE costs[r] <= debits[r] + twice[r]
  <2>1. call[r].amount \in Nat /\ Fee \in Nat
    BY <1>t, AmountIsNat, FiniteTables
  <2>2. CASE message[r].state \notin {"delivered", "empty"}
    <3>1. costs[r] = 0
      BY <2>2 DEF Costs
    <3> QED
      BY <1>1, <1>3, <3>1
  <2>3. CASE message[r].state \in {"delivered", "empty"}
    <3>1. call[r].phase \notin {"new", "checked", "deducted", "refused"}
      BY <2>3 DEF IInv, CallInv, NoMessage
    <3>2. call[r].phase \in Phases
      BY <1>t DEF CallType
    <3>3. call[r].phase \in Spent \/ call[r].phase = "refunded"
      BY <3>1, <3>2 DEF Phases, Spent
    <3>4. CASE call[r].phase = "refunded"
      <4>1. twice[r] = costs[r]
        BY <1>2, <3>4
      <4> QED
        BY <1>1, <1>3, <4>1
    <3>5. CASE call[r].phase \in Spent
      <4>1. debits[r] = call[r].amount + Fee
        BY <3>5 DEF Debits
      <4>2. costs[r] \in {call[r].amount + Fee, Fee}
        BY <2>3 DEF Costs
      <4> QED
        BY <1>1, <1>3, <2>1, <4>1, <4>2
    <3> QED
      BY <3>3, <3>4, <3>5
  <2> QED
    BY <2>2, <2>3
<1> HIDE DEF twice, debits, costs
<1>5. sums \in [Calls -> Nat] /\ \A r \in Calls : sums[r] = debits[r] + twice[r]
  BY <1>1, <1>3
<1> HIDE DEF sums
<1>6. Total(sums) = Total(debits) + Total(twice)
  BY <1>1, <1>3, <1>5, FiniteTables, TotalOfSums
<1>7. Total(costs) <= Total(sums)
  BY <1>1, <1>4, <1>5, FiniteTables, TotalGrows
<1>8. /\ Total(debits) \in Nat /\ Total(costs) \in Nat /\ Total(twice) \in Nat
      /\ Total(sums) \in Nat
  BY <1>1, <1>3, <1>5, FiniteTables, TotalIsNat
<1>9. /\ Owed \in Nat /\ Coins \in Nat /\ Unbacked \in Nat
      /\ Owed + Total(debits) <= Coins + Total(costs) + Unbacked
  <2>1. Owed \in Nat /\ Coins \in Nat /\ Unbacked \in Nat /\ Total(InitialBalance) \in Nat
    BY Purses, PurseType, WithdrawalAssumption
  <2> QED
    BY <1>8, <2>1 DEF ClaimsAreBacked, debits, costs
<1>10. PaidTwice = Total(twice)
  BY DEF PaidTwice, twice
<1> QED
  BY <1>6, <1>7, <1>8, <1>9, <1>10 DEF Solvent

(* The coins in the subwallets cover what the customers may claim, whatever  *)
(* withdrawals, deals, failures and crashes do, but for the refunds of       *)
(* messages that the chain accepted all the same and for what was paid or    *)
(* returned for deals beyond what they had locked, in any order and number   *)
(* of locks and settlements.  Every other claim that is given up is a debit, *)
(* a debit is at least what its message can cost, and a debit is given back  *)
(* only by Compensate.                                                       *)
THEOREM AlwaysSolvent == Spec => []Solvent
<1>1. IInv /\ IInv' /\ ClaimsAreBacked /\ [Next]_vars => ClaimsAreBacked'
  BY ClaimsStep
<1>2. IInv /\ ClaimsAreBacked => Solvent
  BY ClaimsGiveSolvent
<1> QED
  BY <1>1, <1>2, ClaimsInit, InvHolds, PTL DEF Spec
=============================================================================
