--------------------------- MODULE DepositsProofs ---------------------------
(***************************************************************************)
(* Theorems about Deposits, for any number of customers, transfers, blocks *)
(* and faults.                                                             *)
(***************************************************************************)
EXTENDS Deposits, TotalsTheorems

Handled(tx) == tx_status[tx] # "NONE" \/ tx \in missed

\* The cycle of the indexer works on blocks that exist, and what it still has to
\* look at is on the chain.
CycleInv ==
    /\ \A m \in 1..Len(tops) : tops[m] <= shard_seqno
    /\ \A tx \in cycle.todo : block_of[tx] > 0
    /\ Indexing => /\ last_seqno < cycle.seqno
                   /\ cycle.seqno <= cycle.target
                   /\ cycle.target <= Len(tops)

\* The blocks behind the cycle are handled, and in the open one what is not to do.
ScanInv ==
    Indexing =>
        /\ \A m \in 1..(cycle.seqno - 1) : \A tx \in InBlock(m) : Handled(tx)
        /\ cycle.open => \A tx \in InBlock(cycle.seqno) : Handled(tx) \/ tx \in cycle.todo

BaseInv == TypeOK /\ CycleInv

\* The row at hand is still PROCESSING, and the customer found for it had the
\* address: an own one, unless the customer ever replaced it.
HolderInv ==
    /\ \A tx \in Txs : \A c \in Customers :
           <<tx, c>> \in paying =>
               tx_status[tx] = "PROCESSING" /\ (To[tx] = Own[c] \/ edits[c] > 0)
    /\ \A c \in Customers :
           edits[c] = 0 => bounceable[c] \in {Other, Own[c]} /\ nonbounceable[c] = Other
-----------------------------------------------------------------------------
(* Types. *)

LEMMA BaseInit == Init => BaseInv
BY DepositsAssumption DEF Init, BaseInv, TypeOK, CycleInv, LedgerType, CycleType, NoCycle, Indexing,
                          Strings

LEMMA CycleFields ==
    ASSUME cycle \in CycleType
    PROVE  /\ cycle.seqno \in Nat /\ cycle.target \in Nat
           /\ cycle.open \in BOOLEAN /\ cycle.todo \subseteq Txs
BY DEF CycleType

\* The cycle ends, with a block that exists as the last one.
LEMMA CycleEnds ==
    ASSUME BaseInv, cycle' = NoCycle, last_seqno' \in 0..Len(tops),
           book' \subseteq Addresses, batch' \subseteq Txs, paying' \subseteq Txs \X Customers,
           faults' \in Nat,
           UNCHANGED <<ledger, chain, columns, tx_status, history, missed>>
    PROVE  BaseInv'
<1>1. NoCycle \in CycleType
  BY DEF NoCycle, CycleType
<1>2. TypeOK'
  BY <1>1 DEF BaseInv, TypeOK, LedgerType, ledger, chain, columns, history
<1>3. CycleInv'
  BY DEF BaseInv, CycleInv, Indexing, chain, NoCycle
<1> QED
  BY <1>2, <1>3 DEF BaseInv

\* Every step of the indexer keeps the types.
LEMMA IndexerTypes ==
    ASSUME BaseInv, IndexerStep \/ IndexerFails
    PROVE  BaseInv'
<1>f. /\ cycle.seqno \in Nat /\ cycle.target \in Nat
      /\ cycle.open \in BOOLEAN /\ cycle.todo \subseteq Txs
      /\ Len(tops) \in Nat /\ last_seqno \in Nat /\ last_seqno <= Len(tops)
  BY CycleFields DEF BaseInv, TypeOK
<1>1. CASE StartCycle
  <2>1. cycle' \in CycleType
    BY <1>1, <1>f DEF StartCycle, CycleType
  <2>2. TypeOK'
    BY <1>1, <2>1 DEF StartCycle, BaseInv, TypeOK, LedgerType, ledger, chain, columns, history
  <2>3. /\ cycle'.seqno = last_seqno + 1 /\ cycle'.target = Len(tops) /\ cycle'.todo = {}
        /\ last_seqno < Len(tops) /\ UNCHANGED <<tops, shard_seqno, block_of, last_seqno>>
    BY <1>1 DEF StartCycle, chain
  <2>4. CycleInv'
    BY <2>3, <1>f DEF BaseInv, CycleInv
  <2> QED
    BY <2>2, <2>4 DEF BaseInv
<1>2. CASE OpenBlock
  <2>1. cycle' \in CycleType
    BY <1>2, <1>f DEF OpenBlock, CycleType, InBlock, BaseInv, TypeOK
  <2>2. TypeOK'
    BY <1>2, <2>1 DEF OpenBlock, BaseInv, TypeOK, LedgerType, ledger, chain, columns, history
  <2>3. /\ cycle'.seqno = cycle.seqno /\ cycle'.target = cycle.target
        /\ cycle'.todo = InBlock(cycle.seqno)
        /\ Indexing /\ UNCHANGED <<tops, shard_seqno, block_of, last_seqno>>
    BY <1>2 DEF OpenBlock, chain, BaseInv, TypeOK, CycleType
  <2>4. CycleInv'
    BY <2>3, <1>f DEF BaseInv, CycleInv, InBlock
  <2> QED
    BY <2>2, <2>4 DEF BaseInv
<1>3. CASE NextBlock
  <2>1. cycle' \in CycleType
    <3>1. cycle \in CycleType /\ cycle.seqno + 1 \in Nat
      BY <1>f DEF BaseInv, TypeOK
    <3>2. cycle' = [cycle EXCEPT !.seqno = cycle.seqno + 1, !.open = FALSE]
      BY <1>3 DEF NextBlock
    <3> QED
      BY <3>1, <3>2 DEF CycleType
  <2>2. TypeOK'
    BY <1>3, <2>1 DEF NextBlock, BaseInv, TypeOK, LedgerType, ledger, chain, columns, history
  <2>3. /\ cycle'.seqno = cycle.seqno + 1 /\ cycle'.target = cycle.target
        /\ cycle'.todo = {} /\ cycle.seqno < cycle.target
        /\ Indexing /\ UNCHANGED <<tops, shard_seqno, block_of, last_seqno>>
    BY <1>3 DEF NextBlock, BlockDone, chain, BaseInv, TypeOK, CycleType
  <2>4. CycleInv'
    BY <2>3, <1>f DEF BaseInv, CycleInv
  <2> QED
    BY <2>2, <2>4 DEF BaseInv
<1>4. CASE SaveState \/ SaveStateFails \/ BlockFails
  <2>1. /\ cycle' = NoCycle /\ UNCHANGED <<ledger, chain, columns, tx_status, book, batch, paying,
                                          history, missed>>
        /\ last_seqno' \in {cycle.target, last_seqno, cycle.seqno - 1}
        /\ faults' \in {faults, faults + 1} /\ Indexing
    BY <1>4 DEF SaveState, SaveStateFails, BlockFails, EndCycle, BlockDone, Fault
  <2>2. last_seqno' \in 0..Len(tops)
    BY <2>1, <1>f DEF BaseInv, CycleInv
  <2>3. /\ book' \subseteq Addresses /\ batch' \subseteq Txs /\ paying' \subseteq Txs \X Customers
        /\ faults' \in Nat
    BY <2>1 DEF BaseInv, TypeOK
  <2> QED
    BY <2>1, <2>2, <2>3, CycleEnds
<1>5. ASSUME NEW tx \in Txs,
             SaveTransaction(tx) \/ IgnoreTransaction(tx) \/ CheckTransactionFails(tx)
      PROVE  BaseInv'
  <2>1. /\ cycle' = [cycle EXCEPT !.todo = @ \ {tx}] /\ tx \in cycle.todo
        /\ UNCHANGED <<ledger, chain, columns, last_seqno, book, batch, paying, history>>
        /\ faults' \in {faults, faults + 1}
    BY <1>5 DEF SaveTransaction, IgnoreTransaction, CheckTransactionFails, Skipped, Scanned, Fault
  <2>2. tx_status' \in [Txs -> {"NONE", "PROCESSING", "DONE"}] /\ missed' \subseteq Txs
    BY <1>5 DEF SaveTransaction, IgnoreTransaction, CheckTransactionFails, Skipped, BaseInv, TypeOK
  <2>3. cycle' \in CycleType
    BY <2>1, <1>f DEF CycleType, BaseInv, TypeOK
  <2>4. TypeOK'
    BY <2>1, <2>2, <2>3 DEF BaseInv, TypeOK, LedgerType, ledger, chain, columns, history
  <2>5. /\ cycle'.seqno = cycle.seqno /\ cycle'.target = cycle.target
        /\ cycle'.todo \subseteq cycle.todo
    BY <2>1 DEF BaseInv, TypeOK, CycleType
  <2>6. Indexing
    BY <2>1 DEF Indexing, NoCycle
  <2>7. CycleInv'
    BY <2>1, <2>5, <2>6, <1>f DEF BaseInv, CycleInv, chain
  <2> QED
    BY <2>4, <2>7 DEF BaseInv
<1> QED
  BY <1>1, <1>2, <1>3, <1>4, <1>5 DEF IndexerStep, IndexerFails

\* ... and so does everybody else.
LEMMA OtherTypes ==
    ASSUME BaseInv,
           \/ \E c \in Customers : Register(c) \/ \E b, n \in Strings : UpdateMe(c, b, n)
           \/ ChainStep \/ RefreshBook \/ ProcessorStep \/ ProcessDepositFails \/ Crash
           \/ UNCHANGED vars
    PROVE  BaseInv'
<1> USE DEF LedgerType, ledger, chain, columns, history
<1>b. Book \subseteq Addresses
  BY DEF Book, Strings, BaseInv, TypeOK
<1>1. ASSUME NEW c \in Customers, Register(c) \/ \E b, n \in Strings : UpdateMe(c, b, n)
      PROVE  BaseInv'
  <2>1. PICK b \in Strings, n \in Strings :
            /\ bounceable' = [bounceable EXCEPT ![c] = b]
            /\ nonbounceable' = [nonbounceable EXCEPT ![c] = n]
    <3>1. Own[c] \in Strings /\ Other \in Strings
      BY DepositsAssumption DEF Strings
    <3> QED
      BY <1>1, <3>1 DEF Register, UpdateMe
  <2>2. /\ UNCHANGED <<ledger, chain, last_seqno, tx_status, process, history, missed, faults>>
        /\ addressed' \subseteq Customers
        /\ edits' = edits \/ edits' = [edits EXCEPT ![c] = edits[c] + 1]
    BY <1>1 DEF Register, UpdateMe, BaseInv, TypeOK
  <2>3. /\ bounceable' \in [Customers -> Strings] /\ nonbounceable' \in [Customers -> Strings]
        /\ edits' \in [Customers -> Nat]
    BY <2>1, <2>2 DEF BaseInv, TypeOK
  <2>4. TypeOK'
    BY <2>2, <2>3 DEF process, BaseInv, TypeOK
  <2>5. CycleInv'
    BY <2>2 DEF process, BaseInv, CycleInv, Indexing
  <2> QED
    BY <2>4, <2>5 DEF BaseInv
<1>2. ASSUME NEW sent \in SUBSET Txs, NewShardBlock(sent)
      PROVE  BaseInv'
  <2>1. TypeOK'
    BY <1>2 DEF NewShardBlock, process, BaseInv, TypeOK
  <2>2. /\ shard_seqno' = shard_seqno + 1 /\ UNCHANGED <<tops, last_seqno, cycle>>
        /\ \A tx \in Txs : block_of'[tx] \in {block_of[tx], shard_seqno + 1}
        /\ shard_seqno \in Nat /\ tops \in Seq(Nat) /\ cycle.todo \subseteq Txs
    BY <1>2, CycleFields DEF NewShardBlock, process, BaseInv, TypeOK
  <2>3. CycleInv'
    BY <2>2 DEF BaseInv, CycleInv, Indexing
  <2> QED
    BY <2>1, <2>3 DEF BaseInv
<1>3. CASE NewMasterBlock
  <2>1. TypeOK'
    BY <1>3 DEF NewMasterBlock, process, BaseInv, TypeOK
  <2>2. /\ Len(tops') = Len(tops) + 1 /\ tops \in Seq(Nat)
        /\ \A m \in 1..Len(tops') : tops'[m] = IF m = Len(tops) + 1 THEN shard_seqno ELSE tops[m]
        /\ UNCHANGED <<shard_seqno, block_of, last_seqno, cycle>>
    BY <1>3 DEF NewMasterBlock, process, BaseInv, TypeOK
  <2>3. CycleInv'
    <3>1. /\ shard_seqno \in Nat /\ cycle.target \in Nat /\ Len(tops) \in Nat
          /\ \A m \in 1..Len(tops) : tops[m] <= shard_seqno
      BY <2>2, CycleFields DEF BaseInv, CycleInv, TypeOK
    <3>2. \A m \in 1..Len(tops') : tops'[m] <= shard_seqno'
      BY <2>2, <3>1
    <3>3. \A tx \in cycle'.todo : block_of'[tx] > 0
      BY <2>2 DEF BaseInv, CycleInv
    <3>4. Indexing' => /\ last_seqno' < cycle'.seqno
                       /\ cycle'.seqno <= cycle'.target
                       /\ cycle'.target <= Len(tops')
      BY <2>2, <3>1 DEF BaseInv, CycleInv, Indexing
    <3> QED
      BY <3>2, <3>3, <3>4 DEF CycleInv
  <2> QED
    BY <2>1, <2>3 DEF BaseInv
<1>4. CASE RefreshBook
  BY <1>4, <1>b DEF RefreshBook, BaseInv, TypeOK, CycleInv, Indexing
<1>5. CASE ListProcessing
  BY <1>5 DEF ListProcessing, BaseInv, TypeOK, CycleInv, Indexing
<1>6. ASSUME NEW tx \in Txs, FindCustomer(tx)
      PROVE  BaseInv'
  <2>1. paying' \subseteq Txs \X Customers
    BY <1>6 DEF FindCustomer, HolderOf
  <2> QED
    BY <1>6, <2>1 DEF FindCustomer, BaseInv, TypeOK, CycleInv, Indexing
<1>7. ASSUME NEW tx \in Txs, NEW c \in Customers, ProcessDeposit(tx, c)
      PROVE  BaseInv'
  <2>1. CycleInv'
    BY <1>7 DEF ProcessDeposit, Credit, BaseInv, CycleInv, Indexing
  <2>2. LedgerType'
    <3>1. Amount[tx] \in Nat /\ ton_balance \in [Customers -> Int]
          /\ ton_balance_locked \in [Customers -> Int]
      BY DepositsAssumption DEF BaseInv, TypeOK
    <3>2. /\ ton_balance' = [ton_balance EXCEPT ![c] = @ + Amount[tx]]
          /\ UNCHANGED ton_balance_locked
      BY <1>7 DEF ProcessDeposit, Credit, AddTonBalance
    <3> QED
      BY <3>1, <3>2
  <2>3. /\ tx_status' \in [Txs -> {"NONE", "PROCESSING", "DONE"}]
        /\ credited' \in [Txs -> Nat] /\ payee' \in [Txs -> Customers \union {Nobody}]
    BY <1>7 DEF ProcessDeposit, Credit, BaseInv, TypeOK
  <2>4. /\ UNCHANGED <<chain, columns, last_seqno, book, cycle, batch, missed, faults>>
        /\ paying' = {}
    BY <1>7 DEF ProcessDeposit, Credit
  <2>5. TypeOK'
    BY <2>2, <2>3, <2>4 DEF BaseInv, TypeOK
  <2> QED
    BY <2>1, <2>5 DEF BaseInv
<1>10. CASE ProcessDepositFails
  BY <1>10 DEF ProcessDepositFails, Fault, BaseInv, TypeOK, CycleInv, Indexing
<1>8. CASE Crash
  <2>1. last_seqno' \in 0..Len(tops)
    BY <1>8, CycleFields DEF Crash, BaseInv, TypeOK, CycleInv
  <2> QED
    BY <1>8, <1>b, <2>1, CycleEnds DEF Crash, Fault, BaseInv, TypeOK
<1>9. CASE UNCHANGED vars
  BY <1>9 DEF vars, process, BaseInv, TypeOK, CycleInv, Indexing
<1> QED
  BY <1>1, <1>2, <1>3, <1>4, <1>5, <1>6, <1>7, <1>8, <1>9, <1>10 DEF ChainStep, ProcessorStep

LEMMA BaseStep == BaseInv /\ [Next]_vars => BaseInv'
BY IndexerTypes, OtherTypes DEF Next

(* Every behaviour is well typed, and last_seqno never runs ahead of the     *)
(* chain: what SaveIndexerState writes, after a full cycle, a failed one or  *)
(* a shutdown, is a master block that exists.                                *)
THEOREM TypeCorrect == Spec => []TypeOK
<1>1. Spec => []BaseInv
  BY BaseInit, BaseStep, PTL DEF Spec
<1>2. BaseInv => TypeOK
  BY DEF BaseInv
<1> QED
  BY <1>1, <1>2, PTL
-----------------------------------------------------------------------------
(* A transfer is credited once. *)

LEMMA OnceInit == Init => HolderInv /\ CreditedOnce
BY DEF Init, HolderInv, CreditedOnce

\* The customer is looked up among those who have the address now, and the row is
\* left alone by everybody else until it is credited or given up.
LEMMA HolderStep == BaseInv /\ HolderInv /\ [Next]_vars => HolderInv'
<1> SUFFICES ASSUME BaseInv, HolderInv, [Next]_vars
             PROVE  HolderInv'
  OBVIOUS
<1> USE DEF columns
<1>t. /\ tx_status \in [Txs -> {"NONE", "PROCESSING", "DONE"}] /\ edits \in [Customers -> Nat]
      /\ bounceable \in [Customers -> Strings] /\ nonbounceable \in [Customers -> Strings]
      /\ To \in [Txs -> Addresses] /\ Other \notin Addresses
  BY DepositsAssumption DEF BaseInv, TypeOK
<1>1. CASE UNCHANGED <<columns, tx_status>> /\ paying' \in {paying, {}}
  BY <1>1 DEF HolderInv
<1>2. ASSUME NEW c \in Customers, Register(c)
      PROVE  HolderInv'
  <2>1. /\ UNCHANGED <<edits, tx_status, paying>>
        /\ bounceable' = [bounceable EXCEPT ![c] = Own[c]]
        /\ nonbounceable' = [nonbounceable EXCEPT ![c] = Other]
    BY <1>2 DEF Register, process
  <2> QED
    BY <2>1, <1>t DEF HolderInv
<1>3. ASSUME NEW c \in Customers, NEW b \in Strings, NEW n \in Strings, UpdateMe(c, b, n)
      PROVE  HolderInv'
  <2>1. /\ UNCHANGED <<tx_status, paying>>
        /\ edits' = [edits EXCEPT ![c] = edits[c] + 1]
        /\ bounceable' = [bounceable EXCEPT ![c] = b]
        /\ nonbounceable' = [nonbounceable EXCEPT ![c] = n]
    BY <1>3 DEF UpdateMe, process
  <2>2. \A d \in Customers : /\ edits[d] > 0 => edits'[d] > 0
                             /\ edits'[d] = 0 => edits[d] = 0 /\ d # c
    BY <2>1, <1>t
  <2> QED
    BY <2>1, <2>2, <1>t DEF HolderInv
<1>4. ASSUME NEW tx \in Txs, SaveTransaction(tx)
      PROVE  HolderInv'
  <2>1. /\ tx_status' = [tx_status EXCEPT ![tx] = IF @ = "NONE" THEN "PROCESSING" ELSE @]
        /\ UNCHANGED <<columns, paying>>
    BY <1>4 DEF SaveTransaction, Scanned
  <2> QED
    BY <2>1, <1>t DEF HolderInv
<1>5. ASSUME NEW tx \in Txs, FindCustomer(tx)
      PROVE  HolderInv'
  <2>1. /\ UNCHANGED <<columns, tx_status>>
        /\ paying' = IF tx_status[tx] = "PROCESSING" THEN {tx} \X HolderOf(tx) ELSE {}
    BY <1>5 DEF FindCustomer
  <2>2. ASSUME NEW t \in Txs, NEW c \in Customers, <<t, c>> \in paying'
        PROVE  tx_status[t] = "PROCESSING" /\ (To[t] = Own[c] \/ edits[c] > 0)
    <3>1. t = tx /\ tx_status[t] = "PROCESSING" /\ c \in HolderOf(t)
      BY <2>1, <2>2
    <3>2. To[t] \in {bounceable[c], nonbounceable[c]} /\ To[t] # Other
      <4>1. c \in Holders(To[t])
        BY <3>1 DEF HolderOf
      <4> QED
        BY <4>1, <1>t DEF Holders
    <3> QED
      BY <3>1, <3>2, <1>t DEF HolderInv
  <2> QED
    BY <2>1, <2>2 DEF HolderInv
<1>6. ASSUME NEW tx \in Txs, NEW c \in Customers, ProcessDeposit(tx, c)
      PROVE  HolderInv'
  BY <1>6 DEF ProcessDeposit, Credit, HolderInv
<1>7. CASE \/ \E sent \in SUBSET Txs : NewShardBlock(sent)
           \/ NewMasterBlock \/ RefreshBook \/ ListProcessing \/ ProcessDepositFails
           \/ Crash \/ UNCHANGED vars
  BY <1>7, <1>1 DEF NewShardBlock, NewMasterBlock, RefreshBook, ListProcessing,
                    ProcessDepositFails, Crash, vars, process
<1>8. CASE StartCycle \/ OpenBlock \/ NextBlock \/ SaveState \/ SaveStateFails \/ BlockFails
  BY <1>8, <1>1 DEF StartCycle, OpenBlock, NextBlock, SaveState, SaveStateFails, BlockFails,
                    EndCycle
<1>9. ASSUME NEW tx \in Txs, IgnoreTransaction(tx) \/ CheckTransactionFails(tx)
      PROVE  HolderInv'
  BY <1>9, <1>1 DEF IgnoreTransaction, CheckTransactionFails, Skipped, Scanned
<1> QED
  BY <1>2, <1>3, <1>4, <1>5, <1>6, <1>7, <1>8, <1>9
  DEF Next, ChainStep, IndexerStep, IndexerFails, ProcessorStep

\* What a step does to the rows of the transactions table and to the blocks.
LEMMA OnceStep == BaseInv /\ HolderInv /\ CreditedOnce /\ [Next]_vars => CreditedOnce'
<1> SUFFICES ASSUME BaseInv, HolderInv, CreditedOnce, [Next]_vars
             PROVE  CreditedOnce'
  OBVIOUS
<1> USE DEF history
<1>t. /\ tx_status \in [Txs -> {"NONE", "PROCESSING", "DONE"}]
      /\ credited \in [Txs -> Nat] /\ block_of \in [Txs -> Nat] /\ shard_seqno \in Nat
      /\ batch \subseteq Txs /\ cycle.todo \subseteq Txs
      /\ \A tx \in cycle.todo : block_of[tx] > 0
  BY CycleFields DEF BaseInv, TypeOK, CycleInv
<1>1. CASE UNCHANGED <<tx_status, credited, block_of>>
  BY <1>1 DEF CreditedOnce
<1>2. ASSUME NEW sent \in SUBSET Txs, NewShardBlock(sent)
      PROVE  CreditedOnce'
  <2>1. UNCHANGED <<tx_status, credited>> /\ \A tx \in Txs : block_of[tx] > 0 => block_of'[tx] > 0
    BY <1>2, <1>t DEF NewShardBlock
  <2> QED
    BY <2>1 DEF CreditedOnce
<1>3. ASSUME NEW tx \in Txs, SaveTransaction(tx)
      PROVE  CreditedOnce'
  <2>1. /\ tx_status' = [tx_status EXCEPT ![tx] = IF @ = "NONE" THEN "PROCESSING" ELSE @]
        /\ UNCHANGED <<credited, block_of>> /\ block_of[tx] > 0
    BY <1>3, <1>t DEF SaveTransaction, Scanned, chain
  <2> QED
    BY <2>1, <1>t DEF CreditedOnce
<1>4. ASSUME NEW tx \in Txs, NEW c \in Customers, ProcessDeposit(tx, c)
      PROVE  CreditedOnce'
  <2>1. tx_status[tx] = "PROCESSING"
    BY <1>4 DEF ProcessDeposit, Credit, HolderInv
  <2>2. /\ tx_status' = [tx_status EXCEPT ![tx] = "DONE"]
        /\ credited' = [credited EXCEPT ![tx] = @ + 1] /\ UNCHANGED block_of
        /\ credited[tx] = 0 /\ block_of[tx] > 0
    BY <1>4, <2>1 DEF ProcessDeposit, Credit, CreditedOnce, chain
  <2> QED
    BY <2>2, <1>t DEF CreditedOnce
<1>5. CASE NewMasterBlock \/ RefreshBook \/ ListProcessing \/ ProcessDepositFails \/ Crash \/ UNCHANGED vars
  BY <1>5, <1>1 DEF NewMasterBlock, RefreshBook, ListProcessing, ProcessDepositFails, Crash, vars, chain
<1>6. CASE StartCycle \/ OpenBlock \/ NextBlock \/ SaveState \/ SaveStateFails \/ BlockFails
  BY <1>6, <1>1 DEF StartCycle, OpenBlock, NextBlock, SaveState, SaveStateFails, BlockFails,
                    EndCycle, chain
<1>7. ASSUME NEW tx \in Txs,
             IgnoreTransaction(tx) \/ CheckTransactionFails(tx) \/ FindCustomer(tx)
      PROVE  CreditedOnce'
  BY <1>7, <1>1 DEF IgnoreTransaction, CheckTransactionFails, Skipped, Scanned, FindCustomer, chain
<1>8. ASSUME NEW c \in Customers, Register(c) \/ \E b, n \in Strings : UpdateMe(c, b, n)
      PROVE  CreditedOnce'
  BY <1>8, <1>1 DEF Register, UpdateMe, chain
<1> QED
  BY <1>2, <1>3, <1>4, <1>5, <1>6, <1>7, <1>8
  DEF Next, ChainStep, IndexerStep, IndexerFails, ProcessorStep

(* However often a transfer is seen by the indexer, listed by the deposit     *)
(* processor and found a customer for, its amount is added to a balance once, *)
(* when its row becomes DONE, and only if the chain has it.                   *)
THEOREM CreditedOnceCorrect == Spec => []CreditedOnce
<1>1. Init => BaseInv /\ HolderInv /\ CreditedOnce
  BY BaseInit, OnceInit
<1>2. BaseInv /\ HolderInv /\ CreditedOnce /\ [Next]_vars => (BaseInv /\ HolderInv /\ CreditedOnce)'
  BY BaseStep, HolderStep, OnceStep
<1> QED
  BY <1>1, <1>2, PTL DEF Spec
-----------------------------------------------------------------------------
(* Balances and the rows that are DONE. *)

\* The amounts credited to a customer, row by row.
LEMMA DepositTable ==
    ASSUME NEW c
    PROVE  /\ IsFiniteSet(Txs)
           /\ [tx \in Txs |-> IF tx_status[tx] = "DONE" /\ payee[tx] = c THEN Amount[tx] ELSE 0]
                 \in [Txs -> Nat]
<1>1. \A tx \in Txs : Amount[tx] \in Nat
  BY DepositsAssumption
<1> QED
  BY <1>1, DepositsAssumption

LEMMA DepositedIsNat == ASSUME NEW c PROVE Deposited(c) \in Nat
<1> DEFINE table == [t \in Txs |-> IF tx_status[t] = "DONE" /\ payee[t] = c THEN Amount[t] ELSE 0]
<1>1. IsFiniteSet(Txs) /\ table \in [Txs -> Nat]
  BY DepositTable
<1>2. Deposited(c) = Total(table)
  BY DEF Deposited
<1> HIDE DEF table
<1> QED
  BY <1>1, <1>2, TotalIsNat

\* A transfer that becomes DONE adds its amount to what its payee has deposited.
LEMMA DepositedOnceMore ==
    ASSUME tx_status \in [Txs -> {"NONE", "PROCESSING", "DONE"}],
           payee \in [Txs -> Customers \union {Nobody}],
           NEW tx \in Txs, NEW d \in Customers, tx_status[tx] # "DONE",
           tx_status' = [tx_status EXCEPT ![tx] = "DONE"],
           payee' = [payee EXCEPT ![tx] = d], NEW c
    PROVE  Deposited(c)' = Deposited(c) + IF d = c THEN Amount[tx] ELSE 0
<1> DEFINE before == [t \in Txs |-> IF tx_status[t] = "DONE" /\ payee[t] = c THEN Amount[t] ELSE 0]
           after == [t \in Txs |-> IF tx_status'[t] = "DONE" /\ payee'[t] = c THEN Amount[t] ELSE 0]
<1>1. IsFiniteSet(Txs) /\ before \in [Txs -> Nat] /\ after \in [Txs -> Nat]
  <2>1. \A t \in Txs : Amount[t] \in Nat
    BY DepositsAssumption
  <2> QED
    BY <2>1, DepositsAssumption
<1>2. Deposited(c) = Total(before) /\ Deposited(c)' = Total(after)
  BY DEF Deposited
<1>3. \A t \in Txs \ {tx} : after[t] = before[t]
  OBVIOUS
<1>4. before[tx] = 0 /\ after[tx] = IF d = c THEN Amount[tx] ELSE 0
  OBVIOUS
<1>5. Amount[tx] \in Nat
  BY DepositsAssumption
<1> HIDE DEF before, after
<1>6. Total(before) \in Nat
  BY <1>1, TotalIsNat
<1>7. Total(after) = Total(before) + after[tx] - before[tx]
  BY <1>1, <1>3, TotalChange
<1> QED
  BY <1>2, <1>4, <1>5, <1>6, <1>7

LEMMA DepositsInit == Init => BalanceIsDeposits
<1> SUFFICES ASSUME Init, NEW c \in Customers
             PROVE  /\ ton_balance[c] = InitialBalance[c] + Deposited(c)
                    /\ \A tx \in Txs : payee[tx] # c
  BY DEF BalanceIsDeposits
<1> DEFINE table == [t \in Txs |-> IF tx_status[t] = "DONE" /\ payee[t] = c THEN Amount[t] ELSE 0]
<1>1. table \in [Txs -> Nat]
  BY DepositTable
<1>2. \A t \in Txs : table[t] = 0
  BY DEF Init
<1>3. Deposited(c) = Total(table)
  BY DEF Deposited
<1> HIDE DEF table
<1>4. Total(table) = 0
  BY <1>1, <1>2, TotalOfNothing
<1>5. ton_balance[c] = InitialBalance[c] /\ InitialBalance[c] \in Nat
  BY DepositsAssumption DEF Init
<1>6. \A tx \in Txs : payee[tx] # c
  BY DepositsAssumption DEF Init
<1> QED
  BY <1>3, <1>4, <1>5, <1>6

\* Whatever does not change the balances and which rows are DONE; an address that
\* was replaced stays so.
LEMMA DepositsFrame ==
    ASSUME BalanceIsDeposits, UNCHANGED <<ton_balance, payee>>,
           \A t \in Txs : tx_status'[t] = "DONE" <=> tx_status[t] = "DONE",
           \A c \in Customers : edits[c] > 0 => edits'[c] > 0
    PROVE  BalanceIsDeposits'
<1> SUFFICES ASSUME NEW c \in Customers
             PROVE  /\ ton_balance'[c] = InitialBalance[c] + Deposited(c)'
                    /\ \A tx \in Txs : payee'[tx] = c => To[tx] = Own[c] \/ edits'[c] > 0
  BY DEF BalanceIsDeposits
<1>1. [tx \in Txs |-> IF tx_status'[tx] = "DONE" /\ payee'[tx] = c THEN Amount[tx] ELSE 0]
        = [tx \in Txs |-> IF tx_status[tx] = "DONE" /\ payee[tx] = c THEN Amount[tx] ELSE 0]
  OBVIOUS
<1>2. Deposited(c)' = Deposited(c)
  BY <1>1 DEF Deposited
<1> QED
  BY <1>2 DEF BalanceIsDeposits

LEMMA DepositsStep == BaseInv /\ HolderInv /\ BalanceIsDeposits /\ [Next]_vars => BalanceIsDeposits'
<1> SUFFICES ASSUME BaseInv, HolderInv, BalanceIsDeposits, [Next]_vars
             PROVE  BalanceIsDeposits'
  OBVIOUS
<1>t. /\ tx_status \in [Txs -> {"NONE", "PROCESSING", "DONE"}]
      /\ payee \in [Txs -> Customers \union {Nobody}] /\ edits \in [Customers -> Nat]
      /\ ton_balance \in [Customers -> Int]
  BY DEF BaseInv, TypeOK, LedgerType
<1> USE DEF columns, history
<1>1. CASE UNCHANGED <<ledger, tx_status, history, edits>>
  BY <1>1, DepositsFrame DEF ledger
<1>2. ASSUME NEW tx \in Txs, SaveTransaction(tx)
      PROVE  BalanceIsDeposits'
  <2>1. /\ tx_status' = [tx_status EXCEPT ![tx] = IF @ = "NONE" THEN "PROCESSING" ELSE @]
        /\ UNCHANGED <<ton_balance, payee, edits>>
    BY <1>2 DEF SaveTransaction, Scanned, ledger
  <2>2. \A t \in Txs : tx_status'[t] = "DONE" <=> tx_status[t] = "DONE"
    BY <2>1, <1>t
  <2> QED
    BY <2>1, <2>2, DepositsFrame
<1>3. ASSUME NEW tx \in Txs, NEW d \in Customers, ProcessDeposit(tx, d)
      PROVE  BalanceIsDeposits'
  <2>1. /\ tx_status[tx] = "PROCESSING" /\ (To[tx] = Own[d] \/ edits[d] > 0)
        /\ tx_status' = [tx_status EXCEPT ![tx] = "DONE"]
        /\ payee' = [payee EXCEPT ![tx] = d] /\ UNCHANGED edits
        /\ ton_balance' = [ton_balance EXCEPT ![d] = @ + Amount[tx]]
    BY <1>3 DEF ProcessDeposit, Credit, HolderInv, AddTonBalance
  <2>2. Amount[tx] \in Nat /\ \A c \in Customers : InitialBalance[c] \in Nat
    BY DepositsAssumption
  <2>3. ASSUME NEW c \in Customers
        PROVE  /\ ton_balance'[c] = InitialBalance[c] + Deposited(c)'
               /\ \A t \in Txs : payee'[t] = c => To[t] = Own[c] \/ edits'[c] > 0
    <3>1. ton_balance[c] = InitialBalance[c] + Deposited(c)
      BY DEF BalanceIsDeposits
    <3>2. Deposited(c)' = Deposited(c) + IF d = c THEN Amount[tx] ELSE 0
      BY <1>t, <2>1, DepositedOnceMore
    <3>3. Deposited(c) \in Nat
      BY DepositedIsNat
    <3>4. ton_balance'[c] = InitialBalance[c] + Deposited(c)'
      BY <1>t, <2>1, <2>2, <3>1, <3>2, <3>3
    <3>5. \A t \in Txs : payee'[t] = c => To[t] = Own[c] \/ edits'[c] > 0
      BY <1>t, <2>1 DEF BalanceIsDeposits
    <3> QED
      BY <3>4, <3>5
  <2> QED
    BY <2>3 DEF BalanceIsDeposits
<1>4. CASE NewMasterBlock \/ RefreshBook \/ ListProcessing \/ ProcessDepositFails \/ Crash \/ UNCHANGED vars
  BY <1>4, <1>1 DEF NewMasterBlock, RefreshBook, ListProcessing, ProcessDepositFails, Crash, vars
<1>5. CASE StartCycle \/ OpenBlock \/ NextBlock \/ SaveState \/ SaveStateFails \/ BlockFails
  BY <1>5, <1>1 DEF StartCycle, OpenBlock, NextBlock, SaveState, SaveStateFails, BlockFails,
                    EndCycle
<1>6. ASSUME NEW tx \in Txs,
             IgnoreTransaction(tx) \/ CheckTransactionFails(tx) \/ FindCustomer(tx)
      PROVE  BalanceIsDeposits'
  BY <1>6, <1>1 DEF IgnoreTransaction, CheckTransactionFails, Skipped, Scanned, FindCustomer
<1>7. ASSUME \/ \E c \in Customers : Register(c)
             \/ \E sent \in SUBSET Txs : NewShardBlock(sent)
      PROVE  BalanceIsDeposits'
  BY <1>7, <1>1 DEF Register, NewShardBlock
<1>8. ASSUME NEW c \in Customers, NEW b \in Strings, NEW n \in Strings, UpdateMe(c, b, n)
      PROVE  BalanceIsDeposits'
  <2>1. /\ UNCHANGED <<ton_balance, payee, tx_status>>
        /\ edits' = [edits EXCEPT ![c] = edits[c] + 1]
    BY <1>8 DEF UpdateMe, ledger
  <2>2. \A d \in Customers : edits[d] > 0 => edits'[d] > 0
    BY <2>1, <1>t
  <2> QED
    BY <2>1, <2>2, DepositsFrame
<1> QED
  BY <1>2, <1>3, <1>4, <1>5, <1>6, <1>7, <1>8
  DEF Next, ChainStep, IndexerStep, IndexerFails, ProcessorStep

(* What a customer may spend is what the customer had and every transfer that *)
(* was credited to the customer, no more and no less, however often blocks,   *)
(* listings and failures repeat; and whoever never replaced an address is     *)
(* credited only what went to the own subwallet, whatever strings the others  *)
(* store as theirs.                                                           *)
THEOREM BalancesAreDeposits == Spec => []BalanceIsDeposits
<1>1. Init => BaseInv /\ HolderInv /\ BalanceIsDeposits
  BY BaseInit, OnceInit, DepositsInit
<1>2. BaseInv /\ HolderInv /\ BalanceIsDeposits /\ [Next]_vars
        => (BaseInv /\ HolderInv /\ BalanceIsDeposits)'
  BY BaseStep, HolderStep, DepositsStep
<1> QED
  BY <1>1, <1>2, PTL DEF Spec
-----------------------------------------------------------------------------
(* The indexer's progress. *)

\* Blocks do not change once the chain has named them, nor does a transfer that
\* was handled become unhandled.
LEMMA HistoryStable ==
    ASSUME BaseInv, [Next]_vars
    PROVE  /\ \A m \in 1..Len(tops) : InBlock(m)' = InBlock(m)
           /\ \A tx \in Txs : Handled(tx) => Handled(tx)'
           /\ Len(tops) <= Len(tops')
<1>t. /\ tops \in Seq(Nat) /\ shard_seqno \in Nat /\ block_of \in [Txs -> Nat]
      /\ \A m \in 1..Len(tops) : tops[m] \in Nat /\ tops[m] <= shard_seqno
      /\ tx_status \in [Txs -> {"NONE", "PROCESSING", "DONE"}] /\ missed \subseteq Txs
  BY DEF BaseInv, TypeOK, CycleInv
<1>1. CASE UNCHANGED <<chain, tx_status, missed>>
  BY <1>1, <1>t DEF chain, InBlock, Handled
<1>2. ASSUME NEW sent \in SUBSET Txs, NewShardBlock(sent)
      PROVE  /\ \A m \in 1..Len(tops) : InBlock(m)' = InBlock(m)
             /\ \A tx \in Txs : Handled(tx) => Handled(tx)'
             /\ Len(tops) <= Len(tops')
  <2>1. /\ UNCHANGED <<tops, tx_status, missed>>
        /\ \A tx \in sent : block_of[tx] = 0
        /\ block_of' = [tx \in Txs |-> IF tx \in sent THEN shard_seqno + 1 ELSE block_of[tx]]
    BY <1>2 DEF NewShardBlock
  <2>2. ASSUME NEW m \in 1..Len(tops), NEW tx \in Txs
        PROVE  tx \in InBlock(m)' <=> tx \in InBlock(m)
    BY <2>1, <1>t DEF InBlock
  <2>3. \A m \in 1..Len(tops) : InBlock(m)' = InBlock(m)
    BY <2>2 DEF InBlock
  <2> QED
    BY <2>1, <2>3, <1>t DEF Handled
<1>3. CASE NewMasterBlock
  <2>1. /\ UNCHANGED <<block_of, tx_status, missed>> /\ Len(tops') = Len(tops) + 1
        /\ \A m \in 1..Len(tops) : tops'[m] = tops[m]
    BY <1>3, <1>t DEF NewMasterBlock
  <2> QED
    BY <2>1, <1>t DEF InBlock, Handled
<1>4. ASSUME NEW tx \in Txs,
             SaveTransaction(tx) \/ IgnoreTransaction(tx) \/ CheckTransactionFails(tx)
      PROVE  /\ \A m \in 1..Len(tops) : InBlock(m)' = InBlock(m)
             /\ \A t \in Txs : Handled(t) => Handled(t)'
             /\ Len(tops) <= Len(tops')
  <2>1. UNCHANGED chain
    BY <1>4 DEF SaveTransaction, IgnoreTransaction, CheckTransactionFails, Skipped, Scanned
  <2>2. ASSUME NEW t \in Txs, Handled(t) PROVE Handled(t)'
    BY <1>4, <2>2, <1>t DEF SaveTransaction, IgnoreTransaction, CheckTransactionFails, Skipped, Handled
  <2> QED
    BY <2>1, <2>2, <1>t DEF chain, InBlock
<1>5. ASSUME NEW tx \in Txs, NEW c \in Customers, ProcessDeposit(tx, c)
      PROVE  /\ \A m \in 1..Len(tops) : InBlock(m)' = InBlock(m)
             /\ \A t \in Txs : Handled(t) => Handled(t)'
             /\ Len(tops) <= Len(tops')
  <2>1. UNCHANGED <<chain, missed>> /\ tx_status' = [tx_status EXCEPT ![tx] = "DONE"]
    BY <1>5 DEF ProcessDeposit, Credit
  <2>2. \A t \in Txs : Handled(t) => Handled(t)'
    BY <2>1, <1>t DEF Handled
  <2> QED
    BY <2>1, <2>2, <1>t DEF chain, InBlock
<1>6. ASSUME \/ \E c \in Customers : Register(c) \/ \E b, n \in Strings : UpdateMe(c, b, n)
             \/ RefreshBook \/ ListProcessing \/ Crash \/ UNCHANGED vars
             \/ StartCycle \/ OpenBlock \/ NextBlock \/ SaveState \/ SaveStateFails \/ BlockFails
             \/ ProcessDepositFails \/ \E tx \in Txs : FindCustomer(tx)
      PROVE  UNCHANGED <<chain, tx_status, missed>>
  BY <1>6 DEF Register, UpdateMe, RefreshBook, ListProcessing, Crash, vars, StartCycle, OpenBlock,
              NextBlock, SaveState, SaveStateFails, BlockFails, EndCycle, ProcessDepositFails,
              FindCustomer
<1> QED
  BY <1>1, <1>2, <1>3, <1>4, <1>5, <1>6
  DEF Next, ChainStep, IndexerStep, IndexerFails, ProcessorStep

\* Only the end of a cycle and a crash move last_seqno; all of them after blocks
\* that were scanned.
LEMMA SeqnoStep ==
    ASSUME BaseInv, ScanInv, IndexedUpToSeqno, [Next]_vars
    PROVE  /\ last_seqno' \in Nat /\ last_seqno' <= Len(tops)
           /\ \A m \in 1..last_seqno' : \A tx \in InBlock(m) : Handled(tx)
<1>t. /\ cycle.seqno \in Nat /\ cycle.target \in Nat
      /\ cycle.open \in BOOLEAN /\ cycle.todo \subseteq Txs
      /\ last_seqno \in Nat /\ last_seqno <= Len(tops) /\ Len(tops) \in Nat
      /\ Indexing => /\ last_seqno < cycle.seqno /\ cycle.seqno <= cycle.target
                     /\ cycle.target <= Len(tops)
  BY CycleFields DEF BaseInv, TypeOK, CycleInv
<1>i. \A m \in 1..last_seqno : \A tx \in InBlock(m) : Handled(tx)
  BY DEF IndexedUpToSeqno, Handled, InBlock
<1>1. CASE last_seqno' = last_seqno
  BY <1>1, <1>t, <1>i
<1>2. CASE SaveState
  <2>1. /\ last_seqno' = cycle.target /\ cycle.seqno = cycle.target /\ Indexing
        /\ cycle.open /\ cycle.todo = {}
    BY <1>2 DEF SaveState, EndCycle, BlockDone
  <2>2. \A m \in 1..cycle.seqno : \A tx \in InBlock(m) : Handled(tx)
    BY <2>1, <1>t DEF ScanInv
  <2> QED
    BY <2>1, <2>2, <1>t
<1>3. CASE Indexing /\ last_seqno' = cycle.seqno - 1
  BY <1>3, <1>t DEF ScanInv
<1>4. ASSUME \/ \E c \in Customers : Register(c) \/ \E b, n \in Strings : UpdateMe(c, b, n)
             \/ ChainStep \/ RefreshBook \/ ProcessorStep \/ UNCHANGED vars
             \/ StartCycle \/ OpenBlock \/ NextBlock \/ SaveStateFails \/ ProcessDepositFails
             \/ \E tx \in Txs : \/ SaveTransaction(tx) \/ IgnoreTransaction(tx)
                                \/ CheckTransactionFails(tx)
      PROVE  last_seqno' = last_seqno
  BY <1>4 DEF Register, UpdateMe, ChainStep, NewShardBlock, NewMasterBlock, RefreshBook,
              ProcessorStep, ListProcessing, FindCustomer, ProcessDeposit, Credit, vars, StartCycle, OpenBlock, NextBlock,
              SaveStateFails, EndCycle, SaveTransaction, IgnoreTransaction,
              CheckTransactionFails, Skipped, Scanned, ProcessDepositFails
<1>5. CASE BlockFails \/ Crash
  BY <1>5, <1>1, <1>3 DEF BlockFails, EndCycle, Crash
<1> QED
  BY <1>1, <1>2, <1>4, <1>5 DEF Next, IndexerStep, IndexerFails

\* A scan that goes on leaves nothing behind.
LEMMA ScanStep ==
    ASSUME BaseInv, ScanInv, IndexedUpToSeqno, [Next]_vars
    PROVE  ScanInv'
<1> SUFFICES ASSUME Indexing'
             PROVE  /\ \A m \in 1..(cycle'.seqno - 1) : \A tx \in InBlock(m) : Handled(tx)'
                    /\ cycle'.seqno \in 1..Len(tops)
                    /\ cycle'.open => \A tx \in InBlock(cycle'.seqno) :
                                         Handled(tx)' \/ tx \in cycle'.todo
  <2>1. ASSUME NEW m \in 1..Len(tops) PROVE InBlock(m)' = InBlock(m)
    BY HistoryStable
  <2>t. Len(tops) \in Nat
    BY DEF BaseInv, TypeOK
  <2> QED
    BY <2>1, <2>t DEF ScanInv, InBlock
<1>t. /\ cycle \in CycleType /\ cycle.seqno \in Nat /\ cycle.todo \subseteq Txs
      /\ last_seqno \in Nat /\ last_seqno <= Len(tops) /\ Len(tops) \in Nat
      /\ Indexing => /\ last_seqno < cycle.seqno /\ cycle.seqno <= cycle.target
                     /\ cycle.target <= Len(tops)
      /\ cycle.target \in Nat
      /\ tx_status \in [Txs -> {"NONE", "PROCESSING", "DONE"}]
  BY CycleFields DEF BaseInv, TypeOK, CycleInv
<1>h. \A m \in 1..Len(tops) : \A tx \in InBlock(m) : tx \in Txs /\ (Handled(tx) => Handled(tx)')
  BY HistoryStable DEF InBlock
<1>1. CASE UNCHANGED cycle
  <2>1. Indexing
    BY <1>1 DEF Indexing, NoCycle
  <2> QED
    BY <1>1, <2>1, <1>t, <1>h DEF ScanInv
<1>2. CASE StartCycle
  <2>1. cycle'.seqno = last_seqno + 1 /\ ~cycle'.open /\ last_seqno < Len(tops)
    BY <1>2 DEF StartCycle
  <2>2. \A m \in 1..last_seqno : \A tx \in InBlock(m) : Handled(tx)
    BY DEF IndexedUpToSeqno, Handled, InBlock
  <2> QED
    BY <2>1, <2>2, <1>t, <1>h
<1>3. CASE OpenBlock
  <2>1. cycle'.seqno = cycle.seqno /\ cycle'.todo = InBlock(cycle.seqno) /\ Indexing
    BY <1>3, <1>t DEF OpenBlock, CycleType
  <2> QED
    BY <2>1, <1>t, <1>h DEF ScanInv
<1>4. CASE NextBlock
  <2>1. /\ cycle'.seqno = cycle.seqno + 1 /\ ~cycle'.open
        /\ Indexing /\ cycle.open /\ cycle.todo = {} /\ cycle.seqno < cycle.target
    BY <1>4, <1>t DEF NextBlock, BlockDone, CycleType
  <2>2. \A m \in 1..cycle.seqno : \A tx \in InBlock(m) : Handled(tx)
    BY <2>1, <1>t DEF ScanInv
  <2> QED
    BY <2>1, <2>2, <1>t, <1>h
<1>5. ASSUME NEW tx \in Txs,
             SaveTransaction(tx) \/ IgnoreTransaction(tx) \/ CheckTransactionFails(tx)
      PROVE  /\ \A m \in 1..(cycle'.seqno - 1) : \A t \in InBlock(m) : Handled(t)'
             /\ cycle'.seqno \in 1..Len(tops)
             /\ cycle'.open => \A t \in InBlock(cycle'.seqno) : Handled(t)' \/ t \in cycle'.todo
  <2>1. cycle' = [cycle EXCEPT !.todo = @ \ {tx}] /\ tx \in cycle.todo
    BY <1>5 DEF SaveTransaction, IgnoreTransaction, CheckTransactionFails, Skipped, Scanned
  <2>2. /\ cycle'.seqno = cycle.seqno /\ cycle'.open = cycle.open
        /\ cycle'.todo = cycle.todo \ {tx}
    BY <2>1, <1>t DEF CycleType
  <2>3. Indexing
    BY <2>1 DEF Indexing, NoCycle
  <2>4. Handled(tx)'
    BY <1>5, <1>t DEF SaveTransaction, IgnoreTransaction, CheckTransactionFails, Skipped, Handled
  <2> QED
    BY <2>2, <2>3, <2>4, <1>t, <1>h DEF ScanInv
<1>6. CASE SaveState \/ SaveStateFails \/ BlockFails \/ Crash
  BY <1>6 DEF SaveState, SaveStateFails, BlockFails, EndCycle, Crash, Indexing, NoCycle
<1>7. ASSUME \/ \E c \in Customers : Register(c) \/ \E b, n \in Strings : UpdateMe(c, b, n)
             \/ ChainStep \/ RefreshBook \/ ProcessorStep \/ ProcessDepositFails \/ UNCHANGED vars
      PROVE  UNCHANGED cycle
  BY <1>7 DEF Register, UpdateMe, ChainStep, NewShardBlock, NewMasterBlock, RefreshBook,
              ProcessorStep, ListProcessing, FindCustomer, ProcessDeposit, Credit, vars, process,
              ProcessDepositFails
<1> QED
  BY <1>1, <1>2, <1>3, <1>4, <1>5, <1>6, <1>7 DEF Next, IndexerStep, IndexerFails

LEMMA ScanInit == Init => ScanInv /\ IndexedUpToSeqno
BY DEF Init, ScanInv, Indexing, IndexedUpToSeqno

(* Whatever breaks off a cycle -- the chain, the database, the end of the    *)
(* process -- and however blocks repeat, a block up to last_seqno was        *)
(* scanned to its end: none of its transfers was left out.                   *)
THEOREM IndexedCorrect == Spec => []IndexedUpToSeqno
<1>1. Init => BaseInv /\ ScanInv /\ IndexedUpToSeqno
  BY BaseInit, ScanInit
<1>2. BaseInv /\ ScanInv /\ IndexedUpToSeqno /\ [Next]_vars
        => (BaseInv /\ ScanInv /\ IndexedUpToSeqno)'
  <2> SUFFICES ASSUME BaseInv, ScanInv, IndexedUpToSeqno, [Next]_vars
               PROVE  IndexedUpToSeqno'
    BY BaseStep, ScanStep
  <2>1. /\ last_seqno' \in Nat /\ last_seqno' <= Len(tops) /\ Len(tops) \in Nat
        /\ \A m \in 1..last_seqno' : \A tx \in InBlock(m) : Handled(tx)
    BY SeqnoStep DEF BaseInv, TypeOK
  <2>2. ASSUME NEW m \in 1..last_seqno', NEW tx \in InBlock(m)'
        PROVE  Handled(tx)'
    <3>1. m \in 1..Len(tops) /\ InBlock(m)' = InBlock(m) /\ tx \in Txs
      BY <2>1, HistoryStable DEF InBlock
    <3> QED
      BY <3>1, <2>1, <2>2, HistoryStable
  <2> QED
    BY <2>2 DEF IndexedUpToSeqno, Handled
<1> QED
  BY <1>1, <1>2, PTL DEF Spec
=============================================================================
