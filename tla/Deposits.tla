------------------------------ MODULE Deposits ------------------------------
(***************************************************************************)
(* Deposits: a customer sends coins to an address of the backend, the      *)
(* indexer finds the transaction on the chain and saves it, the deposit    *)
(* processor credits it (internal/modules/ton/indexer.go,                  *)
(* ton/deposit_processor.go and storage/indexer.go).                       *)
(*                                                                         *)
(*   chain      shard blocks with the transactions, and master blocks that *)
(*              name the newest shard block of their time.  One shard.     *)
(*   indexer    every 5 s, from the last saved master block to the current *)
(*   processor  every 5 s, the saved transactions that are PROCESSING      *)
(*   refresher  every 5 s, copies the addresses of the customers           *)
(*                                                                         *)
(* The row of indexer_state is created with the master block of that       *)
(* moment; master blocks are counted from there.                           *)
(*                                                                         *)
(* A customer has two address columns.  Registration writes the two forms  *)
(* of the address of the subwallet; from then on they hold what the client *)
(* sends.  A transfer is saved with the bounceable form of the address it  *)
(* went to, and credited to the customer who has it in a column by then.   *)
(***************************************************************************)
EXTENDS Ledger, Totals, Sequences

CONSTANTS
    Txs,             \* incoming transfers
    Addresses,       \* addresses on the chain, in their bounceable form
    Other,           \* any other string in a column: empty, another form, no address
    Own,             \* [Customers -> the subwallet, Other if nothing is sent there]
    To,              \* [Txs -> Addresses]
    Amount,          \* [Txs -> Nat \ {0}]
    InitialBalance,  \* [Customers -> Nat]
    Burst,           \* shard blocks the chain makes for one master block, at most
    MaxMaster,       \* bound: master blocks
    MaxEdits,        \* bound: profile updates of a customer
    MaxFaults,       \* bound: crashes, failed calls to the chain and the database
    Nobody

ASSUME DepositsAssumption ==
    /\ IsFiniteSet(Txs)
    /\ Other \notin Addresses /\ Nobody \notin Customers
    /\ Own \in [Customers -> Addresses \union {Other}] /\ To \in [Txs -> Addresses]
    /\ Amount \in [Txs -> Nat \ {0}]
    /\ InitialBalance \in [Customers -> Nat]
    /\ Burst \in Nat \ {0} /\ MaxMaster \in Nat
    /\ MaxEdits \in Nat /\ MaxFaults \in Nat

VARIABLES
    \* the chain
    shard_seqno,  \* the newest shard block
    tops,         \* tops[m]: the shard block that master block m names
    block_of,     \* the shard block of a transfer, 0: not sent yet
    \* the database
    bounceable,   \* the address columns of the customers
    nonbounceable,
    addressed,    \* customers whose registration has written the columns
    last_seqno,   \* indexer_state
    tx_status,    \* the transactions table
    \* the process
    book,         \* SafeAddressBook
    cycle,        \* where the indexer is
    batch,        \* what the deposit processor has listed
    paying,       \* the transfer it is at, with the customer it has found
    \* history, read by no action
    credited,     \* how often a transfer was credited
    payee,        \* ... and to whom
    edits,        \* how often a customer replaced the addresses
    missed,       \* transfers scanned and not saved
    faults

chain == <<shard_seqno, tops, block_of>>
columns == <<bounceable, nonbounceable, addressed, edits>>
process == <<book, cycle, batch, paying>>
history == <<credited, payee>>
vars == <<ledger, chain, columns, last_seqno, tx_status, process, history, missed, faults>>

Strings == Addresses \union {Other}
Book == {bounceable[c] : c \in Customers} \ {Other}
Holders(a) == {c \in Customers : a \in {bounceable[c], nonbounceable[c]}}
\* Only: it is an error when there is none, or more than one.
HolderOf(tx) == {c \in Customers : Holders(To[tx]) = {c}}

CycleType == [seqno : Nat, target : Nat, open : BOOLEAN, todo : SUBSET Txs]
NoCycle == [seqno |-> 0, target |-> 0, open |-> FALSE, todo |-> {}]
Indexing == cycle # NoCycle
InBlock(m) == {tx \in Txs : block_of[tx] > 0 /\ block_of[tx] = tops[m]}
NewestTop == IF tops = <<>> THEN 0 ELSE tops[Len(tops)]

Init ==
    /\ ton_balance = InitialBalance
    /\ ton_balance_locked = [c \in Customers |-> 0]
    /\ shard_seqno = 0
    /\ tops = <<>>
    /\ block_of = [tx \in Txs |-> 0]
    /\ bounceable = [c \in Customers |-> Other]
    /\ nonbounceable = [c \in Customers |-> Other]
    /\ addressed = {}
    /\ last_seqno = 0
    /\ tx_status = [tx \in Txs |-> "NONE"]
    /\ book = {}
    /\ cycle = NoCycle
    /\ batch = {}
    /\ paying = {}
    /\ credited = [tx \in Txs |-> 0]
    /\ payee = [tx \in Txs |-> Nobody]
    /\ edits = [c \in Customers |-> 0]
    /\ missed = {}
    /\ faults = 0

Fault == faults < MaxFaults /\ faults' = faults + 1
-----------------------------------------------------------------------------
(* The chain and the customers. *)

\* Both columns are UNIQUE.
Free(c, column, string) == string = Other \/ \A d \in Customers \ {c} : column[d] # string

\* The addresses of a new customer are stored, unless another one has them.
Register(c) ==
    /\ c \notin addressed
    /\ Free(c, bounceable, Own[c])
    /\ addressed' = addressed \union {c}
    /\ bounceable' = [bounceable EXCEPT ![c] = Own[c]]
    /\ nonbounceable' = [nonbounceable EXCEPT ![c] = Other]
    /\ UNCHANGED <<ledger, chain, last_seqno, tx_status, process, history, edits, missed, faults>>

\* UpdateMe: whatever strings the client sends for one column or both.
UpdateMe(c, b, n) ==
    /\ edits[c] < MaxEdits
    /\ <<b, n>> # <<bounceable[c], nonbounceable[c]>>
    /\ Free(c, bounceable, b) /\ Free(c, nonbounceable, n)
    /\ bounceable' = [bounceable EXCEPT ![c] = b]
    /\ nonbounceable' = [nonbounceable EXCEPT ![c] = n]
    /\ edits' = [edits EXCEPT ![c] = @ + 1]
    /\ UNCHANGED <<ledger, chain, addressed, last_seqno, tx_status, process, history, missed, faults>>

NewShardBlock(sent) ==
    /\ Len(tops) < MaxMaster
    /\ shard_seqno < NewestTop + Burst
    /\ \A tx \in sent : block_of[tx] = 0
    /\ shard_seqno' = shard_seqno + 1
    /\ block_of' = [tx \in Txs |-> IF tx \in sent THEN shard_seqno + 1 ELSE block_of[tx]]
    /\ UNCHANGED <<ledger, tops, columns, last_seqno, tx_status, process, history,
                   missed, faults>>

\* A master block may name the same shard block as the one before.
NewMasterBlock ==
    /\ Len(tops) < MaxMaster
    /\ tops' = Append(tops, shard_seqno)
    /\ UNCHANGED <<ledger, shard_seqno, block_of, columns, last_seqno, tx_status,
                   process, history, missed, faults>>

ChainStep == NewMasterBlock \/ \E sent \in SUBSET Txs : NewShardBlock(sent)
-----------------------------------------------------------------------------
(* The indexer: processAllPendingBlocks. *)

StartCycleLate ==
    /\ ~Indexing /\ last_seqno + 1 < Len(tops)
    /\ cycle' = [seqno |-> last_seqno + 1, target |-> Len(tops), open |-> FALSE, todo |-> {}]
    /\ UNCHANGED <<ledger, chain, columns, last_seqno, tx_status, book, batch, paying, history,
                   missed, faults>>

StartCycle ==
    /\ ~Indexing /\ last_seqno < Len(tops)
    /\ cycle' = [seqno |-> last_seqno + 1, target |-> Len(tops), open |-> FALSE, todo |-> {}]
    /\ UNCHANGED <<ledger, chain, columns, last_seqno, tx_status, book, batch, paying, history,
                   missed, faults>>

\* GetBlockShardsInfo and GetBlockTransactionsV2: only the shard block that the
\* master block names.
OpenBlock ==
    /\ Indexing /\ ~cycle.open
    /\ cycle' = [cycle EXCEPT !.open = TRUE, !.todo = InBlock(cycle.seqno)]
    /\ UNCHANGED <<ledger, chain, columns, last_seqno, tx_status, book, batch, paying, history,
                   missed, faults>>

Scanned(tx) ==
    /\ tx \in cycle.todo
    /\ cycle' = [cycle EXCEPT !.todo = @ \ {tx}]
    /\ UNCHANGED <<ledger, chain, columns, last_seqno, book, batch, paying, history>>

SaveTransactionAgain(tx) ==
    /\ To[tx] \in book
    /\ Scanned(tx)
    /\ tx_status' = [tx_status EXCEPT ![tx] = "PROCESSING"]
    /\ missed' = missed \ {tx}
    /\ UNCHANGED faults

\* The address is in the book; a hash that is saved already is skipped.
SaveTransaction(tx) ==
    /\ To[tx] \in book
    /\ Scanned(tx)
    /\ tx_status' = [tx_status EXCEPT ![tx] = IF @ = "NONE" THEN "PROCESSING" ELSE @]
    /\ missed' = missed \ {tx}
    /\ UNCHANGED faults

Skipped(tx) ==
    /\ Scanned(tx)
    /\ missed' = missed \union {t \in {tx} : tx_status[t] = "NONE"}
    /\ UNCHANGED tx_status

\* The address is not, or not yet, in the book.
IgnoreTransaction(tx) == To[tx] \notin book /\ Skipped(tx) /\ UNCHANGED faults

\* GetTransaction or SaveTransaction fails: logged, and the scan goes on.
CheckTransactionFails(tx) == To[tx] \in book /\ Skipped(tx) /\ Fault

BlockDone == Indexing /\ cycle.open /\ cycle.todo = {}

NextBlock ==
    /\ BlockDone /\ cycle.seqno < cycle.target
    /\ cycle' = [cycle EXCEPT !.seqno = @ + 1, !.open = FALSE]
    /\ UNCHANGED <<ledger, chain, columns, last_seqno, tx_status, book, batch, paying, history,
                   missed, faults>>

EndCycle(seqno) ==
    /\ cycle' = NoCycle
    /\ last_seqno' = seqno
    /\ UNCHANGED <<ledger, chain, columns, tx_status, book, batch, paying, history, missed>>

SaveStateOffByOne ==
    /\ BlockDone /\ cycle.seqno = cycle.target
    /\ EndCycle(cycle.target + 1)
    /\ UNCHANGED faults

SaveState ==
    BlockDone /\ cycle.seqno = cycle.target /\ EndCycle(cycle.target) /\ UNCHANGED faults

SaveStateFails ==
    BlockDone /\ cycle.seqno = cycle.target /\ EndCycle(last_seqno) /\ Fault

BlockFailsOnItself == Indexing /\ ~BlockDone /\ EndCycle(cycle.seqno) /\ Fault

\* A call to the chain fails in the middle of a block: the blocks before it are
\* recorded, if the database takes it (the error is ignored), and the block is
\* scanned again in the next cycle.
BlockFails ==
    /\ Indexing /\ ~BlockDone
    /\ EndCycle(cycle.seqno - 1) \/ EndCycle(last_seqno)
    /\ Fault

IndexerStep ==
    \/ StartCycle \/ OpenBlock \/ NextBlock \/ SaveState
    \/ \E tx \in Txs : SaveTransaction(tx) \/ IgnoreTransaction(tx)

IndexerFails ==
    SaveStateFails \/ BlockFails \/ \E tx \in Txs : CheckTransactionFails(tx)

RefreshBook ==
    /\ book' = Book
    /\ UNCHANGED <<ledger, chain, columns, last_seqno, tx_status, cycle, batch, paying, history,
                   missed, faults>>
-----------------------------------------------------------------------------
(* The deposit processor. *)

ListProcessing ==
    /\ batch = {} /\ paying = {}
    /\ batch' = {tx \in Txs : tx_status[tx] = "PROCESSING"}
    /\ UNCHANGED <<ledger, chain, columns, last_seqno, tx_status, book, cycle, paying, history,
                   missed, faults>>

\* ProcessDepositForTransaction: a row that is no longer PROCESSING is left alone,
\* and so is one whose customer cannot be found.
FindCustomer(tx) ==
    /\ tx \in batch /\ paying = {}
    /\ batch' = batch \ {tx}
    /\ paying' = IF tx_status[tx] = "PROCESSING" THEN {tx} \X HolderOf(tx) ELSE {}
    /\ UNCHANGED <<ledger, chain, columns, last_seqno, tx_status, book, cycle, history,
                   missed, faults>>

Credit(tx, c) ==
    /\ <<tx, c>> \in paying
    /\ paying' = {}
    /\ AddTonBalance(c, Amount[tx])
    /\ credited' = [credited EXCEPT ![tx] = @ + 1]
    /\ payee' = [payee EXCEPT ![tx] = c]
    /\ UNCHANGED <<chain, columns, last_seqno, book, cycle, batch, missed, faults>>

ProcessDepositAgain(tx, c) == Credit(tx, c) /\ UNCHANGED tx_status

\* The credit and DONE are one database transaction.
ProcessDeposit(tx, c) ==
    Credit(tx, c) /\ tx_status' = [tx_status EXCEPT ![tx] = "DONE"]

\* Rolled back, logged, and left for the next tick.
ProcessDepositFails ==
    /\ paying # {}
    /\ Fault
    /\ paying' = {}
    /\ UNCHANGED <<ledger, chain, columns, last_seqno, tx_status, book, cycle, batch, history, missed>>

ProcessorStep ==
    \/ ListProcessing
    \/ \E tx \in Txs : FindCustomer(tx) \/ \E c \in Customers : ProcessDeposit(tx, c)
-----------------------------------------------------------------------------
\* The process dies and starts again, with or without the addresses.  One that is
\* stopped between two blocks may still record the blocks it has finished.
Crash ==
    /\ Fault
    /\ last_seqno' \in {last_seqno} \union IF Indexing /\ ~cycle.open THEN {cycle.seqno - 1} ELSE {}
    /\ book' \in {{}, Book}
    /\ cycle' = NoCycle
    /\ batch' = {} /\ paying' = {}
    /\ UNCHANGED <<ledger, chain, columns, tx_status, history, missed>>

Next ==
    \/ \E c \in Customers : Register(c) \/ \E b, n \in Strings : UpdateMe(c, b, n)
    \/ ChainStep
    \/ IndexerStep \/ IndexerFails
    \/ RefreshBook
    \/ ProcessorStep \/ ProcessDepositFails
    \/ Crash

Spec == Init /\ [][Next]_vars

\* The chain goes on and the tickers fire.  The refresher is not needed.
FairSpec ==
    /\ Spec
    /\ WF_vars(NewMasterBlock)
    /\ WF_vars(IndexerStep)
    /\ WF_vars(ProcessorStep)
-----------------------------------------------------------------------------
(* Type invariant; last_seqno is a master block that exists. *)
TypeOK ==
    /\ LedgerType
    /\ shard_seqno \in Nat /\ tops \in Seq(Nat) /\ block_of \in [Txs -> Nat]
    /\ bounceable \in [Customers -> Strings] /\ nonbounceable \in [Customers -> Strings]
    /\ addressed \subseteq Customers /\ edits \in [Customers -> Nat]
    /\ last_seqno \in 0..Len(tops)
    /\ tx_status \in [Txs -> {"NONE", "PROCESSING", "DONE"}]
    /\ book \subseteq Addresses
    /\ cycle \in CycleType
    /\ batch \subseteq Txs /\ paying \subseteq Txs \X Customers
    /\ credited \in [Txs -> Nat] /\ payee \in [Txs -> Customers \union {Nobody}]
    /\ missed \subseteq Txs /\ faults \in Nat

(* However often a block is scanned again after a failure, a crash or a      *)
(* master block that repeats its shard block, a transfer is credited once,   *)
(* and only if it is on the chain.                                           *)
CreditedOnce ==
    \A tx \in Txs :
        /\ credited[tx] = IF tx_status[tx] = "DONE" THEN 1 ELSE 0
        /\ tx_status[tx] # "NONE" => block_of[tx] > 0

\* What is recorded as credited to a customer.
Deposited(c) ==
    Total([tx \in Txs |-> IF tx_status[tx] = "DONE" /\ payee[tx] = c THEN Amount[tx] ELSE 0])

(* The spendable balance of a customer has grown by the transfers that are   *)
(* DONE and were credited to the customer, through every repetition and      *)
(* fault; and these went to the customer's own subwallet, unless the         *)
(* customer replaced an address: who never did gets nothing of others.       *)
BalanceIsDeposits ==
    \A c \in Customers :
        /\ ton_balance[c] = InitialBalance[c] + Deposited(c)
        /\ \A tx \in Txs : payee[tx] = c => To[tx] = Own[c] \/ edits[c] > 0

(* last_seqno tells the truth: every transfer in a block named by a master   *)
(* block up to last_seqno was saved, or it was passed over by a scan, also   *)
(* when cycles break off in the middle.                                      *)
IndexedUpToSeqno ==
    \A m \in 1..last_seqno : \A tx \in InBlock(m) :
        tx_status[tx] # "NONE" \/ tx \in missed

(* Every transfer in a block that a master block names is credited in the    *)
(* end, unless a scan passed over it or its address is not, when the         *)
(* customers have ceased to replace theirs, the address of one of them: a    *)
(* row that found nobody is tried again, and is credited after all when      *)
(* somebody has the address.                                                 *)
EveryDepositCredited ==
    \A tx \in Txs :
        <>[]((\E m \in 1..Len(tops) : tx \in InBlock(m))
                => credited[tx] = 1 \/ tx \in missed \/ HolderOf(tx) = {})
=============================================================================
