---------------------------- MODULE EscrowProofs ----------------------------
(***************************************************************************)
(* Theorems about Escrow, for any number of deals, requests, customers and *)
(* channels, any prices, balances and durations, and any number of faults: *)
(* types, balances, books, refunds, funding; the account of a deal is      *)
(* exact until a stale write or a torn pair of statements; Escrow          *)
(* implements DealContract; what is displayed was agreed; a deal is posted  *)
(* once.                                                                   *)
(***************************************************************************)
EXTENDS EscrowContract, TotalsTheorems

(* What the records in flight mean: a request works on a deal, and so does  *)
(* the publisher between the two statements of a pair.                      *)
InFlight ==
    /\ \A r \in Requests :
          /\ request[r].op # "none" => request[r].deal \in Deals
          /\ request[r].locked => request[r].op = "make"
    /\ publisher.phase \in {"mark", "send"} <=> publisher.deal \in Deals

TypeInv == TypeOK /\ InFlight

LEMMA ConstantTypes ==
    /\ Lifetime \in Nat /\ Lead \in Nat /\ TopHours \in Nat /\ CommonHours \in Nat
    /\ AutoPostCap \in Nat /\ AutoPostCap > 0
    /\ Horizon \in Nat /\ MaxTime \in Nat /\ MaxFaults \in Nat
BY EscrowAssumption

-----------------------------------------------------------------------------
(* Frame lemmas: which actions can change which part of the state.  They are  *)
(* how the proofs below get from "a step" to the few actions that matter.     *)
\* The actions that write a status.
Writes(d) == PostIsNotFine(d) \/ VoidRemoved(d) \/ VoidForeign(d) \/ ExpireOne(d) \/ ClaimOne(d)

HandlerWrites(r) ==
    \/ MakeWrite(r) \/ CancelDeal(r) \/ AcceptDeal(r) \/ DeclineDeal(r)
    \/ ApproveAndProposeTime(r) \/ ApproveDealData(r)

LEMMA StatusFrame ==
    ASSUME [Next]_vars
    PROVE  \/ UNCHANGED <<status, overrun>>
           \/ \E d \in Deals : OfferDeal(d) \/ Writes(d)
           \/ \E r \in Requests : HandlerWrites(r)
           \/ MarkCompleted \/ RevertClaim \/ BotRecords
           \/ \E err \in ErrStatuses : BotGivesUp(err)
BY DEF Writes, HandlerWrites, vars, rows, history, Next, HandlerStep, Begin, MakeLock, MakeReject,
   RequestFails, PublisherStep, PublisherTick, StartComplete, StartPublish, PublisherRests,
   EnterPhase, PayOne, SendAutoPost, SendAutoPostToFullChannel, PublisherFails, RefunderStep,
   RefunderTick, RefundOne, FlagRefunded, RefunderFails, BotStep, BotTakes, BotPosts, BotFails,
   WatcherStep, MonitorTick, PostIsFine, BotRemoved, ForeignPost, WatcherFails, Listing, Tick, Crash

LEMMA BotFrame ==
    ASSUME [Next]_vars
    PROVE  \/ UNCHANGED <<bot, autopost>>
           \/ SendAutoPost /\ UNCHANGED bot
           \/ BotTakes
           \/ BotPosts /\ UNCHANGED autopost
           \/ bot' = IdleBot /\ UNCHANGED autopost
           \/ Crash
  <1>1. UNCHANGED <<bot, autopost>> \/ SendAutoPost \/ BotStep \/ BotFails \/ Crash
    <2>1. ASSUME NEW r \in Requests, HandlerStep(r) PROVE UNCHANGED <<bot, autopost>>
      BY <2>1 DEF loops, botside, HandlerStep, Begin, MakeLock, MakeReject, MakeWrite, WritePending,
         WriteStatus, CancelDeal, AcceptDeal, DeclineDeal, ApproveAndProposeTime, ApproveDealData,
         RequestFails
    <2>2. PublisherStep \/ PublisherFails => UNCHANGED <<bot, autopost>> \/ SendAutoPost
      BY DEF botside, PublisherStep, PublisherTick, StartComplete, StartPublish, PublisherRests,
         EnterPhase, ExpireOne, PayOne, MarkCompleted, ClaimOne, RevertClaim, PublisherFails, Sent
    <2>3. RefunderStep \/ RefunderFails => UNCHANGED <<bot, autopost>>
      BY DEF botside, RefunderStep, RefunderTick, RefundOne, FlagRefunded, RefunderFails
    <2>4. WatcherStep \/ WatcherFails => UNCHANGED <<bot, autopost>>
      BY DEF WatcherStep, MonitorTick, PostIsFine, PostIsNotFine, BotRemoved, VoidRemoved,
         ForeignPost, VoidForeign, Void, WatcherFails, Listing
    <2>5. UNCHANGED vars \/ Tick \/ (\E d \in Deals : OfferDeal(d)) => UNCHANGED <<bot, autopost>>
      BY DEF vars, loops, botside, Tick, OfferDeal
    <2> QED
      BY <2>1, <2>2, <2>3, <2>4, <2>5 DEF Next
  <1>2. BotStep => BotTakes \/ ((BotPosts \/ bot' = IdleBot) /\ UNCHANGED autopost)
    BY DEF BotStep, BotPosts, BotRecords, BotGivesUp
  <1>3. BotFails => bot' = IdleBot /\ UNCHANGED autopost
    BY DEF BotFails
  <1>4. SendAutoPost => UNCHANGED bot
    BY DEF SendAutoPost, SendAutoPostToFullChannel
  <1> QED
    BY <1>1, <1>2, <1>3, <1>4

USE DEF vars, ledger, rows, schedule, world, loops, botside, watchers, history, counts, mishaps,
    Next, OfferDeal, HandlerStep, Begin, MakeLock, MakeReject, MakeWrite, WritePending, WriteStatus,
    CancelDeal, AcceptDeal, DeclineDeal, ApproveAndProposeTime, ApproveDealData, RequestFails,
    PublisherStep, PublisherTick, StartComplete, StartPublish, PublisherRests, EnterPhase, ExpireOne,
    PayOne, MarkCompleted, ClaimOne, SendAutoPost, SendAutoPostToFullChannel, RevertClaim,
    PublisherFails, RefunderStep, RefunderTick, RefundOne, FlagRefunded, RefunderFails, BotStep,
    BotTakes, BotGivesUp, BotPosts, BotRecords, BotFails, WatcherStep, MonitorTick, PostIsFine,
    PostIsNotFine, BotRemoved, VoidRemoved, ForeignPost, VoidForeign, Void, WatcherFails, Listing, Tick, Crash

\* Money moves in one statement of MakeDeal, the publisher and the refunder each.
LEMMA LedgerFrame ==
    ASSUME [Next]_vars
    PROVE  \/ UNCHANGED ledger
           \/ \E r \in Requests : MakeLock(r)
           \/ \E d \in Deals : PayOne(d) \/ RefundOne(d)
OBVIOUS

LEMMA LocksFrame ==
    ASSUME [Next]_vars PROVE UNCHANGED locks \/ \E r \in Requests : MakeLock(r)
OBVIOUS

LEMMA RefundsFrame ==
    ASSUME [Next]_vars PROVE UNCHANGED refunds \/ \E d \in Deals : RefundOne(d)
OBVIOUS

LEMMA PayoutsFrame ==
    ASSUME [Next]_vars PROVE UNCHANGED payouts \/ \E d \in Deals : PayOne(d)
OBVIOUS

LEMMA CountsFrame ==
    ASSUME [Next]_vars
    PROVE  /\ UNCHANGED locks \/ \E d : locks' = [locks EXCEPT ![d] = @ + 1]
           /\ UNCHANGED refunds \/ \E d : refunds' = [refunds EXCEPT ![d] = @ + 1]
           /\ UNCHANGED payouts \/ \E d : payouts' = [payouts EXCEPT ![d] = @ + 1]
  <1> HIDE DEF MakeLock, RefundOne, PayOne
  <1>1. UNCHANGED locks \/ \E d : locks' = [locks EXCEPT ![d] = @ + 1]
    BY LocksFrame DEF MakeLock
  <1>2. UNCHANGED refunds \/ \E d : refunds' = [refunds EXCEPT ![d] = @ + 1]
    BY RefundsFrame DEF RefundOne
  <1>3. UNCHANGED payouts \/ \E d : payouts' = [payouts EXCEPT ![d] = @ + 1]
    BY PayoutsFrame DEF PayOne
  <1> QED
    BY <1>1, <1>2, <1>3

LEMMA FaultsFrame ==
    ASSUME [Next]_vars PROVE UNCHANGED faults \/ Fault
OBVIOUS

\* A column of the deals table is written in one row, or not at all.
LEMMA ColumnsFrame ==
    ASSUME [Next]_vars
    PROVE  /\ \/ UNCHANGED expires_at
              \/ \E d : expires_at' = [expires_at EXCEPT ![d] = now + Lifetime]
              \/ \E d : expires_at' = [expires_at EXCEPT ![d] = now + CommonHours]
              \/ \E d : expires_at' = [expires_at EXCEPT ![d] = publisher.at + Lifetime]
              \/ \E r \in Requests : \E d : expires_at' = [expires_at EXCEPT ![d] = request[r].time]
           /\ \/ UNCHANGED publication_time
              \/ \E r \in Requests : ApproveAndProposeTime(r)
           /\ \/ UNCHANGED <<top_deadline, common_deadline>>
              \/ \E r \in Requests : ApproveDealData(r)
           /\ \/ UNCHANGED balance_refunded
              \/ \E d : balance_refunded' = [balance_refunded EXCEPT ![d] = TRUE]
           /\ \/ UNCHANGED channel_post_ids
              \/ \E d : channel_post_ids' = [channel_post_ids EXCEPT ![d] = TRUE]
OBVIOUS

LEMMA TornFrame ==
    ASSUME [Next]_vars
    PROVE  \/ UNCHANGED torn
           \/ \E r \in Requests : RequestFails(r)
           \/ \E d : torn' = [torn EXCEPT ![d] = TRUE]
           \/ Crash
OBVIOUS

LEMMA MisdatedFrame ==
    ASSUME [Next]_vars
    PROVE  UNCHANGED misdated \/ \E r \in Requests : ApproveDealData(r)
OBVIOUS

LEMMA WatchersFrame ==
    ASSUME [Next]_vars, monitor \subseteq Deals, kicked \subseteq Deals, foreign \subseteq Deals
    PROVE  monitor' \subseteq Deals /\ kicked' \subseteq Deals /\ foreign' \subseteq Deals
OBVIOUS

\* The request records: a request starts, locks, or ends.
LEMMA RequestFrame ==
    ASSUME [Next]_vars
    PROVE  \/ UNCHANGED request
           \/ \E r \in Requests : MakeLock(r) \/ Finish(r)
           \/ \E r \in Requests, op \in Ops, d \in Deals : Begin(r, op, d)
           \/ request' = [r \in Requests |-> NoRequest]
OBVIOUS

LEMMA PublisherFrame ==
    ASSUME [Next]_vars
    PROVE  \/ UNCHANGED publisher
           \/ PublisherStep
           \/ PublisherFails
           \/ publisher' = IdlePublisher
OBVIOUS

LEMMA RefunderFrame ==
    ASSUME [Next]_vars
    PROVE  \/ UNCHANGED <<refunder, balance_refunded>>
           \/ RefunderStep
           \/ RefunderFails
           \/ Crash
OBVIOUS

LEMMA WorldFrame ==
    ASSUME [Next]_vars
    PROVE  \/ UNCHANGED <<now, posted>>
           \/ now' = now + 1 /\ UNCHANGED posted
           \/ UNCHANGED now /\ \E d : posted' = [posted EXCEPT ![d] = TRUE]
OBVIOUS

HIDE DEF vars, ledger, rows, schedule, world, loops, botside, watchers, history, counts, mishaps,
    Next, OfferDeal, HandlerStep, Begin, MakeLock, MakeReject, MakeWrite, WritePending, WriteStatus,
    CancelDeal, AcceptDeal, DeclineDeal, ApproveAndProposeTime, ApproveDealData, RequestFails,
    PublisherStep, PublisherTick, StartComplete, StartPublish, PublisherRests, EnterPhase, ExpireOne,
    PayOne, MarkCompleted, ClaimOne, SendAutoPost, SendAutoPostToFullChannel, RevertClaim,
    PublisherFails, RefunderStep, RefunderTick, RefundOne, FlagRefunded, RefunderFails, BotStep,
    BotTakes, BotGivesUp, BotPosts, BotRecords, BotFails, WatcherStep, MonitorTick, PostIsFine,
    PostIsNotFine, BotRemoved, VoidRemoved, ForeignPost, VoidForeign, Void, WatcherFails, Listing, Tick, Crash
-----------------------------------------------------------------------------
LEMMA TypeInit == Init => TypeInv
  <1> SUFFICES ASSUME Init PROVE TypeInv
    OBVIOUS
  <1>1. LedgerType
    BY EscrowAssumption DEF Init, LedgerType
  <1>2. RowsType /\ HistoryType
    BY DEF Init, RowsType, HistoryType, Statuses
  <1>3. LoopsType
    BY ConstantTypes DEF Init, LoopsType, PublisherType, Phases, RefunderType, BotType,
       IdlePublisher, IdleRefunder, IdleBot
  <1>4. request \in [Requests -> RequestType]
    BY DEF Init, RequestType, NoRequest
  <1>5. InFlight
    BY EscrowAssumption DEF Init, InFlight, NoRequest, IdlePublisher
  <1> QED
    BY <1>1, <1>2, <1>3, <1>4, <1>5 DEF Init, TypeInv, TypeOK


LEMMA SetStatusType ==
    ASSUME status \in [Deals -> Statuses], overrun \in [Deals -> BOOLEAN],
           NEW d, NEW s \in Statuses, NEW expected, SetStatus(d, s, expected)
    PROVE  status' \in [Deals -> Statuses] /\ overrun' \in [Deals -> BOOLEAN]
BY DEF SetStatus

\* Whoever writes a status writes one of the enumeration, to one row.
LEMMA StatusWritten ==
    ASSUME [Next]_vars
    PROVE  \/ UNCHANGED <<status, overrun>>
           \/ \E d \in Deals : OfferDeal(d)
           \/ \E d, expected : \E s \in Statuses : SetStatus(d, s, expected)
  <1> DEFINE Writing == \E d, expected : \E s \in Statuses : SetStatus(d, s, expected)
  <1>0. Statuses = {"NONE", "DRAFT", "COMPLETED", "PENDING", "IN_PROGRESS",
                    "AWAITING_APPROVAL_TIME", "AWAITING_PUBLICATION", "PUBLISHED", "CANCELED",
                    "EXPIRED", "TERMS_VIOLATED", "ERR_PUBLISH", "ERR_BAD_TARGET"}
    BY DEF Statuses, Running, Negotiating, Refundable, ErrStatuses
  <1>1. ASSUME NEW d \in Deals, Writes(d) PROVE Writing
    BY <1>0, <1>1 DEF Writes, PostIsNotFine, VoidRemoved, VoidForeign, Void, ExpireOne, ClaimOne
  <1>2. ASSUME NEW r \in Requests, HandlerWrites(r) PROVE Writing
    BY <1>0, <1>2 DEF HandlerWrites, MakeWrite, WritePending, CancelDeal, AcceptDeal, DeclineDeal,
       WriteStatus, ApproveAndProposeTime, ApproveDealData
  <1>3. CASE MarkCompleted \/ RevertClaim \/ BotRecords
    BY <1>0, <1>3 DEF MarkCompleted, RevertClaim, BotRecords
  <1>4. ASSUME NEW err \in ErrStatuses, BotGivesUp(err) PROVE Writing
    BY <1>4 DEF BotGivesUp, Statuses, Refundable
  <1> QED
    BY <1>1, <1>2, <1>3, <1>4, StatusFrame

LEMMA LedgerTypeStep == TypeInv /\ [Next]_vars => LedgerType'
  <1> SUFFICES ASSUME TypeInv, [Next]_vars PROVE LedgerType'
    OBVIOUS
  <1> USE DEF TypeInv, TypeOK, LedgerType
  <1>1. CASE UNCHANGED ledger
    BY <1>1 DEF ledger
  <1>2. ASSUME NEW r \in Requests, MakeLock(r) PROVE LedgerType'
    <2>1. request[r].deal \in Deals
      BY <1>2 DEF InFlight, MakeLock
    <2> QED
      BY <1>2, <2>1, EscrowAssumption DEF MakeLock, LockBalanceForDeal, MoveToLocked
  <1>3. ASSUME NEW d \in Deals, PayOne(d) PROVE LedgerType'
    BY <1>3, EscrowAssumption DEF PayOne, TransferBalanceToManagerForDeal
  <1>4. ASSUME NEW d \in Deals, RefundOne(d) PROVE LedgerType'
    BY <1>4, EscrowAssumption DEF RefundOne, UnlockBalanceForDeal
  <1> QED
    BY <1>1, <1>2, <1>3, <1>4, LedgerFrame

LEMMA NoRequestType == NoRequest \in RequestType
BY DEF NoRequest, RequestType

LEMMA RequestTypeStep == TypeInv /\ [Next]_vars => (request \in [Requests -> RequestType])'
  <1> SUFFICES ASSUME TypeInv, [Next]_vars PROVE request' \in [Requests -> RequestType]
    OBVIOUS
  <1>1. request \in [Requests -> RequestType] /\ publication_time \in [Deals -> Nat]
    BY DEF TypeInv, TypeOK, RowsType
  <1>2. ASSUME NEW r \in Requests, MakeLock(r)
        PROVE  request' \in [Requests -> RequestType]
    <2>1. now + Lifetime \in Nat
      BY ConstantTypes DEF TypeInv, TypeOK
    <2>2. [request[r] EXCEPT !.locked = TRUE, !.time = now + Lifetime] \in RequestType
      BY <1>1, <2>1 DEF RequestType
    <2> QED
      BY <1>1, <1>2, <2>2 DEF MakeLock
  <1>3. ASSUME NEW r \in Requests, Finish(r)
        PROVE  request' \in [Requests -> RequestType]
    BY <1>1, <1>3, NoRequestType DEF Finish
  <1>4. ASSUME NEW r \in Requests, NEW op \in Ops, NEW d \in Deals, Begin(r, op, d)
        PROVE  request' \in [Requests -> RequestType]
    BY <1>1, <1>4 DEF Begin, RequestType
  <1> QED
    BY <1>1, <1>2, <1>3, <1>4, RequestFrame, NoRequestType

LEMMA HistoryTypeStep == TypeInv /\ [Next]_vars => HistoryType'
  <1> SUFFICES ASSUME TypeInv, [Next]_vars PROVE HistoryType'
    OBVIOUS
  <1> USE DEF TypeInv, TypeOK, HistoryType
  <1>1. locks' \in [Deals -> Nat]
    BY CountsFrame
  <1>2. refunds' \in [Deals -> Nat]
    BY CountsFrame
  <1>3. payouts' \in [Deals -> Nat]
    BY CountsFrame
  <1>4. faults' \in Nat
    BY FaultsFrame DEF Fault
  <1>5. overrun' \in [Deals -> BOOLEAN]
    BY StatusWritten, SetStatusType DEF RowsType, OfferDeal, history
  <1>6. torn' \in [Deals -> BOOLEAN]
    BY TornFrame DEF RequestFails, Crash
  <1>7. misdated' \in [Deals -> BOOLEAN]
    BY MisdatedFrame DEF ApproveDealData
  <1> QED
    BY <1>1, <1>2, <1>3, <1>4, <1>5, <1>6, <1>7

LEMMA RowsTypeStep == TypeInv /\ [Next]_vars => RowsType'
  <1> SUFFICES ASSUME TypeInv, [Next]_vars PROVE RowsType'
    OBVIOUS
  <1> USE DEF TypeInv, TypeOK, RowsType
  <1>1. status' \in [Deals -> Statuses]
    BY StatusWritten, SetStatusType DEF OfferDeal, HistoryType, Statuses
  <1>2. expires_at' \in [Deals -> Nat]
    <2>1. publisher.at \in Nat /\ \A r \in Requests : request[r].time \in Nat
      BY DEF LoopsType, PublisherType, RequestType
    <2>2. /\ now + Lifetime \in Nat /\ now + CommonHours \in Nat
          /\ publisher.at + Lifetime \in Nat
      BY <2>1, ConstantTypes
    <2> QED
      BY <2>1, <2>2, ColumnsFrame
  <1>3. publication_time' \in [Deals -> Nat]
    BY ColumnsFrame, ConstantTypes DEF ApproveAndProposeTime
  <1>4. top_deadline' \in [Deals -> Nat] /\ common_deadline' \in [Deals -> Nat]
    BY ColumnsFrame, ConstantTypes DEF ApproveDealData, RequestType
  <1>5. balance_refunded' \in [Deals -> BOOLEAN]
    BY ColumnsFrame
  <1>6. channel_post_ids' \in [Deals -> BOOLEAN]
    BY ColumnsFrame
  <1> QED
    BY <1>1, <1>2, <1>3, <1>4, <1>5, <1>6

LEMMA WorldTypeStep == TypeInv /\ [Next]_vars => now' \in Nat /\ posted' \in [Deals -> BOOLEAN]
  <1> SUFFICES ASSUME TypeInv, [Next]_vars PROVE now' \in Nat /\ posted' \in [Deals -> BOOLEAN]
    OBVIOUS
  <1>1. now' \in Nat
    BY WorldFrame DEF TypeInv, TypeOK
  <1>2. posted' \in [Deals -> BOOLEAN]
    BY WorldFrame DEF TypeInv, TypeOK
  <1> QED
    BY <1>1, <1>2

LEMMA LoopsTypeStep == TypeInv /\ [Next]_vars => LoopsType'
  <1> SUFFICES ASSUME TypeInv, [Next]_vars PROVE LoopsType'
    OBVIOUS
  <1>0. LoopsType /\ InFlight
    BY DEF TypeInv, TypeOK
  <1>1. publisher' \in PublisherType
    <2>1. publisher \in PublisherType
      BY <1>0 DEF LoopsType
    <2>2. ASSUME PublisherStep PROVE publisher' \in PublisherType
      <3> USE DEF PublisherType, Phases
      <3>1. CASE PublisherTick \/ StartComplete \/ StartPublish \/ PublisherRests
        BY <3>1 DEF PublisherTick, StartComplete, StartPublish, PublisherRests, EnterPhase, TypeInv, TypeOK
      <3>2. ASSUME NEW d \in Deals, ExpireOne(d) PROVE publisher' \in PublisherType
        BY <2>1, <3>2 DEF ExpireOne
      <3>3. ASSUME NEW d \in Deals, PayOne(d) PROVE publisher' \in PublisherType
        BY <2>1, <3>3 DEF PayOne
      <3>4. ASSUME NEW d \in Deals, ClaimOne(d) PROVE publisher' \in PublisherType
        BY <2>1, <3>4 DEF ClaimOne
      <3>5. CASE MarkCompleted
        BY <2>1, <3>5 DEF MarkCompleted
      <3>6. CASE SendAutoPost \/ RevertClaim
        BY <2>1, <3>6 DEF SendAutoPost, SendAutoPostToFullChannel, RevertClaim, Sent
      <3> QED
        BY <2>2, <3>1, <3>2, <3>3, <3>4, <3>5, <3>6 DEF PublisherStep
    <2>3. ASSUME PublisherFails PROVE publisher' \in PublisherType
      BY <2>1, <2>3 DEF PublisherFails, Sent, PublisherType, Phases
    <2>4. IdlePublisher \in PublisherType
      BY DEF IdlePublisher, PublisherType, Phases
    <2> QED
      BY <2>1, <2>2, <2>3, <2>4, PublisherFrame
  <1>2. refunder' \in RefunderType
    BY <1>0, RefunderFrame DEF LoopsType, RefunderType, RefunderStep, RefunderTick, RefundOne,
       FlagRefunded, RefunderFails, Crash, IdleRefunder
  <1>3. /\ bot' \in BotType
        /\ autopost' \in Seq(Deals) /\ Len(autopost') <= AutoPostCap
    <2>1. /\ bot \in BotType
          /\ autopost \in Seq(Deals) /\ Len(autopost) <= AutoPostCap
      BY <1>0 DEF LoopsType
    <2>2. CASE SendAutoPost /\ UNCHANGED bot
      <3>1. publisher.deal \in Deals
        BY <1>0, <2>2 DEF InFlight, SendAutoPost, SendAutoPostToFullChannel
      <3> QED
        BY <2>1, <2>2, <3>1, ConstantTypes DEF SendAutoPost, SendAutoPostToFullChannel
    <2>3. CASE BotTakes
      BY <2>1, <2>3, ConstantTypes DEF BotTakes, BotType
    <2>4. CASE BotPosts /\ UNCHANGED autopost
      BY <2>1, <2>4 DEF BotPosts, BotType
    <2>5. CASE bot' = IdleBot /\ UNCHANGED autopost
      BY <2>1, <2>5 DEF IdleBot, BotType
    <2>6. CASE Crash
      BY <2>6, ConstantTypes DEF Crash, IdleBot, BotType
    <2> QED
      BY <2>1, <2>2, <2>3, <2>4, <2>5, <2>6, BotFrame
  <1>4. monitor' \subseteq Deals /\ kicked' \subseteq Deals /\ foreign' \subseteq Deals
    BY <1>0, WatchersFrame DEF LoopsType
  <1> QED
    BY <1>1, <1>2, <1>3, <1>4 DEF LoopsType

LEMMA InFlightStep == TypeInv /\ [Next]_vars => InFlight'
  <1> SUFFICES ASSUME TypeInv, [Next]_vars PROVE InFlight'
    OBVIOUS
  <1>0. /\ request \in [Requests -> RequestType] /\ publisher \in PublisherType
        /\ InFlight
    BY DEF TypeInv, TypeOK, LoopsType
  <1>1. ASSUME NEW r \in Requests
        PROVE  /\ request'[r].op # "none" => request'[r].deal \in Deals
               /\ request'[r].locked => request'[r].op = "make"
    <2>1. /\ request[r].op # "none" => request[r].deal \in Deals
          /\ request[r].locked => request[r].op = "make"
      BY <1>0 DEF InFlight
    <2>2. ASSUME NEW q \in Requests, MakeLock(q)
          PROVE  /\ request'[r].op # "none" => request'[r].deal \in Deals
                 /\ request'[r].locked => request'[r].op = "make"
      BY <1>0, <2>1, <2>2 DEF MakeLock, RequestType
    <2>3. ASSUME NEW q \in Requests, Finish(q)
          PROVE  /\ request'[r].op # "none" => request'[r].deal \in Deals
                 /\ request'[r].locked => request'[r].op = "make"
      BY <1>0, <2>1, <2>3 DEF Finish, NoRequest
    <2>4. ASSUME NEW q \in Requests, NEW op \in Ops, NEW d \in Deals, Begin(q, op, d)
          PROVE  /\ request'[r].op # "none" => request'[r].deal \in Deals
                 /\ request'[r].locked => request'[r].op = "make"
      BY <1>0, <2>1, <2>4 DEF Begin
    <2> QED
      BY <2>1, <2>2, <2>3, <2>4, RequestFrame DEF NoRequest
  <1>2. publisher'.phase \in {"mark", "send"} <=> publisher'.deal \in Deals
    <2>1. publisher.phase \in {"mark", "send"} <=> publisher.deal \in Deals
      BY <1>0 DEF InFlight
    <2>2. NoDeal \notin Deals
      BY EscrowAssumption
    <2>3. CASE PublisherTick \/ StartComplete \/ StartPublish \/ PublisherRests
      BY <2>2, <2>3 DEF PublisherTick, StartComplete, StartPublish, PublisherRests, EnterPhase
    <2>4. CASE \E d \in Deals : ExpireOne(d) \/ PayOne(d) \/ ClaimOne(d)
      BY <1>0, <2>1, <2>2, <2>4 DEF ExpireOne, PayOne, ClaimOne, PublisherType
    <2>5. CASE MarkCompleted \/ SendAutoPost \/ RevertClaim
      BY <1>0, <2>2, <2>5 DEF MarkCompleted, SendAutoPost, SendAutoPostToFullChannel, RevertClaim,
         Sent, PublisherType
    <2>6. CASE PublisherFails
      BY <1>0, <2>1, <2>2, <2>6 DEF PublisherFails, Sent, PublisherType
    <2> QED
      BY <2>1, <2>2, <2>3, <2>4, <2>5, <2>6, PublisherFrame DEF PublisherStep, IdlePublisher
  <1> QED
    BY <1>1, <1>2 DEF InFlight

LEMMA TypeStep == TypeInv /\ [Next]_vars => TypeInv'
  BY LedgerTypeStep, RowsTypeStep, WorldTypeStep, RequestTypeStep, LoopsTypeStep, HistoryTypeStep,
     InFlightStep DEF TypeInv, TypeOK

(* Type correctness, and what the records of work in flight mean. *)
THEOREM TypeInvariant == Spec => []TypeInv
  BY TypeInit, TypeStep, PTL DEF Spec

(* Every variable keeps its type, whatever the handlers and loops do.        *)
THEOREM TypeCorrect == Spec => []TypeOK
  <1>1. TypeInv => TypeOK
    BY DEF TypeInv
  <1> QED
    BY <1>1, TypeInvariant, PTL
-----------------------------------------------------------------------------
(* No spendable balance is ever negative: LockBalanceForDeal is the only      *)
(* statement of the escrow that takes from one, and its WHERE clause is       *)
(* evaluated with the update.                                                 *)
THEOREM BalancesStayNonNegative == Spec => []BalanceNonNegative
  <1>1. Init => BalanceNonNegative
    <2> SUFFICES ASSUME Init, NEW c \in Customers PROVE ton_balance[c] >= 0
      BY DEF BalanceNonNegative
    <2>1. ton_balance = InitialBalance
      BY DEF Init
    <2>2. InitialBalance[c] \in Nat
      BY EscrowAssumption
    <2> QED
      BY <2>1, <2>2
  <1>2. TypeInv /\ BalanceNonNegative /\ [Next]_vars => BalanceNonNegative'
    <2> SUFFICES ASSUME TypeInv, BalanceNonNegative, [Next]_vars, NEW c \in Customers
                 PROVE  ton_balance'[c] >= 0
      BY DEF BalanceNonNegative
    <2>1. ton_balance \in [Customers -> Int] /\ ton_balance[c] >= 0
      BY DEF TypeInv, TypeOK, LedgerType, BalanceNonNegative
    <2>2. CASE UNCHANGED ledger
      BY <2>1, <2>2 DEF ledger
    <2>3. ASSUME NEW r \in Requests, MakeLock(r) PROVE ton_balance'[c] >= 0
      <3>1. request[r].deal \in Deals
        BY <2>3 DEF TypeInv, InFlight, MakeLock
      <3> QED
        BY <2>1, <2>3, <3>1, EscrowAssumption
        DEF MakeLock, LockBalanceForDeal, MoveToLocked, CanAfford
    <2>4. ASSUME NEW d \in Deals, PayOne(d) PROVE ton_balance'[c] >= 0
      BY <2>1, <2>4, EscrowAssumption DEF PayOne, TransferBalanceToManagerForDeal
    <2>5. ASSUME NEW d \in Deals, RefundOne(d) PROVE ton_balance'[c] >= 0
      BY <2>1, <2>5, EscrowAssumption DEF RefundOne, UnlockBalanceForDeal
    <2> QED
      BY <2>2, <2>3, <2>4, <2>5, LedgerFrame
  <1> QED
    BY <1>1, <1>2, TypeInvariant, PTL DEF Spec
-----------------------------------------------------------------------------
(* The books.  What changes when one deal is counted once more. *)
LEMMA WorthIsNat ==
    ASSUME NEW ds \in SUBSET Deals, NEW n \in [Deals -> Nat]
    PROVE  IsFiniteSet(ds) /\ [d \in ds |-> Price[d] * n[d]] \in [ds -> Nat] /\ Worth(ds, n) \in Nat
  <1>1. IsFiniteSet(ds)
    BY EscrowAssumption, FS_Subset
  <1>2. [d \in ds |-> Price[d] * n[d]] \in [ds -> Nat]
    BY EscrowAssumption
  <1>3. Worth(ds, n) \in Nat
    BY <1>1, <1>2, TotalIsNat DEF Worth
  <1> QED
    BY <1>1, <1>2, <1>3

LEMMA WorthOnceMore ==
    ASSUME NEW ds \in SUBSET Deals, NEW n \in [Deals -> Nat], NEW d \in Deals
    PROVE  Worth(ds, [n EXCEPT ![d] = @ + 1]) = Worth(ds, n) + IF d \in ds THEN Price[d] ELSE 0
  <1> DEFINE m == [n EXCEPT ![d] = @ + 1]
             before == [e \in ds |-> Price[e] * n[e]]
             after == [e \in ds |-> Price[e] * m[e]]
  <1>1. m \in [Deals -> Nat] /\ m[d] = n[d] + 1 /\ \A e \in Deals \ {d} : m[e] = n[e]
    OBVIOUS
  <1> HIDE DEF m
  <1>2. /\ IsFiniteSet(ds) /\ before \in [ds -> Nat] /\ after \in [ds -> Nat]
        /\ Worth(ds, n) \in Nat
    BY <1>1, WorthIsNat
  <1>3. CASE d \notin ds
    <2>1. after = before
      BY <1>1, <1>3
    <2>2. Worth(ds, m) = Worth(ds, n)
      BY <2>1 DEF Worth
    <2> QED
      BY <1>2, <1>3, <2>2 DEF m
  <1>4. CASE d \in ds
    <2>1. \A e \in ds \ {d} : after[e] = before[e]
      BY <1>1
    <2>2. after[d] = before[d] + Price[d]
      <3>1. after[d] = Price[d] * (n[d] + 1) /\ before[d] = Price[d] * n[d]
        BY <1>1, <1>4
      <3>2. Price[d] \in Nat /\ n[d] \in Nat
        BY EscrowAssumption
      <3> QED
        BY <3>1, <3>2
    <2>3. before[d] \in Nat /\ Price[d] \in Nat
      BY <1>2, <1>4, EscrowAssumption
    <2> HIDE DEF before, after
    <2>4. Total(after) = Total(before) + after[d] - before[d]
      BY <1>2, <1>4, <2>1, TotalChange
    <2>5. Total(before) \in Nat
      BY <1>2, TotalIsNat
    <2>6. Total(after) = Total(before) + Price[d]
      BY <2>2, <2>3, <2>4, <2>5
    <2>7. Worth(ds, m) = Worth(ds, n) + Price[d]
      BY <2>6 DEF Worth, before, after
    <2> QED
      BY <1>4, <2>7 DEF m
  <1> QED
    BY <1>3, <1>4

LEMMA WorthOfNothing ==
    ASSUME NEW ds \in SUBSET Deals
    PROVE  Worth(ds, [d \in Deals |-> 0]) = 0
  <1> DEFINE none == [d \in Deals |-> 0]
             table == [d \in ds |-> Price[d] * none[d]]
  <1>1. table \in [ds -> Nat] /\ \A d \in ds : table[d] = 0
    BY EscrowAssumption
  <1> HIDE DEF table
  <1>2. Total(table) = 0
    BY <1>1, TotalOfNothing
  <1> QED
    BY <1>2 DEF table, Worth

(* Every locked unit is the price of a deal whose money was locked and not    *)
(* given back or paid out, and every spendable one was paid in, given back or *)
(* earned, customer by customer, whatever is overrun or torn.  The invariant  *)
(* is inductive: a statement that moves money and the count of its moves are  *)
(* one step.                                                                  *)
THEOREM BooksAlwaysBalance == Spec => []BooksBalance
  <1> DEFINE Adv(c) == {d \in Deals : Advertiser[d] = c}
             Man(c) == {d \in Deals : Manager[d] = c}
  <1>a. ASSUME NEW c PROVE Adv(c) \in SUBSET Deals /\ Man(c) \in SUBSET Deals
    OBVIOUS
  <1>b. \A d \in Deals : \A c : (d \in Adv(c) <=> Advertiser[d] = c) /\ (d \in Man(c) <=> Manager[d] = c)
    OBVIOUS
  <1>c. BooksBalance <=>
          \A c \in Customers :
            /\ ton_balance_locked[c] =
                  Worth(Adv(c), locks) - Worth(Adv(c), refunds) - Worth(Adv(c), payouts)
            /\ ton_balance[c] =
                  InitialBalance[c] - Worth(Adv(c), locks) + Worth(Adv(c), refunds)
                                    + Worth(Man(c), payouts)
    BY DEF BooksBalance
  <1>d. BooksBalance' <=>
          \A c \in Customers :
            /\ ton_balance_locked'[c] =
                  Worth(Adv(c), locks') - Worth(Adv(c), refunds') - Worth(Adv(c), payouts')
            /\ ton_balance'[c] =
                  InitialBalance[c] - Worth(Adv(c), locks') + Worth(Adv(c), refunds')
                                    + Worth(Man(c), payouts')
    BY DEF BooksBalance, Worth
  <1> HIDE DEF Adv, Man
  <1>1. Init => BooksBalance
    <2> SUFFICES ASSUME Init PROVE BooksBalance
      OBVIOUS
    <2>1. \A c \in Customers : InitialBalance[c] \in Nat
      BY EscrowAssumption
    <2>2. \A c \in Customers :
            /\ Worth(Adv(c), locks) = 0 /\ Worth(Adv(c), refunds) = 0
            /\ Worth(Adv(c), payouts) = 0 /\ Worth(Man(c), payouts) = 0
      BY <1>a, WorthOfNothing DEF Init
    <2>3. ton_balance = InitialBalance /\ ton_balance_locked = [c \in Customers |-> 0]
      BY DEF Init
    <2> QED
      BY <1>c, <2>1, <2>2, <2>3
  <1>2. TypeInv /\ BooksBalance /\ [Next]_vars => BooksBalance'
    <2> SUFFICES ASSUME TypeInv, BooksBalance, [Next]_vars, NEW c \in Customers
                 PROVE  /\ ton_balance_locked'[c] =
                            Worth(Adv(c), locks') - Worth(Adv(c), refunds') - Worth(Adv(c), payouts')
                        /\ ton_balance'[c] =
                            InitialBalance[c] - Worth(Adv(c), locks') + Worth(Adv(c), refunds')
                                              + Worth(Man(c), payouts')
      BY <1>d
    <2>1. /\ locks \in [Deals -> Nat] /\ refunds \in [Deals -> Nat] /\ payouts \in [Deals -> Nat]
          /\ ton_balance \in [Customers -> Int] /\ ton_balance_locked \in [Customers -> Int]
          /\ InitialBalance[c] \in Nat
      BY EscrowAssumption DEF TypeInv, TypeOK, LedgerType, HistoryType
    <2>2. /\ Worth(Adv(c), locks) \in Nat /\ Worth(Adv(c), refunds) \in Nat
          /\ Worth(Adv(c), payouts) \in Nat /\ Worth(Man(c), payouts) \in Nat
      BY <1>a, <2>1, WorthIsNat
    <2>3. /\ ton_balance_locked[c] =
                Worth(Adv(c), locks) - Worth(Adv(c), refunds) - Worth(Adv(c), payouts)
          /\ ton_balance[c] =
                InitialBalance[c] - Worth(Adv(c), locks) + Worth(Adv(c), refunds)
                                  + Worth(Man(c), payouts)
      BY <1>c
    <2>4. \A d \in Deals : Price[d] \in Nat /\ Advertiser[d] \in Customers /\ Manager[d] \in Customers
      BY EscrowAssumption
    <2>5. CASE \E r \in Requests : MakeLock(r)
      <3>1. PICK r \in Requests : MakeLock(r)
        BY <2>5
      <3> DEFINE d == request[r].deal
      <3>2. d \in Deals
        BY <3>1 DEF TypeInv, InFlight, MakeLock
      <3>3. /\ ton_balance' = [ton_balance EXCEPT ![Advertiser[d]] = @ - Price[d]]
            /\ ton_balance_locked' = [ton_balance_locked EXCEPT ![Advertiser[d]] = @ + Price[d]]
            /\ locks' = [locks EXCEPT ![d] = @ + 1]
            /\ refunds' = refunds /\ payouts' = payouts
        BY <3>1 DEF MakeLock, LockBalanceForDeal, MoveToLocked
      <3> HIDE DEF d
      <3>4. Worth(Adv(c), locks') = Worth(Adv(c), locks) + IF d \in Adv(c) THEN Price[d] ELSE 0
        BY <1>a, <2>1, <3>2, <3>3, WorthOnceMore
      <3> QED
        BY <1>b, <2>1, <2>2, <2>3, <2>4, <3>2, <3>3, <3>4
    <2>6. CASE \E d \in Deals : PayOne(d)
      <3>1. PICK d \in Deals : PayOne(d)
        BY <2>6
      <3>3. /\ ton_balance' = [ton_balance EXCEPT ![Manager[d]] = @ + Price[d]]
            /\ ton_balance_locked' = [ton_balance_locked EXCEPT ![Advertiser[d]] = @ - Price[d]]
            /\ payouts' = [payouts EXCEPT ![d] = @ + 1]
            /\ refunds' = refunds /\ locks' = locks
        BY <3>1 DEF PayOne, TransferBalanceToManagerForDeal
      <3>4. Worth(Adv(c), payouts') = Worth(Adv(c), payouts) + IF d \in Adv(c) THEN Price[d] ELSE 0
        BY <1>a, <2>1, <3>3, WorthOnceMore
      <3>5. Worth(Man(c), payouts') = Worth(Man(c), payouts) + IF d \in Man(c) THEN Price[d] ELSE 0
        BY <1>a, <2>1, <3>3, WorthOnceMore
      <3> QED
        BY <1>b, <2>1, <2>2, <2>3, <2>4, <3>3, <3>4, <3>5
    <2>7. CASE \E d \in Deals : RefundOne(d)
      <3>1. PICK d \in Deals : RefundOne(d)
        BY <2>7
      <3>3. /\ ton_balance' = [ton_balance EXCEPT ![Advertiser[d]] = @ + Price[d]]
            /\ ton_balance_locked' = [ton_balance_locked EXCEPT ![Advertiser[d]] = @ - Price[d]]
            /\ refunds' = [refunds EXCEPT ![d] = @ + 1]
            /\ payouts' = payouts /\ locks' = locks
        BY <3>1 DEF RefundOne, UnlockBalanceForDeal
      <3>4. Worth(Adv(c), refunds') = Worth(Adv(c), refunds) + IF d \in Adv(c) THEN Price[d] ELSE 0
        BY <1>a, <2>1, <3>3, WorthOnceMore
      <3> QED
        BY <1>b, <2>1, <2>2, <2>3, <2>4, <3>3, <3>4
    <2>8. CASE UNCHANGED ledger /\ UNCHANGED locks /\ UNCHANGED refunds /\ UNCHANGED payouts
      BY <2>3, <2>8 DEF ledger
    <2>9. \/ UNCHANGED ledger
          \/ \E r \in Requests : MakeLock(r)
          \/ \E d \in Deals : PayOne(d) \/ RefundOne(d)
      BY LedgerFrame
    <2>10. /\ UNCHANGED locks \/ \E r \in Requests : MakeLock(r)
           /\ UNCHANGED refunds \/ \E d \in Deals : RefundOne(d)
           /\ UNCHANGED payouts \/ \E d \in Deals : PayOne(d)
      BY LocksFrame, RefundsFrame, PayoutsFrame
    <2> QED
      BY <2>5, <2>6, <2>7, <2>8, <2>9, <2>10
  <1> QED
    BY <1>1, <1>2, TypeInvariant, PTL DEF Spec
-----------------------------------------------------------------------------
(* One refund per deal, and one more per fault.  The invariant that carries   *)
(* it: a deal whose flag is set, or whose unlock is done and whose flag is     *)
(* about to be set, is in no list of the refunder any more.                   *)
Flagged(d) == balance_refunded[d] \/ refunder.deal = d

RefundsInv ==
    /\ \A d \in Deals : refunds[d] <= faults + (IF Flagged(d) THEN 1 ELSE 0)
    /\ \A d \in refunder.todo : ~Flagged(d)

LEMMA RefundsInvStep == TypeInv /\ RefundsInv /\ [Next]_vars => RefundsInv'
  <1> SUFFICES ASSUME TypeInv, RefundsInv, [Next]_vars PROVE RefundsInv'
    OBVIOUS
  <1>0. /\ refunds \in [Deals -> Nat] /\ balance_refunded \in [Deals -> BOOLEAN]
        /\ refunder \in RefunderType /\ faults \in Nat
        /\ NoDeal \notin Deals
    BY EscrowAssumption DEF TypeInv, TypeOK, RowsType, LoopsType, HistoryType
  <1> USE DEF RefundsInv, Flagged, RefunderType
  <1>1. CASE UNCHANGED <<refunder, balance_refunded, refunds>>
    BY <1>0, <1>1, FaultsFrame DEF Fault
  <1>2. CASE RefunderTick
    BY <1>0, <1>2 DEF RefunderTick, ForRefund, IdleRefunder, history, counts, mishaps, rows
  <1>3. ASSUME NEW d \in Deals, RefundOne(d) PROVE RefundsInv'
    BY <1>0, <1>3 DEF RefundOne, mishaps, rows
  <1>4. CASE FlagRefunded
    BY <1>0, <1>4 DEF FlagRefunded, history, counts, mishaps
  <1>5. CASE RefunderFails
    BY <1>0, <1>5 DEF RefunderFails, Fault, counts, rows
  <1>6. CASE Crash
    BY <1>0, <1>6 DEF Crash, Fault, counts, rows, IdleRefunder
  <1> QED
    BY <1>1, <1>2, <1>3, <1>4, <1>5, <1>6, RefunderFrame, RefundsFrame DEF RefunderStep

(* A deal is refunded at most once more than its publisher or refunder was   *)
(* cut off by a fault between the refund and the flag.                       *)
THEOREM RefundsStayBounded == Spec => []RefundsBounded
  <1>1. Init => RefundsInv
    BY EscrowAssumption DEF Init, RefundsInv, Flagged, IdleRefunder
  <1>2. TypeInv /\ RefundsInv => RefundsBounded
    BY DEF RefundsInv, Flagged, RefundsBounded, TypeInv, TypeOK, HistoryType
  <1> QED
    BY <1>1, <1>2, RefundsInvStep, TypeInvariant, PTL DEF Spec
-----------------------------------------------------------------------------
(* A deal that is negotiated, displayed, completed or paid for was funded.    *)
(* The invariant that carries it says the same of everything in flight: the   *)
(* requests after MakeDeal, the lists of the publisher, the AutoPost channel  *)
(* and the bot all hold deals whose money was locked once.                    *)
Funded(d) == locks[d] > 0

FundedInFlight ==
    /\ \A r \in Requests :
          request[r].op \in {"accept", "propose", "approve", "decline"} \/ request[r].locked
            => Funded(request[r].deal)
    /\ publisher.phase \notin {"idle", "expire"} => \A d \in publisher.todo : Funded(d)
    /\ publisher.deal \in Deals => Funded(publisher.deal)
    /\ bot.deal \in Deals => Funded(bot.deal)
    /\ \A i \in 1..Len(autopost) : Funded(autopost[i])

FundedInv == FundedBeforePaid /\ FundedInFlight

\* What is locked once stays so: the history of locks only grows.
LEMMA FundedStays ==
    ASSUME TypeInv, [Next]_vars, NEW d \in Deals, Funded(d)
    PROVE  Funded(d)'
BY CountsFrame DEF TypeInv, TypeOK, HistoryType, Funded

LEMMA FundedRequests ==
    ASSUME TypeInv, FundedInv, [Next]_vars, NEW r \in Requests,
           \/ request'[r].op \in {"accept", "propose", "approve", "decline"}
           \/ request'[r].locked
    PROVE  Funded(request[r].deal)'
  <1> DEFINE Later == {"accept", "propose", "approve", "decline"}
  <1>0. /\ request \in [Requests -> RequestType] /\ locks \in [Deals -> Nat]
        /\ request[r].op # "none" => request[r].deal \in Deals
        /\ request[r].locked => request[r].op = "make"
        /\ request[r].op \in Later \/ request[r].locked => Funded(request[r].deal)
    BY DEF TypeInv, TypeOK, HistoryType, InFlight, FundedInv, FundedInFlight
  <1>1. CASE request'[r] = request[r]
    BY <1>0, <1>1, FundedStays
  <1>2. ASSUME NEW q \in Requests, MakeLock(q) PROVE Funded(request[r].deal)'
    <2>1. CASE q = r
      BY <1>0, <1>2, <2>1 DEF MakeLock, Funded, RequestType
    <2>2. CASE q # r
      BY <1>0, <1>1, <1>2, <2>2 DEF MakeLock
    <2> QED
      BY <2>1, <2>2
  <1>3. ASSUME NEW q \in Requests, Finish(q) PROVE Funded(request[r].deal)'
    BY <1>0, <1>1, <1>3 DEF Finish, NoRequest
  <1>4. ASSUME NEW q \in Requests, NEW op \in Ops, NEW d \in Deals, Begin(q, op, d)
        PROVE  Funded(request[r].deal)'
    <2>1. CASE q = r
      <3>1. op \in Later /\ request'[r].deal = d /\ status[d] \in Allowed[op]
        BY <1>0, <1>4, <2>1 DEF Begin
      <3>2. status[d] \in Running
        BY <3>1 DEF Allowed, Ops, Running, Negotiating
      <3>3. Funded(d)
        BY <3>2 DEF FundedInv, FundedBeforePaid, Funded
      <3> QED
        BY <3>1, <3>3, FundedStays
    <2>2. CASE q # r
      BY <1>0, <1>1, <1>4, <2>2 DEF Begin
    <2> QED
      BY <2>1, <2>2
  <1> QED
    BY <1>1, <1>2, <1>3, <1>4, RequestFrame DEF NoRequest

LEMMA FundedPublisher ==
    ASSUME TypeInv, FundedInv, [Next]_vars
    PROVE  /\ publisher'.phase \notin {"idle", "expire"}
                  => \A d \in publisher'.todo : Funded(d)'
           /\ publisher'.deal \in Deals => Funded(publisher.deal)'
  <1> DEFINE Goal == /\ publisher'.phase \notin {"idle", "expire"}
                            => \A d \in publisher'.todo : Funded(d)'
                     /\ publisher'.deal \in Deals => Funded(publisher.deal)'
  <1>0. /\ publisher \in PublisherType
        /\ publisher.phase \notin {"idle", "expire"} => \A d \in publisher.todo : Funded(d)
        /\ publisher.deal \in Deals => Funded(publisher.deal)
        /\ NoDeal \notin Deals
    BY EscrowAssumption DEF TypeInv, TypeOK, LoopsType, FundedInv, FundedInFlight
  <1>1. \A d \in Deals : Funded(d) => Funded(d)'
    BY FundedStays
  <1>2. \A d \in Deals : NeedsToComplete(d) \/ IsDue(d) => Funded(d)
    BY DEF NeedsToComplete, IsDue, FundedInv, FundedBeforePaid, Funded, Running, Negotiating
  <1>3. CASE UNCHANGED publisher \/ publisher' = IdlePublisher
    <2> SUFFICES ASSUME UNCHANGED publisher PROVE Goal
      BY <1>0, <1>3 DEF IdlePublisher
    <2> QED
      BY <1>0, <1>1 DEF PublisherType, Funded
  <1>4. CASE PublisherTick \/ StartComplete \/ StartPublish \/ PublisherRests
    BY <1>0, <1>1, <1>2, <1>4 DEF PublisherTick, StartComplete, StartPublish, PublisherRests, EnterPhase
  <1>5. ASSUME NEW d \in Deals, ExpireOne(d) PROVE Goal
    BY <1>0, <1>5, EscrowAssumption DEF ExpireOne, PublisherType, InFlight, TypeInv
  <1>6. ASSUME NEW d \in Deals, PayOne(d) \/ ClaimOne(d) PROVE Goal
    BY <1>0, <1>1, <1>6 DEF PayOne, ClaimOne, PublisherType, Funded
  <1>7. CASE MarkCompleted \/ SendAutoPost \/ RevertClaim
    BY <1>0, <1>1, <1>7 DEF MarkCompleted, SendAutoPost, SendAutoPostToFullChannel, RevertClaim, Sent, PublisherType, Funded
  <1>8. CASE PublisherFails
    BY <1>0, <1>1, <1>8 DEF PublisherFails, Sent, PublisherType, InFlight, TypeInv, Funded
  <1> QED
    BY <1>3, <1>4, <1>5, <1>6, <1>7, <1>8, PublisherFrame DEF PublisherStep

LEMMA FundedBot ==
    ASSUME TypeInv, FundedInv, [Next]_vars
    PROVE  /\ bot'.deal \in Deals => Funded(bot.deal)'
           /\ \A i \in 1..Len(autopost') : Funded(autopost[i])'
  <1> DEFINE Goal == /\ bot'.deal \in Deals => Funded(bot.deal)'
                     /\ \A i \in 1..Len(autopost') : Funded(autopost[i])'
  <1>0. /\ bot \in BotType /\ autopost \in Seq(Deals)
        /\ bot.deal \in Deals => Funded(bot.deal)
        /\ \A i \in 1..Len(autopost) : Funded(autopost[i])
        /\ NoDeal \notin Deals
    BY EscrowAssumption DEF TypeInv, TypeOK, LoopsType, FundedInv, FundedInFlight
  <1>1. \A d \in Deals : Funded(d) => Funded(d)'
    BY FundedStays
  <1>2. CASE UNCHANGED <<bot, autopost>>
    BY <1>0, <1>1, <1>2 DEF Funded
  <1>3. CASE SendAutoPost /\ UNCHANGED bot
    <2>1. publisher.deal \in Deals /\ Funded(publisher.deal)
      BY <1>3 DEF SendAutoPost, SendAutoPostToFullChannel, TypeInv, InFlight, FundedInv, FundedInFlight
    <2> QED
      BY <1>0, <1>1, <1>3, <2>1 DEF SendAutoPost, SendAutoPostToFullChannel, Funded
  <1>4. CASE BotTakes
    BY <1>0, <1>1, <1>4 DEF BotTakes, Funded
  <1>5. CASE BotPosts /\ UNCHANGED autopost
    BY <1>0, <1>1, <1>5 DEF BotPosts, BotType, Funded
  <1>6. CASE bot' = IdleBot /\ UNCHANGED autopost
    BY <1>0, <1>1, <1>6 DEF IdleBot, Funded
  <1>7. CASE Crash
    BY <1>0, <1>7 DEF Crash, IdleBot
  <1> QED
    BY <1>2, <1>3, <1>4, <1>5, <1>6, <1>7, BotFrame

LEMMA SetStatusOne ==
    ASSUME status \in [Deals -> Statuses], NEW d \in Deals,
           NEW x, NEW s, NEW expected, SetStatus(x, s, expected)
    PROVE  status'[d] = IF d = x THEN s ELSE status[d]
BY DEF SetStatus

LEMMA FundedStatus ==
    ASSUME TypeInv, FundedInv, [Next]_vars
    PROVE  FundedBeforePaid'
  <1> DEFINE Must == Running \union {"COMPLETED"}
  <1> SUFFICES ASSUME NEW d \in Deals, status'[d] \in Must \/ payouts'[d] > 0
               PROVE  Funded(d)'
    BY DEF FundedBeforePaid, Funded
  <1>0. /\ status \in [Deals -> Statuses] /\ payouts \in [Deals -> Nat]
        /\ status[d] \in Must \/ payouts[d] > 0 => Funded(d)
    BY DEF TypeInv, TypeOK, RowsType, HistoryType, FundedInv, FundedBeforePaid, Funded
  <1>a. Must = {"COMPLETED", "PENDING", "IN_PROGRESS", "AWAITING_APPROVAL_TIME",
                "AWAITING_PUBLICATION", "PUBLISHED"}
    BY DEF Running, Negotiating
  <1> HIDE DEF Must
  <1>b. Funded(d) => Funded(d)'
    BY FundedStays
  <1>c. /\ \A x \in publisher.todo : publisher.phase \in {"complete", "publish"} => Funded(x)
        /\ publisher.deal \in Deals => Funded(publisher.deal)
        /\ bot.deal \in Deals => Funded(bot.deal)
    BY DEF FundedInv, FundedInFlight
  <1>1. CASE payouts'[d] > 0 /\ ~(payouts[d] > 0)
    <2>1. PICK x \in Deals : PayOne(x)
      BY <1>1, PayoutsFrame
    <2>2. x = d
      BY <1>0, <1>1, <2>1 DEF PayOne
    <2> QED
      BY <1>b, <1>c, <2>1, <2>2 DEF PayOne
  <1>2. CASE status'[d] \in Must /\ status'[d] # status[d]
    <2>1. ASSUME NEW x \in Deals, OfferDeal(x) PROVE Funded(d)'
      BY <1>0, <1>a, <1>2, <2>1 DEF OfferDeal
    <2>2. ASSUME NEW x \in Deals, Writes(x) PROVE Funded(d)'
      <3>1. CASE ClaimOne(x)
        BY <1>0, <1>2, <1>b, <1>c, <3>1, SetStatusOne DEF ClaimOne
      <3>2. CASE PostIsNotFine(x) \/ VoidRemoved(x) \/ VoidForeign(x) \/ ExpireOne(x)
        BY <1>0, <1>a, <1>2, <3>2, SetStatusOne
        DEF PostIsNotFine, VoidRemoved, VoidForeign, Void, ExpireOne
      <3> QED
        BY <2>2, <3>1, <3>2 DEF Writes
    <2>3. ASSUME NEW r \in Requests, HandlerWrites(r) PROVE Funded(d)'
      <3>1. CASE CancelDeal(r)
        BY <1>0, <1>a, <1>2, <3>1, SetStatusOne DEF CancelDeal, WriteStatus
      <3>2. CASE MakeWrite(r)
        BY <1>0, <1>2, <1>b, <3>2, SetStatusOne
        DEF MakeWrite, WritePending, FundedInv, FundedInFlight
      <3>3. CASE AcceptDeal(r) \/ DeclineDeal(r)
        BY <1>0, <1>2, <1>b, <3>3, SetStatusOne
        DEF AcceptDeal, DeclineDeal, WriteStatus, FundedInv, FundedInFlight
      <3>4. CASE ApproveAndProposeTime(r) \/ ApproveDealData(r)
        BY <1>0, <1>2, <1>b, <3>4, SetStatusOne
        DEF ApproveAndProposeTime, ApproveDealData, FundedInv, FundedInFlight
      <3> QED
        BY <2>3, <3>1, <3>2, <3>3, <3>4 DEF HandlerWrites
    <2>4. CASE MarkCompleted \/ RevertClaim \/ BotRecords
      BY <1>0, <1>2, <1>b, <1>c, <2>4, SetStatusOne DEF MarkCompleted, RevertClaim, BotRecords
    <2>5. ASSUME NEW err \in ErrStatuses, BotGivesUp(err) PROVE Funded(d)'
      BY <1>0, <1>a, <1>2, <2>5, SetStatusOne DEF BotGivesUp, ErrStatuses
    <2> QED
      BY <1>2, <2>1, <2>2, <2>3, <2>4, <2>5, StatusFrame
  <1> QED
    BY <1>0, <1>b, <1>1, <1>2

(* Nobody is paid for, and nothing is displayed for, a deal that no money was *)
(* ever locked for, whatever the interleaving, the faults and the crashes.    *)
THEOREM FundingComesFirst == Spec => []FundedBeforePaid
  <1>1. Init => FundedInv
    BY EscrowAssumption DEF Init, FundedInv, FundedBeforePaid, FundedInFlight, Running, Negotiating,
       NoRequest, IdlePublisher, IdleBot
  <1>2. TypeInv /\ FundedInv /\ [Next]_vars => FundedInv'
    <2> SUFFICES ASSUME TypeInv, FundedInv, [Next]_vars PROVE FundedInv'
      OBVIOUS
    <2>1. FundedBeforePaid'
      BY FundedStatus
    <2>2. FundedInFlight'
      BY FundedRequests, FundedPublisher, FundedBot DEF FundedInFlight
    <2> QED
      BY <2>1, <2>2 DEF FundedInv
  <1>3. FundedInv => FundedBeforePaid
    BY DEF FundedInv
  <1> QED
    BY <1>1, <1>2, <1>3, TypeInvariant, PTL DEF Spec
-----------------------------------------------------------------------------
(* The account of a deal. *)

Sound(d) == ~overrun[d] /\ ~torn[d]

\* What SettledExactly says of one deal.
Settled(d) ==
    /\ Landed(d) \in 0..1
    /\ status[d] \in {"NONE", "DRAFT"} => Landed(d) = 0
    /\ status[d] \in Running \union {"COMPLETED"} => Landed(d) = 1
    /\ refunds[d] = IF balance_refunded[d] \/ refunder.deal = d THEN 1 ELSE 0
    /\ refunds[d] = 1 => status[d] \in Refundable
    /\ payouts[d] = IF status[d] = "COMPLETED" \/ Paying(d) THEN 1 ELSE 0

\* The publisher is about to pay for the deal.
ToPay(d) == publisher.phase \in {"complete", "mark"} /\ d \in publisher.todo

\* Why the loops may trust the lists they read: a sound deal on the refunder's list
\* still waits for its refund, one on the publisher's list was not paid, and its
\* display has not ended in any other way than by being voided.
Listed(d) ==
    /\ d \in refunder.todo => status[d] \in Refundable /\ refunds[d] = 0
    /\ ToPay(d) => payouts[d] = 0
    /\ ToPay(d) \/ Paying(d) => status[d] \in {"PUBLISHED"} \union Refundable

SettledInv == \A d \in Deals : Sound(d) => Settled(d) /\ Listed(d)

\* The status a sound deal can get from the one it has.
StatusMoves(d) ==
    \/ status'[d] = status[d]
    \/ status[d] = "NONE" /\ status'[d] = "DRAFT"
    \/ /\ \E r \in Requests : MakeWrite(r) /\ request[r].deal = d
       /\ status[d] = "DRAFT" /\ status'[d] = "PENDING"
    \/ status[d] \in Negotiating /\ status'[d] \in Negotiating
    \/ status[d] = "AWAITING_PUBLICATION" /\ status'[d] = "PUBLISHED" /\ publisher.phase = "publish"
    \/ status[d] = "PUBLISHED" /\ status'[d] = "AWAITING_PUBLICATION" /\ publisher.phase = "send"
    \/ status[d] \in Active \union ErrStatuses /\ status'[d] \in Refundable
    \/ /\ MarkCompleted /\ publisher.deal = d
       /\ status[d] = "PUBLISHED" /\ status'[d] = "COMPLETED"

LEMMA SetStatusSound ==
    ASSUME status \in [Deals -> Statuses], overrun \in [Deals -> BOOLEAN], NEW d \in Deals,
           NEW x, NEW s, NEW expected, SetStatus(x, s, expected), ~overrun'[d]
    PROVE  /\ ~overrun[d]
           /\ IF d = x THEN status'[d] = s /\ status[d] \in expected ELSE status'[d] = status[d]
BY DEF SetStatus

LEMMA StatusSets ==
    /\ Negotiating = {"PENDING", "IN_PROGRESS", "AWAITING_APPROVAL_TIME", "AWAITING_PUBLICATION"}
    /\ ErrStatuses = {"ERR_PUBLISH", "ERR_BAD_TARGET"}
    /\ Refundable = {"CANCELED", "EXPIRED", "TERMS_VIOLATED", "ERR_PUBLISH", "ERR_BAD_TARGET"}
    /\ Active = {"DRAFT", "PUBLISHED"} \union Negotiating
    /\ Running = {"PUBLISHED"} \union Negotiating
    /\ ExpirableStatuses = {"DRAFT"} \union Negotiating \union ErrStatuses
BY DEF Negotiating, ErrStatuses, Refundable, Active, Running, ExpirableStatuses

LEMMA AllowedSets ==
    /\ Allowed["make"] = {"DRAFT"}
    /\ Allowed["cancel"] = {"DRAFT"} \union Negotiating
    /\ Allowed["accept"] = {"PENDING"}
    /\ Allowed["propose"] = {"IN_PROGRESS"}
    /\ Allowed["approve"] = {"AWAITING_APPROVAL_TIME"}
    /\ Allowed["decline"] = {"AWAITING_APPROVAL_TIME"}
BY DEF Allowed, Ops

\* Every write of a status that its own check would still allow is one of the moves.
LEMMA StatusMove ==
    ASSUME TypeInv, [Next]_vars, NEW d \in Deals, ~overrun'[d]
    PROVE  ~overrun[d] /\ StatusMoves(d)
  <1>0. status \in [Deals -> Statuses] /\ overrun \in [Deals -> BOOLEAN]
    BY DEF TypeInv, TypeOK, RowsType, HistoryType
  <1>1. CASE UNCHANGED <<status, overrun>>
    BY <1>1 DEF StatusMoves
  <1>2. ASSUME NEW x \in Deals, OfferDeal(x) PROVE ~overrun[d] /\ StatusMoves(d)
    BY <1>0, <1>2 DEF OfferDeal, history, StatusMoves
  <1>3. ASSUME NEW x \in Deals, Writes(x) PROVE ~overrun[d] /\ StatusMoves(d)
    <2>1. CASE PostIsNotFine(x) \/ VoidRemoved(x) \/ VoidForeign(x)
      <3>1. PICK expected \in {{"PUBLISHED"}, Active} : SetStatus(x, "TERMS_VIOLATED", expected)
        BY <2>1 DEF PostIsNotFine, VoidRemoved, VoidForeign, Void
      <3> QED
        BY <1>0, <3>1, SetStatusSound, StatusSets DEF StatusMoves
    <2>2. CASE ExpireOne(x)
      <3>1. SetStatus(x, "EXPIRED", ExpirableStatuses)
        BY <2>2 DEF ExpireOne
      <3> QED
        BY <1>0, <3>1, SetStatusSound, StatusSets DEF StatusMoves
    <2>3. CASE ClaimOne(x)
      <3>1. SetStatus(x, "PUBLISHED", {"AWAITING_PUBLICATION"}) /\ publisher.phase = "publish"
        BY <2>3 DEF ClaimOne
      <3> QED
        BY <1>0, <3>1, SetStatusSound, StatusSets DEF StatusMoves
    <2> QED
      BY <1>3, <2>1, <2>2, <2>3 DEF Writes
  <1>4. ASSUME NEW r \in Requests, HandlerWrites(r) PROVE ~overrun[d] /\ StatusMoves(d)
    <2>1. CASE MakeWrite(r)
      <3>1. SetStatus(request[r].deal, "PENDING", {"DRAFT"})
        BY <2>1, AllowedSets DEF MakeWrite, WritePending
      <3> QED
        BY <1>0, <2>1, <3>1, SetStatusSound DEF StatusMoves
    <2>2. CASE CancelDeal(r)
      <3>1. SetStatus(request[r].deal, "CANCELED", {"DRAFT"} \union Negotiating)
        BY <2>2, AllowedSets DEF CancelDeal, WriteStatus
      <3> QED
        BY <1>0, <3>1, SetStatusSound, StatusSets DEF StatusMoves
    <2>3. CASE AcceptDeal(r) \/ DeclineDeal(r)
      <3>1. PICK expected \in {{"PENDING"}, {"AWAITING_APPROVAL_TIME"}} :
                SetStatus(request[r].deal, "IN_PROGRESS", expected)
        BY <2>3, AllowedSets DEF AcceptDeal, DeclineDeal, WriteStatus
      <3> QED
        BY <1>0, <3>1, SetStatusSound, StatusSets DEF StatusMoves
    <2>4. CASE ApproveAndProposeTime(r)
      <3>1. SetStatus(request[r].deal, "AWAITING_APPROVAL_TIME", {"IN_PROGRESS"})
        BY <2>4, AllowedSets DEF ApproveAndProposeTime
      <3> QED
        BY <1>0, <3>1, SetStatusSound, StatusSets DEF StatusMoves
    <2>5. CASE ApproveDealData(r)
      <3>1. SetStatus(request[r].deal, "AWAITING_PUBLICATION", {"AWAITING_APPROVAL_TIME"})
        BY <2>5, AllowedSets DEF ApproveDealData
      <3> QED
        BY <1>0, <3>1, SetStatusSound, StatusSets DEF StatusMoves
    <2> QED
      BY <1>4, <2>1, <2>2, <2>3, <2>4, <2>5 DEF HandlerWrites
  <1>5. CASE MarkCompleted
    <2>1. SetStatus(publisher.deal, "COMPLETED", {"PUBLISHED"})
      BY <1>5 DEF MarkCompleted
    <2> QED
      BY <1>0, <1>5, <2>1, SetStatusSound DEF StatusMoves
  <1>6. CASE RevertClaim
    <2>1. SetStatus(publisher.deal, "AWAITING_PUBLICATION", {"PUBLISHED"}) /\ publisher.phase = "send"
      BY <1>6 DEF RevertClaim
    <2> QED
      BY <1>0, <2>1, SetStatusSound DEF StatusMoves
  <1>7. CASE BotRecords
    <2>1. SetStatus(bot.deal, "PUBLISHED", {"PUBLISHED"})
      BY <1>7 DEF BotRecords
    <2> QED
      BY <1>0, <2>1, SetStatusSound DEF StatusMoves
  <1>8. ASSUME NEW err \in ErrStatuses, BotGivesUp(err) PROVE ~overrun[d] /\ StatusMoves(d)
    <2>1. SetStatus(bot.deal, err, {"PUBLISHED"})
      BY <1>8 DEF BotGivesUp
    <2> QED
      BY <1>0, <2>1, SetStatusSound, StatusSets DEF StatusMoves
  <1> QED
    BY <1>1, <1>2, <1>3, <1>4, <1>5, <1>6, <1>7, <1>8, StatusFrame

\* A step that is none of the publisher's own leaves the publisher alone, or is a crash.
LEMMA PublisherMoves ==
    ASSUME [Next]_vars
    PROVE  UNCHANGED publisher \/ PublisherStep \/ PublisherFails \/ Crash
  <1>1. ASSUME NEW r \in Requests, HandlerStep(r) PROVE UNCHANGED publisher
    BY <1>1 DEF loops, HandlerStep, Begin, MakeLock, MakeReject, MakeWrite, WritePending,
       WriteStatus, CancelDeal, AcceptDeal, DeclineDeal, ApproveAndProposeTime, ApproveDealData,
       RequestFails
  <1>2. RefunderStep \/ RefunderFails => UNCHANGED publisher
    BY DEF RefunderStep, RefunderTick, RefundOne, FlagRefunded, RefunderFails
  <1>3. BotStep \/ BotFails => UNCHANGED publisher
    BY DEF BotStep, BotTakes, BotGivesUp, BotPosts, BotRecords, BotFails
  <1>4. WatcherStep \/ WatcherFails => UNCHANGED publisher
    BY DEF WatcherStep, MonitorTick, PostIsFine, PostIsNotFine, BotRemoved, VoidRemoved,
       ForeignPost, VoidForeign, Void, WatcherFails, Listing
  <1>5. UNCHANGED vars \/ Tick \/ (\E d \in Deals : OfferDeal(d)) => UNCHANGED publisher
    BY DEF vars, loops, Tick, OfferDeal
  <1> QED
    BY <1>1, <1>2, <1>3, <1>4, <1>5 DEF Next

\* How requests start, lock and end.
LEMMA RequestMoves ==
    ASSUME TypeInv, [Next]_vars
    PROVE  \/ UNCHANGED <<request, locks>>
           \/ \E r \in Requests : MakeLock(r) \/ MakeWrite(r) \/ RequestFails(r)
           \/ \E r \in Requests : Finish(r) /\ ~request[r].locked /\ UNCHANGED locks
           \/ \E r \in Requests, op \in Ops, d \in Deals : Begin(r, op, d)
           \/ Crash
  <1>1. ASSUME NEW r \in Requests, HandlerStep(r)
        PROVE  \/ MakeLock(r) \/ MakeWrite(r) \/ RequestFails(r)
               \/ Finish(r) /\ ~request[r].locked /\ UNCHANGED locks
               \/ \E op \in Ops, d \in Deals : Begin(r, op, d)
    <2>1. request[r].locked => request[r].op = "make"
      BY DEF TypeInv, InFlight
    <2>2. request \in [Requests -> RequestType]
      BY DEF TypeInv, TypeOK
    <2>3. MakeReject(r) => Finish(r) /\ ~request[r].locked /\ UNCHANGED locks
      BY DEF MakeReject, history, counts
    <2>4. CancelDeal(r) \/ AcceptDeal(r) \/ DeclineDeal(r) \/ ApproveAndProposeTime(r)
             \/ ApproveDealData(r) => Finish(r) /\ ~request[r].locked /\ UNCHANGED locks
      BY <2>1, <2>2 DEF RequestType, CancelDeal, AcceptDeal, DeclineDeal, WriteStatus,
         ApproveAndProposeTime, ApproveDealData, counts
    <2> QED
      BY <1>1, <2>3, <2>4 DEF HandlerStep
  <1>2. PublisherStep \/ PublisherFails => UNCHANGED <<request, locks>>
    BY DEF PublisherStep, PublisherTick, StartComplete, StartPublish, PublisherRests,
       EnterPhase, ExpireOne, PayOne, MarkCompleted, ClaimOne, SendAutoPost, RevertClaim,
       SendAutoPostToFullChannel, PublisherFails, history, counts
  <1>3. RefunderStep \/ RefunderFails => UNCHANGED <<request, locks>>
    BY DEF RefunderStep, RefunderTick, RefundOne, FlagRefunded, RefunderFails, history, counts
  <1>4. BotStep \/ BotFails => UNCHANGED <<request, locks>>
    BY DEF BotStep, BotTakes, BotGivesUp, BotPosts, BotRecords, BotFails, history, counts
  <1>5. WatcherStep \/ WatcherFails => UNCHANGED <<request, locks>>
    BY DEF WatcherStep, MonitorTick, PostIsFine, PostIsNotFine, BotRemoved, VoidRemoved,
       ForeignPost, VoidForeign, Void, WatcherFails, Listing, history, counts
  <1>6. UNCHANGED vars \/ Tick \/ (\E d \in Deals : OfferDeal(d)) => UNCHANGED <<request, locks>>
    BY DEF vars, Tick, OfferDeal, history, counts
  <1> QED
    BY <1>1, <1>2, <1>3, <1>4, <1>5, <1>6 DEF Next

LEMMA TornStays ==
    ASSUME TypeInv, [Next]_vars, NEW d \in Deals, ~torn'[d]
    PROVE  ~torn[d]
BY TornFrame DEF TypeInv, TypeOK, HistoryType, RequestFails, Crash

LEMMA LockingFinite ==
    ASSUME NEW S, S \subseteq Requests
    PROVE  IsFiniteSet(S) /\ Cardinality(S) \in Nat
BY EscrowAssumption, FS_Subset, FS_CardinalityType

\* A lock lands when MakeDeal writes the row; nothing else lands or takes one away
\* as long as no fault cuts the pair.
Lands(d) == \E r \in Requests : MakeWrite(r) /\ request[r].deal = d

LEMMA LandedStep ==
    ASSUME TypeInv, [Next]_vars, NEW d \in Deals, ~torn'[d]
    PROVE  Landed(d)' = Landed(d) + (IF Lands(d) THEN 1 ELSE 0)
  <1>0. /\ request \in [Requests -> RequestType] /\ locks \in [Deals -> Nat]
        /\ torn \in [Deals -> BOOLEAN] /\ NoDeal \notin Deals
        /\ \A r \in Requests : request[r].op # "none" => request[r].deal \in Deals
        /\ \A r \in Requests : request[r].locked => request[r].op = "make"
    BY EscrowAssumption DEF TypeInv, TypeOK, HistoryType, InFlight
  <1> DEFINE L == Locking(d)
             L1 == Locking(d)'
  <1>a. L \subseteq Requests /\ L1 \subseteq Requests
    BY DEF Locking
  <1>b. IsFiniteSet(L) /\ Cardinality(L) \in Nat
    BY <1>a, LockingFinite
  <1>d. Landed(d) = locks[d] - Cardinality(L) /\ Landed(d)' = locks'[d] - Cardinality(L1)
    BY DEF Landed
  <1>l. /\ \A r \in Requests : r \in L <=> request[r].deal = d /\ request[r].locked
        /\ \A r \in Requests : r \in L1 <=> request'[r].deal = d /\ request'[r].locked
    BY DEF Locking
  <1> HIDE DEF L, L1
  <1>s. ASSUME L1 = L, locks'[d] = locks[d], ~Lands(d)
        PROVE  Landed(d)' = Landed(d) + (IF Lands(d) THEN 1 ELSE 0)
    BY <1>0, <1>b, <1>d, <1>s
  <1>1. CASE UNCHANGED <<request, locks>>
    <2>1. L1 = L
      BY <1>1, <1>a, <1>l
    <2>2. ~Lands(d)
      BY <1>0, <1>1 DEF Lands, MakeWrite, WritePending, Finish, NoRequest
    <2> QED
      BY <1>1, <1>s, <2>1, <2>2
  <1>2. ASSUME NEW r \in Requests, MakeLock(r)
        PROVE  Landed(d)' = Landed(d) + (IF Lands(d) THEN 1 ELSE 0)
    <2>0. /\ request' = [request EXCEPT ![r] = [request[r] EXCEPT !.locked = TRUE, !.time = now + Lifetime]]
          /\ locks' = [locks EXCEPT ![request[r].deal] = @ + 1]
          /\ ~request[r].locked /\ request[r].deal \in Deals
      BY <1>0, <1>2 DEF MakeLock
    <2>1. ~Lands(d)
      <3>1. locks' # locks
        BY <1>0, <2>0
      <3> QED
        BY <3>1 DEF Lands, MakeWrite, WritePending, counts
    <2>a. /\ request'[r].deal = request[r].deal /\ request'[r].locked
          /\ \A q \in Requests \ {r} : request'[q] = request[q]
      BY <1>0, <2>0 DEF RequestType
    <2>2. CASE request[r].deal = d
      <3>1. L1 = L \union {r} /\ r \notin L
        BY <1>a, <1>l, <1>2, <2>0, <2>a, <2>2
      <3>2. Cardinality(L1) = Cardinality(L) + 1
        BY <1>b, <3>1, FS_AddElement
      <3> QED
        BY <1>0, <1>b, <1>d, <2>0, <2>1, <2>2, <3>2
    <2>3. CASE request[r].deal # d
      <3>1. L1 = L
        BY <1>a, <1>l, <1>2, <2>a, <2>3
      <3>2. locks'[d] = locks[d]
        BY <1>0, <2>0, <2>3
      <3> QED
        BY <1>s, <2>1, <3>1, <3>2
    <2> QED
      BY <2>2, <2>3
  <1>3. ASSUME NEW r \in Requests, MakeWrite(r)
        PROVE  Landed(d)' = Landed(d) + (IF Lands(d) THEN 1 ELSE 0)
    <2>0. /\ request' = [request EXCEPT ![r] = NoRequest]
          /\ locks' = locks /\ request[r].locked
      BY <1>3 DEF MakeWrite, WritePending, Finish, counts
    <2>2. CASE request[r].deal = d
      <3>1. Lands(d)
        BY <1>3, <2>2 DEF Lands
      <3>2. L1 = L \ {r} /\ r \in L
        BY <1>0, <1>a, <1>l, <2>0, <2>2 DEF NoRequest
      <3>3. Cardinality(L1) = Cardinality(L) - 1
        BY <1>b, <3>2, FS_RemoveElement
      <3> QED
        BY <1>0, <1>b, <1>d, <2>0, <3>1, <3>3
    <2>3. CASE request[r].deal # d
      <3>1. L1 = L
        BY <1>0, <1>a, <1>l, <2>0, <2>3 DEF NoRequest
      <3>2. ~Lands(d)
        <4> SUFFICES ASSUME NEW q \in Requests, MakeWrite(q), request[q].deal = d PROVE FALSE
          BY DEF Lands
        <4>1. request'[q] = NoRequest /\ q # r /\ request[q].locked
          BY <1>0, <2>3 DEF MakeWrite, WritePending, Finish
        <4> QED
          BY <1>0, <2>0, <4>1 DEF NoRequest
      <3> QED
        BY <1>s, <2>0, <3>1, <3>2
    <2> QED
      BY <2>2, <2>3
  <1>4. ASSUME NEW r \in Requests, Finish(r), UNCHANGED locks,
               ~request[r].locked \/ request[r].deal # d, ~Lands(d)
        PROVE  Landed(d)' = Landed(d) + (IF Lands(d) THEN 1 ELSE 0)
    <2>1. L1 = L
      BY <1>0, <1>4, <1>a, <1>l DEF Finish, NoRequest
    <2> QED
      BY <1>4, <1>s, <2>1
  <1>5. ASSUME NEW r \in Requests, Finish(r), UNCHANGED locks, ~Lands(d),
               RequestFails(r)
        PROVE  Landed(d)' = Landed(d) + (IF Lands(d) THEN 1 ELSE 0)
    <2>1. torn' = [torn EXCEPT ![request[r].deal] = @ \/ request[r].locked]
      BY <1>5 DEF RequestFails
    <2>2. ~request[r].locked \/ request[r].deal # d
      BY <1>0, <2>1
    <2> QED
      BY <1>4, <1>5, <2>2
  <1>6. ASSUME NEW r \in Requests, Finish(r), ~request[r].locked \/ RequestFails(r) PROVE ~Lands(d)
    <2> SUFFICES ASSUME NEW q \in Requests, MakeWrite(q), request[q].deal = d PROVE FALSE
      BY DEF Lands
    <2>1. Finish(q) /\ request[q].locked /\ faults' = faults
      BY DEF MakeWrite, WritePending, mishaps
    <2>2. CASE q = r
      BY <1>6, <2>1, <2>2 DEF RequestFails, Fault, TypeInv, TypeOK, HistoryType
    <2>3. CASE q # r
      BY <1>0, <1>6, <2>1, <2>3 DEF Finish, NoRequest
    <2> QED
      BY <2>2, <2>3
  <1>7. ASSUME NEW r \in Requests, NEW op \in Ops, NEW x \in Deals, Begin(r, op, x)
        PROVE  Landed(d)' = Landed(d) + (IF Lands(d) THEN 1 ELSE 0)
    <2>1. /\ request[r] = NoRequest /\ UNCHANGED locks
          /\ ~request'[r].locked /\ \A q \in Requests \ {r} : request'[q] = request[q]
      BY <1>0, <1>7 DEF Begin, history, counts
    <2>2. L1 = L
      <3>1. ~request[r].locked
        BY <2>1 DEF NoRequest
      <3>2. ASSUME NEW q \in Requests PROVE q \in L1 <=> q \in L
        <4>1. CASE q = r
          BY <1>l, <2>1, <3>1, <4>1
        <4>2. CASE q # r
          BY <1>l, <2>1, <4>2
        <4> QED
          BY <4>1, <4>2
      <3> QED
        BY <1>a, <3>2
    <2>3. ~Lands(d)
      <3> SUFFICES ASSUME NEW q \in Requests, MakeWrite(q) PROVE FALSE
        BY DEF Lands
      <3>1. request'[q] = NoRequest /\ request[q].locked
        BY <1>0 DEF MakeWrite, WritePending, Finish
      <3> QED
        BY <1>0, <2>1, <3>1 DEF NoRequest
    <2> QED
      BY <1>s, <2>1, <2>2, <2>3
  <1>8. CASE Crash
    <2>1. torn' = [x \in Deals |-> torn[x] \/ Locking(x) # {} \/ Paying(x) \/ refunder.deal = x]
      BY <1>8 DEF Crash
    <2>2. Locking(d) = {}
      BY <2>1
    <2>3. L = {} /\ L1 = {}
      BY <1>8, <2>2, <1>a, <1>l DEF Crash, NoRequest, L
    <2>4. ~Lands(d) /\ locks' = locks
      BY <1>0, <1>8, <2>2 DEF Lands, Locking, MakeWrite, Crash, counts
    <2> QED
      BY <1>s, <2>3, <2>4
  <1> QED
    <2>1. ASSUME NEW r \in Requests, RequestFails(r) PROVE Finish(r) /\ UNCHANGED locks
      BY <2>1 DEF RequestFails, counts
    <2> QED
      BY <1>1, <1>2, <1>3, <1>4, <1>5, <1>6, <1>7, <1>8, <2>1, RequestMoves

-----------------------------------------------------------------------------
\* The landed lock follows the status.
LEMMA SettledLocks ==
    ASSUME TypeInv, [Next]_vars, NEW d \in Deals, Sound(d)', Settled(d)
    PROVE  /\ Landed(d)' \in 0..1
           /\ status'[d] \in {"NONE", "DRAFT"} => Landed(d)' = 0
           /\ status'[d] \in Running \union {"COMPLETED"} => Landed(d)' = 1
  <1>1. StatusMoves(d)
    BY StatusMove DEF Sound
  <1>2. Landed(d)' = Landed(d) + (IF Lands(d) THEN 1 ELSE 0)
    BY LandedStep DEF Sound
  <1>3. CASE Lands(d)
    <2>1. PICK r \in Requests : MakeWrite(r) /\ request[r].deal = d
      BY <1>3 DEF Lands
    <2>2. SetStatus(d, "PENDING", {"DRAFT"})
      BY <2>1, AllowedSets DEF MakeWrite, WritePending
    <2>3. status'[d] = "PENDING" /\ status[d] = "DRAFT"
      BY <2>2, SetStatusSound DEF Sound, TypeInv, TypeOK, RowsType, HistoryType
    <2> QED
      BY <1>2, <1>3, <2>3 DEF Settled
  <1>4. CASE ~Lands(d)
    <2>1. Landed(d)' = Landed(d)
      BY <1>2, <1>4 DEF Settled
    <2>2. Lands(d) <=> \E r \in Requests : MakeWrite(r) /\ request[r].deal = d
      BY DEF Lands
    <2> QED
      BY <1>1, <1>4, <2>1, <2>2, StatusSets DEF StatusMoves, Settled
  <1> QED
    BY <1>3, <1>4

\* The refunds follow the flag, and the refunder's list is right.
LEMMA SettledRefunds ==
    ASSUME TypeInv, [Next]_vars, NEW d \in Deals, Sound(d)', Settled(d), Listed(d)
    PROVE  /\ refunds'[d] = IF balance_refunded'[d] \/ refunder'.deal = d THEN 1 ELSE 0
           /\ refunds'[d] = 1 => status'[d] \in Refundable
           /\ d \in refunder'.todo => status'[d] \in Refundable /\ refunds'[d] = 0
  <1> DEFINE Goal == /\ refunds'[d] = IF balance_refunded'[d] \/ refunder'.deal = d THEN 1 ELSE 0
                     /\ refunds'[d] = 1 => status'[d] \in Refundable
                     /\ d \in refunder'.todo => status'[d] \in Refundable /\ refunds'[d] = 0
  <1>0. /\ refunds \in [Deals -> Nat] /\ balance_refunded \in [Deals -> BOOLEAN]
        /\ refunder \in RefunderType /\ torn \in [Deals -> BOOLEAN]
        /\ NoDeal \notin Deals
    BY EscrowAssumption DEF TypeInv, TypeOK, RowsType, LoopsType, HistoryType
  <1>1. status[d] \in Refundable => status'[d] \in Refundable
    <2>1. StatusMoves(d)
      BY StatusMove DEF Sound
    <2> QED
      BY <2>1, StatusSets DEF StatusMoves
  <1> USE DEF RefunderType
  <1>2. CASE UNCHANGED <<refunder, balance_refunded, refunds>>
    BY <1>0, <1>1, <1>2 DEF Settled, Listed
  <1>3. CASE RefunderTick
    BY <1>0, <1>1, <1>3 DEF RefunderTick, ForRefund, IdleRefunder, history, counts, rows, Settled, Listed
  <1>4. ASSUME NEW x \in Deals, RefundOne(x) PROVE Goal
    BY <1>0, <1>1, <1>4 DEF RefundOne, rows, Settled, Listed
  <1>5. CASE FlagRefunded
    BY <1>0, <1>1, <1>5 DEF FlagRefunded, history, counts, Settled, Listed
  <1>6. CASE RefunderFails
    <2>1. ~(refunder.deal = d /\ torn' = [torn EXCEPT ![refunder.deal] = TRUE])
      BY <1>0 DEF Sound
    <2> QED
      BY <1>0, <1>1, <1>6, <2>1 DEF RefunderFails, counts, rows, Settled, Listed
  <1>7. CASE Crash
    <2>1. refunder.deal # d
      BY <1>0, <1>7 DEF Crash, Sound
    <2> QED
      BY <1>0, <1>1, <1>7, <2>1 DEF Crash, counts, rows, IdleRefunder, Settled, Listed
  <1> QED
    BY <1>2, <1>3, <1>4, <1>5, <1>6, <1>7, RefunderFrame, RefundsFrame DEF RefunderStep

\* The payments follow the mark, and the publisher's list is right.
LEMMA SettledPayouts ==
    ASSUME TypeInv, [Next]_vars, NEW d \in Deals, Sound(d)', Settled(d), Listed(d)
    PROVE  /\ payouts'[d] = IF status'[d] = "COMPLETED" \/ Paying(d)' THEN 1 ELSE 0
           /\ ToPay(d)' => payouts'[d] = 0
           /\ ToPay(d)' \/ Paying(d)' => status'[d] \in {"PUBLISHED"} \union Refundable
  <1> DEFINE Goal == /\ payouts'[d] = IF status'[d] = "COMPLETED" \/ Paying(d)' THEN 1 ELSE 0
                     /\ ToPay(d)' => payouts'[d] = 0
                     /\ ToPay(d)' \/ Paying(d)' => status'[d] \in {"PUBLISHED"} \union Refundable
  <1>0. /\ payouts \in [Deals -> Nat] /\ publisher \in PublisherType
        /\ torn \in [Deals -> BOOLEAN] /\ NoDeal \notin Deals
        /\ status \in [Deals -> Statuses] /\ overrun \in [Deals -> BOOLEAN]
        /\ publisher.phase \in {"mark", "send"} <=> publisher.deal \in Deals
    BY EscrowAssumption DEF TypeInv, TypeOK, RowsType, LoopsType, HistoryType, InFlight
  <1>1. StatusMoves(d)
    BY StatusMove DEF Sound
  <1>2. \/ /\ status'[d] = "COMPLETED" <=> status[d] = "COMPLETED"
           /\ \/ status[d] \in {"PUBLISHED"} \union Refundable
                    => status'[d] \in {"PUBLISHED"} \union Refundable
              \/ publisher.phase = "send"
        \/ MarkCompleted /\ publisher.deal = d
    BY <1>1, StatusSets DEF StatusMoves
  <1>3. UNCHANGED payouts \/ \E x \in Deals : PayOne(x)
    BY PayoutsFrame
  <1> USE DEF PublisherType, Settled, Listed, ToPay, Paying
  <1>4. CASE UNCHANGED publisher
    <2>1. UNCHANGED payouts
      BY <1>0, <1>3, <1>4 DEF PayOne
    <2>2. ~MarkCompleted
      BY <1>0, <1>4 DEF MarkCompleted
    <2> QED
      BY <1>0, <1>2, <1>4, <2>1, <2>2
  <1>5. CASE PublisherTick \/ StartComplete \/ StartPublish \/ PublisherRests
    <2>1. UNCHANGED <<payouts, status>> /\ publisher'.deal = NoDeal /\ publisher'.phase # "mark"
      BY <1>5 DEF PublisherTick, StartComplete, StartPublish, PublisherRests, EnterPhase,
         history, counts, rows
    <2>2. ToPay(d)' => status[d] = "PUBLISHED" /\ ~Paying(d)
      BY <1>5 DEF PublisherTick, StartComplete, StartPublish, PublisherRests, EnterPhase,
         NeedsToComplete
    <2>3. ~Paying(d)
      BY <1>5 DEF PublisherTick, StartComplete, StartPublish, PublisherRests
    <2> QED
      BY <2>1, <2>2, <2>3
  <1>6. ASSUME NEW x \in Deals, ExpireOne(x) PROVE Goal
    <2>1. /\ publisher.phase = "expire" /\ publisher'.phase = "expire"
          /\ UNCHANGED payouts /\ ~MarkCompleted
      BY <1>0, <1>6 DEF ExpireOne, counts, MarkCompleted
    <2> QED
      BY <1>0, <1>2, <2>1
  <1>7. ASSUME NEW x \in Deals, PayOne(x) PROVE Goal
    <2>1. /\ publisher.phase = "complete" /\ x \in publisher.todo /\ UNCHANGED status
          /\ publisher'.phase = "mark" /\ publisher'.todo = publisher.todo \ {x}
          /\ publisher'.deal = x /\ payouts' = [payouts EXCEPT ![x] = @ + 1]
      BY <1>0, <1>7 DEF PayOne, rows
    <2> QED
      BY <1>0, <2>1, StatusSets
  <1>8. CASE MarkCompleted
    <2>1. /\ publisher.phase = "mark" /\ publisher'.phase = "complete"
          /\ publisher'.todo = publisher.todo /\ UNCHANGED payouts
          /\ SetStatus(publisher.deal, "COMPLETED", {"PUBLISHED"})
      BY <1>0, <1>8 DEF MarkCompleted, counts
    <2>2. CASE publisher.deal = d
      <3>1. status'[d] = "COMPLETED" /\ Paying(d) /\ payouts[d] = 1
        BY <1>0, <2>1, <2>2, SetStatusSound DEF Sound
      <3> QED
        BY <2>1, <3>1
    <2>3. CASE publisher.deal # d
      <3>1. status'[d] = status[d]
        BY <1>0, <2>1, <2>3, SetStatusSound DEF Sound
      <3> QED
        BY <2>1, <2>3, <3>1
    <2> QED
      BY <2>2, <2>3
  <1>9. ASSUME NEW x \in Deals, ClaimOne(x) PROVE Goal
    <2>1. /\ publisher.phase = "publish" /\ publisher'.phase = "send"
          /\ UNCHANGED payouts /\ ~MarkCompleted
      BY <1>0, <1>9 DEF ClaimOne, counts, MarkCompleted
    <2> QED
      BY <1>0, <1>2, <2>1
  <1>10. CASE SendAutoPost \/ RevertClaim
    <2>1. /\ publisher.phase = "send" /\ publisher'.phase = "publish"
          /\ UNCHANGED payouts /\ ~MarkCompleted
      BY <1>0, <1>10 DEF SendAutoPost, SendAutoPostToFullChannel, RevertClaim, Sent, counts,
         history, MarkCompleted
    <2> QED
      BY <1>0, <1>2, <2>1
  <1>11. CASE PublisherFails
    <2>1. UNCHANGED <<payouts, status>>
      BY <1>11 DEF PublisherFails, counts, rows
    <2>2. /\ Paying(d)' <=> Paying(d)
          /\ ToPay(d)' => ToPay(d)
      <3>1. ~(publisher.phase = "mark" /\ publisher.deal = d
                /\ torn' = [torn EXCEPT ![publisher.deal] = TRUE])
        BY <1>0 DEF Sound
      <3> QED
        BY <1>0, <1>11, <3>1 DEF PublisherFails, Sent
    <2> QED
      BY <2>1, <2>2
  <1>12. CASE Crash
    <2>1. ~Paying(d) /\ UNCHANGED <<payouts, status>> /\ publisher' = IdlePublisher
      BY <1>0, <1>12 DEF Crash, Sound, counts, rows
    <2> QED
      BY <2>1 DEF IdlePublisher
  <1> QED
    BY <1>4, <1>5, <1>6, <1>7, <1>8, <1>9, <1>10, <1>11, <1>12, PublisherMoves DEF PublisherStep

LEMMA SettledStep == TypeInv /\ SettledInv /\ [Next]_vars => SettledInv'
  <1> SUFFICES ASSUME TypeInv, SettledInv, [Next]_vars, NEW d \in Deals, Sound(d)'
               PROVE  Settled(d)' /\ Listed(d)'
    BY DEF SettledInv
  <1>1. Sound(d)
    BY StatusMove, TornStays DEF Sound
  <1>2. Settled(d) /\ Listed(d)
    BY <1>1 DEF SettledInv
  <1> QED
    BY <1>2, SettledLocks, SettledRefunds, SettledPayouts DEF Settled, Listed

LEMMA SettledInit == Init => SettledInv
  <1> SUFFICES ASSUME Init, NEW d \in Deals PROVE Settled(d) /\ Listed(d)
    BY DEF SettledInv
  <1>0. NoDeal # d
    BY EscrowAssumption
  <1>1. Locking(d) = {}
    BY DEF Init, Locking, NoRequest
  <1>2. Landed(d) = 0
    BY <1>1, FS_EmptySet DEF Init, Landed
  <1>3. status[d] = "NONE" /\ "NONE" \notin Running \union {"COMPLETED"} \union Refundable
    BY StatusSets DEF Init
  <1> QED
    BY <1>0, <1>2, <1>3 DEF Init, Settled, Listed, ToPay, Paying, IdlePublisher, IdleRefunder

(* The inductive invariant of the accounts: which state every deal that no   *)
(* fault tore is in, given the money that moved for it and who works on it.  *)
THEOREM SettledInvariant == Spec => []SettledInv
  BY SettledInit, SettledStep, TypeInvariant, PTL DEF Spec

(* The account of a deal is exact as long as no write landed on a deal that  *)
(* had moved on and no fault cut a pair of statements, whatever else the     *)
(* handlers and the loops do at the same time.                               *)
THEOREM AccountsAreExact == Spec => []SettledExactly
  <1>1. SettledInv => SettledExactly
    BY DEF SettledInv, Sound, Settled, SettledExactly
  <1> QED
    BY <1>1, SettledInvariant, PTL
-----------------------------------------------------------------------------
(* The refinement.  A step moves the contract of the one deal it works on;    *)
(* a crash works on every deal at once.                                       *)
Res(d) == Unbroken(d, Landed(d))
Ret(d) == Unbroken(d, refunds[d])
Pd(d) == Unbroken(d, payouts[d])

Kept(d) == UNCHANGED <<StageOf(d), Res(d), Ret(d), Pd(d)>>

\* One deal takes a step of its contract that is not a break.
Move(d) ==
    \/ /\ UNCHANGED <<Res(d), Ret(d), Pd(d)>>
       /\ \/ StageOf(d) = "none" /\ StageOf(d)' = "offered"
          \/ StageOf(d) = "agreed" /\ StageOf(d)' = "displayed"
          \/ StageOf(d) = "displayed" /\ StageOf(d)' = "agreed" /\ Pd(d) = 0
          \/ /\ StageOf(d) \in {"offered", "agreed", "displayed"} /\ Pd(d) = 0
             /\ StageOf(d)' = "over"
          \/ StageOf(d) = "displayed" /\ Pd(d) = 1 /\ StageOf(d)' = "settled"
    \/ /\ StageOf(d) = "offered" /\ StageOf(d)' = "agreed"
       /\ Res(d)' = 1 /\ UNCHANGED <<Ret(d), Pd(d)>>
    \/ /\ StageOf(d) = "over" /\ Ret(d) = 0 /\ Ret(d)' = 1
       /\ UNCHANGED <<StageOf(d), Res(d), Pd(d)>>
    \/ /\ StageOf(d) = "displayed" /\ Pd(d) = 0 /\ Pd(d)' = 1
       /\ UNCHANGED <<StageOf(d), Res(d), Ret(d)>>

Breaks(d) == StageOf(d)' = "broken" /\ Res(d)' = 0 /\ Ret(d)' = 0 /\ Pd(d)' = 0

LEMMA BrokenView ==
    ASSUME NEW d \in Deals
    PROVE  /\ Broken(d) => StageOf(d) = "broken" /\ Res(d) = 0 /\ Ret(d) = 0 /\ Pd(d) = 0
           /\ ~Broken(d) => Res(d) = Landed(d) /\ Ret(d) = refunds[d] /\ Pd(d) = payouts[d]
BY DEF StageOf, Res, Ret, Pd, Unbroken

\* The stage of an unbroken deal, by its status.
LEMMA StageByStatus ==
    ASSUME TypeInv, NEW d \in Deals, ~Broken(d)
    PROVE  /\ status[d] = "NONE" => StageOf(d) = "none"
           /\ status[d] = "DRAFT" => StageOf(d) = "offered"
           /\ status[d] \in Negotiating => StageOf(d) = "agreed"
           /\ status[d] = "PUBLISHED" => StageOf(d) = "displayed"
           /\ status[d] = "COMPLETED" => StageOf(d) = "settled"
           /\ status[d] \in Refundable => StageOf(d) = "over"
BY StatusSets DEF StageOf, TypeInv, TypeOK, RowsType

\* What is broken stays broken.
LEMMA BrokenStays ==
    ASSUME TypeInv, SettledInv, [Next]_vars, NEW d \in Deals, ~Broken(d)'
    PROVE  ~Broken(d)
  <1>0. Sound(d)' /\ (Paying(d)' => status'[d] = "PUBLISHED")
    BY DEF Sound, Broken, PaidTooLate
  <1>1. Sound(d)
    BY <1>0, StatusMove, TornStays DEF Sound
  <1>2. Settled(d) /\ Listed(d) /\ Settled(d)' /\ Listed(d)'
    BY <1>0, <1>1, SettledStep DEF SettledInv
  <1>3. StatusMoves(d)
    BY <1>0, StatusMove DEF Sound
  <1> SUFFICES ASSUME Paying(d) PROVE status[d] = "PUBLISHED"
    BY <1>1 DEF Sound, Broken, PaidTooLate
  <1>4. payouts[d] = 1 /\ publisher.phase = "mark"
    BY <1>2 DEF Settled, Paying
  <1>5. payouts'[d] # 0
    BY <1>4, CountsFrame DEF TypeInv, TypeOK, HistoryType
  <1>6. status'[d] = "COMPLETED" \/ Paying(d)'
    BY <1>2, <1>5 DEF Settled
  <1>7. status[d] # "COMPLETED"
    BY <1>2, StatusSets DEF Listed
  <1> QED
    BY <1>0, <1>3, <1>4, <1>6, <1>7, StatusSets DEF StatusMoves

LEMMA DealStep ==
    ASSUME TypeInv, SettledInv, [Next]_vars, NEW d \in Deals
    PROVE  Kept(d) \/ Move(d) \/ Breaks(d)
  <1>1. CASE Broken(d)'
    BY <1>1, BrokenView DEF StageOf, Breaks, Res, Ret, Pd, Unbroken
  <1>2. CASE ~Broken(d)'
    <2>0. ~Broken(d)
      BY <1>2, BrokenStays
    <2>1. /\ Sound(d)' /\ (Paying(d)' => status'[d] = "PUBLISHED")
          /\ Sound(d) /\ (Paying(d) => status[d] = "PUBLISHED")
      BY <1>2, <2>0 DEF Sound, Broken, PaidTooLate
    <2>2. Settled(d) /\ Listed(d) /\ Settled(d)' /\ Listed(d)'
      BY <2>1, SettledStep DEF SettledInv
    <2>3. StatusMoves(d)
      BY <2>1, StatusMove DEF Sound
    <2>4. Landed(d)' = Landed(d) + (IF Lands(d) THEN 1 ELSE 0)
      BY <2>1, LandedStep DEF Sound
    <2>5. /\ Res(d) = Landed(d) /\ Ret(d) = refunds[d] /\ Pd(d) = payouts[d]
          /\ Res(d)' = Landed(d)' /\ Ret(d)' = refunds'[d] /\ Pd(d)' = payouts'[d]
      BY <1>2, <2>0 DEF Res, Ret, Pd, Unbroken
    <2>6. TypeInv'
      BY TypeStep
    <2>7. /\ status[d] = "NONE" => StageOf(d) = "none"
          /\ status[d] = "DRAFT" => StageOf(d) = "offered"
          /\ status[d] \in Negotiating => StageOf(d) = "agreed"
          /\ status[d] = "PUBLISHED" => StageOf(d) = "displayed"
          /\ status[d] = "COMPLETED" => StageOf(d) = "settled"
          /\ status[d] \in Refundable => StageOf(d) = "over"
      BY <2>0, StageByStatus
    <2>8. /\ status'[d] = "NONE" => StageOf(d)' = "none"
          /\ status'[d] = "DRAFT" => StageOf(d)' = "offered"
          /\ status'[d] \in Negotiating => StageOf(d)' = "agreed"
          /\ status'[d] = "PUBLISHED" => StageOf(d)' = "displayed"
          /\ status'[d] = "COMPLETED" => StageOf(d)' = "settled"
          /\ status'[d] \in Refundable => StageOf(d)' = "over"
      BY <1>2, <2>6, StatusSets DEF StageOf, TypeInv, TypeOK, RowsType
    <2>9. /\ refunds'[d] = refunds[d] \/ RefundOne(d)
          /\ payouts'[d] = payouts[d] \/ PayOne(d)
      <3>1. ASSUME NEW x \in Deals, RefundOne(x) PROVE refunds'[d] = refunds[d] \/ RefundOne(d)
        BY <3>1 DEF RefundOne, TypeInv, TypeOK, HistoryType
      <3>2. ASSUME NEW x \in Deals, PayOne(x) PROVE payouts'[d] = payouts[d] \/ PayOne(d)
        BY <3>2 DEF PayOne, TypeInv, TypeOK, HistoryType
      <3> QED
        BY <3>1, <3>2, RefundsFrame, PayoutsFrame
    <2>10. CASE Lands(d)
      <3>1. PICK r \in Requests : MakeWrite(r) /\ request[r].deal = d
        BY <2>10 DEF Lands
      <3>2. SetStatus(d, "PENDING", {"DRAFT"}) /\ UNCHANGED <<refunds, payouts>>
        BY <3>1, AllowedSets DEF MakeWrite, WritePending, counts
      <3>3. status'[d] = "PENDING" /\ status[d] = "DRAFT"
        BY <2>1, <3>2, SetStatusSound DEF Sound, TypeInv, TypeOK, RowsType, HistoryType
      <3>4. Landed(d) = 0 /\ Landed(d)' = 1
        BY <2>2, <2>4, <2>10, <3>3 DEF Settled
      <3> QED
        BY <2>5, <2>7, <2>8, <3>2, <3>3, <3>4, StatusSets DEF Move
    <2>11. CASE ~Lands(d)
      <3>0. Res(d)' = Res(d)
        BY <2>2, <2>4, <2>5, <2>11 DEF Settled
      <3>1. CASE RefundOne(d)
        <4>1. /\ UNCHANGED <<status, payouts>> /\ refunds'[d] = refunds[d] + 1
              /\ d \in refunder.todo
          BY <3>1 DEF RefundOne, rows, TypeInv, TypeOK, HistoryType
        <4>2. status[d] \in Refundable /\ refunds[d] = 0
          BY <2>2, <4>1 DEF Listed
        <4> QED
          BY <2>5, <2>7, <2>8, <3>0, <4>1, <4>2 DEF Move
      <3>2. CASE PayOne(d)
        <4>1. /\ UNCHANGED <<status, refunds>> /\ payouts'[d] = payouts[d] + 1
              /\ ToPay(d)
          BY <3>2 DEF PayOne, rows, ToPay, TypeInv, TypeOK, HistoryType
        <4>2. payouts[d] = 0 /\ Paying(d)'
          BY <2>2, <3>2, <4>1 DEF Listed, PayOne, Paying, TypeInv, TypeOK, LoopsType, PublisherType
        <4>3. status[d] = "PUBLISHED"
          BY <2>1, <4>1, <4>2
        <4> QED
          BY <2>5, <2>7, <2>8, <3>0, <4>1, <4>2, <4>3 DEF Move
      <3>3. CASE ~RefundOne(d) /\ ~PayOne(d)
        <4>1. UNCHANGED <<Res(d), Ret(d), Pd(d)>>
          BY <2>5, <2>9, <3>0, <3>3
        <4>2. payouts'[d] = payouts[d]
          BY <2>9, <3>3
        <4>3. CASE status'[d] = status[d]
          <5>1. StageOf(d)' = StageOf(d)
            BY <1>2, <2>0, <4>3 DEF StageOf
          <5> QED
            BY <4>1, <5>1 DEF Kept
        <4>4. CASE status[d] = "NONE" /\ status'[d] = "DRAFT"
          BY <2>7, <2>8, <4>1, <4>4 DEF Move
        <4>5. CASE status[d] \in Negotiating /\ status'[d] \in Negotiating
          BY <2>7, <2>8, <4>1, <4>5 DEF Kept
        <4>6. CASE status[d] = "AWAITING_PUBLICATION" /\ status'[d] = "PUBLISHED"
          BY <2>7, <2>8, <4>1, <4>6, StatusSets DEF Move
        <4>7. CASE /\ status[d] = "PUBLISHED" /\ status'[d] = "AWAITING_PUBLICATION"
                   /\ publisher.phase = "send"
          <5>1. payouts[d] = 0
            BY <2>2, <4>7 DEF Settled, Paying
          <5> QED
            BY <2>5, <2>7, <2>8, <4>1, <4>7, <5>1, StatusSets DEF Move
        <4>8. CASE status[d] \in Active \union ErrStatuses /\ status'[d] \in Refundable
          <5>1. payouts[d] = 0
            BY <2>1, <2>2, <4>2, <4>8, StatusSets DEF Settled
          <5> QED
            BY <2>5, <2>7, <2>8, <4>1, <4>8, <5>1, StatusSets DEF Move, Kept
        <4>9. CASE /\ MarkCompleted /\ publisher.deal = d
                   /\ status[d] = "PUBLISHED" /\ status'[d] = "COMPLETED"
          <5>1. payouts[d] = 1
            BY <2>2, <4>9 DEF Settled, Paying, MarkCompleted
          <5> QED
            BY <2>5, <2>7, <2>8, <4>1, <4>9, <5>1 DEF Move
        <4>10. ~(\E r \in Requests : MakeWrite(r) /\ request[r].deal = d)
          BY <2>11 DEF Lands
        <4> QED
          BY <2>3, <4>3, <4>4, <4>5, <4>6, <4>7, <4>8, <4>9, <4>10 DEF StatusMoves
      <3> QED
        BY <3>1, <3>2, <3>3
    <2> QED
      BY <2>10, <2>11
  <1> QED
    BY <1>1, <1>2
-----------------------------------------------------------------------------
\* What the contract of a deal depends on, apart from the locks, is not touched.
Same(d) ==
    /\ status'[d] = status[d] /\ overrun'[d] = overrun[d] /\ torn'[d] = torn[d]
    /\ refunds'[d] = refunds[d] /\ payouts'[d] = payouts[d]
    /\ Paying(d)' <=> Paying(d)

LEMMA SameKept ==
    ASSUME TypeInv, [Next]_vars, NEW d \in Deals, Same(d)
    PROVE  Kept(d)
  <1>1. Broken(d)' <=> Broken(d)
    BY DEF Same, Broken, PaidTooLate
  <1>2. CASE Broken(d)
    BY <1>1, <1>2 DEF Kept, StageOf, Res, Ret, Pd, Unbroken
  <1>3. CASE ~Broken(d)
    <2>1. ~torn'[d] /\ ~overrun'[d]
      BY <1>3 DEF Same, Broken
    <2>2. ~Lands(d)
      <3> SUFFICES ASSUME NEW r \in Requests, MakeWrite(r), request[r].deal = d PROVE FALSE
        BY DEF Lands
      <3>1. SetStatus(d, "PENDING", {"DRAFT"})
        BY AllowedSets DEF MakeWrite, WritePending
      <3> QED
        BY <2>1, <3>1, SetStatusSound DEF Same, TypeInv, TypeOK, RowsType, HistoryType
    <2>3. Landed(d)' = Landed(d)
      <3>1. Landed(d) \in Int
        <4>1. Locking(d) \subseteq Requests
          BY DEF Locking
        <4>2. Cardinality(Locking(d)) \in Nat
          BY <4>1, LockingFinite
        <4> QED
          BY <4>2 DEF Landed, TypeInv, TypeOK, HistoryType
      <3> QED
        BY <2>1, <2>2, <3>1, LandedStep
    <2> QED
      BY <1>1, <1>3, <2>3 DEF Same, Kept, StageOf, Res, Ret, Pd, Unbroken
  <1> QED
    BY <1>2, <1>3

LEMMA SetStatusOthers ==
    ASSUME TypeInv, NEW x, NEW s, NEW expected, SetStatus(x, s, expected),
           NEW d \in Deals, d # x
    PROVE  status'[d] = status[d] /\ overrun'[d] = overrun[d]
BY DEF SetStatus, TypeInv, TypeOK, RowsType, HistoryType

\* Every step but a crash works on one deal, or on none.
LEMMA OneDealAtATime ==
    ASSUME TypeInv, [Next]_vars, ~Crash
    PROVE  \E x \in Deals \union {NoDeal} : \A d \in Deals : d # x => Same(d)
  <1> DEFINE Goal == \E x \in Deals \union {NoDeal} : \A d \in Deals : d # x => Same(d)
  <1>0. /\ refunds \in [Deals -> Nat] /\ payouts \in [Deals -> Nat]
        /\ torn \in [Deals -> BOOLEAN] /\ NoDeal \notin Deals
        /\ publisher \in PublisherType /\ publisher.deal \in Deals \union {NoDeal}
        /\ refunder.deal \in Deals \union {NoDeal} /\ bot.deal \in Deals \union {NoDeal}
        /\ \A r \in Requests : request[r].deal \in Deals \union {NoDeal}
    BY EscrowAssumption DEF TypeInv, TypeOK, RowsType, LoopsType, HistoryType, PublisherType,
       RefunderType, BotType, RequestType
  <1>n. ASSUME \A d \in Deals : Same(d) PROVE Goal
    BY <1>n
  <1> DEFINE Touches(x) == \A d \in Deals : d # x => Same(d)
  <1>t. ASSUME NEW x \in Deals \union {NoDeal}, Touches(x) PROVE Goal
    BY <1>t
  <1> HIDE DEF Goal
  <1>1. ASSUME UNCHANGED vars \/ Tick PROVE Goal
    BY <1>1, <1>n DEF vars, Tick, rows, loops, history, counts, mishaps, Same, Paying
  <1>2. ASSUME NEW x \in Deals, OfferDeal(x) PROVE Goal
    <2>1. Touches(x)
      BY <1>2 DEF OfferDeal, loops, history, counts, mishaps, Same, Paying, TypeInv, TypeOK, RowsType
    <2> QED
      BY <1>t, <2>1
  <1>3. ASSUME NEW r \in Requests, HandlerStep(r) PROVE Goal
    <2>1. CASE \/ MakeLock(r) \/ MakeReject(r)
               \/ \E op \in Ops, d \in Deals : Begin(r, op, d)
      BY <1>n, <2>1 DEF MakeLock, MakeReject, Begin, rows, loops, history, counts, mishaps, Same, Paying
    <2>2. CASE RequestFails(r)
      <3>1. Touches(request[r].deal)
        BY <1>0, <2>2 DEF RequestFails, rows, loops, counts, Same, Paying
      <3> QED
        BY <1>0, <1>t, <3>1
    <2>3. CASE HandlerWrites(r)
      <3>1. \E s, expected : SetStatus(request[r].deal, s, expected)
        BY <2>3 DEF HandlerWrites, MakeWrite, WritePending, CancelDeal, AcceptDeal, DeclineDeal,
           WriteStatus, ApproveAndProposeTime, ApproveDealData
      <3>2. UNCHANGED <<refunds, payouts, torn, publisher>>
        BY <2>3 DEF HandlerWrites, MakeWrite, WritePending, CancelDeal, AcceptDeal, DeclineDeal,
           WriteStatus, ApproveAndProposeTime, ApproveDealData, loops, counts, mishaps
      <3>3. Touches(request[r].deal)
        BY <3>1, <3>2, SetStatusOthers DEF Same, Paying
      <3> QED
        BY <1>0, <1>t, <3>3
    <2> QED
      BY <1>3, <2>1, <2>2, <2>3 DEF HandlerStep, HandlerWrites
  <1>4. CASE PublisherTick \/ StartComplete \/ StartPublish \/ PublisherRests
    <2>1. UNCHANGED <<status, overrun, torn, refunds, payouts>>
      BY <1>4 DEF PublisherTick, StartComplete, StartPublish, PublisherRests, EnterPhase,
         rows, history, counts, mishaps
    <2>2. publisher.phase # "mark" /\ publisher'.phase # "mark"
      BY <1>4 DEF PublisherTick, StartComplete, StartPublish, PublisherRests, EnterPhase
    <2> QED
      BY <1>n, <2>1, <2>2 DEF Same, Paying
  <1>5. ASSUME NEW x \in Deals, ExpireOne(x) \/ ClaimOne(x) PROVE Goal
    <2>1. \E s, expected : SetStatus(x, s, expected)
      BY <1>5 DEF ExpireOne, ClaimOne
    <2>2. /\ UNCHANGED <<refunds, payouts, torn>>
          /\ publisher.phase # "mark" /\ publisher'.phase # "mark"
      BY <1>0, <1>5 DEF ExpireOne, ClaimOne, counts, mishaps, PublisherType
    <2>3. Touches(x)
      BY <2>1, <2>2, SetStatusOthers DEF Same, Paying
    <2> QED
      BY <1>t, <2>3
  <1>6. ASSUME NEW x \in Deals, PayOne(x) PROVE Goal
    <2>1. Touches(x)
      BY <1>0, <1>6 DEF PayOne, rows, mishaps, Same, Paying, PublisherType
    <2> QED
      BY <1>t, <2>1
  <1>7. CASE MarkCompleted \/ RevertClaim
    <2>1. \E s, expected : SetStatus(publisher.deal, s, expected)
      BY <1>7 DEF MarkCompleted, RevertClaim
    <2>2. /\ UNCHANGED <<refunds, payouts, torn>>
          /\ \A d \in Deals : d # publisher.deal => (Paying(d)' <=> Paying(d))
      BY <1>0, <1>7 DEF MarkCompleted, RevertClaim, Sent, counts, mishaps, PublisherType, Paying
    <2>3. Touches(publisher.deal)
      BY <2>1, <2>2, SetStatusOthers DEF Same
    <2> QED
      BY <1>0, <1>t, <2>3
  <1>8. CASE SendAutoPost
    BY <1>0, <1>8, <1>n DEF SendAutoPost, SendAutoPostToFullChannel, Sent, rows, history, counts,
       mishaps, Same, Paying, PublisherType
  <1>9. CASE PublisherFails
    <2>1. UNCHANGED <<status, overrun, refunds, payouts>>
      BY <1>9 DEF PublisherFails, rows, counts
    <2>2. Touches(publisher.deal)
      BY <1>0, <1>9, <2>1 DEF PublisherFails, Sent, Same, Paying, PublisherType
    <2> QED
      BY <1>0, <1>t, <2>2
  <1>10. CASE RefunderTick \/ FlagRefunded
    BY <1>10, <1>n DEF RefunderTick, FlagRefunded, rows, history, counts, mishaps, Same, Paying
  <1>11. ASSUME NEW x \in Deals, RefundOne(x) PROVE Goal
    <2>1. Touches(x)
      BY <1>0, <1>11 DEF RefundOne, rows, mishaps, Same, Paying
    <2> QED
      BY <1>t, <2>1
  <1>12. CASE RefunderFails
    <2>1. Touches(refunder.deal)
      BY <1>0, <1>12 DEF RefunderFails, rows, counts, Same, Paying
    <2> QED
      BY <1>0, <1>t, <2>1
  <1>13. CASE BotStep \/ BotFails
    <2>1. UNCHANGED <<refunds, payouts, torn, publisher>>
      BY <1>13 DEF BotStep, BotTakes, BotGivesUp, BotPosts, BotRecords, BotFails, history,
         counts, mishaps
    <2>2. UNCHANGED <<status, overrun>> \/ \E s, expected : SetStatus(bot.deal, s, expected)
      BY <1>13 DEF BotStep, BotTakes, BotGivesUp, BotPosts, BotRecords, BotFails, history, rows
    <2>3. Touches(bot.deal)
      BY <2>1, <2>2, SetStatusOthers DEF Same, Paying
    <2> QED
      BY <1>0, <1>t, <2>3
  <1>14. ASSUME NEW x \in Deals, PostIsNotFine(x) \/ VoidRemoved(x) \/ VoidForeign(x) PROVE Goal
    <2>1. \E s, expected : SetStatus(x, s, expected)
      BY <1>14 DEF PostIsNotFine, VoidRemoved, VoidForeign, Void
    <2>2. UNCHANGED <<refunds, payouts, torn, publisher>>
      BY <1>14 DEF PostIsNotFine, VoidRemoved, VoidForeign, Void, counts, mishaps
    <2>3. Touches(x)
      BY <2>1, <2>2, SetStatusOthers DEF Same, Paying
    <2> QED
      BY <1>t, <2>3
  <1>15. CASE \/ MonitorTick \/ WatcherFails
              \/ \E ch \in Channels : BotRemoved(ch) \/ ForeignPost(ch)
              \/ \E d \in Deals : PostIsFine(d)
    BY <1>15, <1>n DEF MonitorTick, WatcherFails, BotRemoved, ForeignPost, PostIsFine, Listing,
       rows, history, counts, mishaps, Same, Paying
  <1> QED
    BY <1>1, <1>2, <1>3, <1>4, <1>5, <1>6, <1>7, <1>8, <1>9, <1>10, <1>11, <1>12, <1>13, <1>14,
       <1>15 DEF Goal, Next, PublisherStep, RefunderStep, WatcherStep

\* A crash breaks the contracts it cuts into and keeps the others.
LEMMA CrashStep ==
    ASSUME TypeInv, SettledInv, [Next]_vars, Crash, NEW d \in Deals
    PROVE  Kept(d) \/ Breaks(d)
  <1>1. UNCHANGED <<status, overrun, refunds, payouts>>
    BY DEF Crash, rows, counts
  <1>2. CASE Broken(d)'
    BY <1>2, BrokenView DEF StageOf, Breaks, Res, Ret, Pd, Unbroken
  <1>3. CASE ~Broken(d)'
    <2>1. ~Broken(d)
      BY <1>3, BrokenStays
    <2>2. ~torn'[d] /\ ~overrun'[d]
      BY <1>3 DEF Broken
    <2>3. ~Paying(d)
      <3>1. torn' = [x \in Deals |-> torn[x] \/ Locking(x) # {} \/ Paying(x) \/ refunder.deal = x]
        BY DEF Crash
      <3> QED
        BY <2>2, <3>1
    <2>4. ~Paying(d)'
      BY DEF Crash, Paying, IdlePublisher
    <2>5. Same(d)
      <3>1. torn \in [Deals -> BOOLEAN] /\ torn' \in [Deals -> BOOLEAN]
        BY TypeStep DEF TypeInv, TypeOK, HistoryType
      <3>2. torn'[d] = torn[d]
        BY <2>2, <3>1, TornStays
      <3> QED
        BY <1>1, <2>3, <2>4, <3>2 DEF Same
    <2> QED
      BY <2>5, SameKept
  <1> QED
    BY <1>2, <1>3

LEMMA ContractInit == Init => Contract!Init
  <1> SUFFICES ASSUME Init PROVE Contract!Init
    OBVIOUS
  <1>1. ASSUME NEW d \in Deals PROVE StageOf(d) = "none" /\ Res(d) = 0 /\ Ret(d) = 0 /\ Pd(d) = 0
    <2>1. ~Broken(d)
      <3>1. ~torn[d] /\ ~overrun[d] /\ publisher.phase = "idle"
        BY DEF Init, IdlePublisher
      <3> QED
        BY <3>1 DEF Broken, PaidTooLate, Paying
    <2>2. Locking(d) = {}
      BY DEF Init, Locking, NoRequest
    <2>3. Landed(d) = 0
      BY <2>2, FS_EmptySet DEF Init, Landed
    <2> QED
      <3>1. status[d] = "NONE" /\ refunds[d] = 0 /\ payouts[d] = 0
        BY DEF Init
      <3> QED
        BY <2>1, <2>3, <3>1, StatusSets DEF StageOf, Res, Ret, Pd, Unbroken
  <1> QED
    BY <1>1 DEF Contract!Init, Res, Ret, Pd

LEMMA ContractStep ==
    TypeInv /\ SettledInv /\ [Next]_vars => [Contract!Next]_(Contract!contract)
  <1> SUFFICES ASSUME TypeInv, SettledInv, [Next]_vars
               PROVE  Contract!Next \/ UNCHANGED Contract!contract
    OBVIOUS
  <1> DEFINE stage == [d \in Deals |-> StageOf(d)]
             reserved == [d \in Deals |-> Res(d)]
             returned == [d \in Deals |-> Ret(d)]
             paid == [d \in Deals |-> Pd(d)]
  <1>0. /\ reserved = [d \in Deals |-> Unbroken(d, Landed(d))]
        /\ returned = [d \in Deals |-> Unbroken(d, refunds[d])]
        /\ paid = [d \in Deals |-> Unbroken(d, payouts[d])]
        /\ stage = [d \in Deals |-> StageOf(d)]
    BY DEF Res, Ret, Pd
  <1>p. /\ reserved' = [d \in Deals |-> Unbroken(d, Landed(d))]'
        /\ returned' = [d \in Deals |-> Unbroken(d, refunds[d])]'
        /\ paid' = [d \in Deals |-> Unbroken(d, payouts[d])]'
        /\ stage' = [d \in Deals |-> StageOf(d)]'
    BY DEF Res, Ret, Pd
  <1>1. ASSUME \A d \in Deals : Kept(d) PROVE UNCHANGED Contract!contract
    BY <1>1 DEF Kept, Contract!contract, Res, Ret, Pd
  <1>2. ASSUME \A d \in Deals : Kept(d) \/ Breaks(d) PROVE Contract!Next
    <2> DEFINE ds == {d \in Deals : Breaks(d)}
    <2>1. Contract!Break(ds)
      BY <1>2 DEF Contract!Break, Kept, Breaks, Res, Ret, Pd
    <2> QED
      BY <2>1 DEF Contract!Next
  <1>3. ASSUME NEW x \in Deals, \A d \in Deals : d # x => Kept(d), Move(x) PROVE Contract!Next
    <2>1. /\ UNCHANGED Res(x) => reserved' = reserved
          /\ UNCHANGED Ret(x) => returned' = returned
          /\ UNCHANGED Pd(x) => paid' = paid
          /\ UNCHANGED StageOf(x) => stage' = stage
      BY <1>3 DEF Kept
    <2>2. /\ \A v : Res(x)' = v => reserved' = [reserved EXCEPT ![x] = v]
          /\ \A v : Ret(x)' = v => returned' = [returned EXCEPT ![x] = v]
          /\ \A v : Pd(x)' = v => paid' = [paid EXCEPT ![x] = v]
          /\ \A v : StageOf(x)' = v => stage' = [stage EXCEPT ![x] = v]
      BY <1>3 DEF Kept
    <2>3. /\ stage[x] = StageOf(x) /\ paid[x] = Pd(x) /\ returned[x] = Ret(x)
      OBVIOUS
    <2> HIDE DEF stage, reserved, returned, paid
    <2>4. \/ Contract!Offer(x) \/ Contract!Reserve(x) \/ Contract!Display(x)
          \/ Contract!Postpone(x) \/ Contract!End(x) \/ Contract!Return(x)
          \/ Contract!Pay(x) \/ Contract!Settle(x)
      BY <1>0, <1>p, <1>3, <2>1, <2>2, <2>3 DEF Move, Contract!Offer, Contract!Reserve, Contract!Display,
         Contract!Postpone, Contract!End, Contract!Return, Contract!Pay, Contract!Settle,
         Contract!Become, Contract!sums
    <2> QED
      BY <2>4 DEF Contract!Next
  <1>4. CASE Crash
    BY <1>2, <1>4, CrashStep
  <1>5. CASE ~Crash
    <2>1. PICK x \in Deals \union {NoDeal} : \A d \in Deals : d # x => Same(d)
      BY <1>5, OneDealAtATime
    <2>2. \A d \in Deals : d # x => Kept(d)
      BY <2>1, SameKept
    <2>3. CASE x \in Deals
      BY <1>1, <1>2, <1>3, <2>2, <2>3, DealStep
    <2>4. CASE x \notin Deals
      BY <1>1, <2>2, <2>4
    <2> QED
      BY <2>3, <2>4
  <1> QED
    BY <1>4, <1>5

(* Escrow implements DealContract: whatever the handlers, the loops, the     *)
(* watchers and the faults do, each deal goes through the contract, and only *)
(* a stale write, a torn pair of statements or a late payment breaks it.     *)
THEOREM ImplementsContract == Spec => KeepsContract
  BY ContractInit, ContractStep, TypeInvariant, SettledInvariant, PTL
  DEF Spec, KeepsContract, Contract!Spec
-----------------------------------------------------------------------------
(* The deadlines.  The invariant that carries the theorem: the publisher works *)
(* on a deal only after the end of its display, and from then on the deal is    *)
(* never negotiated again.                                                      *)
Due(d) == payouts[d] > 0 \/ ToPay(d) \/ Paying(d)

Dated(d) ==
    /\ status[d] \in {"AWAITING_PUBLICATION", "PUBLISHED", "COMPLETED"} =>
          /\ top_deadline[d] = publication_time[d] + TopHours
          /\ common_deadline[d] = publication_time[d] + CommonHours
    /\ Due(d) => /\ publication_time[d] + CommonHours <= now
                 /\ status[d] \in {"PUBLISHED", "COMPLETED"} \union Refundable
    /\ publisher.phase = "send" /\ publisher.deal = d => payouts[d] = 0

DatedInv == \A d \in Deals : ~overrun[d] /\ ~misdated[d] => Dated(d)

LEMMA DueFrame ==
    ASSUME TypeInv, [Next]_vars, NEW d \in Deals, Due(d)', ~Due(d)
    PROVE  NeedsToComplete(d) /\ UNCHANGED <<status, publication_time, now>>
  <1>0. /\ publisher \in PublisherType /\ payouts \in [Deals -> Nat]
        /\ publisher.phase \in {"mark", "send"} <=> publisher.deal \in Deals
    BY DEF TypeInv, TypeOK, LoopsType, HistoryType, InFlight
  <1> USE DEF PublisherType, Due, ToPay, Paying
  <1>1. ~PayOne(d)
    BY DEF PayOne
  <1>2. payouts'[d] = payouts[d]
    BY <1>0, <1>1, PayoutsFrame DEF PayOne
  <1>3. ~UNCHANGED publisher
    BY <1>2
  <1>4. ~(PublisherTick \/ StartPublish \/ PublisherRests)
    BY <1>0, <1>2 DEF PublisherTick, StartPublish, PublisherRests, EnterPhase
  <1>5. \A x \in Deals : ~(ExpireOne(x) \/ ClaimOne(x))
    BY <1>0, <1>2 DEF ExpireOne, ClaimOne
  <1>6. ~(MarkCompleted \/ SendAutoPost \/ RevertClaim)
    <2>1. ~MarkCompleted
      BY <1>0, <1>2 DEF MarkCompleted
    <2>2. SendAutoPost \/ RevertClaim => publisher.phase = "send" /\ publisher' = Sent
      BY DEF SendAutoPost, SendAutoPostToFullChannel, RevertClaim
    <2>3. publisher' # Sent
      BY <1>0, <1>2 DEF Sent
    <2> QED
      BY <2>1, <2>2, <2>3
  <1>7. ASSUME NEW x \in Deals, PayOne(x) PROVE FALSE
    <2>1. x # d /\ publisher.phase = "complete"
      BY <1>1, <1>7 DEF PayOne
    <2>2. publisher'.todo = publisher.todo \ {x} /\ publisher'.deal = x
      BY <1>0, <1>7 DEF PayOne
    <2> QED
      BY <1>2, <2>1, <2>2
  <1>8. ~PublisherFails
    BY <1>0, <1>2 DEF PublisherFails, Sent
  <1>9. ~Crash
    BY <1>2 DEF Crash, IdlePublisher
  <1>10. StartComplete
    BY <1>3, <1>4, <1>5, <1>6, <1>7, <1>8, <1>9, PublisherMoves DEF PublisherStep
  <1> QED
    BY <1>0, <1>2, <1>10 DEF StartComplete, EnterPhase, rows, schedule, world

\* A deal gets AWAITING_PUBLICATION from its approval or from a claim taken back.
LEMMA AwaitingFrame ==
    ASSUME TypeInv, [Next]_vars, NEW d \in Deals,
           status'[d] = "AWAITING_PUBLICATION", status[d] # "AWAITING_PUBLICATION"
    PROVE  \/ \E r \in Requests : ApproveDealData(r) /\ request[r].deal = d
           \/ RevertClaim /\ publisher.deal = d
  <1>0. status \in [Deals -> Statuses]
    BY DEF TypeInv, TypeOK, RowsType
  <1>1. ASSUME NEW x \in Deals, OfferDeal(x) \/ Writes(x) PROVE FALSE
    BY <1>0, <1>1, SetStatusOne DEF OfferDeal, Writes, PostIsNotFine, VoidRemoved, VoidForeign,
       Void, ExpireOne, ClaimOne
  <1>2. ASSUME NEW r \in Requests, HandlerWrites(r) PROVE ApproveDealData(r) /\ request[r].deal = d
    BY <1>0, <1>2, SetStatusOne DEF HandlerWrites, MakeWrite, WritePending, CancelDeal, AcceptDeal,
       DeclineDeal, WriteStatus, ApproveAndProposeTime, ApproveDealData
  <1>3. ~BotRecords /\ ~MarkCompleted /\ ~(\E err \in ErrStatuses : BotGivesUp(err))
    BY <1>0, SetStatusOne DEF BotRecords, MarkCompleted, BotGivesUp, ErrStatuses
  <1>4. RevertClaim => publisher.deal = d
    BY <1>0, SetStatusOne DEF RevertClaim
  <1> QED
    BY <1>1, <1>2, <1>3, <1>4, StatusFrame

LEMMA DatedStep == TypeInv /\ DatedInv /\ [Next]_vars => DatedInv'
  <1> SUFFICES ASSUME TypeInv, DatedInv, [Next]_vars,
                      NEW d \in Deals, ~overrun'[d], ~misdated'[d]
               PROVE  Dated(d)'
    BY DEF DatedInv
  <1>0. /\ status \in [Deals -> Statuses] /\ overrun \in [Deals -> BOOLEAN]
        /\ publication_time \in [Deals -> Nat] /\ top_deadline \in [Deals -> Nat]
        /\ common_deadline \in [Deals -> Nat] /\ misdated \in [Deals -> BOOLEAN]
        /\ payouts \in [Deals -> Nat] /\ now \in Nat /\ publisher \in PublisherType
        /\ publisher.phase \in {"mark", "send"} <=> publisher.deal \in Deals
    BY DEF TypeInv, TypeOK, RowsType, LoopsType, HistoryType, InFlight
  <1>1. ~overrun[d] /\ StatusMoves(d)
    BY StatusMove
  <1>2. ~misdated[d]
    BY <1>0, MisdatedFrame DEF ApproveDealData
  <1>3. Dated(d)
    BY <1>1, <1>2 DEF DatedInv
  <1>4. now' = now \/ now' = now + 1
    BY WorldFrame
  \* The two handlers that write the times of a deal.
  <1>5. \/ publication_time'[d] = publication_time[d]
        \/ status[d] = "IN_PROGRESS" /\ status'[d] = "AWAITING_APPROVAL_TIME"
    <2>1. ASSUME NEW r \in Requests, ApproveAndProposeTime(r), request[r].deal = d
          PROVE  status[d] = "IN_PROGRESS" /\ status'[d] = "AWAITING_APPROVAL_TIME"
      <3>1. SetStatus(d, "AWAITING_APPROVAL_TIME", {"IN_PROGRESS"})
        BY <2>1, AllowedSets DEF ApproveAndProposeTime
      <3> QED
        BY <1>0, <3>1, SetStatusSound
    <2>2. ASSUME NEW r \in Requests, ApproveAndProposeTime(r), request[r].deal # d
          PROVE  publication_time'[d] = publication_time[d]
      BY <1>0, <2>2 DEF ApproveAndProposeTime
    <2> QED
      BY <2>1, <2>2, ColumnsFrame
  <1>6a. ASSUME NEW r \in Requests, ApproveDealData(r), request[r].deal = d
         PROVE  /\ status[d] = "AWAITING_APPROVAL_TIME" /\ status'[d] = "AWAITING_PUBLICATION"
                /\ top_deadline'[d] = publication_time'[d] + TopHours
                /\ common_deadline'[d] = publication_time'[d] + CommonHours
    <2>1. SetStatus(d, "AWAITING_PUBLICATION", {"AWAITING_APPROVAL_TIME"})
      BY <1>6a, AllowedSets DEF ApproveDealData
    <2>2. /\ publication_time[d] # request[r].time => misdated'[d]
          /\ publication_time' = publication_time
          /\ top_deadline'[d] = request[r].time + TopHours
          /\ common_deadline'[d] = request[r].time + CommonHours
      BY <1>0, <1>6a DEF ApproveDealData
    <2> QED
      BY <1>0, <2>1, <2>2, SetStatusSound
  <1>6. \/ top_deadline'[d] = top_deadline[d] /\ common_deadline'[d] = common_deadline[d]
        \/ /\ status[d] = "AWAITING_APPROVAL_TIME" /\ status'[d] = "AWAITING_PUBLICATION"
           /\ top_deadline'[d] = publication_time'[d] + TopHours
           /\ common_deadline'[d] = publication_time'[d] + CommonHours
    <2>2. ASSUME NEW r \in Requests, ApproveDealData(r), request[r].deal # d
          PROVE  top_deadline'[d] = top_deadline[d] /\ common_deadline'[d] = common_deadline[d]
      BY <1>0, <2>2 DEF ApproveDealData
    <2> QED
      BY <1>6a, <2>2, ColumnsFrame
  <1>7. Due(d) => /\ status'[d] \in {"PUBLISHED", "COMPLETED"} \union Refundable
                  /\ publication_time'[d] = publication_time[d]
    <2>1. ~(Due(d) /\ publisher.phase = "send" /\ status[d] = "PUBLISHED"
              /\ status'[d] = "AWAITING_PUBLICATION")
      <3> SUFFICES ASSUME Due(d), publisher.phase = "send", status[d] = "PUBLISHED",
                          status'[d] = "AWAITING_PUBLICATION"
                   PROVE  FALSE
        OBVIOUS
      <3>1. payouts[d] > 0
        BY DEF Due, ToPay, Paying
      <3>2. publisher.deal = d
        BY <1>6a, AwaitingFrame
      <3> QED
        BY <1>3, <3>1, <3>2 DEF Dated
    <2>2. Due(d) => status[d] \in {"PUBLISHED", "COMPLETED"} \union Refundable
      BY <1>3 DEF Dated
    <2> QED
      BY <1>1, <1>5, <2>1, <2>2, StatusSets DEF StatusMoves
  <1>8. Due(d)' => /\ publication_time'[d] + CommonHours <= now'
                   /\ status'[d] \in {"PUBLISHED", "COMPLETED"} \union Refundable
    <2>1. CASE Due(d)
      BY <1>0, <1>3, <1>4, <1>7, <2>1, ConstantTypes DEF Dated
    <2>2. CASE ~Due(d) /\ Due(d)'
      BY <1>3, <2>2, DueFrame DEF Dated, NeedsToComplete
    <2> QED
      BY <2>1, <2>2
  <1>9. status'[d] \in {"AWAITING_PUBLICATION", "PUBLISHED", "COMPLETED"} =>
          /\ top_deadline'[d] = publication_time'[d] + TopHours
          /\ common_deadline'[d] = publication_time'[d] + CommonHours
    <2>1. CASE status[d] \in {"AWAITING_PUBLICATION", "PUBLISHED", "COMPLETED"}
      BY <1>3, <1>5, <1>6, <2>1 DEF Dated
    <2>2. CASE /\ status[d] \notin {"AWAITING_PUBLICATION", "PUBLISHED", "COMPLETED"}
               /\ status'[d] \in {"AWAITING_PUBLICATION", "PUBLISHED", "COMPLETED"}
      <3>1. status'[d] = "AWAITING_PUBLICATION" /\ status[d] # "AWAITING_PUBLICATION"
              /\ status[d] # "PUBLISHED"
        BY <1>1, <2>2, StatusSets DEF StatusMoves
      <3>2. \E r \in Requests : ApproveDealData(r) /\ request[r].deal = d
        <4>1. ~(RevertClaim /\ publisher.deal = d)
          BY <1>0, <3>1, SetStatusSound DEF RevertClaim
        <4> QED
          BY <3>1, <4>1, AwaitingFrame
      <3> QED
        BY <1>6a, <3>2
    <2> QED
      BY <2>1, <2>2
  <1>10. publisher'.phase = "send" /\ publisher'.deal = d => payouts'[d] = 0
    <2> SUFFICES ASSUME publisher'.phase = "send", publisher'.deal = d PROVE payouts'[d] = 0
      OBVIOUS
    <2>1. UNCHANGED payouts
      BY <1>0, PayoutsFrame DEF PayOne, PublisherType
    <2>2. CASE UNCHANGED publisher
      BY <1>3, <2>1, <2>2 DEF Dated
    <2>3. ASSUME NEW x \in Deals, ClaimOne(x) PROVE payouts[d] = 0
      <3>1. x = d /\ SetStatus(d, "PUBLISHED", {"AWAITING_PUBLICATION"})
        BY <1>0, <2>3 DEF ClaimOne, PublisherType
      <3>2. status[d] = "AWAITING_PUBLICATION"
        BY <1>0, <3>1, SetStatusSound
      <3>3. ~Due(d)
        BY <1>3, <3>2, StatusSets DEF Dated
      <3> QED
        BY <1>0, <3>3 DEF Due
    <2>4. ~(PublisherTick \/ StartComplete \/ StartPublish \/ PublisherRests \/ Crash)
      BY DEF PublisherTick, StartComplete, StartPublish, PublisherRests, EnterPhase, Crash,
         IdlePublisher
    <2>6. ~(MarkCompleted \/ SendAutoPost \/ RevertClaim)
      BY <1>0 DEF MarkCompleted, SendAutoPost, SendAutoPostToFullChannel, RevertClaim, Sent,
         PublisherType
    <2>7. PublisherFails => publisher'.deal = publisher.deal /\ publisher'.phase = publisher.phase
      BY <1>0 DEF PublisherFails, Sent, PublisherType
    <2>5. \A x \in Deals : ~(ExpireOne(x) \/ PayOne(x))
      BY <1>0 DEF ExpireOne, PayOne, PublisherType
    <2> QED
      BY <1>3, <2>1, <2>2, <2>3, <2>4, <2>5, <2>6, <2>7, PublisherMoves DEF PublisherStep, Dated
  <1> QED
    BY <1>8, <1>9, <1>10 DEF Dated

(* What is displayed is what was agreed, and it is paid for after it was      *)
(* displayed, for every deal on which no stale write and no stale approval    *)
(* landed, also after faults and crashes.                                     *)
THEOREM DisplaysAreAsAgreed == Spec => []DisplayedAsAgreed
  <1>1. Init => DatedInv
    <2> SUFFICES ASSUME Init, NEW d \in Deals PROVE Dated(d)
      BY DEF DatedInv
    <2>1. /\ status[d] = "NONE" /\ payouts[d] = 0 /\ publisher.phase = "idle"
      BY DEF Init, IdlePublisher
    <2> QED
      BY <2>1 DEF Dated, Due, ToPay, Paying
  <1>2. DatedInv => DisplayedAsAgreed
    BY DEF DatedInv, Dated, Due, DisplayedAsAgreed
  <1> QED
    BY <1>1, <1>2, DatedStep, TypeInvariant, PTL DEF Spec
-----------------------------------------------------------------------------
(* Claims and posts.  The invariant says of each place a claim can be in that  *)
(* the deal is in no other and has left the negotiation for good; only a claim *)
(* taken back, which is in the hands of the publisher, leads there again.      *)
Sending(d) == publisher.phase = "send" /\ publisher.deal = d
Queued(d) == \E i \in 1..Len(autopost) : autopost[i] = d
Handled(d) == Sending(d) \/ Queued(d) \/ bot.deal = d \/ posted[d]

Placed(d) ==
    /\ \A i, j \in 1..Len(autopost) : autopost[i] = d /\ autopost[j] = d => i = j
    /\ Sending(d) => ~Queued(d)
    /\ Sending(d) \/ Queued(d) => bot.deal # d /\ ~posted[d]
    /\ bot.deal = d => (posted[d] <=> bot.sent)

Claimed(d) ==
    /\ Placed(d)
    /\ Handled(d) => status[d] \in {"PUBLISHED", "COMPLETED"} \union Refundable
    /\ faults = 0 /\ status[d] \in {"PUBLISHED", "COMPLETED"} => Handled(d)

ClaimedInv ==
    /\ bot.sent => bot.deal \in Deals
    /\ \A d \in Deals : ~overrun[d] => Claimed(d)

\* Who moves a claim or makes a post.
LEMMA ClaimsFrame ==
    ASSUME [Next]_vars
    PROVE  \/ UNCHANGED <<bot, autopost, posted>>
           \/ SendAutoPost \/ BotStep \/ BotFails \/ Crash
  <1>1. ASSUME NEW r \in Requests, HandlerStep(r) PROVE UNCHANGED <<bot, autopost, posted>>
    BY <1>1 DEF loops, botside, world, HandlerStep, Begin, MakeLock, MakeReject, MakeWrite,
       WritePending, WriteStatus, CancelDeal, AcceptDeal, DeclineDeal, ApproveAndProposeTime,
       ApproveDealData, RequestFails
  <1>2. PublisherStep \/ PublisherFails => UNCHANGED <<bot, autopost, posted>> \/ SendAutoPost
    BY DEF botside, world, PublisherStep, PublisherTick, StartComplete, StartPublish,
       PublisherRests, EnterPhase, ExpireOne, PayOne, MarkCompleted, ClaimOne, RevertClaim,
       PublisherFails
  <1>3. RefunderStep \/ RefunderFails => UNCHANGED <<bot, autopost, posted>>
    BY DEF botside, world, RefunderStep, RefunderTick, RefundOne, FlagRefunded, RefunderFails
  <1>4. WatcherStep \/ WatcherFails => UNCHANGED <<bot, autopost, posted>>
    BY DEF world, WatcherStep, MonitorTick, PostIsFine, PostIsNotFine, BotRemoved, VoidRemoved,
       ForeignPost, VoidForeign, Void, WatcherFails, Listing
  <1>5. UNCHANGED vars \/ Tick \/ (\E d \in Deals : OfferDeal(d))
           => UNCHANGED <<bot, autopost, posted>>
    BY DEF vars, loops, botside, world, Tick, OfferDeal
  <1> QED
    BY <1>1, <1>2, <1>3, <1>4, <1>5 DEF Next

\* The claim in the hands of the publisher comes from ClaimOne and goes by three ways.
LEMMA SendingFrame ==
    ASSUME TypeInv, [Next]_vars
    PROVE  \/ \A d \in Deals : Sending(d)' = Sending(d)
           \/ \E x \in Deals : ClaimOne(x)
           \/ SendAutoPost \/ RevertClaim \/ PublisherFails \/ Crash
  <1>0. publisher \in PublisherType
    BY DEF TypeInv, TypeOK, LoopsType
  <1>1. PublisherTick \/ StartComplete \/ StartPublish \/ PublisherRests
           => publisher.phase # "send" /\ publisher'.phase # "send"
    BY <1>0 DEF PublisherTick, StartComplete, StartPublish, PublisherRests, EnterPhase
  <1>2. ASSUME NEW x \in Deals, ExpireOne(x) \/ PayOne(x)
        PROVE  publisher.phase # "send" /\ publisher'.phase # "send"
    BY <1>0, <1>2 DEF ExpireOne, PayOne, PublisherType
  <1>3. MarkCompleted => publisher.phase # "send" /\ publisher'.phase # "send"
    BY <1>0 DEF MarkCompleted, PublisherType
  <1> QED
    BY <1>1, <1>2, <1>3, PublisherMoves DEF PublisherStep, Sending

\* A deal gets PUBLISHED from its claim or from the bot that posted it.
LEMMA PublishedFrame ==
    ASSUME TypeInv, [Next]_vars, NEW d \in Deals,
           status'[d] = "PUBLISHED", status[d] # "PUBLISHED", ~overrun'[d]
    PROVE  ClaimOne(d)
  <1>0. status \in [Deals -> Statuses] /\ overrun \in [Deals -> BOOLEAN]
    BY DEF TypeInv, TypeOK, RowsType, HistoryType
  <1>1. ASSUME NEW x \in Deals, OfferDeal(x) PROVE FALSE
    BY <1>0, <1>1 DEF OfferDeal
  <1>2. ASSUME NEW x \in Deals, Writes(x) PROVE ClaimOne(d)
    <2>1. CASE PostIsNotFine(x) \/ VoidRemoved(x) \/ VoidForeign(x)
      <3>1. PICK expected : SetStatus(x, "TERMS_VIOLATED", expected)
        BY <2>1 DEF PostIsNotFine, VoidRemoved, VoidForeign, Void
      <3> QED
        BY <1>0, <3>1, SetStatusOne
    <2>2. ~ExpireOne(x)
      BY <1>0, SetStatusOne DEF ExpireOne
    <2>3. ClaimOne(x) => x = d
      BY <1>0, SetStatusOne DEF ClaimOne
    <2> QED
      BY <1>2, <2>1, <2>2, <2>3 DEF Writes
  <1>3. ASSUME NEW r \in Requests, HandlerWrites(r) PROVE FALSE
    <2>1. PICK s, expected : SetStatus(request[r].deal, s, expected) /\ s # "PUBLISHED"
      BY <1>3 DEF HandlerWrites, MakeWrite, WritePending, CancelDeal, AcceptDeal,
         DeclineDeal, WriteStatus, ApproveAndProposeTime, ApproveDealData
    <2> QED
      BY <1>0, <2>1, SetStatusOne
  <1>4. ~MarkCompleted /\ ~RevertClaim
    BY <1>0, SetStatusOne DEF MarkCompleted, RevertClaim
  <1>5. ~(\E err \in ErrStatuses : BotGivesUp(err))
    BY <1>0, SetStatusOne DEF BotGivesUp, ErrStatuses
  <1>6. ~BotRecords
    BY <1>0, SetStatusSound DEF BotRecords
  <1> QED
    BY <1>1, <1>2, <1>3, <1>4, <1>5, <1>6, StatusFrame

\* Only a claim leads a deal to its display ...
LEMMA ShownFrame ==
    ASSUME TypeInv, [Next]_vars, NEW d \in Deals, ~overrun'[d],
           status'[d] \in {"PUBLISHED", "COMPLETED"}, status[d] \notin {"PUBLISHED", "COMPLETED"}
    PROVE  ClaimOne(d)
  <1>1. status'[d] = "PUBLISHED" /\ status[d] # "PUBLISHED"
    BY StatusMove, StatusSets DEF StatusMoves
  <1> QED
    BY <1>1, PublishedFrame

\* ... and only a claim taken back leads it from there into the negotiation.
LEMMA LeftFrame ==
    ASSUME TypeInv, [Next]_vars, NEW d \in Deals, ~overrun'[d],
           status[d] \in {"PUBLISHED", "COMPLETED"} \union Refundable
    PROVE  \/ status'[d] \in {"PUBLISHED", "COMPLETED"} \union Refundable
           \/ RevertClaim /\ publisher.deal = d
  <1>0. status \in [Deals -> Statuses] /\ overrun \in [Deals -> BOOLEAN]
    BY DEF TypeInv, TypeOK, RowsType, HistoryType
  <1>1. \/ status'[d] \in {"PUBLISHED", "COMPLETED"} \union Refundable
        \/ status[d] = "PUBLISHED" /\ status'[d] = "AWAITING_PUBLICATION"
    BY StatusMove, StatusSets DEF StatusMoves
  <1>2. ASSUME NEW r \in Requests, ApproveDealData(r), request[r].deal = d PROVE status[d] # "PUBLISHED"
    <2>1. SetStatus(d, "AWAITING_PUBLICATION", {"AWAITING_APPROVAL_TIME"})
      BY <1>2, AllowedSets DEF ApproveDealData
    <2> QED
      BY <1>0, <2>1, SetStatusSound
  <1> QED
    BY <1>1, <1>2, AwaitingFrame

\* What a step makes of the places of a deal: a claim brings it into one, a claim
\* taken back and a post that failed out of all, a fault may.
PlacesMove(d) ==
    /\ Placed(d)'
    /\ Handled(d)' => (Handled(d) /\ ~(RevertClaim /\ publisher.deal = d)) \/ ClaimOne(d)
    /\ Handled(d) => Handled(d)' \/ faults' # 0 \/ status'[d] \notin {"PUBLISHED", "COMPLETED"}

LEMMA PlacesMovePublisher ==
    ASSUME TypeInv, NEW d \in Deals, ~overrun'[d], Claimed(d),
           \/ \E x \in Deals : ClaimOne(x)
           \/ SendAutoPost \/ RevertClaim \/ PublisherFails
    PROVE  PlacesMove(d)
  <1>0. /\ status \in [Deals -> Statuses] /\ overrun \in [Deals -> BOOLEAN]
        /\ publisher \in PublisherType /\ autopost \in Seq(Deals) /\ faults \in Nat
        /\ publisher.phase \in {"mark", "send"} <=> publisher.deal \in Deals
    BY DEF TypeInv, TypeOK, RowsType, HistoryType, LoopsType, InFlight
  <1> USE DEF Placed, Sending, Queued, Handled
  <1>1. ASSUME NEW x \in Deals, ClaimOne(x) PROVE PlacesMove(d)
    <2>1. UNCHANGED <<bot, autopost, posted>> /\ publisher.phase = "publish"
      BY <1>1 DEF ClaimOne, botside, world
    <2>2. Sending(d)' <=> d = x
      BY <1>0, <1>1 DEF ClaimOne, PublisherType
    <2>3. ASSUME d = x PROVE ~Handled(d)
      <3>1. SetStatus(d, "PUBLISHED", {"AWAITING_PUBLICATION"})
        BY <1>1, <2>3 DEF ClaimOne
      <3>2. status[d] = "AWAITING_PUBLICATION"
        BY <1>0, <3>1, SetStatusSound
      <3> QED
        BY <3>2, StatusSets DEF Claimed
    <2>4. ~RevertClaim
      BY <2>1 DEF RevertClaim
    <2> HIDE DEF Sending
    <2>5. ~Sending(d)
      BY <2>1 DEF Sending
    <2> QED
      BY <1>1, <2>1, <2>2, <2>3, <2>4, <2>5 DEF PlacesMove, Claimed
  <1>2. CASE SendAutoPost
    <2>1. /\ publisher.phase = "send" /\ publisher.deal \in Deals
          /\ autopost' = Append(autopost, publisher.deal)
          /\ UNCHANGED <<bot, posted>>
          /\ publisher'.phase = "publish"
      BY <1>0, <1>2 DEF SendAutoPost, SendAutoPostToFullChannel, Sent, PublisherType, world
    <2>2. /\ Len(autopost') = Len(autopost) + 1
          /\ \A i \in 1..Len(autopost) : autopost'[i] = autopost[i]
          /\ autopost'[Len(autopost) + 1] = publisher.deal
      BY <1>0, <2>1
    <2>3. ~RevertClaim
      BY <1>0, <1>2 DEF RevertClaim, SendAutoPost
    <2>4. Queued(d)' <=> Queued(d) \/ Sending(d)
      BY <1>0, <2>1, <2>2
    <2>5. \A i, j \in 1..Len(autopost') : autopost'[i] = d /\ autopost'[j] = d => i = j
      BY <1>0, <2>1, <2>2 DEF Claimed
    <2> QED
      BY <2>1, <2>3, <2>4, <2>5 DEF PlacesMove, Claimed
  <1>3. CASE RevertClaim
    <2>1. /\ publisher.phase = "send" /\ publisher.deal \in Deals
          /\ UNCHANGED <<bot, autopost, posted>>
          /\ publisher'.phase = "publish"
          /\ SetStatus(publisher.deal, "AWAITING_PUBLICATION", {"PUBLISHED"})
      BY <1>0, <1>3 DEF RevertClaim, Sent, PublisherType, botside, world
    <2>2. Sending(d) => status'[d] = "AWAITING_PUBLICATION"
      BY <1>0, <2>1, SetStatusSound
    <2> QED
      BY <2>1, <2>2 DEF PlacesMove, Claimed
  <1>4. CASE PublisherFails
    <2>1. /\ UNCHANGED <<bot, autopost, posted>> /\ faults' = faults + 1
          /\ Sending(d)' => Sending(d)
      BY <1>0, <1>4 DEF PublisherFails, Sent, PublisherType, botside, world, Fault
    <2>2. ~RevertClaim
      BY <1>0, <2>1 DEF RevertClaim, mishaps
    <2> HIDE DEF Sending
    <2> QED
      BY <1>0, <2>1, <2>2 DEF PlacesMove, Claimed
  <1> QED
    BY <1>1, <1>2, <1>3, <1>4

LEMMA PlacesMoveBot ==
    ASSUME TypeInv, bot.sent => bot.deal \in Deals, NEW d \in Deals, ~overrun'[d], Claimed(d),
           BotStep \/ BotFails
    PROVE  PlacesMove(d)
  <1>0. /\ status \in [Deals -> Statuses] /\ overrun \in [Deals -> BOOLEAN]
        /\ bot \in BotType /\ autopost \in Seq(Deals) /\ faults \in Nat
        /\ posted \in [Deals -> BOOLEAN]
    BY DEF TypeInv, TypeOK, RowsType, HistoryType, LoopsType
  <1>a. IdleBot.deal = NoDeal /\ ~IdleBot.sent /\ NoDeal \notin Deals
    BY EscrowAssumption DEF IdleBot
  <1>b. UNCHANGED publisher /\ ~RevertClaim /\ Sending(d)' = Sending(d)
    <2>1. BotStep \/ BotFails => UNCHANGED publisher
      BY DEF BotStep, BotTakes, BotGivesUp, BotPosts, BotRecords, BotFails
    <2>2. RevertClaim => publisher'.phase = "publish" /\ publisher.phase = "send"
      BY DEF RevertClaim, Sent, TypeInv, TypeOK, LoopsType, PublisherType
    <2> QED
      BY <2>1, <2>2 DEF Sending
  <1> USE DEF Placed, Queued, Handled
  <1>1. CASE BotTakes
    <2>1. /\ Len(autopost) > 0 /\ bot.deal = NoDeal
          /\ bot'.deal = autopost[1] /\ ~bot'.sent
          /\ UNCHANGED posted
          /\ Len(autopost') = Len(autopost) - 1
          /\ \A i \in 1..Len(autopost') : autopost'[i] = autopost[i + 1]
      BY <1>0, <1>1, <1>a DEF BotTakes, world
    <2>2. Queued(d) <=> Queued(d)' \/ bot'.deal = d
      <3>1. ASSUME NEW i \in 1..Len(autopost), autopost[i] = d, i # 1 PROVE Queued(d)'
        <4>1. i - 1 \in 1..Len(autopost') /\ autopost'[i - 1] = d
          BY <1>0, <2>1, <3>1
        <4> QED
          BY <4>1
      <3>2. ASSUME NEW i \in 1..Len(autopost'), autopost'[i] = d PROVE Queued(d)
        <4>1. i + 1 \in 1..Len(autopost) /\ autopost[i + 1] = d
          BY <1>0, <2>1, <3>2
        <4> QED
          BY <4>1
      <3> QED
        BY <1>0, <2>1, <3>1, <3>2
    <2>3. ~(Queued(d)' /\ bot'.deal = d)
      BY <1>0, <2>1 DEF Claimed
    <2>4. \A i, j \in 1..Len(autopost') : autopost'[i] = d /\ autopost'[j] = d => i = j
      BY <1>0, <2>1 DEF Claimed
    <2> QED
      BY <1>a, <1>b, <2>1, <2>2, <2>3, <2>4 DEF PlacesMove, Claimed
  <1>2. CASE BotPosts
    <2>1. /\ bot.deal # NoDeal /\ ~bot.sent /\ bot'.deal = bot.deal /\ bot'.sent
          /\ posted' = [posted EXCEPT ![bot.deal] = TRUE]
          /\ UNCHANGED autopost
      BY <1>0, <1>2 DEF BotPosts, BotType
    <2>2. posted'[d] <=> posted[d] \/ bot.deal = d
      BY <1>0, <2>1
    <2> QED
      BY <1>b, <2>1, <2>2 DEF PlacesMove, Claimed
  <1>3. CASE BotRecords
    <2>1. bot.sent /\ bot' = IdleBot /\ UNCHANGED <<autopost, posted>>
      BY <1>3 DEF BotRecords, world
    <2> QED
      BY <1>a, <1>b, <2>1 DEF PlacesMove, Claimed
  <1>4. ASSUME NEW err \in ErrStatuses, BotGivesUp(err) PROVE PlacesMove(d)
    <2>1. ~bot.sent /\ bot' = IdleBot /\ UNCHANGED <<autopost, posted>>
          /\ SetStatus(bot.deal, err, {"PUBLISHED"})
      BY <1>4 DEF BotGivesUp, world
    <2>2. bot.deal = d => status'[d] \notin {"PUBLISHED", "COMPLETED"}
      BY <1>0, <2>1, SetStatusSound, StatusSets
    <2> QED
      BY <1>a, <1>b, <2>1, <2>2 DEF PlacesMove, Claimed
  <1>5. CASE BotFails
    <2>1. bot' = IdleBot /\ UNCHANGED <<autopost, posted>> /\ faults' = faults + 1
      BY <1>5 DEF BotFails, world, Fault
    <2> QED
      BY <1>0, <1>a, <1>b, <2>1 DEF PlacesMove, Claimed
  <1> QED
    BY <1>1, <1>2, <1>3, <1>4, <1>5 DEF BotStep

LEMMA PlacesMoveRest ==
    ASSUME TypeInv, [Next]_vars, NEW d \in Deals, ~overrun'[d], Claimed(d),
           ~(\E x \in Deals : ClaimOne(x)),
           ~SendAutoPost, ~RevertClaim, ~PublisherFails, ~BotStep, ~BotFails
    PROVE  PlacesMove(d)
  <1>1. CASE Crash
    <2>0. posted \in [Deals -> BOOLEAN] /\ faults \in Nat
      BY DEF TypeInv, TypeOK, HistoryType
    <2>1. /\ publisher'.phase = "idle" /\ bot'.deal = NoDeal /\ autopost' = <<>>
          /\ UNCHANGED posted /\ faults' = faults + 1
      BY <1>1 DEF Crash, IdlePublisher, IdleBot, world, Fault
    <2>2. ~Sending(d)' /\ ~Queued(d)' /\ bot'.deal # d
      BY <2>1, EscrowAssumption DEF Sending, Queued
    <2>3. Len(autopost') = 0
      BY <2>1
    <2> HIDE DEF Sending, Queued
    <2> QED
      BY <2>0, <2>1, <2>2, <2>3 DEF PlacesMove, Placed, Handled, Claimed
  <1>2. CASE ~Crash
    <2>1. UNCHANGED <<bot, autopost, posted>>
      BY <1>2, ClaimsFrame
    <2>2. Sending(d)' = Sending(d)
      BY <1>2, SendingFrame
    <2>3. Queued(d)' = Queued(d)
      BY <2>1 DEF Queued
    <2> HIDE DEF Sending, Queued
    <2> QED
      BY <2>1, <2>2, <2>3 DEF PlacesMove, Placed, Handled, Claimed
  <1> QED
    BY <1>1, <1>2

LEMMA ClaimedStep == TypeInv /\ ClaimedInv /\ [Next]_vars => ClaimedInv'
  <1> SUFFICES ASSUME TypeInv, ClaimedInv, [Next]_vars PROVE ClaimedInv'
    OBVIOUS
  <1>1. bot'.sent => bot'.deal \in Deals
    <2>0. bot \in BotType /\ autopost \in Seq(Deals)
      BY DEF TypeInv, TypeOK, LoopsType
    <2>1. BotTakes => ~bot'.sent
      BY DEF BotTakes
    <2>2. BotPosts => bot'.deal \in Deals
      BY <2>0 DEF BotPosts, BotType
    <2>3. bot' = IdleBot \/ Crash => ~bot'.sent
      BY DEF IdleBot, Crash
    <2>4. UNCHANGED bot => bot'.sent = bot.sent /\ bot'.deal = bot.deal
      OBVIOUS
    <2> QED
      BY <2>1, <2>2, <2>3, <2>4, BotFrame DEF ClaimedInv
  <1>2. ASSUME NEW d \in Deals, ~overrun'[d] PROVE Claimed(d)'
    <2>1. ~overrun[d] /\ Claimed(d) /\ (bot.sent => bot.deal \in Deals)
      BY <1>2, StatusMove DEF ClaimedInv
    <2>2. PlacesMove(d)
      BY <1>2, <2>1, PlacesMovePublisher, PlacesMoveBot, PlacesMoveRest
    <2>3. faults' = 0 => faults = 0
      BY FaultsFrame DEF Fault, TypeInv, TypeOK, HistoryType
    <2>4. ClaimOne(d) => status'[d] = "PUBLISHED"
      <3>1. ClaimOne(d) => SetStatus(d, "PUBLISHED", {"AWAITING_PUBLICATION"})
        BY DEF ClaimOne
      <3> QED
        BY <3>1, SetStatusOne DEF TypeInv, TypeOK, RowsType
    <2>5. ClaimOne(d) => Handled(d)'
      BY DEF ClaimOne, Handled, Sending, TypeInv, TypeOK, LoopsType, PublisherType
    <2> HIDE DEF Handled, Placed
    <2>6. Handled(d)' => status'[d] \in {"PUBLISHED", "COMPLETED"} \union Refundable
      BY <1>2, <2>1, <2>2, <2>4, LeftFrame DEF PlacesMove, Claimed
    <2>7. faults' = 0 /\ status'[d] \in {"PUBLISHED", "COMPLETED"} => Handled(d)'
      BY <1>2, <2>1, <2>2, <2>3, <2>5, ShownFrame DEF PlacesMove, Claimed
    <2> QED
      BY <2>2, <2>6, <2>7 DEF Claimed, PlacesMove
  <1> QED
    BY <1>1, <1>2 DEF ClaimedInv

\* At most one of the places of Claims holds a deal that is in its places.
LEMMA ClaimsOfOne ==
    ASSUME TypeInv, bot.sent => bot.deal \in Deals, NEW d \in Deals, Placed(d)
    PROVE  /\ \A i, j \in DOMAIN Claims : Claims[i] = d /\ Claims[j] = d => i = j
           /\ (\E i \in DOMAIN Claims : Claims[i] = d)
                 <=> Sending(d) \/ Queued(d) \/ (bot.deal = d /\ ~bot.sent)
  <1> DEFINE first == IF bot.deal # NoDeal /\ ~bot.sent THEN <<bot.deal>> ELSE <<>>
             last == IF publisher.phase = "send" THEN <<publisher.deal>> ELSE <<>>
             n == Len(first)
             m == Len(autopost)
  <1>0. /\ bot \in BotType /\ publisher \in PublisherType /\ autopost \in Seq(Deals)
        /\ publisher.phase \in {"mark", "send"} <=> publisher.deal \in Deals
        /\ NoDeal \notin Deals
    BY EscrowAssumption DEF TypeInv, TypeOK, LoopsType, InFlight
  <1>1. first \in Seq(Deals) /\ last \in Seq(Deals)
    BY <1>0 DEF BotType, PublisherType
  <1>2. /\ n \in {0, 1} /\ Len(last) \in {0, 1} /\ m \in Nat
        /\ n = 1 <=> bot.deal # NoDeal /\ ~bot.sent
        /\ n = 1 => first[1] = bot.deal
        /\ Len(last) = 1 <=> publisher.phase = "send"
        /\ Len(last) = 1 => last[1] = publisher.deal
    BY <1>0
  <1>3. /\ DOMAIN Claims = 1..(n + m + Len(last))
        /\ \A i \in 1..(n + m + Len(last)) :
              Claims[i] = IF i <= n THEN first[i]
                          ELSE IF i <= n + m THEN autopost[i - n] ELSE last[i - n - m]
    <2>1. Claims = first \o autopost \o last
      BY DEF Claims
    <2> HIDE DEF first, last
    <2> QED
      BY <1>0, <1>1, <2>1
  <1> HIDE DEF first, last
  <1>4. ASSUME NEW i \in DOMAIN Claims, Claims[i] = d
        PROVE  \/ i = 1 /\ n = 1 /\ bot.deal = d /\ ~bot.sent
               \/ i - n \in 1..m /\ autopost[i - n] = d
               \/ i = n + m + 1 /\ Sending(d)
    BY <1>2, <1>3, <1>4 DEF Sending
  <1>5. Sending(d) => \E i \in DOMAIN Claims : Claims[i] = d
    <2> SUFFICES ASSUME Sending(d) PROVE n + m + 1 \in DOMAIN Claims /\ Claims[n + m + 1] = d
      OBVIOUS
    <2>1. Len(last) = 1 /\ last[1] = d
      BY <1>2 DEF Sending
    <2>2. PICK k \in Nat : k = n + m + 1
      BY <1>2
    <2>3. /\ k \in 1..(n + m + Len(last)) /\ ~(k <= n) /\ ~(k <= n + m)
          /\ k - n - m = 1
      BY <1>2, <2>1, <2>2
    <2>4. k \in DOMAIN Claims /\ Claims[k] = last[k - n - m]
      BY <1>3, <2>3
    <2>5. last[k - n - m] = d
      BY <2>1, <2>3
    <2> QED
      BY <2>2, <2>4, <2>5
  <1>6. bot.deal = d /\ ~bot.sent => \E i \in DOMAIN Claims : Claims[i] = d
    <2> SUFFICES ASSUME bot.deal = d, ~bot.sent PROVE 1 \in DOMAIN Claims /\ Claims[1] = d
      OBVIOUS
    <2> QED
      BY <1>0, <1>2, <1>3
  <1>7. Queued(d) => \E i \in DOMAIN Claims : Claims[i] = d
    <2> SUFFICES ASSUME NEW k \in 1..m, autopost[k] = d
                 PROVE  n + k \in DOMAIN Claims /\ Claims[n + k] = d
      BY DEF Queued
    <2> QED
      BY <1>2, <1>3
  <1>8. ASSUME NEW i \in DOMAIN Claims, NEW j \in DOMAIN Claims, Claims[i] = d, Claims[j] = d
        PROVE  i = j
    <2>1. i - n \in 1..m /\ autopost[i - n] = d => Queued(d)
      BY DEF Queued
    <2>2. j - n \in 1..m /\ autopost[j - n] = d => Queued(d)
      BY DEF Queued
    <2>3. i \in Int /\ j \in Int /\ n \in Int
      BY <1>2, <1>3
    <2> QED
      BY <1>2, <1>4, <1>8, <2>1, <2>2, <2>3 DEF Placed
  <1>9. ASSUME NEW i \in DOMAIN Claims, Claims[i] = d
        PROVE  Sending(d) \/ Queued(d) \/ (bot.deal = d /\ ~bot.sent)
    <2>1. i - n \in 1..m /\ autopost[i - n] = d => Queued(d)
      BY DEF Queued
    <2> QED
      BY <1>4, <1>9, <2>1
  <1> QED
    BY <1>5, <1>6, <1>7, <1>8, <1>9

(* A deal is posted once, whatever fails, and without a fault every deal that *)
(* counts as displayed was posted or will be: unless a stale write lands on   *)
(* it, a claim is in one place at a time from the moment the row says         *)
(* PUBLISHED, for any capacity of the channel between publisher and bot.      *)
THEOREM PostsAreMadeOnce == Spec => []PostedOnce
  <1>1. Init => ClaimedInv
    <2> SUFFICES ASSUME Init PROVE ClaimedInv
      OBVIOUS
    <2>1. /\ \A d \in Deals : status[d] = "NONE" /\ ~posted[d]
          /\ publisher.phase = "idle" /\ autopost = <<>> /\ bot.deal = NoDeal /\ ~bot.sent
      BY DEF Init, IdlePublisher, IdleBot
    <2> QED
      BY <2>1, EscrowAssumption DEF ClaimedInv, Claimed, Placed, Handled, Sending, Queued
  <1>2. TypeInv /\ ClaimedInv => PostedOnce
    <2> SUFFICES ASSUME TypeInv, ClaimedInv, NEW d \in Deals, ~overrun[d]
                 PROVE  LET waiting == {i \in DOMAIN Claims : Claims[i] = d} IN
                        /\ Cardinality(waiting) + (IF posted[d] THEN 1 ELSE 0) <= 1
                        /\ faults = 0 /\ status[d] \in {"PUBLISHED", "COMPLETED"}
                              => posted[d] \/ waiting # {}
      BY DEF PostedOnce
    <2> DEFINE waiting == {i \in DOMAIN Claims : Claims[i] = d}
    <2>1. Claimed(d) /\ (bot.sent => bot.deal \in Deals)
      BY DEF ClaimedInv
    <2>2. /\ \A i, j \in waiting : i = j
          /\ waiting # {} <=> Sending(d) \/ Queued(d) \/ (bot.deal = d /\ ~bot.sent)
      BY <2>1, ClaimsOfOne DEF Claimed
    <2>3. Cardinality(waiting) = IF waiting = {} THEN 0 ELSE 1
      <3>1. CASE waiting = {}
        BY <3>1, FS_EmptySet
      <3>2. ASSUME NEW i \in waiting PROVE Cardinality(waiting) = 1
        <4>1. waiting = {i}
          BY <2>2
        <4> QED
          BY <4>1, FS_Singleton
      <3> QED
        BY <3>1, <3>2
    <2>4. waiting # {} => ~posted[d]
      BY <2>1, <2>2 DEF Claimed, Placed
    <2>5. Handled(d) => posted[d] \/ waiting # {}
      BY <2>1, <2>2 DEF Claimed, Placed, Handled
    <2>6. posted[d] \in BOOLEAN
      BY DEF TypeInv, TypeOK
    <2>7. faults = 0 /\ status[d] \in {"PUBLISHED", "COMPLETED"} => posted[d] \/ waiting # {}
      BY <2>1, <2>5 DEF Claimed
    <2>8. Cardinality(waiting) + (IF posted[d] THEN 1 ELSE 0) <= 1
      <3> HIDE DEF waiting
      <3>1. CASE waiting = {}
        BY <2>3, <2>6, <3>1
      <3>2. CASE waiting # {}
        BY <2>3, <2>4, <3>2
      <3> QED
        BY <3>1, <3>2
    <2> QED
      BY <2>7, <2>8
  <1> QED
    BY <1>1, <1>2, ClaimedStep, TypeInvariant, PTL DEF Spec
=============================================================================
