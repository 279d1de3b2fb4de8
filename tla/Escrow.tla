------------------------------- MODULE Escrow -------------------------------
(***************************************************************************)
(* The escrow of the advertising marketplace: the deals, the money held    *)
(* for them, and every concurrent actor that changes either.               *)
(*                                                                         *)
(*   requests   HTTP handlers, one goroutine each.  The middleware loads   *)
(*              the deal, the handler checks that copy and then writes the *)
(*              row unconditionally: check and write are separate steps.   *)
(*   publisher  the 30 s loop: expire, complete (pay), publish (claim).    *)
(*   refunder   the 15 s loop: unlock the money, then set the flag.        *)
(*   bot        the consumer of the in-memory AutoPost channel.            *)
(*   monitor    the 15 s loop that looks at published posts.               *)
(*   kicked, foreign   the Telegram update handlers "the bot was removed"  *)
(*              and "somebody posted in the channel".                      *)
(*                                                                         *)
(* Time is a clock of whole ticks, the row timestamps are readings of it.  *)
(* A crash loses everything that is not in the database.                   *)
(***************************************************************************)
EXTENDS Ledger, Totals, Sequences

CONSTANTS
    Deals,           \* rows of the deals table
    Channels,        \* Telegram channels
    Requests,        \* how many HTTP requests can be in flight together
    Advertiser,      \* [Deals -> Customers]
    Manager,         \* [Deals -> Customers]
    ChannelOf,       \* [Deals -> Channels]
    Price,           \* [Deals -> Nat \ {0}], ton_price
    InitialBalance,  \* [Customers -> Nat]
    Lifetime,        \* 24 h: DRAFT, PENDING, AWAITING_APPROVAL_TIME, a claim
    Lead,            \* a publication time is at least this far ahead (1 h)
    Horizon,         \* bound: how far ahead a manager proposes to publish
    TopHours,        \* exclusive time at the top of the channel
    CommonHours,     \* time until the post may be deleted
    AutoPostCap,     \* capacity of the AutoPost channel (100 in the code)
    MaxTime,         \* bound: the clock stops here
    MaxFaults,       \* bound: crashes and failed database updates
    MaxWatchers,     \* bound: how many of monitor, kicked, foreign work at once
    NoDeal           \* no deal

ASSUME EscrowAssumption ==
    /\ NoDeal \notin Deals
    /\ Advertiser \in [Deals -> Customers]
    /\ Manager \in [Deals -> Customers]
    /\ ChannelOf \in [Deals -> Channels]
    /\ Price \in [Deals -> Nat \ {0}]
    /\ InitialBalance \in [Customers -> Nat]
    /\ {Lifetime, Lead, TopHours, CommonHours, AutoPostCap} \subseteq Nat \ {0}
    /\ {Horizon, MaxTime, MaxFaults, MaxWatchers} \subseteq Nat
    /\ Lead <= Horizon
    /\ IsFiniteSet(Requests) /\ IsFiniteSet(Deals)

VARIABLES
    \* the deals table
    status, expires_at, publication_time, top_deadline, common_deadline,
    balance_refunded,
    channel_post_ids,  \* TRUE: the ids of the published messages are stored
    \* the world
    now, posted,       \* posted: the post of the deal is in the channel
    \* the process, lost in a crash
    request, publisher, refunder, bot, autopost, monitor, kicked, foreign,
    \* history, read by no action
    locks, refunds, payouts,  \* how often the money of a deal was moved
    overrun,  \* a status write landed though its own check no longer held
    misdated, \* an approval landed on another publication time than it had read
    torn,     \* a fault cut a money movement from the row update it belongs to
    faults

schedule == <<expires_at, publication_time, top_deadline, common_deadline>>
rows == <<status, schedule, balance_refunded, channel_post_ids>>
watchers == <<monitor, kicked, foreign>>
botside == <<bot, autopost, watchers>>
loops == <<publisher, refunder, botside>>
world == <<now, posted>>
counts == <<locks, refunds, payouts>>
mishaps == <<torn, misdated, faults>>
history == <<counts, overrun, mishaps>>
vars == <<ledger, rows, world, request, loops, history>>
-----------------------------------------------------------------------------
(* Statuses.  NONE is a deal that was not offered yet; DISCUSSION and        *)
(* AWAITING_APPROVAL exist in the enum but no routed handler sets them.      *)
Negotiating == {"PENDING", "IN_PROGRESS", "AWAITING_APPROVAL_TIME", "AWAITING_PUBLICATION"}
Running == Negotiating \union {"PUBLISHED"}
ErrStatuses == {"ERR_PUBLISH", "ERR_BAD_TARGET"}
Refundable == {"CANCELED", "EXPIRED", "TERMS_VIOLATED"} \union ErrStatuses
Statuses == {"NONE", "DRAFT", "COMPLETED"} \union Running \union Refundable

ActiveOrCompleted == {"DRAFT", "COMPLETED"} \union Running

\* The statuses excluded by GetDealsByChannelExcludingStatuses are the others.
Active == {"DRAFT"} \union Running

\* GetExpiredDeals: every status but PUBLISHED and four final ones.
ExpirableStatuses == {"DRAFT"} \union Negotiating \union ErrStatuses

(* What the handlers check on the copy of the deal the middleware loaded. *)
Ops == {"make", "cancel", "accept", "propose", "approve", "decline"}
Allowed ==
    [op \in Ops |->
        CASE op = "make"    -> {"DRAFT"}
          [] op = "cancel"  -> {"DRAFT"} \union Negotiating
          [] op = "accept"  -> {"PENDING"}
          [] op = "propose" -> {"IN_PROGRESS"}
          [] OTHER          -> {"AWAITING_APPROVAL_TIME"}]

\* time is what the handler computed or loaded before it writes: the new expiry
\* for make, the publication time of the loaded copy for approve.
NoRequest == [op |-> "none", deal |-> NoDeal, locked |-> FALSE, time |-> 0]
RequestType ==
    [op : Ops \union {"none"}, deal : Deals \union {NoDeal}, locked : BOOLEAN, time : Nat]

Phases == {"idle", "expire", "complete", "mark", "publish", "send"}
PublisherType ==
    [phase : Phases, todo : SUBSET Deals, deal : Deals \union {NoDeal}, at : Nat]
RefunderType == [todo : SUBSET Deals, deal : Deals \union {NoDeal}]
BotType == [deal : Deals \union {NoDeal}, sent : BOOLEAN]

IdlePublisher == [phase |-> "idle", todo |-> {}, deal |-> NoDeal, at |-> 0]
IdleRefunder == [todo |-> {}, deal |-> NoDeal]
IdleBot == [deal |-> NoDeal, sent |-> FALSE]

\* Requests whose advertiser's money is locked and whose row is not written.
Locking(d) == {r \in Requests : request[r].deal = d /\ request[r].locked}

\* A lock in the hands of a request is not landed yet: no row speaks of it.
Landed(d) == locks[d] - Cardinality(Locking(d))

\* The transfer is committed and the row is not COMPLETED yet.
Paying(d) == publisher.phase = "mark" /\ publisher.deal = d

Init ==
    /\ ton_balance = InitialBalance
    /\ ton_balance_locked = [c \in Customers |-> 0]
    /\ status = [d \in Deals |-> "NONE"]
    /\ expires_at = [d \in Deals |-> 0]
    /\ publication_time = [d \in Deals |-> 0]
    /\ top_deadline = [d \in Deals |-> 0]
    /\ common_deadline = [d \in Deals |-> 0]
    /\ balance_refunded = [d \in Deals |-> FALSE]
    /\ channel_post_ids = [d \in Deals |-> FALSE]
    /\ now = 0
    /\ posted = [d \in Deals |-> FALSE]
    /\ request = [r \in Requests |-> NoRequest]
    /\ publisher = IdlePublisher
    /\ refunder = IdleRefunder
    /\ bot = IdleBot
    /\ autopost = <<>>
    /\ monitor = {} /\ kicked = {} /\ foreign = {}
    /\ locks = [d \in Deals |-> 0]
    /\ refunds = [d \in Deals |-> 0]
    /\ payouts = [d \in Deals |-> 0]
    /\ overrun = [d \in Deals |-> FALSE]
    /\ misdated = [d \in Deals |-> FALSE]
    /\ torn = [d \in Deals |-> FALSE]
    /\ faults = 0

(* UpdateDeal: UPDATE deals SET status WHERE id, whatever the status is now. *)
(* The history remembers whether the check of the writer would still pass.   *)
SetStatus(d, s, expected) ==
    /\ status' = [status EXCEPT ![d] = s]
    /\ overrun' = [overrun EXCEPT ![d] = @ \/ status[d] \notin expected]

Fault == faults < MaxFaults /\ faults' = faults + 1
-----------------------------------------------------------------------------
(* HTTP handlers *)

OfferDeal(d) ==
    /\ status[d] = "NONE"
    /\ status' = [status EXCEPT ![d] = "DRAFT"]
    /\ expires_at' = [expires_at EXCEPT ![d] = now + Lifetime]
    /\ UNCHANGED <<ledger, publication_time, top_deadline, common_deadline,
                   balance_refunded, channel_post_ids, world, request, loops, history>>

\* RequireDealParticipant loads the deal and the check of the handler passes; a
\* check that fails answers 400 and changes nothing.
Begin(r, op, d) ==
    /\ request[r] = NoRequest
    /\ status[d] \in Allowed[op]
    /\ request' = [request EXCEPT ![r] =
            [op |-> op, deal |-> d, locked |-> FALSE,
             time |-> IF op = "approve" THEN publication_time[d] ELSE 0]]
    /\ UNCHANGED <<ledger, rows, world, loops, history>>

Finish(r) == request' = [request EXCEPT ![r] = NoRequest]

\* MakeDeal, first half: the expiry is computed and the money is locked.
MakeLock(r) ==
    LET d == request[r].deal IN
    /\ request[r].op = "make" /\ ~request[r].locked
    /\ LockBalanceForDeal(Advertiser[d], Price[d])
    /\ locks' = [locks EXCEPT ![d] = @ + 1]
    /\ request' = [request EXCEPT ![r] = [@ EXCEPT !.locked = TRUE, !.time = now + Lifetime]]
    /\ UNCHANGED <<rows, world, loops, refunds, payouts, overrun, mishaps>>

\* MakeDeal: the advertiser has not enough money.
MakeReject(r) ==
    LET d == request[r].deal IN
    /\ request[r].op = "make" /\ ~request[r].locked
    /\ ~CanAfford(Advertiser[d], Price[d])
    /\ Finish(r)
    /\ UNCHANGED <<ledger, rows, world, loops, history>>

WritePending(r) ==
    LET d == request[r].deal IN
    /\ request[r].op = "make"
    /\ SetStatus(d, "PENDING", Allowed["make"])
    /\ expires_at' = [expires_at EXCEPT ![d] = request[r].time]
    /\ Finish(r)
    /\ UNCHANGED <<ledger, publication_time, top_deadline, common_deadline,
                   balance_refunded, channel_post_ids, world, loops, counts, mishaps>>

MakeWriteSkipsLock(r) == WritePending(r)

\* MakeDeal, second half: the row becomes PENDING.
MakeWrite(r) == request[r].locked /\ WritePending(r)

\* The handlers that only set the status: CancelDeal, AcceptDeal, DeclineDeal.
\* None of them touches expires_at.
WriteStatus(r, op, s) ==
    /\ request[r].op = op
    /\ SetStatus(request[r].deal, s, Allowed[op])
    /\ Finish(r)
    /\ UNCHANGED <<ledger, schedule, balance_refunded, channel_post_ids, world,
                   loops, counts, mishaps>>

CancelDeal(r) == WriteStatus(r, "cancel", "CANCELED")
AcceptDeal(r) == WriteStatus(r, "accept", "IN_PROGRESS")
DeclineDeal(r) == WriteStatus(r, "decline", "IN_PROGRESS")

\* ApproveAndProposeTime: the manager names a publication time.
ApproveAndProposeTime(r) ==
    LET d == request[r].deal IN
    /\ request[r].op = "propose"
    /\ SetStatus(d, "AWAITING_APPROVAL_TIME", Allowed["propose"])
    /\ \E t \in (now + Lead)..(now + Horizon) :
            publication_time' = [publication_time EXCEPT ![d] = t]
    /\ expires_at' = [expires_at EXCEPT ![d] = now + Lifetime]
    /\ Finish(r)
    /\ UNCHANGED <<ledger, top_deadline, common_deadline, balance_refunded,
                   channel_post_ids, world, loops, counts, mishaps>>

DeadlinesFromNow(r) ==
    LET d == request[r].deal IN
    /\ request[r].op = "approve"
    /\ SetStatus(d, "AWAITING_PUBLICATION", Allowed["approve"])
    /\ top_deadline' = [top_deadline EXCEPT ![d] = now + TopHours]
    /\ common_deadline' = [common_deadline EXCEPT ![d] = now + CommonHours]
    /\ Finish(r)
    /\ UNCHANGED <<ledger, expires_at, publication_time, balance_refunded,
                   channel_post_ids, world, loops, counts, mishaps>>

\* ApproveDealData: the deadlines come from the copy the middleware loaded, the
\* publication time that will be used is the one of the row; expires_at stays.
ApproveDealData(r) ==
    LET d == request[r].deal
        pub == request[r].time
    IN
    /\ request[r].op = "approve"
    /\ SetStatus(d, "AWAITING_PUBLICATION", Allowed["approve"])
    /\ top_deadline' = [top_deadline EXCEPT ![d] = pub + TopHours]
    /\ common_deadline' = [common_deadline EXCEPT ![d] = pub + CommonHours]
    /\ misdated' = [misdated EXCEPT ![d] = @ \/ publication_time[d] # pub]
    /\ Finish(r)
    /\ UNCHANGED <<ledger, expires_at, publication_time, balance_refunded,
                   channel_post_ids, world, loops, counts, torn, faults>>

\* The database call of a handler fails (the context of the request is cancelled
\* when its client goes away).  A lock that was taken is not given back.
RequestFails(r) ==
    LET d == request[r].deal IN
    /\ request[r] # NoRequest
    /\ Fault
    /\ torn' = [torn EXCEPT ![d] = @ \/ request[r].locked]
    /\ Finish(r)
    /\ UNCHANGED <<ledger, rows, world, loops, counts, overrun, misdated>>

HandlerStep(r) ==
    \/ \E op \in Ops, d \in Deals : Begin(r, op, d)
    \/ MakeLock(r) \/ MakeReject(r) \/ MakeWrite(r)
    \/ CancelDeal(r) \/ AcceptDeal(r) \/ DeclineDeal(r)
    \/ ApproveAndProposeTime(r) \/ ApproveDealData(r)
    \/ RequestFails(r)
-----------------------------------------------------------------------------
(* The publisher loop.  Each phase works through the list its query returned. *)

ExpiredUnlessAccepted(d) ==
    /\ expires_at[d] < now
    /\ status[d] \in ExpirableStatuses \ {"IN_PROGRESS"}

IsExpired(d) == expires_at[d] < now /\ status[d] \in ExpirableStatuses

CompleteStrictlyAfter(d) == status[d] = "PUBLISHED" /\ common_deadline[d] < now

NeedsToComplete(d) == status[d] = "PUBLISHED" /\ common_deadline[d] <= now

IsDue(d) == status[d] = "AWAITING_PUBLICATION" /\ publication_time[d] <= now

\* at: the clock as read once after the query of checkAndPublishDeals.
EnterPhase(phase, todo) ==
    /\ publisher' = [phase |-> phase, todo |-> todo, deal |-> NoDeal,
                     at |-> IF phase = "publish" THEN now ELSE 0]
    /\ UNCHANGED <<ledger, rows, world, request, refunder, botside, history>>

PublisherTick ==
    publisher.phase = "idle" /\ EnterPhase("expire", {d \in Deals : IsExpired(d)})

StartComplete ==
    /\ publisher.phase = "expire" /\ publisher.todo = {}
    /\ EnterPhase("complete", {d \in Deals : NeedsToComplete(d)})

StartPublish ==
    /\ publisher.phase = "complete" /\ publisher.todo = {}
    /\ EnterPhase("publish", {d \in Deals : IsDue(d)})

PublisherRests ==
    publisher.phase = "publish" /\ publisher.todo = {} /\ EnterPhase("idle", {})

\* checkAndExpireDeals, one deal of the list.
ExpireOne(d) ==
    /\ publisher.phase = "expire" /\ d \in publisher.todo
    /\ SetStatus(d, "EXPIRED", ExpirableStatuses)
    /\ publisher' = [publisher EXCEPT !.todo = @ \ {d}]
    /\ UNCHANGED <<ledger, schedule, balance_refunded, channel_post_ids, world, request,
                   refunder, botside, counts, mishaps>>

\* checkAndCompletePublishedDeals, one deal: the transfer commits first ...
PayOne(d) ==
    /\ publisher.phase = "complete" /\ d \in publisher.todo
    /\ TransferBalanceToManagerForDeal(Advertiser[d], Manager[d], Price[d])
    /\ payouts' = [payouts EXCEPT ![d] = @ + 1]
    /\ publisher' = [publisher EXCEPT !.phase = "mark", !.todo = @ \ {d}, !.deal = d]
    /\ UNCHANGED <<rows, world, request, refunder, botside, locks, refunds, overrun, mishaps>>

\* ... and the row becomes COMPLETED in a statement of its own.
MarkCompleted ==
    /\ publisher.phase = "mark"
    /\ SetStatus(publisher.deal, "COMPLETED", {"PUBLISHED"})
    /\ publisher' = [publisher EXCEPT !.phase = "complete", !.deal = NoDeal]
    /\ UNCHANGED <<ledger, schedule, balance_refunded, channel_post_ids, world, request,
                   refunder, botside, counts, mishaps>>

PublishUnclaimed(d) ==
    /\ publisher.phase = "publish" /\ d \in publisher.todo
    /\ publisher' = [publisher EXCEPT !.phase = "send", !.todo = @ \ {d}, !.deal = d]
    /\ UNCHANGED <<ledger, rows, world, request, refunder, botside, history>>

\* checkAndPublishDeals, one deal: it is claimed as PUBLISHED before it is posted.
ClaimOne(d) ==
    /\ publisher.phase = "publish" /\ d \in publisher.todo
    /\ SetStatus(d, "PUBLISHED", {"AWAITING_PUBLICATION"})
    /\ expires_at' = [expires_at EXCEPT ![d] = publisher.at + Lifetime]
    /\ publisher' = [publisher EXCEPT !.phase = "send", !.todo = @ \ {d}, !.deal = d]
    /\ UNCHANGED <<ledger, publication_time, top_deadline, common_deadline, balance_refunded,
                   channel_post_ids, world, request, refunder, botside, counts, mishaps>>

Sent == [publisher EXCEPT !.phase = "publish", !.deal = NoDeal]

SendAutoPostToFullChannel ==
    /\ publisher.phase = "send"
    /\ autopost' = Append(autopost, publisher.deal)
    /\ publisher' = Sent
    /\ UNCHANGED <<ledger, rows, world, request, refunder, bot, watchers, history>>

\* The non-blocking send.
SendAutoPost ==
    Len(autopost) < AutoPostCap /\ SendAutoPostToFullChannel

\* The channel is full: the claim is taken back.
RevertClaim ==
    /\ publisher.phase = "send" /\ Len(autopost) = AutoPostCap
    /\ SetStatus(publisher.deal, "AWAITING_PUBLICATION", {"PUBLISHED"})
    /\ publisher' = Sent
    /\ UNCHANGED <<ledger, schedule, balance_refunded, channel_post_ids, world, request,
                   refunder, botside, counts, mishaps>>

\* A statement of the publisher fails: the deal is left to the next tick.  After
\* a transfer that leaves the deal paid and not COMPLETED; when a claim cannot be
\* taken back the deal stays PUBLISHED.
PublisherFails ==
    /\ Fault
    /\ \/ /\ publisher.phase \in {"expire", "complete", "publish"}
          /\ \E d \in publisher.todo : publisher' = [publisher EXCEPT !.todo = @ \ {d}]
          /\ UNCHANGED torn
       \/ /\ publisher.phase = "mark"
          /\ publisher' = [publisher EXCEPT !.phase = "complete", !.deal = NoDeal]
          /\ torn' = [torn EXCEPT ![publisher.deal] = TRUE]
       \/ /\ publisher.phase = "send" /\ Len(autopost) = AutoPostCap
          /\ publisher' = Sent
          /\ UNCHANGED torn
    /\ UNCHANGED <<ledger, rows, world, request, refunder, botside, counts, overrun, misdated>>

PublisherStep ==
    \/ PublisherTick \/ StartComplete \/ StartPublish \/ PublisherRests
    \/ \E d \in Deals : ExpireOne(d) \/ PayOne(d) \/ ClaimOne(d)
    \/ MarkCompleted \/ SendAutoPost \/ RevertClaim
-----------------------------------------------------------------------------
(* The refunder loop. *)

RefundAnyTerminal(d) == status[d] \in Refundable

RefundOnlyWithdrawn(d) == status[d] \in Refundable \ ErrStatuses /\ ~balance_refunded[d]

ForRefund(d) == status[d] \in Refundable /\ ~balance_refunded[d]

RefunderTick ==
    /\ refunder = IdleRefunder
    /\ \E d \in Deals : ForRefund(d)
    /\ refunder' = [refunder EXCEPT !.todo = {d \in Deals : ForRefund(d)}]
    /\ UNCHANGED <<ledger, rows, world, request, publisher, botside, history>>

\* The money goes back to the advertiser, whatever the status is by now ...
RefundOne(d) ==
    /\ d \in refunder.todo /\ refunder.deal = NoDeal
    /\ UnlockBalanceForDeal(Advertiser[d], Price[d])
    /\ refunds' = [refunds EXCEPT ![d] = @ + 1]
    /\ refunder' = [todo |-> refunder.todo \ {d}, deal |-> d]
    /\ UNCHANGED <<rows, world, request, publisher, botside, locks, payouts, overrun, mishaps>>

\* ... and the flag is set in a statement of its own.
FlagRefunded ==
    /\ refunder.deal # NoDeal
    /\ balance_refunded' = [balance_refunded EXCEPT ![refunder.deal] = TRUE]
    /\ refunder' = [refunder EXCEPT !.deal = NoDeal]
    /\ UNCHANGED <<ledger, status, schedule, channel_post_ids, world, request, publisher,
                   botside, history>>

RefunderFails ==
    /\ Fault
    /\ \/ /\ refunder.deal = NoDeal
          /\ \E d \in refunder.todo : refunder' = [refunder EXCEPT !.todo = @ \ {d}]
          /\ UNCHANGED torn
       \/ /\ refunder.deal # NoDeal
          /\ refunder' = [refunder EXCEPT !.deal = NoDeal]
          /\ torn' = [torn EXCEPT ![refunder.deal] = TRUE]
    /\ UNCHANGED <<ledger, rows, world, request, publisher, botside, counts, overrun, misdated>>

RefunderStep == RefunderTick \/ FlagRefunded \/ \E d \in Deals : RefundOne(d)
-----------------------------------------------------------------------------
(* The bot: handleAutoPost. *)

BotTakes ==
    /\ bot = IdleBot /\ autopost # <<>>
    /\ bot' = [deal |-> Head(autopost), sent |-> FALSE]
    /\ autopost' = Tail(autopost)
    /\ UNCHANGED <<ledger, rows, world, request, publisher, refunder, watchers, history>>

\* The target cannot be parsed, or Telegram refuses the message.
BotGivesUp(err) ==
    /\ bot.deal # NoDeal /\ ~bot.sent
    /\ SetStatus(bot.deal, err, {"PUBLISHED"})
    /\ bot' = IdleBot
    /\ UNCHANGED <<ledger, schedule, balance_refunded, channel_post_ids, world, request,
                   publisher, refunder, autopost, watchers, counts, mishaps>>

\* sendContent: the post is in the channel.
BotPosts ==
    /\ bot.deal # NoDeal /\ ~bot.sent
    /\ posted' = [posted EXCEPT ![bot.deal] = TRUE]
    /\ bot' = [bot EXCEPT !.sent = TRUE]
    /\ UNCHANGED <<ledger, rows, now, request, publisher, refunder, autopost, watchers, history>>

\* The row gets the message ids and PUBLISHED, whatever happened meanwhile.
BotRecords ==
    /\ bot.sent
    /\ SetStatus(bot.deal, "PUBLISHED", {"PUBLISHED"})
    /\ expires_at' = [expires_at EXCEPT ![bot.deal] = now + CommonHours]
    /\ channel_post_ids' = [channel_post_ids EXCEPT ![bot.deal] = TRUE]
    /\ bot' = IdleBot
    /\ UNCHANGED <<ledger, publication_time, top_deadline, common_deadline, balance_refunded,
                   world, request, publisher, refunder, autopost, watchers, counts, mishaps>>

\* The final update fails: the error is logged, the row keeps no message ids.
BotFails ==
    /\ bot.deal # NoDeal
    /\ Fault
    /\ bot' = IdleBot
    /\ UNCHANGED <<ledger, rows, world, request, publisher, refunder, autopost, watchers,
                   counts, overrun, torn, misdated>>

BotStep == BotTakes \/ BotPosts \/ BotRecords \/ \E err \in ErrStatuses : BotGivesUp(err)
-----------------------------------------------------------------------------
(* The three actors that void deals: each lists deals and then writes them.  *)

Void(d, expected) ==
    /\ SetStatus(d, "TERMS_VIOLATED", expected)
    /\ UNCHANGED <<ledger, schedule, balance_refunded, channel_post_ids, world, request,
                   publisher, refunder, bot, autopost, counts, mishaps>>

WatchersFree ==
    Cardinality({i \in 1..3 : <<monitor, kicked, foreign>>[i] # {}}) < MaxWatchers

Listing == UNCHANGED <<ledger, rows, world, request, publisher, refunder, bot, autopost, history>>

\* checkPublishedPosts lists the published deals whose display is not over.
MonitorTick ==
    LET seen == {d \in Deals : /\ status[d] = "PUBLISHED" /\ channel_post_ids[d]
                               /\ common_deadline[d] > now}
    IN
    /\ monitor = {} /\ seen # {} /\ WatchersFree
    /\ monitor' = seen
    /\ Listing /\ UNCHANGED <<kicked, foreign>>

PostIsFine(d) ==
    /\ d \in monitor
    /\ monitor' = monitor \ {d}
    /\ Listing /\ UNCHANGED <<kicked, foreign>>

\* t.me shows the post edited, does not show it, or cannot be reached.
PostIsNotFine(d) ==
    /\ d \in monitor
    /\ Void(d, {"PUBLISHED"})
    /\ monitor' = monitor \ {d}
    /\ UNCHANGED <<kicked, foreign>>

\* handleBotRemovedFromChat lists the deals of the channel that are not over.
BotRemoved(ch) ==
    LET hit == {d \in Deals : ChannelOf[d] = ch /\ status[d] \in Active} IN
    /\ kicked = {} /\ hit # {} /\ WatchersFree
    /\ kicked' = hit
    /\ Listing /\ UNCHANGED <<monitor, foreign>>

VoidRemoved(d) ==
    /\ d \in kicked
    /\ Void(d, Active)
    /\ kicked' = kicked \ {d}
    /\ UNCHANGED <<monitor, foreign>>

\* onChannelPost: a message that is no stored post of a deal, in the top window.
ForeignPost(ch) ==
    LET hit == {d \in Deals : /\ ChannelOf[d] = ch /\ status[d] = "PUBLISHED"
                              /\ top_deadline[d] > now}
    IN
    /\ foreign = {} /\ hit # {} /\ WatchersFree
    /\ foreign' = hit
    /\ Listing /\ UNCHANGED <<monitor, kicked>>

VoidForeign(d) ==
    /\ d \in foreign
    /\ Void(d, {"PUBLISHED"})
    /\ foreign' = foreign \ {d}
    /\ UNCHANGED <<monitor, kicked>>

\* updateDealStatus fails: logged, and the loop goes on with the next deal.
WatcherFails ==
    /\ Fault
    /\ \E d \in Deals :
          \/ d \in monitor /\ monitor' = monitor \ {d} /\ UNCHANGED <<kicked, foreign>>
          \/ d \in kicked /\ kicked' = kicked \ {d} /\ UNCHANGED <<monitor, foreign>>
          \/ d \in foreign /\ foreign' = foreign \ {d} /\ UNCHANGED <<monitor, kicked>>
    /\ UNCHANGED <<ledger, rows, world, request, publisher, refunder, bot, autopost, counts,
                   overrun, torn, misdated>>

WatcherStep ==
    \/ MonitorTick
    \/ \E ch \in Channels : BotRemoved(ch) \/ ForeignPost(ch)
    \/ \E d \in Deals : PostIsFine(d) \/ PostIsNotFine(d) \/ VoidRemoved(d) \/ VoidForeign(d)
-----------------------------------------------------------------------------
Tick ==
    /\ now < MaxTime
    /\ now' = now + 1
    /\ UNCHANGED <<ledger, rows, posted, request, loops, history>>

\* The process dies and starts again: channels, lists and requests are gone.
Crash ==
    /\ Fault
    /\ torn' = [d \in Deals |-> torn[d] \/ Locking(d) # {} \/ Paying(d) \/ refunder.deal = d]
    /\ request' = [r \in Requests |-> NoRequest]
    /\ publisher' = IdlePublisher
    /\ refunder' = IdleRefunder
    /\ bot' = IdleBot
    /\ autopost' = <<>>
    /\ monitor' = {} /\ kicked' = {} /\ foreign' = {}
    /\ UNCHANGED <<ledger, rows, world, counts, overrun, misdated>>

Next ==
    \/ \E d \in Deals : OfferDeal(d)
    \/ \E r \in Requests : HandlerStep(r)
    \/ PublisherStep \/ PublisherFails
    \/ RefunderStep \/ RefunderFails
    \/ BotStep \/ BotFails
    \/ WatcherStep \/ WatcherFails
    \/ Tick
    \/ Crash

Spec == Init /\ [][Next]_vars

\* The tickers fire and the goroutines run; nobody has to send a request, and
\* no fault has to happen.
FairSpec ==
    /\ Spec
    /\ WF_vars(PublisherStep)
    /\ WF_vars(RefunderStep)
    /\ WF_vars(BotStep)
    /\ WF_vars(Tick)
-----------------------------------------------------------------------------
(* Type invariant; the AutoPost channel never holds more than its capacity. *)
RowsType ==
    /\ status \in [Deals -> Statuses]
    /\ expires_at \in [Deals -> Nat]
    /\ publication_time \in [Deals -> Nat]
    /\ top_deadline \in [Deals -> Nat]
    /\ common_deadline \in [Deals -> Nat]
    /\ balance_refunded \in [Deals -> BOOLEAN]
    /\ channel_post_ids \in [Deals -> BOOLEAN]

LoopsType ==
    /\ publisher \in PublisherType
    /\ refunder \in RefunderType
    /\ bot \in BotType
    /\ autopost \in Seq(Deals) /\ Len(autopost) <= AutoPostCap
    /\ monitor \subseteq Deals /\ kicked \subseteq Deals /\ foreign \subseteq Deals

HistoryType ==
    /\ locks \in [Deals -> Nat]
    /\ refunds \in [Deals -> Nat]
    /\ payouts \in [Deals -> Nat]
    /\ overrun \in [Deals -> BOOLEAN]
    /\ misdated \in [Deals -> BOOLEAN]
    /\ torn \in [Deals -> BOOLEAN]
    /\ faults \in Nat

TypeOK ==
    /\ LedgerType
    /\ RowsType
    /\ now \in Nat /\ posted \in [Deals -> BOOLEAN]
    /\ request \in [Requests -> RequestType]
    /\ LoopsType
    /\ HistoryType

(* Nobody's spendable balance goes below zero, however many deals are made   *)
(* at once: LockBalanceForDeal is the only statement that takes money out    *)
(* here, and its WHERE clause is evaluated with the update.                  *)
BalanceNonNegative == \A c \in Customers : ton_balance[c] >= 0

(* A deal is refunded once, and once more for each fault that separated an   *)
(* unlock from its flag: the races between the other actors never make the   *)
(* refunder pay twice.                                                       *)
RefundsBounded == \A d \in Deals : refunds[d] <= 1 + faults

(* A deal that is being negotiated, displayed or completed, and every deal   *)
(* the manager was paid for, had the money of its advertiser locked first.   *)
FundedBeforePaid ==
    \A d \in Deals :
        status[d] \in Running \union {"COMPLETED"} \/ payouts[d] > 0 => locks[d] > 0

\* What the deals are worth together, each one as often as it is counted.
Worth(deals, times) == Total([d \in deals |-> Price[d] * times[d]])

(* The books balance for every customer: what is locked is the price of each *)
(* deal the customer advertises, once for every lock, less the refunds and   *)
(* the payments of the deal, and what can be spent is what was paid in, less *)
(* those locks, more those refunds and the payments the customer earned as a *)
(* manager.  No interleaving of locks, refunds and payments, torn or not,    *)
(* loses, creates or misdirects money.                                       *)
BooksBalance ==
    \A c \in Customers :
        LET advertised == {d \in Deals : Advertiser[d] = c}
            managed == {d \in Deals : Manager[d] = c}
        IN
        /\ ton_balance_locked[c] =
              Worth(advertised, locks) - Worth(advertised, refunds) - Worth(advertised, payouts)
        /\ ton_balance[c] =
              InitialBalance[c] - Worth(advertised, locks) + Worth(advertised, refunds)
                                + Worth(managed, payouts)

(* The escrow is exact as long as no write landed on a deal that had moved   *)
(* on and no fault cut a pair of statements: one lock, no refund and payment *)
(* together, the refund flag tells the truth, COMPLETED means paid.          *)
SettledExactly ==
    \A d \in Deals :
        ~overrun[d] /\ ~torn[d] =>
            /\ Landed(d) \in 0..1
            /\ status[d] \in {"NONE", "DRAFT"} => Landed(d) = 0
            /\ status[d] \in Running \union {"COMPLETED"} => Landed(d) = 1
            /\ refunds[d] = IF balance_refunded[d] \/ refunder.deal = d THEN 1 ELSE 0
            /\ refunds[d] = 1 => status[d] \in Refundable
            /\ payouts[d] = IF status[d] = "COMPLETED" \/ Paying(d) THEN 1 ELSE 0

(* What both sides agreed on is what is displayed and paid for: the deadlines *)
(* stay the ones of the publication time in the row, from the approval on,   *)
(* and the manager is not paid before the display is over, as long as no     *)
(* write landed on a deal that had moved on or on another time.              *)
DisplayedAsAgreed ==
    \A d \in Deals :
        ~overrun[d] /\ ~misdated[d] =>
            /\ status[d] \in {"AWAITING_PUBLICATION", "PUBLISHED", "COMPLETED"} =>
                  /\ top_deadline[d] = publication_time[d] + TopHours
                  /\ common_deadline[d] = publication_time[d] + CommonHours
            /\ payouts[d] > 0 => publication_time[d] + CommonHours <= now

\* The deals whose post is yet to be made: with the bot, in AutoPost, and with
\* the publisher, in the order the bot gets to them.
Claims ==
    (IF bot.deal # NoDeal /\ ~bot.sent THEN <<bot.deal>> ELSE <<>>)
    \o autopost \o (IF publisher.phase = "send" THEN <<publisher.deal>> ELSE <<>>)

(* A deal is posted once.  Unless a write landed on it after it had moved on, *)
(* it never waits to be posted twice, nor again after it was posted, also     *)
(* when claims are taken back and processes die; and without a fault no       *)
(* claim is lost: the deals that count as displayed, and those the manager    *)
(* was paid for, were posted or will be.                                      *)
PostedOnce ==
    \A d \in Deals :
        LET waiting == {i \in DOMAIN Claims : Claims[i] = d} IN
        ~overrun[d] =>
            /\ Cardinality(waiting) + (IF posted[d] THEN 1 ELSE 0) <= 1
            /\ faults = 0 /\ status[d] \in {"PUBLISHED", "COMPLETED"} => posted[d] \/ waiting # {}

(* Every deal that ends without being completed is refunded: the refunder    *)
(* gets to it whatever the others do, also after failed statements.          *)
RefundsHappen ==
    \A d \in Deals :
        status[d] \in Refundable ~> balance_refunded[d] \/ status[d] \notin Refundable

(* No deal stays under negotiation past its expiry.                          *)
ExpiryHappens ==
    \A d \in Deals :
        status[d] \in Active \ {"PUBLISHED"} /\ expires_at[d] < now
            ~> ~(status[d] \in Active \ {"PUBLISHED"} /\ expires_at[d] < now)

(* No deal stays PUBLISHED past the end of its display: it is paid for, or   *)
(* somebody voided it.                                                       *)
CompletionHappens ==
    \A d \in Deals :
        status[d] = "PUBLISHED" /\ common_deadline[d] <= now
            ~> ~(status[d] = "PUBLISHED" /\ common_deadline[d] <= now)
-----------------------------------------------------------------------------
(* What a comment of the repository says and the code does not keep: the     *)
(* property of a run that ends with a counterexample.                        *)

(* Cancelling refunds the balance of the deal (deal_handlers.go:388, and the *)
(* message bot_messages.yaml:195): what is refunded had been locked.         *)
RefundIsBacked == \A d \in Deals : refunds[d] <= locks[d]
=============================================================================
