--------------------------- MODULE ChannelRegistry ---------------------------
(***************************************************************************)
(* The channels of the marketplace: added, described and deleted by their  *)
(* managers (server/channel_handlers.go), shut when the bot is removed     *)
(* from them (telegram_bot/channel_monitoring.go), and the deals on them   *)
(* as far as they hang on the channel (server/deal_handlers.go, OfferDeal; *)
(* the foreign keys of database/migrations/postgres).                      *)
(*                                                                         *)
(* Requests and updates of Telegram run concurrently, each a sequence of   *)
(* statements without a transaction.  A channel has two ids: the one the   *)
(* statistics bot reports and the one the bot sees, -(10^12 + the other).  *)
(* AddChannel looks for the first and stores the second, so the look finds *)
(* nothing: a second AddChannel fails at the UNIQUE column, and the branch *)
(* for a channel that is known (lines 80 to 150) has no counterpart here.  *)
(* The row of a test channel that the migrations insert is left out.       *)
(***************************************************************************)
EXTENDS Naturals, Sequences, FiniteSets

CONSTANTS
    Customers,
    Chats,       \* channels in Telegram
    Admins,      \* [Chats -> the customers who are admins of the channel]
    Requests,    \* HTTP requests, each used once
    Deals,
    MaxFaults,   \* bound: failed statements and crashes
    MaxRemovals, \* bound: how often the bot is removed
    Nobody

ASSUME RegistryAssumption ==
    /\ IsFiniteSet(Requests)
    /\ Admins \in [Chats -> SUBSET Customers]
    /\ Nobody \notin Customers \union Chats \union Deals
    /\ MaxFaults \in Nat /\ MaxRemovals \in Nat

VARIABLES
    channels,   \* [Chats -> the row of the chat, or NoRow]: tg_id is UNIQUE
    links,      \* customers_channels: for every row there ever was, its customers
    deals,      \* [Deals -> row, parties and stage of the deal, or NoDeal]
    req,        \* [Requests -> how far the request is, with what it holds]
    bot,        \* the chats the bot is in
    update,     \* [Chats -> how far the handling of a removal is, and the row]
    removals, faults,
    \* history, read by no action
    blind,      \* chats with a removal that some request or fault made of no effect
    orphaned    \* rows whose second statement failed

table == <<channels, links, deals>>
env == <<bot, update, removals>>
history == <<blind, orphaned>>
vars == <<table, req, env, faults, history>>

Statuses == {"UNACTIVATED", "AWAITING_DATA", "ACTIVATED"}
NoRow == [id |-> 0, status |-> "NONE", is_listed |-> FALSE]
Stored(c) == channels[c] # NoRow
RowExists(i) == \E c \in Chats : Stored(c) /\ channels[c].id = i
ChatsOf(i) == {c \in Chats : Stored(c) /\ channels[c].id = i}
Rows == 1..Len(links)

Stages == {"NONE", "DRAFT", "HELD", "VOID", "ENDED", "DELETED", "STRANDED"}
NoDeal == [row |-> 0, advertiser |-> Nobody, manager |-> Nobody, stage |-> "NONE"]

Unused == [op |-> "none", phase |-> "unused", who |-> Nobody, chat |-> Nobody, row |-> 0,
           stats |-> FALSE, manager |-> Nobody, deal |-> Nobody]
Quiet == [phase |-> "none", row |-> 0]

Init ==
    /\ channels = [c \in Chats |-> NoRow]
    /\ links = <<>>
    /\ deals = [d \in Deals |-> NoDeal]
    /\ req = [r \in Requests |-> Unused]
    /\ bot \in SUBSET Chats
    /\ update = [c \in Chats |-> Quiet]
    /\ removals = 0 /\ faults = 0
    /\ blind = {} /\ orphaned = {}
-----------------------------------------------------------------------------
Goto(r, phase) == req' = [req EXCEPT ![r].phase = phase]

\* RequireChannelAccess: the customer has a link to the row.
HasAccess(u, i) == i \in Rows /\ \E n \in DOMAIN links[i] : links[i][n] = u

\* INSERT of a channel: the next row, without a link.
InsertChannel(c, stats) ==
    /\ channels' = [channels EXCEPT ![c] =
           [id |-> Len(links) + 1,
            status |-> IF stats THEN "AWAITING_DATA" ELSE "UNACTIVATED",
            is_listed |-> FALSE]]
    /\ links' = Append(links, <<>>)

DeleteRow(i) == channels' = [c \in Chats |-> IF c \in ChatsOf(i) THEN NoRow ELSE channels[c]]
-----------------------------------------------------------------------------
(* AddChannel *)

\* The statistics bot vouches for the bot and the customer being admins.
AskStatsBot(r, u, c) ==
    /\ req[r] = Unused
    /\ c \in bot /\ u \in Admins[c]
    /\ \E stats \in BOOLEAN :
          req' = [req EXCEPT ![r] = [Unused EXCEPT !.op = "add", !.phase = "create", !.who = u,
                                                   !.chat = c, !.stats = stats]]
    /\ UNCHANGED <<table, env, faults, history>>

CreateChannelOrShare(r) ==
    LET c == req[r].chat IN
    /\ req[r].phase = "create"
    /\ IF Stored(c)
         THEN /\ req' = [req EXCEPT ![r].phase = "link", ![r].row = channels[c].id]
              /\ UNCHANGED <<channels, links>>
         ELSE /\ InsertChannel(c, req[r].stats)
              /\ req' = [req EXCEPT ![r].phase = "link", ![r].row = Len(links) + 1]
    /\ UNCHANGED <<deals, env, faults, history>>

CreateChannelIgnoresError(r) ==
    LET c == req[r].chat IN
    /\ req[r].phase = "create"
    /\ req' = [req EXCEPT ![r].phase = "link", ![r].row = Len(links) + 1]
    /\ IF Stored(c)
         THEN UNCHANGED <<channels, links>>
         ELSE /\ InsertChannel(c, req[r].stats)
    /\ UNCHANGED <<deals, env, faults, history>>

CreateChannel(r) ==
    LET c == req[r].chat IN
    /\ req[r].phase = "create"
    /\ IF Stored(c)
         THEN Goto(r, "over") /\ UNCHANGED <<channels, links>>
         ELSE /\ InsertChannel(c, req[r].stats)
              /\ req' = [req EXCEPT ![r].phase = "link", ![r].row = Len(links) + 1]
    /\ UNCHANGED <<deals, env, faults, history>>

AddCustomerChannel(r) ==
    /\ req[r].phase = "link"
    /\ links' = [links EXCEPT ![req[r].row] = Append(@, req[r].who)]
    /\ Goto(r, "over")
    /\ UNCHANGED <<channels, deals, env, faults, history>>

\* When the link failed the row is deleted again.
UndoCreate(r) ==
    LET i == req[r].row IN
    /\ req[r].phase = "undo"
    /\ DeleteRow(i)
    /\ Goto(r, "over")
    /\ UNCHANGED <<links, deals, env, faults, history>>

AddStep(r) == CreateChannel(r) \/ AddCustomerChannel(r) \/ UndoCreate(r)
-----------------------------------------------------------------------------
(* ProvideChannelData *)

BeginProvide(r, u, i) ==
    /\ req[r] = Unused /\ HasAccess(u, i)
    /\ req' = [req EXCEPT ![r] = [Unused EXCEPT !.op = "provide", !.phase = "load", !.who = u, !.row = i]]
    /\ UNCHANGED <<table, env, faults, history>>

\* GetChannel, and the check of the copy.
LoadChannel(r) ==
    LET i == req[r].row IN
    /\ req[r].phase = "load"
    /\ \/ /\ \A c \in ChatsOf(i) : channels[c].status # "AWAITING_DATA"
          /\ Goto(r, "over")
       \/ \E c \in ChatsOf(i) :
             /\ channels[c].status = "AWAITING_DATA"
             /\ Goto(r, "activate")
    /\ UNCHANGED <<table, env, faults, history>>

\* UpdateChannel, whatever the status is by now.
Activate(r) ==
    LET i == req[r].row IN
    /\ req[r].phase = "activate"
    /\ channels' = [c \in Chats |->
            IF c \in ChatsOf(i)
            THEN [channels[c] EXCEPT !.status = "ACTIVATED", !.is_listed = TRUE]
            ELSE channels[c]]
    /\ Goto(r, "over")
    /\ UNCHANGED <<links, deals, env, faults, history>>

ProvideStep(r) == LoadChannel(r) \/ Activate(r)
-----------------------------------------------------------------------------
(* DeleteChannel *)

BeginDeleteUnchecked(r, u, i) ==
    /\ req[r] = Unused /\ RowExists(i)
    /\ req' = [req EXCEPT ![r] = [Unused EXCEPT !.op = "delete", !.phase = "delete", !.who = u, !.row = i]]
    /\ UNCHANGED <<table, env, faults, history>>

BeginDelete(r, u, i) ==
    /\ req[r] = Unused /\ HasAccess(u, i)
    /\ req' = [req EXCEPT ![r] = [Unused EXCEPT !.op = "delete", !.phase = "delete", !.who = u, !.row = i]]
    /\ UNCHANGED <<table, env, faults, history>>

\* ON DELETE CASCADE takes the links and the deals along.  The money of a deal
\* that holds some stays in ton_balance_locked, and nothing knows of it any more.
DeleteChannel(r) ==
    LET i == req[r].row IN
    /\ req[r].phase = "delete"
    /\ DeleteRow(i)
    /\ links' = [links EXCEPT ![i] = <<>>]
    /\ deals' = [d \in Deals |->
            IF deals[d].row # i \/ deals[d].stage \in {"NONE", "DELETED", "STRANDED"} THEN deals[d]
            ELSE [deals[d] EXCEPT !.stage = IF @ \in {"HELD", "VOID"} THEN "STRANDED" ELSE "DELETED"]]
    /\ Goto(r, "over")
    /\ UNCHANGED <<env, faults, history>>
-----------------------------------------------------------------------------
(* OfferDeal and the life of a deal, which Escrow describes in detail *)

\* The channel, which needs prices, and its links; the first one is the manager.
BeginOffer(r, u, i, d) ==
    /\ req[r] = Unused
    /\ \E c \in ChatsOf(i) : channels[c].is_listed
    /\ i \in Rows /\ links[i] # <<>> /\ ~HasAccess(u, i)
    /\ req' = [req EXCEPT ![r] = [Unused EXCEPT !.op = "offer", !.phase = "offer", !.who = u,
                                                !.row = i, !.manager = Head(links[i]), !.deal = d]]
    /\ UNCHANGED <<table, env, faults, history>>

CreateDealUnreferenced(r) ==
    LET d == req[r].deal IN
    /\ req[r].phase = "offer"
    /\ IF deals[d] = NoDeal
         THEN deals' = [deals EXCEPT ![d] = [row |-> req[r].row, advertiser |-> req[r].who,
                                             manager |-> req[r].manager, stage |-> "DRAFT"]]
         ELSE UNCHANGED deals
    /\ Goto(r, "over")
    /\ UNCHANGED <<channels, links, env, faults, history>>

\* The foreign key refuses a deal on a row that is gone.  (A deal that exists is
\* another one: its uuid is new.)
CreateDeal(r) ==
    LET d == req[r].deal IN
    /\ req[r].phase = "offer"
    /\ IF RowExists(req[r].row) /\ deals[d] = NoDeal
         THEN deals' = [deals EXCEPT ![d] = [row |-> req[r].row, advertiser |-> req[r].who,
                                             manager |-> req[r].manager, stage |-> "DRAFT"]]
         ELSE UNCHANGED deals
    /\ Goto(r, "over")
    /\ UNCHANGED <<channels, links, env, faults, history>>

Become(d, from, to) ==
    /\ deals[d].stage = from
    /\ deals' = [deals EXCEPT ![d].stage = to]
    /\ UNCHANGED <<channels, links, req, env, faults, history>>

\* MakeDeal; cancelled in DRAFT; paid to the manager or returned; returned when void.
DealStep(d) ==
    \/ Become(d, "DRAFT", "HELD") \/ Become(d, "DRAFT", "ENDED")
    \/ Become(d, "HELD", "ENDED") \/ Become(d, "VOID", "ENDED")
-----------------------------------------------------------------------------
(* The bot is removed from a channel, or comes back *)

RemoveBot(c) ==
    /\ c \in bot /\ update[c] = Quiet /\ removals < MaxRemovals
    /\ bot' = bot \ {c}
    /\ removals' = removals + 1
    /\ update' = [update EXCEPT ![c].phase = "sent"]
    /\ UNCHANGED <<table, req, faults, history>>

ReturnBot(c) ==
    /\ c \notin bot
    /\ bot' = bot \union {c}
    /\ UNCHANGED <<table, req, update, removals, faults, history>>

\* handleBotRemovedFromChat: GetChannelByTgID ...
FindRemoved(c) ==
    /\ update[c].phase = "sent"
    /\ update' = [update EXCEPT ![c] =
            IF Stored(c) THEN [phase |-> "status", row |-> channels[c].id] ELSE Quiet]
    /\ blind' = IF \E r \in Requests : req[r].phase = "create" /\ req[r].chat = c
                THEN blind \union {c} ELSE blind
    /\ UNCHANGED <<table, req, bot, removals, faults, orphaned>>

ShutForGood(c) ==
    LET i == update[c].row IN
    /\ update[c].phase = "status"
    /\ channels' = [k \in Chats |->
            IF k \in ChatsOf(i) THEN [channels[k] EXCEPT !.is_listed = FALSE] ELSE channels[k]]
    /\ update' = [update EXCEPT ![c].phase = "deals"]
    /\ blind' = IF \E r \in Requests : req[r].phase = "activate" /\ req[r].row = i
                THEN blind \union {c} ELSE blind
    /\ UNCHANGED <<links, deals, req, bot, removals, faults, orphaned>>

\* ... UpdateChannel; is_listed stays as it is ...
Shut(c) ==
    LET i == update[c].row IN
    /\ update[c].phase = "status"
    /\ channels' = [k \in Chats |->
            IF k \in ChatsOf(i) THEN [channels[k] EXCEPT !.status = "UNACTIVATED"] ELSE channels[k]]
    /\ update' = [update EXCEPT ![c].phase = "deals"]
    /\ blind' = IF \E r \in Requests : req[r].phase = "activate" /\ req[r].row = i
                THEN blind \union {c} ELSE blind
    /\ UNCHANGED <<links, deals, req, bot, removals, faults, orphaned>>

\* ... and TERMS_VIOLATED for the deals that are not over: an UPDATE each, which
\* Escrow has as steps of their own.
VoidDeals(c) ==
    LET i == update[c].row IN
    /\ update[c].phase = "deals"
    /\ deals' = [d \in Deals |->
            IF deals[d].row # i THEN deals[d]
            ELSE CASE deals[d].stage = "DRAFT" -> [deals[d] EXCEPT !.stage = "ENDED"]
                   [] deals[d].stage = "HELD" -> [deals[d] EXCEPT !.stage = "VOID"]
                   [] OTHER -> deals[d]]
    /\ update' = [update EXCEPT ![c] = Quiet]
    /\ UNCHANGED <<channels, links, req, bot, removals, faults, history>>

BotStep(c) == RemoveBot(c) \/ ReturnBot(c) \/ FindRemoved(c) \/ Shut(c) \/ VoidDeals(c)
-----------------------------------------------------------------------------
(* Faults *)

Running == {r \in Requests : req[r].phase \notin {"unused", "over"}}
Halfway(r) == req[r].phase \in {"link", "undo"}

\* A statement of a request fails; after a failed link the row is deleted.
RequestFails(r) ==
    /\ r \in Running /\ faults < MaxFaults
    /\ faults' = faults + 1
    /\ Goto(r, IF req[r].phase = "link" THEN "undo" ELSE "over")
    /\ orphaned' = IF req[r].phase = "undo" THEN orphaned \union {req[r].row} ELSE orphaned
    /\ UNCHANGED <<table, env, blind>>

\* A statement of the bot fails.  Only the failure to shut the channel is passed over.
UpdateFails(c) ==
    /\ update[c] # Quiet /\ faults < MaxFaults
    /\ faults' = faults + 1
    /\ update' = [update EXCEPT ![c] = IF @.phase = "status" THEN [@ EXCEPT !.phase = "deals"] ELSE Quiet]
    /\ blind' = IF update[c].phase = "deals" THEN blind ELSE blind \union {c}
    /\ UNCHANGED <<table, req, bot, removals, orphaned>>

Crash ==
    /\ faults < MaxFaults
    /\ faults' = faults + 1
    /\ req' = [r \in Requests |-> IF r \in Running THEN [req[r] EXCEPT !.phase = "over"] ELSE req[r]]
    /\ update' = [c \in Chats |-> Quiet]
    /\ blind' = blind \union {c \in Chats : update[c].phase \in {"sent", "status"}}
    /\ orphaned' = orphaned \union {req[r].row : r \in {q \in Requests : Halfway(q)}}
    /\ UNCHANGED <<table, bot, removals>>

Next ==
    \/ \E r \in Requests, u \in Customers :
          \/ \E c \in Chats : AskStatsBot(r, u, c)
          \/ \E i \in Rows : BeginProvide(r, u, i) \/ BeginDelete(r, u, i)
          \/ \E i \in Rows, d \in Deals : BeginOffer(r, u, i, d)
    \/ \E r \in Requests : AddStep(r) \/ ProvideStep(r) \/ DeleteChannel(r) \/ CreateDeal(r)
    \/ \E d \in Deals : DealStep(d)
    \/ \E c \in Chats : BotStep(c)
    \/ \E r \in Requests : RequestFails(r)
    \/ \E c \in Chats : UpdateFails(c)
    \/ Crash

Spec == Init /\ [][Next]_vars
-----------------------------------------------------------------------------
Phases == {"unused", "create", "link", "undo", "load", "activate", "delete", "offer", "over"}

TypeOK ==
    /\ channels \in [Chats -> {NoRow} \union [id : Rows, status : Statuses, is_listed : BOOLEAN]]
    /\ links \in Seq(Seq(Customers))
    /\ deals \in [Deals -> [row : {0} \union Rows, advertiser : Customers \union {Nobody},
                            manager : Customers \union {Nobody}, stage : Stages]]
    /\ req \in [Requests -> [op : {"none", "add", "provide", "delete", "offer"}, phase : Phases,
                             who : Customers \union {Nobody}, chat : Chats \union {Nobody},
                             row : {0} \union Rows, stats : BOOLEAN,
                             manager : Customers \union {Nobody}, deal : Deals \union {Nobody}]]
    /\ bot \subseteq Chats
    /\ update \in [Chats -> [phase : {"none", "sent", "status", "deals"}, row : {0} \union Rows]]
    /\ removals \in 0..MaxRemovals /\ faults \in 0..MaxFaults
    /\ blind \subseteq Chats /\ orphaned \subseteq Rows

(* Every channel has exactly the manager who added it, apart from the moment  *)
(* between the two statements of AddChannel and the faults in it: no race of  *)
(* two admins adds a second manager or a row without one.                     *)
ChannelsHaveOneManager ==
    /\ \A i \in Rows : Len(links[i]) <= 1
    /\ \A c \in Chats : Stored(c) =>
          \/ links[channels[c].id] # <<>>
          \/ channels[c].id \in orphaned
          \/ \E r \in Requests : Halfway(r) /\ req[r].row = channels[c].id

(* The manager a deal names, a copy from the time of the offer, is still the  *)
(* manager of the channel the deal is about: the offer may race the deletion  *)
(* of the channel and another admin adding it again.                          *)
DealsAreWithTheManager ==
    \A d \in Deals : deals[d].stage \in {"DRAFT", "HELD", "VOID", "ENDED"} =>
        /\ RowExists(deals[d].row)
        /\ links[deals[d].row] = <<deals[d].manager>>
        /\ deals[d].advertiser # deals[d].manager

(* A channel that is open, or waits for its data, has the bot in it, unless   *)
(* the removal has still to be handled, or a request that was under way when  *)
(* it was, or a fault, made it of no effect.                                  *)
OpenChannelsHaveTheBot ==
    \A c \in Chats : channels[c].status \in {"AWAITING_DATA", "ACTIVATED"} =>
        c \in bot \/ c \in blind \/ update[c].phase \in {"sent", "status"}

(* Money is stranded, locked for a deal that no longer exists, only when the  *)
(* deal's own manager deletes the channel.                                    *)
StrandedByItsManager ==
    [][\A d \in Deals : deals[d].stage # "STRANDED" /\ deals[d]'.stage = "STRANDED" =>
          \E r \in Requests : req[r].op = "delete" /\ req[r].who = deals[d].manager]_vars
=============================================================================
