--------------------------- MODULE RegistryProofs ---------------------------
(***************************************************************************)
(* Theorems about ChannelRegistry, for any number of channels, customers,  *)
(* requests, deals, removals and faults.                                   *)
(***************************************************************************)
EXTENDS ChannelRegistry, SequenceTheorems, TLAPS

ReqType ==
    [op : {"none", "add", "provide", "delete", "offer"}, phase : Phases,
     who : Customers \union {Nobody}, chat : Chats \union {Nobody},
     row : {0} \union Rows, stats : BOOLEAN,
     manager : Customers \union {Nobody}, deal : Deals \union {Nobody}]

\* What the record of a request means in its phase.
KnowsRequest(r) ==
    /\ req[r].phase \notin {"unused", "over"} => req[r].who \in Customers
    /\ req[r].phase = "create" => req[r].chat \in Chats
    /\ req[r].phase \in {"link", "undo", "load", "activate", "delete", "offer"} => req[r].row \in Rows
    /\ req[r].phase = "delete" => req[r].op = "delete"
    /\ req[r].phase = "offer" => req[r].deal \in Deals /\ req[r].manager \in Customers

TypeInv == TypeOK /\ \A r \in Requests : KnowsRequest(r)

-----------------------------------------------------------------------------
(* Rows, links and requests *)

LEMMA NoRowIsNoRow == \A c \in Chats : channels[c].status \in Statuses => Stored(c)
  BY DEF Stored, NoRow, Statuses

LEMMA LinksFacts ==
    ASSUME links \in Seq(Seq(Customers))
    PROVE  /\ Len(links) \in Nat /\ 0 \notin Rows /\ Rows \subseteq Nat
           /\ DOMAIN links = Rows
           /\ \A i \in Rows : links[i] \in Seq(Customers) /\ Len(links[i]) \in Nat
           /\ Len(links) + 1 \notin Rows
  <1>1. Len(links) \in Nat /\ DOMAIN links = Rows
    BY LenProperties DEF Rows
  <1>2. \A i \in Rows : links[i] \in Seq(Customers)
    BY ElementOfSeq DEF Rows
  <1> QED
    BY <1>1, <1>2, LenProperties DEF Rows

\* The three ways the links change.
LEMMA LinksAppended ==
    ASSUME links \in Seq(Seq(Customers)), links' = Append(links, <<>>)
    PROVE  /\ links' \in Seq(Seq(Customers)) /\ Len(links') = Len(links) + 1
           /\ Rows' = Rows \union {Len(links) + 1}
           /\ \A i \in Rows : links'[i] = links[i]
           /\ links'[Len(links) + 1] = <<>>
  <1>1. <<>> \in Seq(Customers)
    BY EmptySeq
  <1>2. /\ links' \in Seq(Seq(Customers)) /\ Len(links') = Len(links) + 1
        /\ \A i \in 1..Len(links) : links'[i] = links[i]
        /\ links'[Len(links) + 1] = <<>>
    BY <1>1, AppendProperties
  <1> QED
    BY <1>2, LinksFacts DEF Rows

LEMMA LinksReplaced ==
    ASSUME links \in Seq(Seq(Customers)), NEW i \in Rows, NEW s \in Seq(Customers),
           links' = [links EXCEPT ![i] = s]
    PROVE  /\ links' \in Seq(Seq(Customers)) /\ Rows' = Rows
           /\ links'[i] = s
           /\ \A j \in Rows \ {i} : links'[j] = links[j]
  <1>1. /\ links' \in Seq(Seq(Customers)) /\ Len(links') = Len(links)
        /\ \A j \in 1..Len(links) : links'[j] = IF j = i THEN s ELSE links[j]
    BY ExceptSeq DEF Rows
  <1> QED
    BY <1>1 DEF Rows

LEMMA AddsLink ==
    ASSUME TypeInv, NEW r \in Requests, AddCustomerChannel(r)
    PROVE  /\ links' \in Seq(Seq(Customers)) /\ Rows' = Rows /\ req[r].row \in Rows
           /\ links'[req[r].row] = Append(links[req[r].row], req[r].who)
           /\ \A j \in Rows \ {req[r].row} : links'[j] = links[j]
  <1>1. links \in Seq(Seq(Customers)) /\ req[r].row \in Rows /\ req[r].who \in Customers
    BY DEF TypeInv, TypeOK, KnowsRequest, AddCustomerChannel
  <1>2. Append(links[req[r].row], req[r].who) \in Seq(Customers)
    BY <1>1, LinksFacts, AppendProperties
  <1>3. links' = [links EXCEPT ![req[r].row] = Append(links[req[r].row], req[r].who)]
    BY DEF AddCustomerChannel
  <1> QED
    BY <1>1, <1>2, <1>3, LinksReplaced

LEMMA DropsLinks ==
    ASSUME TypeInv, NEW r \in Requests, DeleteChannel(r)
    PROVE  /\ links' \in Seq(Seq(Customers)) /\ Rows' = Rows /\ req[r].row \in Rows
           /\ links'[req[r].row] = <<>>
           /\ \A j \in Rows \ {req[r].row} : links'[j] = links[j]
  <1>1. links \in Seq(Seq(Customers)) /\ req[r].row \in Rows
    BY DEF TypeInv, TypeOK, KnowsRequest, DeleteChannel
  <1>2. <<>> \in Seq(Customers)
    BY EmptySeq
  <1>3. links' = [links EXCEPT ![req[r].row] = <<>>]
    BY DEF DeleteChannel
  <1> QED
    BY <1>1, <1>2, <1>3, LinksReplaced

\* Rows are never reused.
LEMMA RowsGrow ==
    ASSUME TypeInv, [Next]_vars
    PROVE  /\ links' \in Seq(Seq(Customers)) /\ Rows \subseteq Rows'
           /\ \/ links' = links
              \/ \E r \in Requests : CreateChannel(r) \/ AddCustomerChannel(r) \/ DeleteChannel(r)
  <1>0. links \in Seq(Seq(Customers))
    BY DEF TypeInv, TypeOK
  <1>1. CASE links' = links
    BY <1>0, <1>1 DEF Rows
  <1>2. CASE \E r \in Requests : CreateChannel(r) \/ AddCustomerChannel(r) \/ DeleteChannel(r)
    <2> PICK r \in Requests : CreateChannel(r) \/ AddCustomerChannel(r) \/ DeleteChannel(r)
      BY <1>2
    <2>1. CASE CreateChannel(r)
      BY <1>0, <2>1, LinksAppended DEF CreateChannel, InsertChannel, Rows
    <2>2. CASE AddCustomerChannel(r)
      BY <2>2, AddsLink
    <2>3. CASE DeleteChannel(r)
      BY <2>3, DropsLinks
    <2> QED
      BY <2>1, <2>2, <2>3
  <1>3. links' = links \/ \E r \in Requests : CreateChannel(r) \/ AddCustomerChannel(r) \/ DeleteChannel(r)
    BY DEF Next, vars, table, env, AskStatsBot, BeginProvide, BeginDelete, BeginOffer, AddStep, UndoCreate,
       ProvideStep, LoadChannel, Activate, CreateDeal, DealStep, Become, BotStep, RemoveBot, ReturnBot,
       FindRemoved, Shut, VoidDeals, RequestFails, UpdateFails, Crash
  <1> QED
    BY <1>1, <1>2, <1>3

-----------------------------------------------------------------------------
(* Types *)

LEMMA TypeInit == Init => TypeInv
  <1> SUFFICES ASSUME Init PROVE TypeInv
    OBVIOUS
  <1>1. links \in Seq(Seq(Customers)) /\ Rows \subseteq Nat
    BY EmptySeq DEF Init, Rows
  <1>2. TypeOK
    BY <1>1, RegistryAssumption DEF Init, TypeOK, NoDeal, Unused, Quiet, Phases, Stages
  <1> QED
    BY <1>2, RegistryAssumption DEF Init, TypeInv, KnowsRequest, Unused

ReqNow == req \in [Requests -> ReqType] /\ \A r \in Requests : KnowsRequest(r)

LEMMA RequestsTypeStep == ASSUME TypeInv, [Next]_vars PROVE ReqNow'
  <1> DEFINE KnowsMore(r) == req'[r] \in ReqType' /\ KnowsRequest(r)'
  <1>0. /\ req \in [Requests -> ReqType] /\ links \in Seq(Seq(Customers)) /\ Rows \subseteq Rows'
        /\ \A r \in Requests : KnowsRequest(r)
        /\ \A c \in Chats : Stored(c) => channels[c].id \in Rows
    BY RowsGrow DEF TypeInv, TypeOK, ReqType, Stored
  <1>k. \A r \in Requests : req'[r] = req[r] => KnowsMore(r)
    BY <1>0 DEF KnowsRequest, ReqType
  <1>o. \A r \in Requests : req'[r] = [req[r] EXCEPT !.phase = "over"] => KnowsMore(r)
    BY <1>0 DEF KnowsRequest, ReqType, Phases
  <1>g. ASSUME NEW r \in Requests, req' = [req EXCEPT ![r] = req'[r]], KnowsMore(r) PROVE ReqNow'
    <2>1. \A q \in Requests : KnowsMore(q)
      BY <1>0, <1>g, <1>k
    <2>2. req' = [q \in Requests |-> req'[q]]
      BY <1>0, <1>g
    <2> QED
      BY <2>1, <2>2 DEF ReqNow
  <1>1. CASE UNCHANGED req
    BY <1>0, <1>1, <1>k DEF ReqNow
  <1>2. ASSUME NEW r \in Requests, NEW u \in Customers, NEW c \in Chats, AskStatsBot(r, u, c) PROVE ReqNow'
    <2>1. PICK stats \in BOOLEAN :
              req' = [req EXCEPT ![r] = [Unused EXCEPT !.op = "add", !.phase = "create", !.who = u,
                                                       !.chat = c, !.stats = stats]]
      BY <1>2 DEF AskStatsBot
    <2>2. req'[r] = [op |-> "add", phase |-> "create", who |-> u, chat |-> c, row |-> 0,
                     stats |-> stats, manager |-> Nobody, deal |-> Nobody]
      BY <1>0, <2>1 DEF Unused
    <2>3. KnowsMore(r)
      BY <2>2 DEF KnowsRequest, ReqType, Phases
    <2> QED
      BY <1>0, <1>g, <2>1, <2>3
  <1>3. ASSUME NEW r \in Requests, CreateChannel(r) PROVE ReqNow'
    <2>1. CASE Stored(req[r].chat)
      BY <1>0, <1>3, <1>g, <1>o, <2>1 DEF CreateChannel, Goto
    <2>2. CASE ~Stored(req[r].chat)
      <3>1. /\ req' = [req EXCEPT ![r] = [req[r] EXCEPT !.phase = "link", !.row = Len(links) + 1]]
            /\ Len(links) + 1 \in Rows'
        BY <1>0, <1>3, <2>2, LinksAppended DEF CreateChannel, InsertChannel
      <3>2. /\ req' = [req EXCEPT ![r] = req'[r]]
            /\ req'[r] = [op |-> req[r].op, phase |-> "link", who |-> req[r].who, chat |-> req[r].chat,
                          row |-> Len(links) + 1, stats |-> req[r].stats,
                          manager |-> req[r].manager, deal |-> req[r].deal]
        BY <1>0, <3>1 DEF ReqType
      <3>3. req[r].who \in Customers /\ req[r] \in ReqType
        BY <1>0, <1>3 DEF KnowsRequest, CreateChannel
      <3>4. KnowsMore(r)
        BY <3>1, <3>2, <3>3 DEF KnowsRequest, ReqType, Phases
      <3> QED
        BY <1>g, <3>2, <3>4
    <2> QED
      BY <2>1, <2>2
  <1>4. ASSUME NEW r \in Requests,
               AddCustomerChannel(r) \/ UndoCreate(r) \/ Activate(r) \/ DeleteChannel(r) \/ CreateDeal(r)
        PROVE  ReqNow'
    <2>1. req' = [req EXCEPT ![r] = [req[r] EXCEPT !.phase = "over"]]
      BY <1>0, <1>4 DEF AddCustomerChannel, UndoCreate, Activate, DeleteChannel, CreateDeal, Goto
    <2> QED
      BY <1>0, <1>g, <1>o, <2>1
  <1>5. ASSUME NEW r \in Requests, LoadChannel(r) PROVE ReqNow'
    <2>1. PICK phase \in {"over", "activate"} : req' = [req EXCEPT ![r] = [req[r] EXCEPT !.phase = phase]]
      BY <1>0, <1>5 DEF LoadChannel, Goto
    <2>2. KnowsMore(r)
      BY <1>0, <1>5, <2>1 DEF KnowsRequest, ReqType, Phases, LoadChannel
    <2> QED
      BY <1>0, <1>g, <2>1, <2>2
  <1>6. ASSUME NEW r \in Requests, NEW u \in Customers, NEW i \in Rows,
               BeginProvide(r, u, i) \/ BeginDelete(r, u, i)
        PROVE  ReqNow'
    <2>1. PICK op \in {"provide", "delete"} : \E phase \in {"load", "delete"} :
              /\ phase = "delete" => op = "delete"
              /\ req' = [req EXCEPT ![r] = [Unused EXCEPT !.op = op, !.phase = phase, !.who = u, !.row = i]]
      BY <1>6 DEF BeginProvide, BeginDelete
    <2>2. PICK phase \in {"load", "delete"} :
              /\ phase = "delete" => op = "delete"
              /\ req' = [req EXCEPT ![r] = [Unused EXCEPT !.op = op, !.phase = phase, !.who = u, !.row = i]]
      BY <2>1
    <2>3. req'[r] = [Unused EXCEPT !.op = op, !.phase = phase, !.who = u, !.row = i]
      BY <1>0, <2>2
    <2>4. KnowsMore(r)
      BY <1>0, <2>2, <2>3 DEF KnowsRequest, Unused, ReqType, Phases
    <2> QED
      BY <1>0, <1>g, <2>2, <2>3, <2>4
  <1>7. ASSUME NEW r \in Requests, NEW u \in Customers, NEW i \in Rows, NEW d \in Deals, BeginOffer(r, u, i, d)
        PROVE  ReqNow'
    <2>1. Head(links[i]) \in Customers
      BY <1>0, <1>7, LinksFacts, HeadTailProperties DEF BeginOffer
    <2>2. req' = [req EXCEPT ![r] = [Unused EXCEPT !.op = "offer", !.phase = "offer", !.who = u,
                                                   !.row = i, !.manager = Head(links[i]), !.deal = d]]
      BY <1>7 DEF BeginOffer
    <2>3. req'[r] = [op |-> "offer", phase |-> "offer", who |-> u, chat |-> Nobody, row |-> i,
                     stats |-> FALSE, manager |-> Head(links[i]), deal |-> d]
      BY <1>0, <2>2 DEF Unused
    <2>4. KnowsMore(r)
      BY <1>0, <2>1, <2>3 DEF KnowsRequest, ReqType, Phases
    <2> QED
      BY <1>0, <1>g, <2>2, <2>4
  <1>8. ASSUME NEW r \in Requests, RequestFails(r) PROVE ReqNow'
    <2>1. PICK phase \in {"undo", "over"} :
              /\ req' = [req EXCEPT ![r] = [req[r] EXCEPT !.phase = phase]]
              /\ phase = "undo" => req[r].phase = "link"
      BY <1>0, <1>8 DEF RequestFails, Goto
    <2>2. KnowsMore(r)
      BY <1>0, <2>1 DEF KnowsRequest, ReqType, Phases
    <2> QED
      BY <1>0, <1>g, <2>1, <2>2
  <1>9. CASE Crash
    <2>1. req' = [r \in Requests |-> IF r \in Running THEN [req[r] EXCEPT !.phase = "over"] ELSE req[r]]
      BY <1>9 DEF Crash
    <2>2. \A r \in Requests : KnowsMore(r)
      BY <1>k, <1>o, <2>1
    <2> QED
      BY <2>1, <2>2 DEF ReqNow
  <1>10. ASSUME NEW d \in Deals, DealStep(d) PROVE ReqNow'
    BY <1>1, <1>10 DEF DealStep, Become
  <1>11. ASSUME NEW c \in Chats, BotStep(c) \/ UpdateFails(c) PROVE ReqNow'
    BY <1>1, <1>11 DEF BotStep, RemoveBot, ReturnBot, FindRemoved, Shut, VoidDeals, UpdateFails
  <1> QED
    BY <1>1, <1>2, <1>3, <1>4, <1>5, <1>6, <1>7, <1>8, <1>9, <1>10, <1>11 DEF Next, vars, AddStep, ProvideStep

ChannelType == {NoRow} \union [id : Rows, status : Statuses, is_listed : BOOLEAN]

LEMMA ChannelsTypeStep == ASSUME TypeInv, [Next]_vars PROVE channels' \in [Chats -> ChannelType']
  <1>0. /\ channels \in [Chats -> ChannelType] /\ links \in Seq(Seq(Customers))
        /\ ChannelType \subseteq ChannelType'
        /\ \A r \in Requests : req[r] \in ReqType
    BY RowsGrow DEF TypeInv, TypeOK, ChannelType, ReqType
  <1>1. CASE UNCHANGED channels
    BY <1>0, <1>1
  <1>2. ASSUME NEW r \in Requests, CreateChannel(r) PROVE channels' \in [Chats -> ChannelType']
    <2>1. CASE Stored(req[r].chat)
      BY <1>1, <1>2, <2>1 DEF CreateChannel
    <2>2. CASE ~Stored(req[r].chat)
      <3>1. [id |-> Len(links) + 1, status |-> IF req[r].stats THEN "AWAITING_DATA" ELSE "UNACTIVATED",
             is_listed |-> FALSE] \in ChannelType'
        BY <1>0, <1>2, <2>2, LinksAppended DEF CreateChannel, InsertChannel, ChannelType, Statuses
      <3> QED
        BY <1>0, <1>2, <2>2, <3>1 DEF CreateChannel, InsertChannel
    <2> QED
      BY <2>1, <2>2
  <1>3. ASSUME NEW r \in Requests, UndoCreate(r) \/ DeleteChannel(r) PROVE channels' \in [Chats -> ChannelType']
    BY <1>0, <1>3 DEF UndoCreate, DeleteChannel, DeleteRow, ChannelType
  <1>4. ASSUME NEW r \in Requests, Activate(r) PROVE channels' \in [Chats -> ChannelType']
    <2>1. \A c \in ChatsOf(req[r].row) :
              [channels[c] EXCEPT !.status = "ACTIVATED", !.is_listed = TRUE] \in ChannelType'
      BY <1>0 DEF ChatsOf, Stored, ChannelType, Statuses
    <2> QED
      BY <1>0, <1>4, <2>1 DEF Activate
  <1>5. ASSUME NEW c \in Chats, Shut(c) PROVE channels' \in [Chats -> ChannelType']
    <2>1. \A k \in ChatsOf(update[c].row) : [channels[k] EXCEPT !.status = "UNACTIVATED"] \in ChannelType'
      BY <1>0 DEF ChatsOf, Stored, ChannelType, Statuses
    <2> QED
      BY <1>0, <1>5, <2>1 DEF Shut
  <1>6. \/ UNCHANGED channels
        \/ \E r \in Requests : CreateChannel(r) \/ UndoCreate(r) \/ DeleteChannel(r) \/ Activate(r)
        \/ \E c \in Chats : Shut(c)
    BY DEF Next, vars, table, env, AskStatsBot, BeginProvide, BeginDelete, BeginOffer, AddStep, AddCustomerChannel,
       ProvideStep, LoadChannel, CreateDeal, DealStep, Become, BotStep, RemoveBot, ReturnBot,
       FindRemoved, VoidDeals, RequestFails, UpdateFails, Crash
  <1> QED
    BY <1>1, <1>2, <1>3, <1>4, <1>5, <1>6

DealType ==
    [row : {0} \union Rows, advertiser : Customers \union {Nobody},
     manager : Customers \union {Nobody}, stage : Stages]

LEMMA DealsTypeStep == ASSUME TypeInv, [Next]_vars PROVE deals' \in [Deals -> DealType']
  <1>0. /\ deals \in [Deals -> DealType] /\ DealType \subseteq DealType'
        /\ \A r \in Requests : req[r] \in ReqType /\ KnowsRequest(r)
    BY RowsGrow DEF TypeInv, TypeOK, DealType, ReqType
  <1>1. CASE UNCHANGED deals
    BY <1>0, <1>1
  <1>2. ASSUME NEW r \in Requests, CreateDeal(r) PROVE deals' \in [Deals -> DealType']
    <2>1. [row |-> req[r].row, advertiser |-> req[r].who, manager |-> req[r].manager, stage |-> "DRAFT"]
              \in DealType
      BY <1>0, <1>2 DEF CreateDeal, DealType, ReqType, KnowsRequest, Stages
    <2> QED
      BY <1>0, <1>2, <2>1 DEF CreateDeal
  <1>3. ASSUME NEW d \in Deals, NEW to \in Stages, deals' = [deals EXCEPT ![d].stage = to]
        PROVE  deals' \in [Deals -> DealType']
    <2>1. [deals[d] EXCEPT !.stage = to] \in DealType
      BY <1>0 DEF DealType
    <2> QED
      BY <1>0, <1>3, <2>1
  <1>4. ASSUME NEW d \in Deals, DealStep(d) PROVE deals' \in [Deals -> DealType']
    BY <1>3, <1>4 DEF DealStep, Become, Stages
  <1>5. ASSUME NEW r \in Requests, DeleteChannel(r) PROVE deals' \in [Deals -> DealType']
    <2>1. \A d \in Deals, to \in {"STRANDED", "DELETED"} : [deals[d] EXCEPT !.stage = to] \in DealType
      BY <1>0 DEF DealType, Stages
    <2> QED
      BY <1>0, <1>5, <2>1 DEF DeleteChannel
  <1>6. ASSUME NEW c \in Chats, VoidDeals(c) PROVE deals' \in [Deals -> DealType']
    <2>1. \A d \in Deals, to \in {"ENDED", "VOID"} : [deals[d] EXCEPT !.stage = to] \in DealType
      BY <1>0 DEF DealType, Stages
    <2> QED
      BY <1>0, <1>6, <2>1 DEF VoidDeals
  <1>7. \/ UNCHANGED deals
        \/ \E r \in Requests : CreateDeal(r) \/ DeleteChannel(r)
        \/ \E d \in Deals : DealStep(d)
        \/ \E c \in Chats : VoidDeals(c)
    BY DEF Next, vars, table, env, AskStatsBot, BeginProvide, BeginDelete, BeginOffer, AddStep, AddCustomerChannel,
       CreateChannel, UndoCreate, ProvideStep, LoadChannel, Activate, BotStep, RemoveBot, ReturnBot,
       FindRemoved, Shut, RequestFails, UpdateFails, Crash
  <1> QED
    BY <1>1, <1>2, <1>4, <1>5, <1>6, <1>7

UpdateType == [phase : {"none", "sent", "status", "deals"}, row : {0} \union Rows]

LEMMA UpdateTypeStep == ASSUME TypeInv, [Next]_vars PROVE update' \in [Chats -> UpdateType']
  <1>0. /\ update \in [Chats -> UpdateType] /\ UpdateType \subseteq UpdateType'
        /\ \A c \in Chats : Stored(c) => channels[c].id \in Rows
        /\ Quiet \in UpdateType
    BY RowsGrow DEF TypeInv, TypeOK, UpdateType, Quiet, Stored
  <1>1. ASSUME NEW c \in Chats, NEW x \in UpdateType, update' = [update EXCEPT ![c] = x]
        PROVE  update' \in [Chats -> UpdateType']
    BY <1>0, <1>1
  <1>2. \A c \in Chats, phase \in {"none", "sent", "status", "deals"} :
            [update[c] EXCEPT !.phase = phase] \in UpdateType
    BY <1>0 DEF UpdateType
  <1>3. CASE UNCHANGED update
    BY <1>0, <1>3
  <1>4. ASSUME NEW c \in Chats, RemoveBot(c) \/ Shut(c) PROVE update' \in [Chats -> UpdateType']
    <2>1. \E phase \in {"sent", "deals"} : update' = [update EXCEPT ![c] = [update[c] EXCEPT !.phase = phase]]
      BY <1>0, <1>4 DEF RemoveBot, Shut
    <2> QED
      BY <1>1, <1>2, <2>1
  <1>5. ASSUME NEW c \in Chats, FindRemoved(c) PROVE update' \in [Chats -> UpdateType']
    <2>1. Stored(c) => [phase |-> "status", row |-> channels[c].id] \in UpdateType
      BY <1>0 DEF UpdateType
    <2> QED
      BY <1>0, <1>1, <1>5, <2>1 DEF FindRemoved
  <1>6. ASSUME NEW c \in Chats, VoidDeals(c) PROVE update' \in [Chats -> UpdateType']
    BY <1>0, <1>1, <1>6 DEF VoidDeals
  <1>7. ASSUME NEW c \in Chats, UpdateFails(c) PROVE update' \in [Chats -> UpdateType']
    BY <1>0, <1>1, <1>2, <1>7 DEF UpdateFails
  <1>8. CASE Crash
    BY <1>0, <1>8 DEF Crash
  <1>9. \/ UNCHANGED update
        \/ Crash
        \/ \E c \in Chats : RemoveBot(c) \/ Shut(c) \/ FindRemoved(c) \/ VoidDeals(c) \/ UpdateFails(c)
    BY DEF Next, vars, table, env, AskStatsBot, BeginProvide, BeginDelete, BeginOffer, AddStep, AddCustomerChannel,
       CreateChannel, UndoCreate, ProvideStep, LoadChannel, Activate, DeleteChannel, CreateDeal, DealStep, Become,
       BotStep, ReturnBot, RequestFails
  <1> QED
    BY <1>3, <1>4, <1>5, <1>6, <1>7, <1>8, <1>9

LEMMA HistoryTypeStep ==
    ASSUME TypeInv, [Next]_vars
    PROVE  /\ bot' \subseteq Chats /\ removals' \in 0..MaxRemovals /\ faults' \in 0..MaxFaults
           /\ blind' \subseteq Chats /\ orphaned' \subseteq Rows'
  <1>0. /\ bot \subseteq Chats /\ removals \in 0..MaxRemovals /\ faults \in 0..MaxFaults
        /\ blind \subseteq Chats /\ orphaned \subseteq Rows /\ Rows \subseteq Rows'
        /\ \A r \in Requests : Halfway(r) => req[r].row \in Rows
    BY RowsGrow DEF TypeInv, TypeOK, KnowsRequest, Halfway
  <1>1. bot' \subseteq Chats /\ removals' \in 0..MaxRemovals
    <2>1. CASE UNCHANGED <<bot, removals>>
      BY <1>0, <2>1
    <2>2. ASSUME NEW c \in Chats, RemoveBot(c) \/ ReturnBot(c) PROVE bot' \subseteq Chats /\ removals' \in 0..MaxRemovals
      BY <1>0, <2>2, RegistryAssumption DEF RemoveBot, ReturnBot
    <2>3. UNCHANGED <<bot, removals>> \/ \E c \in Chats : RemoveBot(c) \/ ReturnBot(c)
      BY DEF Next, vars, env, AskStatsBot, BeginProvide, BeginDelete, BeginOffer, AddStep, AddCustomerChannel,
         CreateChannel, UndoCreate, ProvideStep, LoadChannel, Activate, DeleteChannel, CreateDeal, DealStep,
         Become, BotStep, FindRemoved, Shut, VoidDeals, RequestFails, UpdateFails, Crash
    <2> QED
      BY <2>1, <2>2, <2>3
  <1>2. faults' \in 0..MaxFaults /\ blind' \subseteq Chats /\ orphaned' \subseteq Rows'
    <2>1. CASE UNCHANGED <<faults, blind, orphaned>>
      BY <1>0, <2>1
    <2>2. ASSUME NEW r \in Requests, RequestFails(r)
          PROVE  faults' \in 0..MaxFaults /\ blind' \subseteq Chats /\ orphaned' \subseteq Rows'
      BY <1>0, <2>2, RegistryAssumption DEF RequestFails, Halfway
    <2>3. ASSUME NEW c \in Chats, UpdateFails(c) \/ FindRemoved(c) \/ Shut(c)
          PROVE  faults' \in 0..MaxFaults /\ blind' \subseteq Chats /\ orphaned' \subseteq Rows'
      BY <1>0, <2>3, RegistryAssumption DEF UpdateFails, FindRemoved, Shut
    <2>4. CASE Crash
      BY <1>0, <2>4, RegistryAssumption DEF Crash
    <2>5. \/ UNCHANGED <<faults, blind, orphaned>>
          \/ \E r \in Requests : RequestFails(r)
          \/ \E c \in Chats : UpdateFails(c) \/ FindRemoved(c) \/ Shut(c)
          \/ Crash
      BY DEF Next, vars, history, AskStatsBot, BeginProvide, BeginDelete, BeginOffer, AddStep, AddCustomerChannel,
         CreateChannel, UndoCreate, ProvideStep, LoadChannel, Activate, DeleteChannel, CreateDeal, DealStep,
         Become, BotStep, RemoveBot, ReturnBot, VoidDeals
    <2> QED
      BY <2>1, <2>2, <2>3, <2>4, <2>5
  <1> QED
    BY <1>1, <1>2

LEMMA TypeStep == TypeInv /\ [Next]_vars => TypeInv'
  BY RowsGrow, RequestsTypeStep, ChannelsTypeStep, DealsTypeStep, UpdateTypeStep, HistoryTypeStep
     DEF TypeInv, TypeOK, ReqNow, ReqType, ChannelType, DealType, UpdateType

(* Type correctness, and what the record of a request means in its phase. *)
THEOREM TypeInvariant == Spec => []TypeInv
  BY TypeInit, TypeStep, PTL DEF Spec

(* Every variable keeps its type, whatever requests and updates do. *)
THEOREM TypeCorrect == Spec => []TypeOK
  <1>1. TypeInv => TypeOK
    BY DEF TypeInv
  <1> QED
    BY <1>1, TypeInvariant, PTL

-----------------------------------------------------------------------------
(* Channels and their managers *)

\* The rows under construction: nobody else has them, and they have no link yet.
OwnFreshRows ==
    \A r \in Requests : Halfway(r) =>
        /\ links[req[r].row] = <<>>
        /\ \A q \in Requests \ {r} : Halfway(q) => req[q].row # req[r].row

OwnRows == \A c, k \in Chats : Stored(c) /\ Stored(k) /\ channels[c].id = channels[k].id => c = k

LinkInv == ChannelsHaveOneManager /\ OwnRows /\ OwnFreshRows

\* Which rows there are, and the links, are as before; rows under construction are
\* finished or forgotten.
SameRow(c) == (Stored(c)' <=> Stored(c)) /\ (Stored(c) => channels'[c].id = channels[c].id)
SameRows ==
    /\ links' = links
    /\ \A c \in Chats : SameRow(c)
    /\ \A r \in Requests : Halfway(r)' => Halfway(r) /\ req'[r].row = req[r].row
    /\ \A r \in Requests : Halfway(r) => Halfway(r)' \/ req[r].row \in orphaned'
    /\ orphaned \subseteq orphaned'

\* Nearly every step leaves the rows alone.
LEMMA RowSteps ==
    ASSUME TypeInv, [Next]_vars
    PROVE  \/ SameRows
           \/ \E r \in Requests : CreateChannel(r) /\ ~Stored(req[r].chat)
           \/ \E r \in Requests : AddCustomerChannel(r) \/ UndoCreate(r) \/ DeleteChannel(r)
  <1>0. /\ req \in [Requests -> ReqType] /\ channels \in [Chats -> ChannelType]
        /\ 0 \notin Rows /\ \A c \in Chats : Stored(c) <=> channels[c] # NoRow
    BY LinksFacts DEF TypeInv, TypeOK, ReqType, ChannelType, Stored
  <1>c. \A c \in Chats : channels'[c] = channels[c] => SameRow(c)
    BY DEF SameRow, Stored
  <1>r. ASSUME NEW r \in Requests, UNCHANGED <<channels, links, orphaned>>,
               req' = [req EXCEPT ![r] = req'[r]],
               req'[r].phase \notin {"link", "undo"}, req[r].phase \notin {"link", "undo"}
        PROVE  SameRows
    BY <1>0, <1>c, <1>r DEF SameRows, Halfway
  <1>1. ASSUME UNCHANGED <<channels, links, req, orphaned>> PROVE SameRows
    BY <1>0, <1>1, <1>c DEF SameRows, Halfway
  <1>2. ASSUME NEW r \in Requests, NEW u \in Customers, NEW c \in Chats, AskStatsBot(r, u, c) PROVE SameRows
    <2>1. PICK x \in {"create"} : \E stats \in BOOLEAN :
              req' = [req EXCEPT ![r] = [Unused EXCEPT !.op = "add", !.phase = x, !.who = u,
                                                       !.chat = c, !.stats = stats]]
      BY <1>2 DEF AskStatsBot
    <2>2. req'[r].phase = "create" /\ req' = [req EXCEPT ![r] = req'[r]]
      BY <1>0, <2>1 DEF Unused
    <2>3. UNCHANGED <<channels, links, orphaned>> /\ req[r].phase = "unused"
      BY <1>2 DEF AskStatsBot, table, history, Unused
    <2> QED
      BY <1>r, <2>2, <2>3
  <1>3. ASSUME NEW r \in Requests, NEW u \in Customers, NEW i \in Rows, BeginProvide(r, u, i) \/ BeginDelete(r, u, i)
        PROVE  SameRows
    <2>1. req'[r].phase \in {"load", "delete"} /\ req' = [req EXCEPT ![r] = req'[r]]
      BY <1>0, <1>3 DEF BeginProvide, BeginDelete, Unused
    <2> QED
      BY <1>3, <1>r, <2>1 DEF BeginProvide, BeginDelete, table, history, Unused
  <1>4. ASSUME NEW r \in Requests, NEW u \in Customers, NEW i \in Rows, NEW d \in Deals, BeginOffer(r, u, i, d)
        PROVE  SameRows
    <2>1. req'[r].phase = "offer" /\ req' = [req EXCEPT ![r] = req'[r]]
      BY <1>0, <1>4 DEF BeginOffer, Unused
    <2>2. UNCHANGED <<channels, links, orphaned>> /\ req[r].phase = "unused"
      BY <1>4 DEF BeginOffer, table, history, Unused
    <2> QED
      BY <1>r, <2>1, <2>2
  <1>5. ASSUME NEW r \in Requests, LoadChannel(r) \/ CreateDeal(r) PROVE SameRows
    <2>1. req'[r].phase \in {"over", "activate"} /\ req' = [req EXCEPT ![r] = req'[r]]
      BY <1>0, <1>5 DEF LoadChannel, CreateDeal, Goto, ReqType
    <2> QED
      BY <1>5, <1>r, <2>1 DEF LoadChannel, CreateDeal, table, history
  <1>6. ASSUME NEW r \in Requests, CreateChannel(r), Stored(req[r].chat) PROVE SameRows
    <2>1. req'[r].phase = "over" /\ req' = [req EXCEPT ![r] = req'[r]]
      BY <1>0, <1>6 DEF CreateChannel, Goto, ReqType
    <2> QED
      BY <1>6, <1>r, <2>1 DEF CreateChannel, history
  <1>7. ASSUME NEW r \in Requests, Activate(r) PROVE SameRows
    <2>1. \A c \in Chats : SameRow(c)
      <3> SUFFICES ASSUME NEW c \in ChatsOf(req[r].row) PROVE SameRow(c)
        BY <1>7, <1>c DEF Activate
      <3>1. channels[c] \in [id : Rows, status : Statuses, is_listed : BOOLEAN]
        BY <1>0 DEF ChatsOf, ChannelType
      <3>2. channels'[c] = [channels[c] EXCEPT !.status = "ACTIVATED", !.is_listed = TRUE]
        BY <1>7 DEF Activate, ChatsOf
      <3>3. channels'[c].id = channels[c].id /\ channels[c].id \in Rows
        BY <3>1, <3>2
      <3> QED
        BY <1>0, <3>3 DEF SameRow, Stored, NoRow
    <2>2. /\ \A q \in Requests : Halfway(q)' <=> Halfway(q)
          /\ \A q \in Requests : Halfway(q) => req'[q] = req[q]
      BY <1>0, <1>7 DEF Activate, Goto, Halfway, ReqType
    <2> QED
      BY <1>7, <2>1, <2>2 DEF SameRows, Activate, history
  <1>8. ASSUME NEW k \in Chats, Shut(k) PROVE SameRows
    <2>1. \A c \in Chats : SameRow(c)
      <3> SUFFICES ASSUME NEW c \in ChatsOf(update[k].row) PROVE SameRow(c)
        BY <1>8, <1>c DEF Shut
      <3>1. channels[c] \in [id : Rows, status : Statuses, is_listed : BOOLEAN]
        BY <1>0 DEF ChatsOf, ChannelType
      <3>2. channels'[c] = [channels[c] EXCEPT !.status = "UNACTIVATED"]
        BY <1>8 DEF Shut, ChatsOf
      <3> QED
        BY <1>0, <3>1, <3>2 DEF SameRow, Stored, NoRow
    <2> QED
      BY <1>8, <2>1 DEF SameRows, Shut, Halfway
  <1>9. ASSUME NEW r \in Requests, RequestFails(r) PROVE SameRows
    <2>1. /\ UNCHANGED <<channels, links>>
          /\ \A q \in Requests \ {r} : req'[q] = req[q]
          /\ req'[r] = [req[r] EXCEPT !.phase = IF req[r].phase = "link" THEN "undo" ELSE "over"]
          /\ orphaned' = IF req[r].phase = "undo" THEN orphaned \union {req[r].row} ELSE orphaned
      BY <1>0, <1>9 DEF RequestFails, Goto, table
    <2>2. /\ req'[r].phase = IF req[r].phase = "link" THEN "undo" ELSE "over"
          /\ req'[r].row = req[r].row
      BY <1>0, <2>1 DEF ReqType
    <2> QED
      BY <1>c, <2>1, <2>2 DEF SameRows, Halfway
  <1>10. CASE Crash
    <2>1. \A r \in Requests : ~Halfway(r)'
      BY <1>0, <1>10 DEF Crash, Running, Halfway, ReqType
    <2> QED
      BY <1>10, <1>c, <2>1 DEF SameRows, Crash, table
  <1>11. ASSUME NEW d \in Deals, DealStep(d) PROVE SameRows
    BY <1>1, <1>11 DEF DealStep, Become, history
  <1>12. ASSUME NEW c \in Chats,
                RemoveBot(c) \/ ReturnBot(c) \/ FindRemoved(c) \/ VoidDeals(c) \/ UpdateFails(c)
         PROVE  SameRows
    BY <1>1, <1>12 DEF RemoveBot, ReturnBot, FindRemoved, VoidDeals, UpdateFails, history, table
  <1>13. CASE UNCHANGED vars
    BY <1>1, <1>13 DEF vars, table, history
  <1> QED
    BY <1>2, <1>3, <1>4, <1>5, <1>6, <1>7, <1>8, <1>9, <1>10, <1>11, <1>12, <1>13
       DEF Next, AddStep, ProvideStep, BotStep

\* What the other steps do to rows, links and requests.
LEMMA CreateEffect ==
    ASSUME TypeInv, NEW r \in Requests, CreateChannel(r), ~Stored(req[r].chat)
    PROVE  /\ req[r].chat \in Chats
           /\ Stored(req[r].chat)' /\ channels'[req[r].chat].id = Len(links) + 1
           /\ \A c \in Chats \ {req[r].chat} : channels'[c] = channels[c]
           /\ req'[r].phase = "link" /\ req'[r].row = Len(links) + 1
           /\ \A q \in Requests \ {r} : req'[q] = req[q]
           /\ orphaned' = orphaned /\ ~Halfway(r)
  <1>1. /\ req \in [Requests -> ReqType] /\ channels \in [Chats -> ChannelType] /\ req[r].chat \in Chats
        /\ Len(links) + 1 # 0
    BY LinksFacts DEF TypeInv, TypeOK, ReqType, ChannelType, KnowsRequest, CreateChannel
  <1>2. /\ channels' = [channels EXCEPT ![req[r].chat] =
                           [id |-> Len(links) + 1,
                            status |-> IF req[r].stats THEN "AWAITING_DATA" ELSE "UNACTIVATED",
                            is_listed |-> FALSE]]
        /\ req' = [req EXCEPT ![r] = [req[r] EXCEPT !.phase = "link", !.row = Len(links) + 1]]
        /\ orphaned' = orphaned /\ req[r].phase = "create"
    BY <1>1 DEF CreateChannel, InsertChannel, history
  <1>3. channels'[req[r].chat].id = Len(links) + 1 /\ req'[r].phase = "link" /\ req'[r].row = Len(links) + 1
    BY <1>1, <1>2 DEF ReqType
  <1> QED
    BY <1>1, <1>2, <1>3 DEF Stored, NoRow, Halfway

LEMMA OverEffect ==
    ASSUME TypeInv, NEW r \in Requests, AddCustomerChannel(r) \/ UndoCreate(r) \/ DeleteChannel(r)
    PROVE  /\ req'[r].phase = "over"
           /\ \A q \in Requests \ {r} : req'[q] = req[q]
           /\ orphaned' = orphaned
           /\ DeleteChannel(r) \/ Halfway(r)
  BY DEF TypeInv, TypeOK, AddCustomerChannel, UndoCreate, DeleteChannel, Goto, history, Halfway

LEMMA RemovalEffect ==
    ASSUME NEW r \in Requests, UndoCreate(r) \/ DeleteChannel(r)
    PROVE  \A c \in Chats :
               /\ Stored(c)' => channels'[c] = channels[c] /\ Stored(c) /\ channels[c].id # req[r].row
               /\ Stored(c) /\ channels[c].id # req[r].row => channels'[c] = channels[c]
  BY DEF UndoCreate, DeleteChannel, DeleteRow, ChatsOf, Stored

LEMMA LinkInit == Init => LinkInv
  BY DEF Init, LinkInv, ChannelsHaveOneManager, OwnRows, OwnFreshRows, Halfway, Unused, Stored, Rows

LEMMA LinkStep == TypeInv /\ LinkInv /\ [Next]_vars => LinkInv'
  <1> SUFFICES ASSUME TypeInv, LinkInv, [Next]_vars PROVE LinkInv'
    OBVIOUS
  <1>0. /\ links \in Seq(Seq(Customers)) /\ links' \in Seq(Seq(Customers)) /\ Rows \subseteq Rows'
        /\ 0 \notin Rows /\ Len(links) + 1 \notin Rows
        /\ \A r \in Requests : Halfway(r) => req[r].row \in Rows
        /\ \A c \in Chats : Stored(c) => channels[c].id \in Rows
    BY RowsGrow, LinksFacts DEF TypeInv, TypeOK, KnowsRequest, Halfway, Stored
  <1>l. /\ \A i \in Rows : Len(links[i]) <= 1
        /\ \A c \in Chats : Stored(c) =>
              \/ links[channels[c].id] # <<>>
              \/ channels[c].id \in orphaned
              \/ \E r \in Requests : Halfway(r) /\ req[r].row = channels[c].id
        /\ \A c, k \in Chats : Stored(c) /\ Stored(k) /\ channels[c].id = channels[k].id => c = k
        /\ \A r \in Requests : Halfway(r) => links[req[r].row] = <<>>
        /\ \A r, q \in Requests : Halfway(r) /\ Halfway(q) /\ r # q => req[q].row # req[r].row
    BY DEF LinkInv, ChannelsHaveOneManager, OwnRows, OwnFreshRows
  <1>1. CASE SameRows
    <2>1. Rows' = Rows
      BY <1>1 DEF SameRows, Rows
    <2> QED
      BY <1>1, <1>l, <2>1 DEF LinkInv, ChannelsHaveOneManager, OwnRows, OwnFreshRows, SameRows, SameRow
  <1>2. ASSUME NEW r \in Requests, CreateChannel(r), ~Stored(req[r].chat) PROVE LinkInv'
    <2>0. /\ Rows' = Rows \union {Len(links) + 1}
          /\ \A i \in Rows : links'[i] = links[i]
          /\ links'[Len(links) + 1] = <<>> /\ Len(<<>>) = 0
      BY <1>0, <1>2, LinksAppended, EmptySeq DEF CreateChannel, InsertChannel
    <2>1. ASSUME NEW i \in Rows' PROVE Len(links'[i]) <= 1
      <3>1. CASE i \in Rows
        BY <1>l, <2>0, <3>1
      <3>2. CASE i = Len(links) + 1
        BY <2>0, <3>2
      <3> QED
        BY <2>0, <2>1, <3>1, <3>2
    <2>2. /\ \A q \in Requests : Halfway(q)' => IF q = r THEN req'[q].row = Len(links) + 1
                                                ELSE Halfway(q) /\ req'[q] = req[q]
          /\ Halfway(r)' /\ \A q \in Requests : Halfway(q) => Halfway(q)' /\ q # r /\ req'[q] = req[q]
      BY <1>2, CreateEffect DEF Halfway
    <2>3. /\ \A c \in Chats : Stored(c)' => IF c = req[r].chat THEN channels'[c].id = Len(links) + 1
                                            ELSE Stored(c) /\ channels'[c] = channels[c]
      BY <1>2, CreateEffect DEF Stored
    <2>4. ChannelsHaveOneManager'
      <3> SUFFICES ASSUME NEW c \in Chats, Stored(c)'
                   PROVE  \/ links'[channels'[c].id] # <<>>
                          \/ channels'[c].id \in orphaned'
                          \/ \E q \in Requests : Halfway(q)' /\ req'[q].row = channels'[c].id
        BY <2>1 DEF ChannelsHaveOneManager
      <3>1. CASE c = req[r].chat
        BY <2>2, <2>3, <3>1
      <3>2. CASE c # req[r].chat
        <4>1. Stored(c) /\ channels'[c] = channels[c] /\ channels[c].id \in Rows /\ orphaned' = orphaned
          BY <1>0, <1>2, <2>3, <3>2, CreateEffect
        <4> QED
          BY <1>l, <2>0, <2>2, <4>1
      <3> QED
        BY <3>1, <3>2
    <2>5. OwnRows'
      BY <1>0, <1>l, <2>3 DEF OwnRows
    <2>6. OwnFreshRows'
      <3>1. \A q \in Requests : Halfway(q)' /\ q # r => req'[q].row \in Rows /\ Halfway(q) /\ req'[q] = req[q]
        BY <1>0, <2>2
      <3>2. \A q \in Requests : Halfway(q)' => links'[req'[q].row] = <<>>
        BY <1>l, <2>0, <2>2, <3>1
      <3>3. \A p, q \in Requests : Halfway(p)' /\ Halfway(q)' /\ p # q => req'[q].row # req'[p].row
        BY <1>0, <1>l, <2>2, <3>1
      <3> QED
        BY <3>2, <3>3 DEF OwnFreshRows
    <2> QED
      BY <2>4, <2>5, <2>6 DEF LinkInv
  <1>3. ASSUME NEW r \in Requests, AddCustomerChannel(r) PROVE LinkInv'
    <2> DEFINE i == req[r].row
    <2>0. /\ Rows' = Rows /\ i \in Rows /\ links'[i] = Append(links[i], req[r].who)
          /\ \A j \in Rows \ {i} : links'[j] = links[j]
      BY <1>3, AddsLink
    <2>1. Halfway(r) /\ links[i] = <<>> /\ req[r].who \in Customers
      BY <1>3, <1>l DEF AddCustomerChannel, Halfway, TypeInv, KnowsRequest
    <2>2. Len(links'[i]) = 1 /\ links'[i] # <<>>
      <3>1. <<>> \in Seq(Customers) /\ Len(<<>>) = 0
        BY EmptySeq
      <3>2. Len(Append(<<>>, req[r].who)) = 1
        BY <2>1, <3>1, AppendProperties
      <3> QED
        BY <2>0, <2>1, <3>1, <3>2
    <2>3. \A q \in Requests : (Halfway(q)' <=> Halfway(q) /\ q # r) /\ (q # r => req'[q] = req[q])
      BY <1>3, OverEffect DEF Halfway
    <2>4. channels' = channels /\ orphaned' = orphaned /\ \A c \in Chats : Stored(c)' <=> Stored(c)
      BY <1>3, OverEffect DEF AddCustomerChannel, Stored
    <2> HIDE DEF i
    <2>5. \A j \in Rows' : Len(links'[j]) <= 1
      BY <1>l, <2>0, <2>2
    <2>6. ASSUME NEW c \in Chats, Stored(c)
          PROVE  \/ links'[channels[c].id] # <<>>
                 \/ channels[c].id \in orphaned
                 \/ \E q \in Requests : Halfway(q)' /\ req'[q].row = channels[c].id
      <3>1. CASE channels[c].id = i
        BY <2>2, <3>1
      <3>2. CASE channels[c].id # i
        <4>1. links'[channels[c].id] = links[channels[c].id]
          BY <1>0, <2>0, <2>6, <3>2
        <4>2. \A q \in Requests : Halfway(q) /\ req[q].row = channels[c].id =>
                  Halfway(q)' /\ req'[q].row = channels[c].id
          BY <2>3, <3>2 DEF i
        <4> QED
          BY <1>l, <2>6, <4>1, <4>2
      <3> QED
        BY <3>1, <3>2
    <2>7. ChannelsHaveOneManager' /\ OwnRows'
      BY <1>l, <2>4, <2>5, <2>6 DEF ChannelsHaveOneManager, OwnRows
    <2>8. \A q \in Requests : Halfway(q)' => Halfway(q) /\ req'[q] = req[q] /\ req[q].row \in Rows \ {i}
      BY <1>0, <1>l, <2>1, <2>3 DEF i
    <2>9. OwnFreshRows'
      BY <1>l, <2>0, <2>8 DEF OwnFreshRows
    <2> QED
      BY <2>7, <2>9 DEF LinkInv
  <1>4. ASSUME NEW r \in Requests, UndoCreate(r) \/ DeleteChannel(r) PROVE LinkInv'
    <2>0. /\ Rows' = Rows /\ req[r].row \in Rows
          /\ \A j \in Rows \ {req[r].row} : links'[j] = links[j]
          /\ links'[req[r].row] = <<>>
      <3>1. CASE UndoCreate(r)
        BY <1>0, <1>l, <3>1 DEF UndoCreate, Halfway, Rows
      <3>2. CASE DeleteChannel(r)
        BY <3>2, DropsLinks
      <3> QED
        BY <1>4, <3>1, <3>2
    <2>1. \A q \in Requests : (Halfway(q)' <=> Halfway(q) /\ q # r) /\ (q # r => req'[q] = req[q])
      BY <1>4, OverEffect DEF Halfway, DeleteChannel
    <2>2. /\ \A c \in Chats : Stored(c)' => channels'[c] = channels[c] /\ Stored(c) /\ channels[c].id # req[r].row
          /\ orphaned' = orphaned
      BY <1>4, OverEffect, RemovalEffect
    <2>3. Len(<<>>) = 0
      BY EmptySeq
    <2>4. \A j \in Rows' : Len(links'[j]) <= 1
      BY <1>l, <2>0, <2>3
    <2>5. ASSUME NEW c \in Chats, Stored(c)'
          PROVE  \/ links'[channels'[c].id] # <<>>
                 \/ channels'[c].id \in orphaned'
                 \/ \E q \in Requests : Halfway(q)' /\ req'[q].row = channels'[c].id
      <3>1. Stored(c) /\ channels'[c] = channels[c] /\ channels[c].id \in Rows \ {req[r].row}
        BY <1>0, <2>2, <2>5
      <3>2. links'[channels[c].id] = links[channels[c].id]
        BY <2>0, <3>1
      <3>3. \A q \in Requests : Halfway(q) /\ req[q].row = channels[c].id =>
                Halfway(q)' /\ req'[q].row = channels[c].id
        BY <2>1, <3>1
      <3> QED
        BY <1>l, <2>2, <3>1, <3>2, <3>3
    <2>6. OwnRows'
      BY <1>l, <2>2 DEF OwnRows
    <2>7. \A q \in Requests : Halfway(q)' => Halfway(q) /\ req'[q] = req[q] /\ req[q].row \in Rows
      BY <1>0, <2>1
    <2>8. OwnFreshRows'
      BY <1>l, <2>0, <2>7 DEF OwnFreshRows
    <2> QED
      BY <2>4, <2>5, <2>6, <2>8 DEF LinkInv, ChannelsHaveOneManager
  <1> QED
    BY <1>1, <1>2, <1>3, <1>4, RowSteps

(* Rows under construction belong to one request, rows to one channel, and a *)
(* row that is finished has its manager.                                     *)
THEOREM LinkInvariant == Spec => []LinkInv
  BY LinkInit, LinkStep, TypeInvariant, PTL DEF Spec

(* No race of admins who add a channel leaves it with two managers or none.  *)
THEOREM OneManager == Spec => []ChannelsHaveOneManager
  <1>1. LinkInv => ChannelsHaveOneManager
    BY DEF LinkInv
  <1> QED
    BY <1>1, LinkInvariant, PTL

-----------------------------------------------------------------------------
(* Deals, offers and deletions are with the manager *)

Active == {"DRAFT", "HELD", "VOID", "ENDED"}

\* An offer holds the manager of the row, who is not the advertiser.
Offers(r) ==
    req[r].phase = "offer" =>
        /\ req[r].who # req[r].manager
        /\ RowExists(req[r].row) => links[req[r].row] = <<req[r].manager>>

\* A deletion is the manager's.
Deletes(r) ==
    req[r].phase = "delete" /\ RowExists(req[r].row) => links[req[r].row] = <<req[r].who>>

PartyInv ==
    /\ DealsAreWithTheManager
    /\ \A r \in Requests : Offers(r) /\ Deletes(r)

LEMMA OnlyLink ==
    ASSUME NEW s \in Seq(Customers), Len(s) <= 1, s # <<>>
    PROVE  s = <<Head(s)>> /\ Head(s) \in Customers /\ \A n \in DOMAIN s : s[n] = Head(s)
  <1>1. Len(s) = 1 /\ DOMAIN s = 1..1 /\ Head(s) \in Customers
    <2>1. Len(s) \in Nat \ {0}
      BY EmptySeq
    <2>2. Len(s) = 1
      BY <2>1
    <2> QED
      BY <2>2, LenProperties, HeadTailProperties
  <1>2. Head(s) = s[1]
    OBVIOUS
  <1>3. <<Head(s)>> \in Seq(Customers) /\ Len(<<Head(s)>>) = 1 /\ <<Head(s)>>[1] = Head(s)
    BY <1>1
  <1>4. s = <<Head(s)>>
    BY <1>1, <1>2, <1>3, SeqEqual
  <1> QED
    BY <1>1, <1>2, <1>4

\* The row is there after the step.
RowAfter(i) == \E c \in Chats : channels'[c] # NoRow /\ channels'[c].id = i

\* A row with a manager keeps the manager as long as it is there, and only a deletion ends it.
LEMMA ManagedRows ==
    ASSUME TypeInv, LinkInv, [Next]_vars, NEW i \in Rows
    PROVE  /\ RowAfter(i) => RowExists(i)
           /\ \A u : RowExists(i) /\ links[i] = <<u>> =>
                 \/ RowAfter(i) /\ links'[i] = <<u>>
                 \/ \E r \in Requests : DeleteChannel(r) /\ req[r].row = i
  <1>0. /\ links \in Seq(Seq(Customers)) /\ Len(links) + 1 \notin Rows
        /\ \A r \in Requests : Halfway(r) => links[req[r].row] = <<>>
        /\ \A u : <<u>> # <<>>
    BY LinksFacts DEF TypeInv, TypeOK, LinkInv, OwnFreshRows
  <1>1. ASSUME SameRows PROVE (RowExists(i)' <=> RowExists(i)) /\ links'[i] = links[i]
    BY <1>1 DEF SameRows, SameRow, RowExists
  <1>2. ASSUME NEW r \in Requests, CreateChannel(r), ~Stored(req[r].chat)
        PROVE  (RowExists(i)' <=> RowExists(i)) /\ links'[i] = links[i]
    <2>1. links'[i] = links[i]
      BY <1>0, <1>2, LinksAppended DEF CreateChannel, InsertChannel
    <2>2. \A c \in Chats : Stored(c)' /\ channels'[c].id = i <=> Stored(c) /\ channels[c].id = i
      BY <1>0, <1>2, CreateEffect DEF Stored
    <2> QED
      BY <2>1, <2>2 DEF RowExists
  <1>3. ASSUME NEW r \in Requests, AddCustomerChannel(r)
        PROVE  (RowExists(i)' <=> RowExists(i)) /\ (links[i] # <<>> => links'[i] = links[i])
    <2>1. links[req[r].row] = <<>>
      BY <1>0, <1>3 DEF AddCustomerChannel, Halfway
    <2>2. links[i] # <<>> => links'[i] = links[i]
      BY <1>3, <2>1, AddsLink
    <2>3. RowExists(i)' <=> RowExists(i)
      BY <1>3 DEF AddCustomerChannel, RowExists, Stored
    <2> QED
      BY <2>2, <2>3
  <1>4. ASSUME NEW r \in Requests, UndoCreate(r)
        PROVE  /\ RowExists(i)' => RowExists(i)
               /\ links[i] # <<>> /\ RowExists(i) => RowExists(i)' /\ links'[i] = links[i]
    <2>1. links[req[r].row] = <<>> /\ links' = links
      BY <1>0, <1>4 DEF UndoCreate, Halfway
    <2> QED
      BY <1>4, <2>1, RemovalEffect DEF RowExists, Stored
  <1>5. ASSUME NEW r \in Requests, DeleteChannel(r)
        PROVE  /\ RowExists(i)' => RowExists(i)
               /\ req[r].row # i /\ RowExists(i) => RowExists(i)' /\ links'[i] = links[i]
    <2>1. req[r].row # i => links'[i] = links[i]
      BY <1>5, DropsLinks
    <2> QED
      BY <1>5, <2>1, RemovalEffect DEF RowExists, Stored
  <1>6. RowExists(i)' => RowExists(i)
    BY <1>1, <1>2, <1>3, <1>4, <1>5, RowSteps
  <1>7. ASSUME NEW u, RowExists(i), links[i] = <<u>>
        PROVE  \/ RowExists(i)' /\ links'[i] = <<u>>
               \/ \E r \in Requests : DeleteChannel(r) /\ req[r].row = i
    <2>1. links[i] # <<>>
      BY <1>0, <1>7
    <2> QED
      BY <1>1, <1>2, <1>3, <1>4, <1>5, <1>7, <2>1, RowSteps
  <1>8. RowAfter(i) <=> RowExists(i)'
    BY DEF RowAfter, RowExists, Stored
  <1> QED
    BY <1>6, <1>7, <1>8

\* Where an active deal comes from.
LEMMA DealMoves ==
    ASSUME TypeInv, [Next]_vars, NEW d \in Deals, deals'[d].stage \in Active
    PROVE  \/ /\ deals[d].stage \in Active
              /\ deals'[d].row = deals[d].row /\ deals'[d].advertiser = deals[d].advertiser
              /\ deals'[d].manager = deals[d].manager
              /\ \A r \in Requests : DeleteChannel(r) => req[r].row # deals[d].row
           \/ \E r \in Requests :
                 /\ req[r].phase = "offer" /\ RowExists(req[r].row) /\ UNCHANGED <<channels, links>>
                 /\ deals'[d].row = req[r].row /\ deals'[d].advertiser = req[r].who
                 /\ deals'[d].manager = req[r].manager
  <1> DEFINE Stays == /\ deals[d].stage \in Active
                      /\ deals'[d].row = deals[d].row /\ deals'[d].advertiser = deals[d].advertiser
                      /\ deals'[d].manager = deals[d].manager
  <1>0. deals \in [Deals -> DealType]
    BY DEF TypeInv, TypeOK, DealType
  <1>1. ASSUME NEW r \in Requests, DeleteChannel(r) PROVE Stays /\ req[r].row # deals[d].row
    <2>1. CASE deals[d].row # req[r].row
      BY <1>0, <1>1, <2>1 DEF DeleteChannel
    <2>2. CASE deals[d].row = req[r].row /\ deals[d].stage \in {"NONE", "DELETED", "STRANDED"}
      BY <1>0, <1>1, <2>2 DEF DeleteChannel, Active
    <2>3. CASE deals[d].row = req[r].row /\ deals[d].stage \notin {"NONE", "DELETED", "STRANDED"}
      <3>1. \E to \in {"STRANDED", "DELETED"} : deals'[d] = [deals[d] EXCEPT !.stage = to]
        BY <1>0, <1>1, <2>3 DEF DeleteChannel
      <3> QED
        BY <1>0, <3>1 DEF DealType, Active
    <2> QED
      BY <2>1, <2>2, <2>3
  <1>2. ASSUME NEW r \in Requests, DeleteChannel(r), NEW q \in Requests, DeleteChannel(q)
        PROVE  req[q].row = req[r].row
    <2>1. req'[q].phase = "over" /\ req[q].phase = "delete"
      BY <1>2, OverEffect DEF DeleteChannel
    <2>2. q # r => req'[q] = req[q]
      BY <1>2, OverEffect
    <2> QED
      BY <2>1, <2>2
  <1>3. ASSUME UNCHANGED deals PROVE Stays
    BY <1>3
  <1>4. ASSUME NEW e \in Deals, DealStep(e) PROVE Stays
    <2>1. PICK from \in Active, to \in Active : Become(e, from, to)
      BY <1>4 DEF DealStep, Active
    <2> QED
      BY <1>0, <2>1 DEF Become, DealType
  <1>5. ASSUME NEW c \in Chats, VoidDeals(c) PROVE Stays
    <2>1. CASE deals[d].row # update[c].row \/ deals[d].stage \notin {"DRAFT", "HELD"}
      BY <1>0, <1>5, <2>1 DEF VoidDeals
    <2>2. CASE deals[d].row = update[c].row /\ deals[d].stage \in {"DRAFT", "HELD"}
      <3>1. \E to \in Active : deals'[d] = [deals[d] EXCEPT !.stage = to]
        BY <1>0, <1>5, <2>2 DEF VoidDeals, Active
      <3> QED
        BY <1>0, <2>2, <3>1 DEF DealType, Active
    <2> QED
      BY <2>1, <2>2
  <1>6. ASSUME NEW r \in Requests, CreateDeal(r), deals' # deals
        PROVE  \/ Stays
               \/ /\ req[r].phase = "offer" /\ RowExists(req[r].row) /\ UNCHANGED <<channels, links>>
                  /\ deals'[d].row = req[r].row /\ deals'[d].advertiser = req[r].who
                  /\ deals'[d].manager = req[r].manager
    <2>1. /\ req[r].phase = "offer" /\ RowExists(req[r].row) /\ UNCHANGED <<channels, links>>
          /\ deals' = [deals EXCEPT ![req[r].deal] =
                          [row |-> req[r].row, advertiser |-> req[r].who,
                           manager |-> req[r].manager, stage |-> "DRAFT"]]
      BY <1>6 DEF CreateDeal
    <2>2. CASE req[r].deal = d
      BY <1>0, <2>1, <2>2
    <2>3. CASE req[r].deal # d
      BY <1>0, <2>1, <2>3
    <2> QED
      BY <2>2, <2>3
  <1>7. CASE \E r \in Requests : DeleteChannel(r)
    BY <1>1, <1>2, <1>7
  <1>8. CASE ~\E r \in Requests : DeleteChannel(r)
    <2>1. \/ UNCHANGED deals
          \/ \E r \in Requests : CreateDeal(r)
          \/ \E e \in Deals : DealStep(e)
          \/ \E c \in Chats : VoidDeals(c)
      BY <1>8 DEF Next, vars, table, env, AskStatsBot, BeginProvide, BeginDelete, BeginOffer, AddStep,
         AddCustomerChannel, CreateChannel, UndoCreate, ProvideStep, LoadChannel, Activate, BotStep, RemoveBot,
         ReturnBot, FindRemoved, Shut, RequestFails, UpdateFails, Crash
    <2> QED
      BY <1>3, <1>4, <1>5, <1>6, <1>8, <2>1
  <1> QED
    BY <1>7, <1>8

\* An offer or a deletion under way was under way before, or begins now.
LEMMA PartyMoves ==
    ASSUME TypeInv, [Next]_vars, NEW r \in Requests, req'[r].phase \in {"offer", "delete"}
    PROVE  \/ req'[r] = req[r]
           \/ /\ req'[r].phase = "offer" /\ channels' = channels /\ links' = links
              /\ \E u \in Customers, i \in Rows, d \in Deals : BeginOffer(r, u, i, d)
           \/ /\ req'[r].phase = "delete" /\ channels' = channels /\ links' = links
              /\ \E u \in Customers, i \in Rows : BeginDelete(r, u, i)
  <1>0. req \in [Requests -> ReqType]
    BY DEF TypeInv, TypeOK, ReqType
  <1>1. ASSUME NEW q \in Requests, NEW u \in Customers, NEW c \in Chats, AskStatsBot(q, u, c) PROVE req'[r] = req[r]
    <2>1. PICK stats \in BOOLEAN :
              req' = [req EXCEPT ![q] = [Unused EXCEPT !.op = "add", !.phase = "create", !.who = u,
                                                       !.chat = c, !.stats = stats]]
      BY <1>1 DEF AskStatsBot
    <2> QED
      BY <1>0, <2>1 DEF Unused
  <1>2. ASSUME NEW q \in Requests, NEW u \in Customers, NEW i \in Rows, BeginProvide(q, u, i) PROVE req'[r] = req[r]
    BY <1>0, <1>2 DEF BeginProvide, Unused
  <1>3. ASSUME NEW q \in Requests, NEW u \in Customers, NEW i \in Rows, BeginDelete(q, u, i)
        PROVE  req'[r] = req[r] \/ (q = r /\ req'[r].phase = "delete" /\ channels' = channels /\ links' = links)
    <2>1. /\ channels' = channels /\ links' = links
          /\ req' = [req EXCEPT ![q] = [Unused EXCEPT !.op = "delete", !.phase = "delete", !.who = u, !.row = i]]
      BY <1>3 DEF BeginDelete, table
    <2>2. req'[q].phase = "delete" /\ (q # r => req'[r] = req[r])
      BY <1>0, <2>1 DEF Unused
    <2> QED
      BY <2>1, <2>2
  <1>4. ASSUME NEW q \in Requests, NEW u \in Customers, NEW i \in Rows, NEW d \in Deals, BeginOffer(q, u, i, d)
        PROVE  req'[r] = req[r] \/ (q = r /\ req'[r].phase = "offer" /\ channels' = channels /\ links' = links)
    <2>1. /\ channels' = channels /\ links' = links
          /\ req' = [req EXCEPT ![q] = [Unused EXCEPT !.op = "offer", !.phase = "offer", !.who = u,
                                                      !.row = i, !.manager = Head(links[i]), !.deal = d]]
      BY <1>4 DEF BeginOffer, table
    <2>2. req'[q].phase = "offer" /\ (q # r => req'[r] = req[r])
      BY <1>0, <2>1 DEF Unused
    <2> QED
      BY <2>1, <2>2
  <1>5. ASSUME NEW q \in Requests, NEW phase \in {"link", "undo", "over", "activate"},
               \/ req' = [req EXCEPT ![q].phase = phase]
               \/ req' = [req EXCEPT ![q].phase = phase, ![q].row = Len(links) + 1]
        PROVE  req'[r] = req[r]
    <2>1. q # r => req'[r] = req[r]
      BY <1>0, <1>5
    <2>2. req'[q].phase = phase
      BY <1>0, <1>5 DEF ReqType
    <2> QED
      BY <1>5, <2>1, <2>2
  <1>6. ASSUME NEW q \in Requests, CreateChannel(q) PROVE req'[r] = req[r]
    BY <1>5, <1>6 DEF CreateChannel, Goto
  <1>7. ASSUME NEW q \in Requests,
               \/ AddCustomerChannel(q) \/ UndoCreate(q) \/ LoadChannel(q) \/ Activate(q)
               \/ DeleteChannel(q) \/ CreateDeal(q) \/ RequestFails(q)
        PROVE  req'[r] = req[r]
    <2>1. \E phase \in {"undo", "over", "activate"} : Goto(q, phase)
      BY <1>7 DEF AddCustomerChannel, UndoCreate, LoadChannel, Activate, DeleteChannel, CreateDeal, RequestFails
    <2> QED
      BY <1>5, <2>1 DEF Goto
  <1>8. CASE Crash
    BY <1>0, <1>8 DEF Crash, ReqType
  <1>9. CASE UNCHANGED req
    BY <1>9
  <1>10. \/ UNCHANGED req
         \/ Crash
         \/ \E q \in Requests, u \in Customers :
               \/ \E c \in Chats : AskStatsBot(q, u, c)
               \/ \E i \in Rows : BeginProvide(q, u, i) \/ BeginDelete(q, u, i)
               \/ \E i \in Rows, d \in Deals : BeginOffer(q, u, i, d)
         \/ \E q \in Requests :
               \/ CreateChannel(q) \/ AddCustomerChannel(q) \/ UndoCreate(q) \/ LoadChannel(q) \/ Activate(q)
               \/ DeleteChannel(q) \/ CreateDeal(q) \/ RequestFails(q)
    BY DEF Next, vars, AddStep, ProvideStep, DealStep, Become, BotStep, RemoveBot, ReturnBot, FindRemoved, Shut,
       VoidDeals, UpdateFails
  <1> QED
    BY <1>1, <1>2, <1>3, <1>4, <1>6, <1>7, <1>8, <1>9, <1>10

LEMMA PartyInit == Init => PartyInv
  BY DEF Init, PartyInv, DealsAreWithTheManager, Offers, Deletes, NoDeal, Unused

LEMMA DealsStep ==
    ASSUME TypeInv, LinkInv, PartyInv, [Next]_vars, NEW d \in Deals, deals'[d].stage \in Active
    PROVE  /\ RowAfter(deals'[d].row)
           /\ links'[deals'[d].row] = <<deals'[d].manager>>
           /\ deals'[d].advertiser # deals'[d].manager
  <1>1. ASSUME deals[d].stage \in Active, \A r \in Requests : DeleteChannel(r) => req[r].row # deals[d].row
        PROVE  /\ RowAfter(deals[d].row) /\ links'[deals[d].row] = <<deals[d].manager>>
               /\ deals[d].advertiser # deals[d].manager
    <2>1. /\ RowExists(deals[d].row) /\ links[deals[d].row] = <<deals[d].manager>>
          /\ deals[d].advertiser # deals[d].manager
      BY <1>1 DEF PartyInv, DealsAreWithTheManager, Active
    <2>2. deals[d].row \in Rows
      BY <2>1 DEF RowExists, Stored, TypeInv, TypeOK
    <2> QED
      BY <1>1, <2>1, <2>2, ManagedRows
  <1>2. ASSUME NEW r \in Requests, req[r].phase = "offer", RowExists(req[r].row), UNCHANGED <<channels, links>>
        PROVE  /\ RowAfter(req[r].row) /\ links'[req[r].row] = <<req[r].manager>>
               /\ req[r].who # req[r].manager
    BY <1>2 DEF PartyInv, Offers, RowExists, RowAfter, Stored
  <1>3. CASE /\ deals[d].stage \in Active
             /\ deals'[d].row = deals[d].row /\ deals'[d].advertiser = deals[d].advertiser
             /\ deals'[d].manager = deals[d].manager
             /\ \A r \in Requests : DeleteChannel(r) => req[r].row # deals[d].row
    BY <1>1, <1>3
  <1>4. ASSUME NEW r \in Requests,
               req[r].phase = "offer" /\ RowExists(req[r].row) /\ UNCHANGED <<channels, links>>,
               deals'[d].row = req[r].row /\ deals'[d].advertiser = req[r].who,
               deals'[d].manager = req[r].manager
        PROVE  /\ RowAfter(deals'[d].row)
               /\ links'[deals'[d].row] = <<deals'[d].manager>>
               /\ deals'[d].advertiser # deals'[d].manager
    BY <1>2, <1>4
  <1> QED
    BY <1>3, <1>4, DealMoves

LEMMA RequestsStep ==
    ASSUME TypeInv, LinkInv, PartyInv, [Next]_vars, NEW r \in Requests
    PROVE  Offers(r)' /\ Deletes(r)'
  <1>0. /\ req \in [Requests -> ReqType] /\ Rows \subseteq Rows'
        /\ \A i \in Rows : links[i] \in Seq(Customers) /\ Len(links[i]) <= 1
        /\ req[r].phase \in {"offer", "delete"} => req[r].row \in Rows
    BY LinksFacts, RowsGrow
       DEF TypeInv, TypeOK, ReqType, KnowsRequest, LinkInv, ChannelsHaveOneManager
  <1>1. CASE req'[r].phase \notin {"offer", "delete"}
    BY <1>1 DEF Offers, Deletes
  <1>2. CASE req'[r] = req[r] /\ req'[r].phase \in {"offer", "delete"}
    <2>1. ASSUME NEW u, RowExists(req[r].row) => links[req[r].row] = <<u>>, RowAfter(req[r].row)
          PROVE  links'[req[r].row] = <<u>>
      <3>1. RowExists(req[r].row) /\ links[req[r].row] = <<u>>
        BY <1>0, <1>2, <2>1, ManagedRows
      <3>2. ASSUME NEW q \in Requests, DeleteChannel(q), req[q].row = req[r].row PROVE FALSE
        <4>1. \A c \in Chats : Stored(c)' => channels'[c] = channels[c] /\ channels[c].id # req[q].row
          BY <3>2, RemovalEffect
        <4> QED
          BY <2>1, <3>2, <4>1 DEF RowAfter, Stored
      <3> QED
        BY <1>0, <1>2, <3>1, <3>2, ManagedRows
    <2>2. Offers(r) /\ Deletes(r)
      BY DEF PartyInv
    <2>3. Offers(r)'
      BY <1>2, <2>1, <2>2 DEF Offers, RowExists, RowAfter, Stored
    <2>4. Deletes(r)'
      BY <1>2, <2>1, <2>2 DEF Deletes, RowExists, RowAfter, Stored
    <2> QED
      BY <2>3, <2>4
  <1>3. ASSUME NEW u \in Customers, NEW i \in Rows, NEW d \in Deals, BeginOffer(r, u, i, d)
        PROVE  Offers(r)' /\ Deletes(r)'
    <2>1. links[i] # <<>> /\ ~HasAccess(u, i) /\ links' = links
      BY <1>3 DEF BeginOffer, table
    <2>2. links[i] = <<Head(links[i])>> /\ links[i][1] = Head(links[i]) /\ 1 \in DOMAIN links[i]
      BY <1>0, <2>1, OnlyLink, EmptySeq, LenProperties
    <2>3. u # Head(links[i])
      BY <2>1, <2>2 DEF HasAccess
    <2>4. req'[r].phase = "offer" /\ req'[r].who = u /\ req'[r].row = i /\ req'[r].manager = Head(links[i])
      BY <1>0, <1>3 DEF BeginOffer, Unused
    <2> QED
      BY <2>1, <2>2, <2>3, <2>4 DEF Offers, Deletes
  <1>4. ASSUME NEW u \in Customers, NEW i \in Rows, BeginDelete(r, u, i) PROVE Offers(r)' /\ Deletes(r)'
    <2>1. HasAccess(u, i) /\ links' = links
      BY <1>4 DEF BeginDelete, table
    <2>2. links[i] # <<>>
      <3>1. PICK n \in DOMAIN links[i] : links[i][n] = u
        BY <2>1 DEF HasAccess
      <3>2. Len(links[i]) # 0
        BY <1>0, <3>1, LenProperties
      <3> QED
        BY <3>2, EmptySeq
    <2>3. links[i] = <<u>>
      BY <1>0, <2>1, <2>2, OnlyLink DEF HasAccess
    <2>4. req'[r].phase = "delete" /\ req'[r].who = u /\ req'[r].row = i
      BY <1>0, <1>4 DEF BeginDelete, Unused
    <2> QED
      BY <2>1, <2>3, <2>4 DEF Offers, Deletes
  <1> QED
    BY <1>1, <1>2, <1>3, <1>4, PartyMoves

LEMMA PartyStep == TypeInv /\ LinkInv /\ PartyInv /\ [Next]_vars => PartyInv'
  <1> SUFFICES ASSUME TypeInv, LinkInv, PartyInv, [Next]_vars PROVE PartyInv'
    OBVIOUS
  <1>1. DealsAreWithTheManager'
    BY DealsStep DEF DealsAreWithTheManager, Active, RowExists, RowAfter, Stored
  <1>2. \A r \in Requests : Offers(r)' /\ Deletes(r)'
    BY RequestsStep
  <1> QED
    BY <1>1, <1>2 DEF PartyInv

(* Who a deal, an offer or a deletion is with manages the row it is about.   *)
THEOREM PartyInvariant == Spec => []PartyInv
  BY PartyInit, PartyStep, TypeInvariant, LinkInvariant, PTL DEF Spec

(* The manager a deal names manages the channel it is about, however the     *)
(* offer overlaps with deleting the channel and adding it again.             *)
THEOREM DealsWithTheManager == Spec => []DealsAreWithTheManager
  <1>1. PartyInv => DealsAreWithTheManager
    BY DEF PartyInv
  <1> QED
    BY <1>1, PartyInvariant, PTL

\* Only deleting the channel strands the money of a deal.
LEMMA StrandingStep ==
    ASSUME TypeInv, [Next]_vars, NEW d \in Deals, deals[d].stage # "STRANDED", deals'[d].stage = "STRANDED"
    PROVE  \E r \in Requests : DeleteChannel(r) /\ req[r].row = deals[d].row /\ deals[d].stage \in Active
  <1>0. deals \in [Deals -> DealType]
    BY DEF TypeInv, TypeOK, DealType
  <1>1. ASSUME NEW r \in Requests, CreateDeal(r) PROVE FALSE
    BY <1>0, <1>1 DEF CreateDeal
  <1>2. ASSUME NEW e \in Deals, DealStep(e) PROVE FALSE
    <2>1. PICK from \in Active, to \in Active : Become(e, from, to)
      BY <1>2 DEF DealStep, Active
    <2> QED
      BY <1>0, <2>1 DEF Become, DealType, Active
  <1>3. ASSUME NEW c \in Chats, VoidDeals(c) PROVE FALSE
    <2>1. deals'[d] = deals[d] \/ \E to \in {"ENDED", "VOID"} : deals'[d] = [deals[d] EXCEPT !.stage = to]
      BY <1>3 DEF VoidDeals
    <2> QED
      BY <1>0, <2>1 DEF DealType
  <1>4. ASSUME NEW r \in Requests, DeleteChannel(r) PROVE req[r].row = deals[d].row /\ deals[d].stage \in Active
    <2>1. deals[d].row = req[r].row /\ deals[d].stage \notin {"NONE", "DELETED", "STRANDED"}
      BY <1>4 DEF DeleteChannel
    <2> QED
      BY <1>0, <2>1 DEF DealType, Stages, Active
  <1>5. \/ UNCHANGED deals
        \/ \E r \in Requests : CreateDeal(r) \/ DeleteChannel(r)
        \/ \E e \in Deals : DealStep(e)
        \/ \E c \in Chats : VoidDeals(c)
    BY DEF Next, vars, table, env, AskStatsBot, BeginProvide, BeginDelete, BeginOffer, AddStep, AddCustomerChannel,
       CreateChannel, UndoCreate, ProvideStep, LoadChannel, Activate, BotStep, RemoveBot, ReturnBot,
       FindRemoved, Shut, RequestFails, UpdateFails, Crash
  <1> QED
    BY <1>1, <1>2, <1>3, <1>4, <1>5

(* Money locked for a deal is stranded by the deal's own manager or not at   *)
(* all: nobody else can delete the channel under a deal.                     *)
THEOREM StrandedByManager == Spec => StrandedByItsManager
  <1>1. ASSUME TypeInv, PartyInv, [Next]_vars, NEW d \in Deals,
               deals[d].stage # "STRANDED", deals'[d].stage = "STRANDED"
        PROVE  \E r \in Requests : req[r].op = "delete" /\ req[r].who = deals[d].manager
    <2>1. PICK r \in Requests : DeleteChannel(r) /\ req[r].row = deals[d].row /\ deals[d].stage \in Active
      BY <1>1, StrandingStep
    <2>2. req[r].phase = "delete" /\ req[r].op = "delete"
      BY <1>1, <2>1 DEF DeleteChannel, TypeInv, KnowsRequest
    <2>3. RowExists(deals[d].row) /\ links[deals[d].row] = <<deals[d].manager>>
      BY <1>1, <2>1 DEF PartyInv, DealsAreWithTheManager, Active
    <2>4. links[req[r].row] = <<req[r].who>>
      BY <1>1, <2>1, <2>2, <2>3 DEF PartyInv, Deletes
    <2>5. req[r].who = deals[d].manager
      BY <2>1, <2>3, <2>4
    <2> QED
      BY <2>2, <2>5
  <1>2. TypeInv /\ PartyInv /\ [Next]_vars =>
            [\A d \in Deals : deals[d].stage # "STRANDED" /\ deals[d]'.stage = "STRANDED" =>
                \E r \in Requests : req[r].op = "delete" /\ req[r].who = deals[d].manager]_vars
    BY <1>1
  <1> QED
    BY <1>2, TypeInvariant, PartyInvariant, PTL DEF Spec, StrandedByItsManager

-----------------------------------------------------------------------------
(* Channels and the bot *)

\* The bot is in the channel, or the news that it is not is on its way or in vain.
InOrSent(c) == c \in bot \/ c \in blind \/ update[c].phase = "sent"

\* The same, or row i is about to be shut.
Watched(c, i) == InOrSent(c) \/ (update[c].phase = "status" /\ update[c].row = i)

Open(c) == channels[c].status \in {"AWAITING_DATA", "ACTIVATED"}

OpenWatched(c) == Open(c) => Watched(c, channels[c].id)
CreatesWatched(r) == req[r].phase = "create" => InOrSent(req[r].chat)
ActivatesWatched(r) ==
    req[r].phase = "activate" => \A c \in ChatsOf(req[r].row) : Watched(c, req[r].row)

BotInv ==
    /\ \A c \in Chats : OpenWatched(c)
    /\ \A r \in Requests : CreatesWatched(r) /\ ActivatesWatched(r)

LEMMA OpenStored == \A c \in Chats : Open(c) => Stored(c)
  BY DEF Open, Stored, NoRow

\* A channel stays watched until the removal is looked up and the row is shut.
LEMMA WatchKept ==
    ASSUME TypeInv, [Next]_vars, NEW c \in Chats
    PROVE  /\ InOrSent(c) /\ ~FindRemoved(c) => InOrSent(c)'
           /\ update[c].phase = "status" /\ ~Shut(c) =>
                 c \in blind' \/ (update'[c].phase = "status" /\ update'[c].row = update[c].row)
           /\ c \in bot \union blind /\ update[c].phase # "none" => c \in bot' \union blind'
  <1> DEFINE Goal == /\ InOrSent(c) /\ ~FindRemoved(c) => InOrSent(c)'
                     /\ update[c].phase = "status" /\ ~Shut(c) =>
                           c \in blind' \/ (update'[c].phase = "status" /\ update'[c].row = update[c].row)
                     /\ c \in bot \union blind /\ update[c].phase # "none" => c \in bot' \union blind'
  <1>0. update \in [Chats -> UpdateType]
    BY DEF TypeInv, TypeOK, UpdateType
  <1>1. ASSUME UNCHANGED <<bot, update, blind>> PROVE Goal
    BY <1>1 DEF InOrSent
  <1>2. ASSUME NEW k \in Chats, RemoveBot(k) PROVE Goal
    <2>1. CASE k = c
      <3>1. update[c].phase = "none" /\ update'[c].phase = "sent"
        BY <1>0, <1>2, <2>1 DEF RemoveBot, Quiet, UpdateType
      <3> QED
        BY <3>1 DEF InOrSent
    <2>2. CASE k # c
      <3>1. update'[c] = update[c] /\ blind' = blind /\ (c \in bot => c \in bot')
        BY <1>0, <1>2, <2>2 DEF RemoveBot, history
      <3> QED
        BY <3>1 DEF InOrSent
    <2> QED
      BY <2>1, <2>2
  <1>3. ASSUME NEW k \in Chats, ReturnBot(k) PROVE Goal
    BY <1>3 DEF ReturnBot, InOrSent, history
  <1>4. ASSUME NEW k \in Chats, FindRemoved(k) PROVE Goal
    <2>1. blind \subseteq blind' /\ bot' = bot
      BY <1>4 DEF FindRemoved
    <2>2. CASE k = c
      <3>1. update[c].phase = "sent"
        BY <1>4, <2>2 DEF FindRemoved
      <3> QED
        BY <1>4, <2>1, <2>2, <3>1
    <2>3. CASE k # c
      <3>1. update'[c] = update[c]
        BY <1>0, <1>4, <2>3 DEF FindRemoved
      <3> QED
        BY <2>1, <3>1 DEF InOrSent
    <2> QED
      BY <2>2, <2>3
  <1>5. ASSUME NEW k \in Chats, Shut(k) PROVE Goal
    <2>1. blind \subseteq blind' /\ bot' = bot
      BY <1>5 DEF Shut
    <2>2. CASE k = c
      <3>1. update[c].phase = "status"
        BY <1>5, <2>2 DEF Shut
      <3> QED
        BY <1>5, <2>1, <2>2, <3>1 DEF InOrSent
    <2>3. CASE k # c
      <3>1. update'[c] = update[c]
        BY <1>0, <1>5, <2>3 DEF Shut
      <3> QED
        BY <2>1, <3>1 DEF InOrSent
    <2> QED
      BY <2>2, <2>3
  <1>6. ASSUME NEW k \in Chats, VoidDeals(k) PROVE Goal
    <2>1. blind' = blind /\ bot' = bot
      BY <1>6 DEF VoidDeals, history
    <2>2. CASE k = c
      <3>1. update[c].phase = "deals"
        BY <1>6, <2>2 DEF VoidDeals
      <3> QED
        BY <2>1, <3>1 DEF InOrSent
    <2>3. CASE k # c
      <3>1. update'[c] = update[c]
        BY <1>0, <1>6, <2>3 DEF VoidDeals
      <3> QED
        BY <2>1, <3>1 DEF InOrSent
    <2> QED
      BY <2>2, <2>3
  <1>7. ASSUME NEW k \in Chats, UpdateFails(k) PROVE Goal
    <2>1. blind \subseteq blind' /\ bot' = bot
      BY <1>7 DEF UpdateFails
    <2>2. CASE k = c
      <3>1. update[c].phase = "deals" \/ c \in blind'
        BY <1>7, <2>2 DEF UpdateFails
      <3> QED
        BY <2>1, <3>1 DEF InOrSent
    <2>3. CASE k # c
      <3>1. update'[c] = update[c]
        BY <1>0, <1>7, <2>3 DEF UpdateFails
      <3> QED
        BY <2>1, <3>1 DEF InOrSent
    <2> QED
      BY <2>2, <2>3
  <1>8. ASSUME Crash PROVE Goal
    <2>1. /\ blind' = blind \union {k \in Chats : update[k].phase \in {"sent", "status"}} /\ bot' = bot
      BY <1>8 DEF Crash
    <2> QED
      BY <2>1 DEF InOrSent
  <1>9. \/ UNCHANGED <<bot, update, blind>>
        \/ Crash
        \/ \E k \in Chats : \/ RemoveBot(k) \/ ReturnBot(k) \/ FindRemoved(k) \/ Shut(k)
                            \/ VoidDeals(k) \/ UpdateFails(k)
    BY DEF Next, vars, env, history, AskStatsBot, BeginProvide, BeginDelete, BeginOffer, AddStep, AddCustomerChannel,
       CreateChannel, UndoCreate, ProvideStep, LoadChannel, Activate, DeleteChannel, CreateDeal, DealStep, Become,
       BotStep, RequestFails
  <1> QED
    BY <1>1, <1>2, <1>3, <1>4, <1>5, <1>6, <1>7, <1>8, <1>9

\* Looking up a removal, and shutting a row, with what they miss.
LEMMA FindEffect ==
    ASSUME TypeInv, NEW c \in Chats, FindRemoved(c)
    PROVE  /\ bot' = bot /\ blind \subseteq blind' /\ UNCHANGED <<channels, req>>
           /\ Stored(c) => update'[c].phase = "status" /\ update'[c].row = channels[c].id
           /\ \A r \in Requests : req[r].phase = "create" /\ req[r].chat = c => c \in blind'
  <1>1. update \in [Chats -> UpdateType]
    BY DEF TypeInv, TypeOK, UpdateType
  <1> QED
    BY <1>1 DEF FindRemoved, table

LEMMA ShutEffect ==
    ASSUME NEW c \in Chats, Shut(c)
    PROVE  /\ bot' = bot /\ blind \subseteq blind' /\ req' = req /\ update[c].phase = "status"
           /\ \A r \in Requests : req[r].phase = "activate" /\ req[r].row = update[c].row => c \in blind'
           /\ \A k \in ChatsOf(update[c].row) : channels'[k] = [channels[k] EXCEPT !.status = "UNACTIVATED"]
  BY DEF Shut, ChatsOf

\* A watched row stays watched; one that is shut is not open, and nobody opens it.
LEMMA WatchedStep ==
    ASSUME TypeInv, [Next]_vars, NEW c \in Chats, NEW i \in Rows,
           Watched(c, i), Stored(c), channels[c].id = i
    PROVE  \/ InOrSent(c)'
           \/ update'[c].phase = "status" /\ update'[c].row = i
           \/ Shut(c) /\ update[c].row = i
  <1>1. CASE FindRemoved(c)
    BY <1>1, FindEffect DEF Watched
  <1>2. CASE Shut(c)
    <2>1. update[c].phase = "status"
      BY <1>2, ShutEffect
    <2>2. update[c].row = i \/ c \in bot \union blind
      BY <2>1 DEF Watched, InOrSent
    <2>3. c \in bot \union blind => InOrSent(c)'
      BY <1>2, ShutEffect DEF InOrSent
    <2> QED
      BY <1>2, <2>2, <2>3
  <1>3. CASE ~FindRemoved(c) /\ ~Shut(c)
    <2>1. CASE InOrSent(c)
      BY <1>3, <2>1, WatchKept
    <2>2. CASE update[c].phase = "status" /\ update[c].row = i
      <3>1. c \in blind' \/ (update'[c].phase = "status" /\ update'[c].row = i)
        BY <1>3, <2>2, WatchKept
      <3> QED
        BY <3>1 DEF InOrSent
    <2> QED
      BY <2>1, <2>2 DEF Watched
  <1> QED
    BY <1>1, <1>2, <1>3

\* Where an open channel comes from.
LEMMA OpenMoves ==
    ASSUME TypeInv, [Next]_vars, NEW c \in Chats, Open(c)'
    PROVE  \/ Open(c) /\ channels'[c].id = channels[c].id
           \/ \E r \in Requests : CreateChannel(r) /\ req[r].chat = c
           \/ \E r \in Requests : Activate(r) /\ c \in ChatsOf(req[r].row) /\ channels'[c].id = req[r].row
  <1>0. channels \in [Chats -> ChannelType]
    BY DEF TypeInv, TypeOK, ChannelType
  <1>1. CASE channels'[c] = channels[c]
    BY <1>1 DEF Open
  <1>2. ASSUME NEW r \in Requests, CreateChannel(r), channels'[c] # channels[c] PROVE req[r].chat = c
    BY <1>0, <1>2 DEF CreateChannel, InsertChannel
  <1>3. ASSUME NEW r \in Requests, UndoCreate(r) \/ DeleteChannel(r) PROVE channels'[c] = channels[c]
    <2>1. Stored(c)'
      BY DEF Open, Stored, NoRow
    <2> QED
      BY <1>3, <2>1, RemovalEffect
  <1>4. ASSUME NEW r \in Requests, Activate(r), channels'[c] # channels[c]
        PROVE  c \in ChatsOf(req[r].row) /\ channels'[c].id = req[r].row
    <2>1. c \in ChatsOf(req[r].row) /\ channels'[c] = [channels[c] EXCEPT !.status = "ACTIVATED", !.is_listed = TRUE]
      BY <1>4 DEF Activate
    <2>2. channels[c] \in [id : Rows, status : Statuses, is_listed : BOOLEAN] /\ channels[c].id = req[r].row
      BY <1>0, <2>1 DEF ChatsOf, Stored, ChannelType
    <2> QED
      BY <2>1, <2>2
  <1>5. ASSUME NEW k \in Chats, Shut(k), channels'[c] # channels[c] PROVE FALSE
    <2>1. c \in ChatsOf(update[k].row) /\ channels'[c] = [channels[c] EXCEPT !.status = "UNACTIVATED"]
      BY <1>5 DEF Shut
    <2>2. channels[c] \in [id : Rows, status : Statuses, is_listed : BOOLEAN]
      BY <1>0, <2>1 DEF ChatsOf, Stored, ChannelType
    <2>3. channels'[c].status = "UNACTIVATED"
      BY <2>1, <2>2
    <2> QED
      BY <2>3 DEF Open
  <1>6. \/ UNCHANGED channels
        \/ \E r \in Requests : CreateChannel(r) \/ UndoCreate(r) \/ DeleteChannel(r) \/ Activate(r)
        \/ \E k \in Chats : Shut(k)
    BY DEF Next, vars, table, env, AskStatsBot, BeginProvide, BeginDelete, BeginOffer, AddStep, AddCustomerChannel,
       ProvideStep, LoadChannel, CreateDeal, DealStep, Become, BotStep, RemoveBot, ReturnBot,
       FindRemoved, VoidDeals, RequestFails, UpdateFails, Crash
  <1> QED
    BY <1>1, <1>2, <1>3, <1>4, <1>5, <1>6

\* Where a request that is about to create or to activate comes from.
LEMMA OpenerMoves ==
    ASSUME TypeInv, [Next]_vars, NEW r \in Requests, req'[r].phase \in {"create", "activate"}
    PROVE  \/ req'[r] = req[r]
           \/ /\ req'[r].phase = "create" /\ req'[r].chat \in bot /\ bot' = bot
           \/ /\ req'[r].phase = "activate" /\ req'[r].row = req[r].row
              /\ LoadChannel(r) /\ \E c \in ChatsOf(req[r].row) : Open(c)
  <1>0. req \in [Requests -> ReqType]
    BY DEF TypeInv, TypeOK, ReqType
  <1>1. ASSUME NEW q \in Requests, NEW u \in Customers, NEW c \in Chats, AskStatsBot(q, u, c)
        PROVE  \/ req'[r] = req[r]
               \/ /\ req'[r].phase = "create" /\ req'[r].chat \in bot /\ bot' = bot
    <2>1. PICK stats \in BOOLEAN :
              req' = [req EXCEPT ![q] = [Unused EXCEPT !.op = "add", !.phase = "create", !.who = u,
                                                       !.chat = c, !.stats = stats]]
      BY <1>1 DEF AskStatsBot
    <2>2. /\ q # r => req'[r] = req[r]
          /\ req'[q].phase = "create" /\ req'[q].chat = c
      BY <1>0, <2>1 DEF Unused
    <2>3. c \in bot /\ bot' = bot
      BY <1>1 DEF AskStatsBot, env
    <2> QED
      BY <2>2, <2>3
  <1>2. ASSUME NEW q \in Requests, NEW u \in Customers, NEW i \in Rows, BeginProvide(q, u, i) \/ BeginDelete(q, u, i)
        PROVE  req'[r] = req[r]
    BY <1>0, <1>2 DEF BeginProvide, BeginDelete, Unused
  <1>3. ASSUME NEW q \in Requests, NEW u \in Customers, NEW i \in Rows, NEW d \in Deals, BeginOffer(q, u, i, d)
        PROVE  req'[r] = req[r]
    BY <1>0, <1>3 DEF BeginOffer, Unused
  <1>4. ASSUME NEW q \in Requests, NEW phase \in {"link", "undo", "over"},
               \/ req' = [req EXCEPT ![q].phase = phase]
               \/ req' = [req EXCEPT ![q].phase = phase, ![q].row = Len(links) + 1]
        PROVE  req'[r] = req[r]
    <2>1. q # r => req'[r] = req[r]
      BY <1>0, <1>4
    <2>2. req'[q].phase = phase
      BY <1>0, <1>4 DEF ReqType
    <2> QED
      BY <1>4, <2>1, <2>2
  <1>5. ASSUME NEW q \in Requests, CreateChannel(q) PROVE req'[r] = req[r]
    BY <1>4, <1>5 DEF CreateChannel, Goto
  <1>6. ASSUME NEW q \in Requests,
               \/ AddCustomerChannel(q) \/ UndoCreate(q) \/ Activate(q)
               \/ DeleteChannel(q) \/ CreateDeal(q) \/ RequestFails(q)
        PROVE  req'[r] = req[r]
    <2>1. \E phase \in {"undo", "over"} : Goto(q, phase)
      BY <1>6 DEF AddCustomerChannel, UndoCreate, Activate, DeleteChannel, CreateDeal, RequestFails
    <2> QED
      BY <1>4, <2>1 DEF Goto
  <1>7. ASSUME NEW q \in Requests, LoadChannel(q)
        PROVE  \/ req'[r] = req[r]
               \/ /\ req'[r].phase = "activate" /\ req'[r].row = req[r].row
                  /\ LoadChannel(r) /\ \E c \in ChatsOf(req[r].row) : Open(c)
    <2>1. CASE Goto(q, "over")
      BY <1>4, <2>1 DEF Goto
    <2>2. CASE Goto(q, "activate") /\ \E c \in ChatsOf(req[q].row) : channels[c].status = "AWAITING_DATA"
      <3>1. (q # r => req'[r] = req[r]) /\ req'[q].row = req[q].row /\ req'[q].phase = "activate"
        BY <1>0, <2>2 DEF Goto, ReqType
      <3> QED
        BY <1>7, <2>2, <3>1 DEF Open
    <2> QED
      BY <1>7, <2>1, <2>2 DEF LoadChannel
  <1>8. CASE Crash
    BY <1>0, <1>8 DEF Crash, ReqType
  <1>9. CASE UNCHANGED req
    BY <1>9
  <1>10. \/ UNCHANGED req
         \/ Crash
         \/ \E q \in Requests, u \in Customers :
               \/ \E c \in Chats : AskStatsBot(q, u, c)
               \/ \E i \in Rows : BeginProvide(q, u, i) \/ BeginDelete(q, u, i)
               \/ \E i \in Rows, d \in Deals : BeginOffer(q, u, i, d)
         \/ \E q \in Requests :
               \/ CreateChannel(q) \/ AddCustomerChannel(q) \/ UndoCreate(q) \/ LoadChannel(q) \/ Activate(q)
               \/ DeleteChannel(q) \/ CreateDeal(q) \/ RequestFails(q)
    BY DEF Next, vars, AddStep, ProvideStep, DealStep, Become, BotStep, RemoveBot, ReturnBot, FindRemoved, Shut,
       VoidDeals, UpdateFails
  <1> QED
    BY <1>1, <1>2, <1>3, <1>5, <1>6, <1>7, <1>8, <1>9, <1>10

LEMMA BotInit == Init => BotInv
  BY DEF Init, BotInv, OpenWatched, CreatesWatched, ActivatesWatched, Open, NoRow, Unused

LEMMA OpenStep ==
    ASSUME TypeInv, LinkInv, BotInv, [Next]_vars, NEW c \in Chats
    PROVE  OpenWatched(c)'
  <1>0. /\ channels \in [Chats -> ChannelType]
        /\ Stored(c) => channels[c].id \in Rows
    BY DEF TypeInv, TypeOK, ChannelType, Stored
  <1> SUFFICES ASSUME Open(c)'
               PROVE  InOrSent(c)' \/ (update'[c].phase = "status" /\ update'[c].row = channels'[c].id)
    BY DEF OpenWatched, Watched
  <1>1. CASE Open(c) /\ channels'[c].id = channels[c].id
    <2>1. Stored(c) /\ Watched(c, channels[c].id)
      BY <1>1, OpenStored DEF BotInv, OpenWatched
    <2>2. ASSUME Shut(c), update[c].row = channels[c].id PROVE FALSE
      <3>1. c \in ChatsOf(update[c].row)
        BY <2>1, <2>2 DEF ChatsOf
      <3>2. channels[c] \in [id : Rows, status : Statuses, is_listed : BOOLEAN]
        BY <1>0, <2>1 DEF ChannelType, Stored
      <3>3. channels'[c].status = "UNACTIVATED"
        BY <2>2, <3>1, <3>2, ShutEffect
      <3> QED
        BY <3>3 DEF Open
    <2> QED
      BY <1>0, <1>1, <2>1, <2>2, WatchedStep
  <1>2. ASSUME NEW r \in Requests, CreateChannel(r), req[r].chat = c PROVE InOrSent(c)'
    <2>1. InOrSent(c)
      BY <1>2 DEF BotInv, CreatesWatched, CreateChannel
    <2> QED
      BY <1>2, <2>1 DEF CreateChannel, env, history, InOrSent
  <1>3. ASSUME NEW r \in Requests, Activate(r), c \in ChatsOf(req[r].row), channels'[c].id = req[r].row
        PROVE  InOrSent(c)' \/ (update'[c].phase = "status" /\ update'[c].row = channels'[c].id)
    <2>1. Watched(c, req[r].row)
      BY <1>3 DEF BotInv, ActivatesWatched, Activate
    <2> QED
      BY <1>3, <2>1 DEF Activate, env, history, InOrSent, Watched
  <1> QED
    BY <1>1, <1>2, <1>3, OpenMoves

LEMMA CreatesStep ==
    ASSUME TypeInv, BotInv, [Next]_vars, NEW r \in Requests
    PROVE  CreatesWatched(r)'
  <1> SUFFICES ASSUME req'[r].phase = "create"
               PROVE  \/ req'[r].chat \in bot' \/ req'[r].chat \in blind'
                      \/ update'[req'[r].chat].phase = "sent"
    BY DEF CreatesWatched, InOrSent
  <1>1. CASE req'[r].chat \in bot /\ bot' = bot
    BY <1>1
  <1>2. CASE req'[r] = req[r]
    <2> DEFINE c == req[r].chat
    <2>1. c \in Chats /\ InOrSent(c)
      BY <1>2 DEF TypeInv, KnowsRequest, BotInv, CreatesWatched
    <2>2. CASE FindRemoved(c)
      BY <1>2, <2>1, <2>2, FindEffect
    <2>3. CASE ~FindRemoved(c)
      <3> HIDE DEF c
      <3>1. c \in bot' \/ c \in blind' \/ update'[c].phase = "sent"
        BY <2>1, <2>3, WatchKept DEF InOrSent
      <3> QED
        BY <1>2, <3>1 DEF c
    <2> QED
      BY <2>2, <2>3
  <1> QED
    BY <1>1, <1>2, OpenerMoves

LEMMA ActivatesStep ==
    ASSUME TypeInv, LinkInv, BotInv, [Next]_vars, NEW r \in Requests
    PROVE  ActivatesWatched(r)'
  <1>0. req[r].phase \in {"load", "activate"} => req[r].row \in Rows
    BY DEF TypeInv, KnowsRequest
  <1> SUFFICES ASSUME req'[r].phase = "activate", NEW c \in Chats, Stored(c)', channels'[c].id = req'[r].row
               PROVE  InOrSent(c)' \/ (update'[c].phase = "status" /\ update'[c].row = req'[r].row)
    BY DEF ActivatesWatched, Watched, ChatsOf
  <1>1. /\ req'[r].row = req[r].row /\ req[r].row \in Rows
        /\ Stored(c) /\ channels[c].id = req[r].row => Watched(c, req[r].row)
    <2>1. CASE req'[r] = req[r]
      BY <1>0, <2>1 DEF BotInv, ActivatesWatched, ChatsOf
    <2>2. CASE /\ req'[r].row = req[r].row
               /\ LoadChannel(r) /\ \E k \in ChatsOf(req[r].row) : Open(k)
      <3>1. PICK k \in ChatsOf(req[r].row) : Open(k)
        BY <2>2
      <3>2. Stored(c) /\ channels[c].id = req[r].row => k = c
        BY DEF LinkInv, OwnRows, ChatsOf
      <3>3. Watched(k, req[r].row)
        BY <3>1 DEF BotInv, OpenWatched, ChatsOf
      <3> QED
        BY <1>0, <2>2, <3>2, <3>3 DEF LoadChannel
    <2> QED
      BY <2>1, <2>2, OpenerMoves
  <1>2. Stored(c) /\ channels[c].id = req[r].row
    <2>1. channels'[c] = channels[c] \/ (channels'[c].id = channels[c].id /\ Stored(c))
      <3>1. ASSUME SameRows PROVE Stored(c) /\ channels'[c].id = channels[c].id
        BY <3>1 DEF SameRows, SameRow
      <3>2. ASSUME NEW q \in Requests, CreateChannel(q), ~Stored(req[q].chat) PROVE channels'[c] = channels[c]
        <4>1. Len(links) + 1 \notin Rows
          BY LinksFacts DEF TypeInv, TypeOK
        <4> QED
          BY <1>1, <3>2, <4>1, CreateEffect
      <3>3. ASSUME NEW q \in Requests, AddCustomerChannel(q) PROVE channels'[c] = channels[c]
        BY <3>3 DEF AddCustomerChannel
      <3>4. ASSUME NEW q \in Requests, UndoCreate(q) \/ DeleteChannel(q) PROVE channels'[c] = channels[c]
        BY <3>4, RemovalEffect
      <3> QED
        BY <3>1, <3>2, <3>3, <3>4, RowSteps
    <2> QED
      BY <1>1, <2>1 DEF Stored
  <1>3. ASSUME Shut(c), update[c].row = req[r].row PROVE c \in blind'
    <2>1. req' = req
      BY <1>3, ShutEffect
    <2> QED
      BY <1>3, <2>1, ShutEffect
  <1>4. \/ InOrSent(c)'
        \/ update'[c].phase = "status" /\ update'[c].row = req[r].row
        \/ Shut(c) /\ update[c].row = req[r].row
    BY <1>1, <1>2, WatchedStep
  <1> QED
    BY <1>1, <1>3, <1>4 DEF InOrSent

LEMMA BotInvStep == TypeInv /\ LinkInv /\ BotInv /\ [Next]_vars => BotInv'
  <1> SUFFICES ASSUME TypeInv, LinkInv, BotInv, [Next]_vars PROVE BotInv'
    OBVIOUS
  <1>1. \A c \in Chats : OpenWatched(c)'
    BY OpenStep
  <1>2. \A r \in Requests : CreatesWatched(r)' /\ ActivatesWatched(r)'
    BY CreatesStep, ActivatesStep
  <1> QED
    BY <1>1, <1>2 DEF BotInv

(* Whatever is open, or about to be created or activated, has the bot in it  *)
(* or a removal that will still find it, or one that was in vain.            *)
THEOREM BotInvariant == Spec => []BotInv
  BY BotInit, BotInvStep, TypeInvariant, LinkInvariant, PTL DEF Spec

(* A channel that is open has the bot in it, unless the removal has still to *)
(* be handled, or a request or a fault made it of no effect.                 *)
THEOREM OpenHasTheBot == Spec => []OpenChannelsHaveTheBot
  <1>1. BotInv => OpenChannelsHaveTheBot
    BY DEF BotInv, OpenWatched, Open, Watched, InOrSent, OpenChannelsHaveTheBot
  <1> QED
    BY <1>1, BotInvariant, PTL
=============================================================================
