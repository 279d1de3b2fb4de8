------------------------------- MODULE Bridge -------------------------------
(***************************************************************************)
(* The bridge: the in-memory Go channels between the HTTP server, the bot  *)
(* and the statistics bot, and the login dialogue that runs over three of  *)
(* them (internal/modules/channels/channels.go, telegram_bot/async.go,     *)
(* telegram_bot/admin_handlers.go, stats_bot/auth.go, the sends of         *)
(* server/deal_handlers.go, deal_publisher.go and balance_cron.go).        *)
(*                                                                         *)
(*   senders        request handlers and server loops.  A send blocks while *)
(*                  the channel is full, whatever becomes of the client.   *)
(*   consumer       the one goroutine that receives from six channels; it  *)
(*                  handles a message to the end before it takes another.  *)
(*   authenticator  the statistics bot logging in: it asks the admins for  *)
(*                  a code, and maybe for a password, and waits.           *)
(*   texts          goroutines that handle a message an admin typed.       *)
(*                                                                         *)
(* Telegram is a call that returns.  A restart loses all but the rows of   *)
(* bot_states and the session file of the statistics bot.                  *)
(***************************************************************************)
EXTENDS Naturals, Sequences

CONSTANTS
    Users,         \* who may be an admin, an advertiser or both
    AdminConfigs,  \* what ADMINS_ID may be: sets of users
    Senders,       \* goroutines that send to the bot
    Kinds,         \* what they may be asked to do
    Texts,         \* how many messages of admins are handled together
    Cap,           \* capacity of the buffered channels (100 in the code)
    MaxRestarts,   \* bound
    NoUser

VARIABLES
    admins,    \* ADMINS_ID
    line,      \* [Channels -> messages]: first the buffer, then blocked sends
    sending,   \* [Senders -> the channels a goroutine still has to send to]
    place,     \* [Senders -> where in which line its blocked send is]
    consumer,
    asked,     \* the authenticator: [phase, prompt]
    codes,     \* CodeMessage: the prompts its codes answer
    text,      \* [Texts -> the message being handled]
    mode,      \* bot_states: the prompt that put the user in ADMIN_MODE, or 0
    restarts,
    \* history, read by no action
    answered,  \* prompts of this process that were answered
    odd,       \* an answer was the second of its prompt, or from before a restart
    stale,     \* the authenticator took the answer to another prompt
    erased     \* another write or a failed one took ADMIN_MODE from this prompt

server == <<line, sending, place>>
login == <<asked, codes, text>>
history == <<answered, odd, stale, erased>>
vars == <<admins, server, consumer, login, mode, restarts, history>>

-----------------------------------------------------------------------------
Channels == {"Dialog", "Post", "Notification", "Deal", "AutoPost", "AdminMessage"}

Capacity(ch) == IF ch \in {"Dialog", "Post"} THEN 0 ELSE Cap

\* What a handler or a loop sends before it answers or goes on.
Sends ==
    [SendDealData |-> <<"Post">>,
     DealMessage  |-> <<"Dialog">>,
     GetDealData  |-> <<"Deal">>,
     Notify       |-> <<"Notification">>,  \* make, accept, propose, decline, refund
     NotifyBoth   |-> <<"Notification", "Notification">>]  \* approve, complete

ASSUME BridgeAssumption ==
    /\ NoUser \notin Users
    /\ AdminConfigs \subseteq SUBSET Users
    /\ Kinds \subseteq DOMAIN Sends
    /\ Cap \in Nat \ {0}
    /\ MaxRestarts \in Nat

Free == [ch |-> "none", at |-> 0]
Blocked(s) == place[s] # Free
Busy(s) == sending[s] # <<>> \/ Blocked(s)

Idle == [ch |-> "none", user |-> NoUser, admins |-> {}]
NoText == [phase |-> "none", user |-> NoUser, prompt |-> 0]

Init ==
    /\ admins \in AdminConfigs
    /\ line = [ch \in Channels |-> <<>>]
    /\ sending = [s \in Senders |-> <<>>]
    /\ place = [s \in Senders |-> Free]
    /\ consumer = Idle
    /\ asked = [phase |-> "code", prompt |-> 0]
    /\ codes = <<>>
    /\ text = [x \in Texts |-> NoText]
    /\ mode = [u \in Users |-> 0]
    /\ restarts = 0
    /\ answered = {} /\ odd = FALSE /\ stale = FALSE /\ erased = FALSE
-----------------------------------------------------------------------------
(* The senders *)

Request(s, op) ==
    /\ ~Busy(s)
    /\ sending' = [sending EXCEPT ![s] = Sends[op]]
    /\ UNCHANGED <<admins, line, place, consumer, login, mode, restarts, history>>

\* A send: the message gets in line, and the sender is blocked if that is not yet
\* in the buffer.  The user is the one whose conversation the message starts.
Send(s) ==
    LET ch == Head(sending[s])
        at == Len(line[ch]) + 1
    IN
    /\ sending[s] # <<>> /\ ~Blocked(s)
    /\ \E u \in IF ch \in {"Dialog", "Post"} THEN Users ELSE {NoUser} :
            line' = [line EXCEPT ![ch] = Append(@, u)]
    /\ place' = [place EXCEPT ![s] = IF at > Capacity(ch) THEN [ch |-> ch, at |-> at] ELSE Free]
    /\ sending' = [sending EXCEPT ![s] = Tail(@)]
    /\ UNCHANGED <<admins, consumer, login, mode, restarts, history>>

\* The publisher never waits: when the channel is full it takes its claim back.
TryAutoPost(s) ==
    /\ ~Busy(s)
    /\ Len(line["AutoPost"]) < Cap
    /\ line' = [line EXCEPT !["AutoPost"] = Append(@, NoUser)]
    /\ UNCHANGED <<admins, sending, place, consumer, login, mode, restarts, history>>
-----------------------------------------------------------------------------
(* The consumer: listenChannels *)

TakeAllButAutoPost(ch) ==
    /\ ch # "AutoPost" /\ consumer = Idle /\ line[ch] # <<>>
    /\ consumer' = [ch |-> ch, user |-> Head(line[ch]),
                    admins |-> IF ch = "AdminMessage" THEN admins ELSE {}]
    /\ line' = [line EXCEPT ![ch] = Tail(@)]
    /\ place' = [s \in Senders |->
            IF place[s].ch # ch THEN place[s]
            ELSE IF place[s].at - 1 > Capacity(ch) THEN [place[s] EXCEPT !.at = @ - 1]
            ELSE Free]
    /\ UNCHANGED <<admins, sending, login, mode, restarts, history>>

\* The next message; everybody behind it moves up, and who reaches the buffer
\* goes on.
Take(ch) ==
    /\ consumer = Idle /\ line[ch] # <<>>
    /\ consumer' = [ch |-> ch, user |-> Head(line[ch]),
                    admins |-> IF ch = "AdminMessage" THEN admins ELSE {}]
    /\ line' = [line EXCEPT ![ch] = Tail(@)]
    /\ place' = [s \in Senders |->
            IF place[s].ch # ch THEN place[s]
            ELSE IF place[s].at - 1 > Capacity(ch) THEN [place[s] EXCEPT !.at = @ - 1]
            ELSE Free]
    /\ UNCHANGED <<admins, sending, login, mode, restarts, history>>

\* SetState for another conversation, or ClearState: ADMIN_MODE is gone.
LeaveAdminMode(u) ==
    /\ mode' = [mode EXCEPT ![u] = 0]
    /\ erased' = (erased \/ mode[u] # 0)

\* handleDialog and handlePost put the user in a conversation; the database may fail.
HandleConversation ==
    /\ consumer.ch \in {"Dialog", "Post"}
    /\ LeaveAdminMode(consumer.user) \/ UNCHANGED <<mode, erased>>
    /\ consumer' = Idle
    /\ UNCHANGED <<admins, server, login, restarts, answered, odd, stale>>

\* handleNotification, handleDeal, handleAutoPost: only talk to Telegram here.
HandleMessage ==
    /\ consumer.ch \in {"Notification", "Deal", "AutoPost"}
    /\ consumer' = Idle
    /\ UNCHANGED <<admins, server, login, mode, restarts, history>>

AnswerUnbuffered(p) ==
    /\ codes' = Append(codes, p)
    /\ answered' = answered \union {p}
    /\ odd' = (odd \/ p \in answered)

\* An answer to a prompt is put into CodeMessage; this blocks while it is full.
Answer(p) ==
    /\ Len(codes) < Cap
    /\ codes' = Append(codes, p)
    /\ answered' = answered \union {p}
    /\ odd' = (odd \/ p \in answered)

\* handleAdmin without admins answers in their place ...
HandleAdminAlone ==
    /\ consumer.ch = "AdminMessage" /\ admins = {}
    /\ Answer(asked.prompt)
    /\ consumer' = Idle
    /\ UNCHANGED <<admins, server, asked, text, mode, restarts, stale, erased>>

AskAdminWithoutState(a) ==
    /\ a \in consumer.admins
    /\ consumer' = [consumer EXCEPT !.admins = @ \ {a}]
    /\ UNCHANGED <<admins, server, login, mode, restarts, history>>

\* ... and with admins puts each of them in ADMIN_MODE and sends the question.
AskAdmin(a) ==
    /\ a \in consumer.admins
    /\ consumer' = [consumer EXCEPT !.admins = @ \ {a}]
    /\ \/ mode' = [mode EXCEPT ![a] = asked.prompt] /\ UNCHANGED erased
       \/ UNCHANGED mode /\ erased' = TRUE
    /\ UNCHANGED <<admins, server, login, restarts, answered, odd, stale>>

HandledAdminAfterAnswer ==
    /\ consumer.ch = "AdminMessage" /\ admins # {} /\ consumer.admins = {} /\ codes # <<>>
    /\ consumer' = Idle
    /\ UNCHANGED <<admins, server, login, mode, restarts, history>>

HandledAdmin ==
    /\ consumer.ch = "AdminMessage" /\ admins # {} /\ consumer.admins = {}
    /\ consumer' = Idle
    /\ UNCHANGED <<admins, server, login, mode, restarts, history>>

Handle ==
    \/ HandleConversation \/ HandleMessage \/ HandleAdminAlone
    \/ \E a \in Users : AskAdmin(a)
    \/ HandledAdmin
-----------------------------------------------------------------------------
(* The authenticator: Code and Password *)

AskAgainAfterTimeout ==
    /\ asked.phase \in {"code", "wait_code", "password"}
    /\ Len(line["AdminMessage"]) < Cap
    /\ line' = [line EXCEPT !["AdminMessage"] = Append(@, NoUser)]
    /\ asked' = [phase |-> IF asked.phase = "password" THEN "wait_password" ELSE "wait_code",
                 prompt |-> asked.prompt + 1]
    /\ erased' = FALSE
    /\ UNCHANGED <<admins, sending, place, consumer, codes, text, mode, restarts,
                   answered, odd, stale>>

Ask ==
    /\ asked.phase \in {"code", "password"}
    /\ Len(line["AdminMessage"]) < Cap
    /\ line' = [line EXCEPT !["AdminMessage"] = Append(@, NoUser)]
    /\ asked' = [phase |-> IF asked.phase = "code" THEN "wait_code" ELSE "wait_password",
                 prompt |-> asked.prompt + 1]
    /\ erased' = FALSE
    /\ UNCHANGED <<admins, sending, place, consumer, codes, text, mode, restarts,
                   answered, odd, stale>>

\* Telegram takes the answer, wants a password as well, or refuses it: then the
\* statistics bot stops and only a restart of the process starts it again.
Read ==
    /\ asked.phase \in {"wait_code", "wait_password"} /\ codes # <<>>
    /\ codes' = Tail(codes)
    /\ \E phase \in {"done", "failed"} \union (IF asked.phase = "wait_code" THEN {"password"} ELSE {}) :
            asked' = [asked EXCEPT !.phase = phase]
    /\ stale' = (stale \/ Head(codes) # asked.prompt)
    /\ UNCHANGED <<admins, server, consumer, text, mode, restarts, answered, odd, erased>>

Authenticate == Ask \/ Read
-----------------------------------------------------------------------------
(* The admins *)

\* onText finds the user in ADMIN_MODE.
OnText(x, u) ==
    /\ text[x] = NoText /\ mode[u] # 0
    /\ text' = [text EXCEPT ![x] = [phase |-> "send", user |-> u, prompt |-> mode[u]]]
    /\ UNCHANGED <<admins, server, consumer, asked, codes, mode, restarts, history>>

\* handleAdminMode: the code is sent first ...
SendCode(x) ==
    /\ text[x].phase = "send"
    /\ Answer(text[x].prompt)
    /\ text' = [text EXCEPT ![x] = [@ EXCEPT !.phase = "clear"]]
    /\ UNCHANGED <<admins, server, consumer, asked, mode, restarts, stale, erased>>

\* ... then the row of the user is deleted, whatever it says by now.
ClearState(x) ==
    LET u == text[x].user IN
    /\ text[x].phase = "clear"
    /\ \/ /\ mode' = [mode EXCEPT ![u] = 0]
          /\ erased' = (erased \/ mode[u] \notin {0, text[x].prompt})
       \/ UNCHANGED <<mode, erased>>
    /\ text' = [text EXCEPT ![x] = NoText]
    /\ UNCHANGED <<admins, server, consumer, asked, codes, restarts, answered, odd, stale>>

\* handleCancel, handleAnswer, acceptPost: the admin goes on with something else.
Distract(u) ==
    /\ mode[u] # 0
    /\ LeaveAdminMode(u)
    /\ UNCHANGED <<admins, server, consumer, login, restarts, answered, odd, stale>>

TextStep(x) == (\E u \in Users : OnText(x, u)) \/ SendCode(x) \/ ClearState(x)
-----------------------------------------------------------------------------
\* The process stops and starts.  The rows of bot_states stay, and so does the
\* session of a login that was finished.
Restart ==
    /\ restarts < MaxRestarts
    /\ restarts' = restarts + 1
    /\ line' = [ch \in Channels |-> <<>>]
    /\ sending' = [s \in Senders |-> <<>>]
    /\ place' = [s \in Senders |-> Free]
    /\ consumer' = Idle
    /\ codes' = <<>>
    /\ text' = [x \in Texts |-> NoText]
    /\ asked' = IF asked.phase = "done" THEN asked ELSE [asked EXCEPT !.phase = "code"]
    \* an answer to an earlier prompt is odd from now on
    /\ answered' = 1..asked.prompt
    /\ UNCHANGED <<admins, mode, odd, stale, erased>>

Next ==
    \/ \E s \in Senders : Send(s) \/ TryAutoPost(s) \/ \E op \in Kinds : Request(s, op)
    \/ \E ch \in Channels : Take(ch)
    \/ Handle
    \/ Authenticate
    \/ \E x \in Texts : TextStep(x)
    \/ \E u \in Users : Distract(u)
    \/ Restart

Spec == Init /\ [][Next]_vars

\* Goroutines run, calls to Telegram and the database return, and Go's select picks
\* at random among the channels that are ready: none is passed over for ever.
FairSpec ==
    /\ Spec
    /\ \A s \in Senders : WF_vars(Send(s))
    /\ \A ch \in Channels : SF_vars(Take(ch))
    /\ WF_vars(Handle)
    /\ WF_vars(Authenticate)
-----------------------------------------------------------------------------
Phases == {"code", "wait_code", "password", "wait_password", "done", "failed"}

TypeOK ==
    /\ admins \subseteq Users
    /\ line \in [Channels -> Seq(Users \union {NoUser})]
    /\ sending \in [Senders -> Seq(Channels)]
    /\ place \in [Senders -> [ch : Channels \union {"none"}, at : Nat]]
    /\ consumer \in [ch : Channels \union {"none"}, user : Users \union {NoUser},
                     admins : SUBSET Users]
    /\ asked \in [phase : Phases, prompt : Nat]
    /\ codes \in Seq(Nat) /\ Len(codes) <= Cap
    /\ text \in [Texts -> [phase : {"none", "send", "clear"}, user : Users \union {NoUser},
                           prompt : Nat]]
    /\ mode \in [Users -> Nat]
    /\ restarts \in Nat
    /\ answered \subseteq Nat
    /\ {odd, stale, erased} \subseteq BOOLEAN

Waiting == asked.phase \in {"wait_code", "wait_password"}

(* The statistics bot never waits for an answer nobody can give: its question *)
(* is on its way, an answer is, or some admin's next message will be taken as *)
(* one, unless the admin's conversation was overwritten meanwhile, for        *)
(* example by the ClearState that still belongs to the answer before.         *)
PromptIsAnswerable ==
    Waiting =>
        \/ line["AdminMessage"] # <<>> \/ consumer.ch = "AdminMessage"
        \/ codes # <<>> \/ \E x \in Texts : text[x].phase = "send"
        \/ \E u \in Users : mode[u] # 0
        \/ erased

(* The answer the statistics bot logs in with is the one to its question,     *)
(* unless a prompt was answered twice or an answer came after a restart.      *)
CodesAreFresh == stale => odd

(* The consumer may put a code into CodeMessage itself: that send never       *)
(* blocks, otherwise nobody would be left to receive from any channel.        *)
ConsumerNeverBlocks ==
    consumer.ch = "AdminMessage" /\ admins = {} => Len(codes) < Cap

(* No request and no loop hangs in a send: however many others send at the    *)
(* same time, and whatever the statistics bot waits for.                      *)
SendersGetThrough == \A s \in Senders : Busy(s) ~> ~Busy(s)

(* What was accepted for a channel is taken from it, whatever comes in on the *)
(* others.                                                                    *)
ChannelsAreServed == \A ch \in Channels : line[ch] # <<>> ~> (consumer.ch = ch \/ line[ch] = <<>>)
=============================================================================
