------------------------------ MODULE BotProofs ------------------------------
(***************************************************************************)
(* The statistics bot.  Its login (Bridge), for any users and admins, any  *)
(* number of goroutines and messages handled together, any capacity of the *)
(* channels and any number of restarts: the statistics bot never waits in  *)
(* vain, never logs in with the answer to another question, and the one    *)
(* goroutine that receives never waits for itself.  Its answers            *)
(* (ChannelStats), for any channel, any posts and graphs, any number of    *)
(* changes meanwhile and of calls that fail: they are true, and their      *)
(* parts fit together.                                                     *)
(***************************************************************************)
EXTENDS Bridge, ChannelStats, SequenceTheorems, TotalsTheorems

\* No handler and no loop of the server sends on AdminMessage.
Replies == {"Dialog", "Post", "Notification", "Deal"}

Wired == \A s \in Senders : sending[s] \in Seq(Replies)

\* A question is on its way to the admins.
Asking == line["AdminMessage"] # <<>> \/ consumer.ch = "AdminMessage"

\* Nobody answers a prompt that was not asked, an answer that was sent is in
\* answered, and an answer to the prompt that is waited for was not read yet.
Prompts ==
    /\ Waiting \/ Asking => asked.prompt >= 1
    /\ \A u \in Users : mode[u] <= asked.prompt
    /\ \A x \in Texts :
          /\ text[x].phase # "none" => text[x].user \in Users /\ text[x].prompt \in 1..asked.prompt
          /\ text[x].phase = "clear" => text[x].prompt \in answered
    /\ answered \subseteq 1..asked.prompt
    /\ Waiting /\ asked.prompt \in answered => codes # <<>>

\* Some admin will be asked ...
QuestionComes ==
    \/ line["AdminMessage"] # <<>>
    \/ consumer.ch = "AdminMessage" /\ consumer.admins = admins

\* ... or was: then it is this prompt, not an older one, the admin is to answer.
AnswerComes ==
    \/ codes # <<>>
    \/ \E x \in Texts : text[x].phase = "send"
    \/ \E u \in Users : mode[u] = asked.prompt
    \/ erased

Answerable == Waiting => QuestionComes \/ AnswerComes

\* While no answer is odd every prompt has one answer, and CodeMessage holds at
\* most the one to the prompt that is waited for.
Unread == IF Waiting /\ asked.prompt \in answered THEN <<asked.prompt>> ELSE <<>>

Fresh ==
    ~odd => /\ ~stale
            /\ codes = Unread
            /\ \A p \in 1..asked.prompt : p # asked.prompt \/ ~Waiting => p \in answered

\* Without admins the question and its answer are one thing that goes round.
InHand == IF consumer.ch = "AdminMessage" THEN 1 ELSE 0
Awaited == IF Waiting THEN 1 ELSE 0

Alone ==
    admins = {} =>
        /\ consumer.admins = {}
        /\ \A u \in Users : mode[u] = 0
        /\ \A x \in Texts : text[x].phase = "none"
        /\ Len(line["AdminMessage"]) + InHand + Len(codes) <= Awaited

\* The inductive invariant is TypeOK /\ Wired /\ Login.
Login == Prompts /\ Answerable /\ Fresh /\ Alone
-----------------------------------------------------------------------------
(* Types *)

LEMMA CapacityIsNat == ASSUME NEW ch PROVE Capacity(ch) \in Nat
BY BridgeAssumption DEF Capacity

LEMMA SendsAreReplies ==
    ASSUME NEW op \in Kinds PROVE Sends[op] \in Seq(Replies)
<1>1. op \in {"SendDealData", "DealMessage", "GetDealData", "Notify", "NotifyBoth"}
  BY BridgeAssumption DEF Sends
<1>2. /\ <<"Post">> \in Seq(Replies) /\ <<"Dialog">> \in Seq(Replies) /\ <<"Deal">> \in Seq(Replies)
      /\ <<"Notification">> \in Seq(Replies) /\ <<"Notification", "Notification">> \in Seq(Replies)
  BY DEF Replies
<1>3. /\ Sends["SendDealData"] = <<"Post">> /\ Sends["DealMessage"] = <<"Dialog">>
      /\ Sends["GetDealData"] = <<"Deal">> /\ Sends["Notify"] = <<"Notification">>
      /\ Sends["NotifyBoth"] = <<"Notification", "Notification">>
  BY DEF Sends
<1> QED
  BY <1>1, <1>2, <1>3

LEMMA RepliesAreChannels == Seq(Replies) \subseteq Seq(Channels)
<1>1. Replies \subseteq Channels
  BY DEF Replies, Channels
<1> QED
  BY <1>1

\* The actions by who takes them.
SenderStep ==
    \E s \in Senders : Send(s) \/ TryAutoPost(s) \/ \E op \in Kinds : Request(s, op)

LEMMA Flags == ASSUME TypeOK PROVE odd \in BOOLEAN /\ stale \in BOOLEAN /\ erased \in BOOLEAN
BY DEF TypeOK

LEMMA TypeInit == ASSUME Init PROVE TypeOK
<1>1. line \in [Channels -> Seq(Users \union {NoUser})] /\ sending \in [Senders -> Seq(Channels)]
  BY DEF Init
<1>2. place \in [Senders -> [ch : Channels \union {"none"}, at : Nat]]
  BY DEF Init, Free
<1>3. consumer \in [ch : Channels \union {"none"}, user : Users \union {NoUser}, admins : SUBSET Users]
  BY DEF Init, Idle
<1>4. text \in [Texts -> [phase : {"none", "send", "clear"}, user : Users \union {NoUser},
                         prompt : Nat]]
  BY DEF Init, NoText
<1>5. /\ admins \subseteq Users /\ asked \in [phase : Phases, prompt : Nat]
      /\ mode \in [Users -> Nat] /\ restarts \in Nat
  BY BridgeAssumption DEF Init, Phases
<1>6. codes \in Seq(Nat) /\ Len(codes) <= Cap
  BY BridgeAssumption DEF Init
<1>7. answered \subseteq Nat /\ {odd, stale, erased} \subseteq BOOLEAN
  BY DEF Init
<1> QED
  BY <1>1, <1>2, <1>3, <1>4, <1>5, <1>6, <1>7 DEF TypeOK

LEMMA SenderType == ASSUME TypeOK, Wired, SenderStep PROVE TypeOK' /\ Wired'
<1>1. ASSUME NEW s \in Senders, NEW op \in Kinds, Request(s, op) PROVE TypeOK' /\ Wired'
  <2>1. Sends[op] \in Seq(Replies) /\ Sends[op] \in Seq(Channels)
    BY SendsAreReplies, RepliesAreChannels
  <2> QED
    BY <1>1, <2>1 DEF Request, TypeOK, Wired, login, history
<1>2. ASSUME NEW s \in Senders, Send(s) PROVE TypeOK' /\ Wired'
  <2>1. /\ Head(sending[s]) \in Channels /\ Tail(sending[s]) \in Seq(Channels)
        /\ Tail(sending[s]) \in Seq(Replies)
    BY <1>2 DEF Send, TypeOK, Wired
  <2>2. PICK u \in Users \union {NoUser} :
          line' = [line EXCEPT ![Head(sending[s])] = Append(@, u)]
    BY <1>2 DEF Send
  <2>3. line' \in [Channels -> Seq(Users \union {NoUser})]
    BY <2>1, <2>2 DEF TypeOK
  <2>4. Len(line[Head(sending[s])]) + 1 \in Nat
    BY <2>1 DEF TypeOK
  <2>5. place' \in [Senders -> [ch : Channels \union {"none"}, at : Nat]]
    BY <1>2, <2>1, <2>4 DEF Send, TypeOK, Free
  <2>6. sending' \in [Senders -> Seq(Channels)] /\ Wired'
    BY <1>2, <2>1 DEF Send, TypeOK, Wired
  <2> QED
    BY <1>2, <2>3, <2>5, <2>6 DEF Send, TypeOK, login, history
<1>3. ASSUME NEW s \in Senders, TryAutoPost(s) PROVE TypeOK' /\ Wired'
  <2>1. line' \in [Channels -> Seq(Users \union {NoUser})]
    <3>1. "AutoPost" \in Channels
      BY DEF Channels
    <3>2. Append(line["AutoPost"], NoUser) \in Seq(Users \union {NoUser})
      BY <3>1 DEF TypeOK
    <3> QED
      BY <1>3, <3>2 DEF TryAutoPost, TypeOK
  <2> QED
    BY <1>3, <2>1 DEF TryAutoPost, TypeOK, Wired, login, history
<1> QED
  BY <1>1, <1>2, <1>3 DEF SenderStep

LEMMA TakeType == ASSUME TypeOK, Wired, NEW ch \in Channels, Take(ch) PROVE TypeOK' /\ Wired'
<1>1. line[ch] \in Seq(Users \union {NoUser}) /\ line[ch] # <<>>
  BY DEF TypeOK, Take
<1>2. Head(line[ch]) \in Users \union {NoUser} /\ Tail(line[ch]) \in Seq(Users \union {NoUser})
  BY <1>1
<1>3. consumer' \in [ch : Channels \union {"none"}, user : Users \union {NoUser},
                     admins : SUBSET Users]
  BY <1>2 DEF TypeOK, Take
<1>4. line' \in [Channels -> Seq(Users \union {NoUser})]
  BY <1>2 DEF TypeOK, Take
<1>5. place' \in [Senders -> [ch : Channels \union {"none"}, at : Nat]]
  <2> SUFFICES ASSUME NEW s \in Senders
               PROVE  (IF place[s].ch # ch THEN place[s]
                       ELSE IF place[s].at - 1 > Capacity(ch) THEN [place[s] EXCEPT !.at = @ - 1]
                       ELSE Free) \in [ch : Channels \union {"none"}, at : Nat]
    BY DEF Take
  <2>1. place[s] \in [ch : Channels \union {"none"}, at : Nat]
    BY DEF TypeOK
  <2>2. place[s].at - 1 > Capacity(ch) => place[s].at - 1 \in Nat
    BY <2>1, CapacityIsNat
  <2> QED
    BY <2>1, <2>2 DEF Free
<1> QED
  BY <1>3, <1>4, <1>5 DEF Take, TypeOK, Wired, login, history

\* An answer to a prompt fits into CodeMessage.
LEMMA AnswerType ==
    ASSUME TypeOK, NEW p \in Nat, Answer(p)
    PROVE  /\ codes' \in Seq(Nat) /\ Len(codes') <= Cap
           /\ answered' \subseteq Nat /\ odd' \in BOOLEAN
BY BridgeAssumption DEF TypeOK, Answer

LEMMA HandleType == ASSUME TypeOK, Wired, Handle PROVE TypeOK' /\ Wired'
<1>i. Idle \in [ch : Channels \union {"none"}, user : Users \union {NoUser}, admins : SUBSET Users]
  BY DEF Idle
<1>1. CASE HandleConversation
  <2>1. mode' \in [Users -> Nat]
    <3>1. mode' = mode \/ mode' = [mode EXCEPT ![consumer.user] = 0]
      BY <1>1, Zenon DEF HandleConversation, LeaveAdminMode
    <3> QED
      BY <3>1 DEF TypeOK
  <2>2. erased' \in BOOLEAN
    BY <1>1, Flags DEF HandleConversation, LeaveAdminMode
  <2> QED
    BY <1>1, <1>i, <2>1, <2>2 DEF HandleConversation, TypeOK, Wired, server, login
<1>2. CASE HandleMessage
  BY <1>2, <1>i DEF HandleMessage, TypeOK, Wired, server, login, history
<1>3. CASE HandleAdminAlone
  <2>1. asked.prompt \in Nat
    BY DEF TypeOK
  <2> QED
    BY <1>3, <1>i, <2>1, AnswerType DEF HandleAdminAlone, TypeOK, Wired, server
<1>4. ASSUME NEW a \in Users, AskAdmin(a) PROVE TypeOK' /\ Wired'
  BY <1>4 DEF AskAdmin, TypeOK, Wired, server, login
<1>5. CASE HandledAdmin
  BY <1>5, <1>i DEF HandledAdmin, TypeOK, Wired, server, login, history
<1> QED
  BY <1>1, <1>2, <1>3, <1>4, <1>5 DEF Handle

LEMMA AuthenticateType == ASSUME TypeOK, Wired, Authenticate PROVE TypeOK' /\ Wired'
<1>1. CASE Ask
  <2>1. line' \in [Channels -> Seq(Users \union {NoUser})]
    <3>1. "AdminMessage" \in Channels
      BY DEF Channels
    <3>2. Append(line["AdminMessage"], NoUser) \in Seq(Users \union {NoUser})
      BY <3>1 DEF TypeOK
    <3> QED
      BY <1>1, <3>2 DEF Ask, TypeOK
  <2>2. asked' \in [phase : Phases, prompt : Nat]
    BY <1>1 DEF Ask, TypeOK, Phases
  <2> QED
    BY <1>1, <2>1, <2>2 DEF Ask, TypeOK, Wired
<1>2. CASE Read
  <2>1. codes' \in Seq(Nat) /\ Len(codes') <= Cap
    BY <1>2, BridgeAssumption DEF Read, TypeOK
  <2>2. asked' \in [phase : Phases, prompt : Nat]
    BY <1>2 DEF Read, TypeOK, Phases
  <2>3. stale' \in BOOLEAN
    BY <1>2 DEF Read, TypeOK
  <2> QED
    BY <1>2, <2>1, <2>2, <2>3 DEF Read, TypeOK, Wired, server
<1> QED
  BY <1>1, <1>2 DEF Authenticate

LEMMA AdminType ==
    ASSUME TypeOK, Wired, (\E x \in Texts : TextStep(x)) \/ (\E u \in Users : Distract(u))
    PROVE  TypeOK' /\ Wired'
<1>1. ASSUME NEW x \in Texts, NEW u \in Users, OnText(x, u) PROVE TypeOK' /\ Wired'
  BY <1>1 DEF OnText, TypeOK, Wired, server, history
<1>2. ASSUME NEW x \in Texts, SendCode(x) PROVE TypeOK' /\ Wired'
  <2>1. text[x].prompt \in Nat
    BY DEF TypeOK
  <2>2. text' \in [Texts -> [phase : {"none", "send", "clear"}, user : Users \union {NoUser},
                             prompt : Nat]]
    BY <1>2 DEF SendCode, TypeOK
  <2> QED
    BY <1>2, <2>1, <2>2, AnswerType DEF SendCode, TypeOK, Wired, server
<1>3. ASSUME NEW x \in Texts, ClearState(x) PROVE TypeOK' /\ Wired'
  <2>1. NoText \in [phase : {"none", "send", "clear"}, user : Users \union {NoUser}, prompt : Nat]
    BY DEF NoText
  <2>2. mode' \in [Users -> Nat]
    <3>1. mode' = mode \/ mode' = [mode EXCEPT ![text[x].user] = 0]
      BY <1>3, Zenon DEF ClearState
    <3>2. mode \in [Users -> Nat]
      BY DEF TypeOK
    <3> QED
      BY <3>1, <3>2
  <2>4. erased' \in BOOLEAN
    BY <1>3, Flags DEF ClearState
  <2>3. text' \in [Texts -> [phase : {"none", "send", "clear"}, user : Users \union {NoUser},
                             prompt : Nat]]
    BY <1>3, <2>1 DEF ClearState, TypeOK
  <2> QED
    BY <1>3, <2>2, <2>3, <2>4 DEF ClearState, TypeOK, Wired, server
<1>4. ASSUME NEW u \in Users, Distract(u) PROVE TypeOK' /\ Wired'
  BY <1>4 DEF Distract, LeaveAdminMode, TypeOK, Wired, server, login
<1> QED
  BY <1>1, <1>2, <1>3, <1>4 DEF TextStep

LEMMA RestartType == ASSUME TypeOK, Restart PROVE TypeOK' /\ Wired'
<1>1. /\ line' \in [Channels -> Seq(Users \union {NoUser})]
      /\ sending' \in [Senders -> Seq(Channels)] /\ Wired'
  BY DEF Restart, Wired
<1>2. place' \in [Senders -> [ch : Channels \union {"none"}, at : Nat]]
  BY DEF Restart, Free
<1>3. consumer' \in [ch : Channels \union {"none"}, user : Users \union {NoUser}, admins : SUBSET Users]
  BY DEF Restart, Idle
<1>4. text' \in [Texts -> [phase : {"none", "send", "clear"}, user : Users \union {NoUser},
                          prompt : Nat]]
  BY DEF Restart, NoText
<1>5. asked' \in [phase : Phases, prompt : Nat] /\ answered' \subseteq Nat
  <2>1. asked \in [phase : Phases, prompt : Nat] /\ "code" \in Phases
    BY DEF TypeOK, Phases
  <2> QED
    BY <2>1 DEF Restart
<1>6. codes' \in Seq(Nat) /\ Len(codes') <= Cap /\ restarts' \in Nat
  BY BridgeAssumption DEF Restart, TypeOK
<1> QED
  BY <1>1, <1>2, <1>3, <1>4, <1>5, <1>6 DEF Restart, TypeOK

\* Which part of the program takes a step.
LEMMA NextCases ==
    ASSUME [Next]_vars
    PROVE  \/ SenderStep \/ \E ch \in Channels : Take(ch)
           \/ Handle \/ Authenticate
           \/ \E x \in Texts : TextStep(x)
           \/ \E u \in Users : Distract(u)
           \/ Restart
           \/ UNCHANGED vars
BY DEF Next, SenderStep

LEMMA StartsTyped == ASSUME Init PROVE TypeOK /\ Wired
<1>1. <<>> \in Seq(Replies)
  OBVIOUS
<1> QED
  BY <1>1, TypeInit DEF Init, Wired

LEMMA TypeStep == ASSUME TypeOK, Wired, [Next]_vars PROVE TypeOK' /\ Wired'
<1>1. CASE UNCHANGED vars
  BY <1>1 DEF vars, server, login, history, TypeOK, Wired
<1> QED
  BY <1>1, NextCases, SenderType, TakeType, HandleType, AuthenticateType, AdminType, RestartType
-----------------------------------------------------------------------------
(* The login dialogue, one lemma for each part of the program *)

\* A step that has nothing to do with what was asked and answered.
SameAnswers == asked' = asked /\ codes' = codes /\ answered' = answered /\ odd' = odd /\ stale' = stale

LEMMA FreshKept == ASSUME Fresh, SameAnswers PROVE Fresh'
BY DEF Fresh, Unread, Waiting, SameAnswers

LEMMA Facts ==
    ASSUME TypeOK
    PROVE  /\ asked.prompt \in Nat /\ asked.phase \in Phases
           /\ codes \in Seq(Nat) /\ Len(codes) \in Nat
           /\ line["AdminMessage"] \in Seq(Users \union {NoUser}) /\ Len(line["AdminMessage"]) \in Nat
           /\ \A u \in Users : mode[u] \in Nat
           /\ \A x \in Texts : text[x].prompt \in Nat
           /\ answered \subseteq Nat
<1>1. "AdminMessage" \in Channels
  BY DEF Channels
<1> QED
  BY <1>1 DEF TypeOK

\* Nothing of the dialogue moves.
Unmoved ==
    /\ SameAnswers /\ admins' = admins /\ text' = text /\ mode' = mode /\ erased' = erased
    /\ line'["AdminMessage"] = line["AdminMessage"]

LEMMA UnmovedStep == ASSUME Login, Unmoved, consumer' = consumer PROVE Login'
<1>1. Fresh'
  BY FreshKept DEF Login, Unmoved
<1>2. Prompts'
  BY DEF Login, Prompts, Waiting, Asking, Unmoved, SameAnswers
<1>3. Answerable'
  BY DEF Login, Answerable, QuestionComes, AnswerComes, Waiting, Unmoved, SameAnswers
<1>4. Alone'
  BY DEF Login, Alone, InHand, Awaited, Waiting, Unmoved, SameAnswers
<1> QED
  BY <1>1, <1>2, <1>3, <1>4 DEF Login

LEMMA SenderLogin == ASSUME TypeOK, Wired, Login, SenderStep PROVE Login'
<1>1. ASSUME NEW s \in Senders, NEW op \in Kinds, Request(s, op) PROVE Login'
  BY <1>1, UnmovedStep DEF Request, Unmoved, SameAnswers, login, history
<1>2. ASSUME NEW s \in Senders, Send(s) PROVE Login'
  <2>1. Head(sending[s]) \in Replies
    BY <1>2 DEF Send, Wired
  <2>2. line'["AdminMessage"] = line["AdminMessage"]
    BY <1>2, <2>1 DEF Send, Replies, TypeOK, Channels
  <2> QED
    BY <1>2, <2>2, UnmovedStep DEF Send, Unmoved, SameAnswers, login, history
<1>3. ASSUME NEW s \in Senders, TryAutoPost(s) PROVE Login'
  <2>1. line'["AdminMessage"] = line["AdminMessage"]
    BY <1>3 DEF TryAutoPost, TypeOK, Channels
  <2> QED
    BY <1>3, <2>1, UnmovedStep DEF TryAutoPost, Unmoved, SameAnswers, login, history
<1> QED
  BY <1>1, <1>2, <1>3 DEF SenderStep

\* The consumer takes a message, and maybe it is the question.
LEMMA TakeLogin == ASSUME TypeOK, Login, NEW ch \in Channels, Take(ch) PROVE Login'
<1>k. /\ SameAnswers /\ admins' = admins /\ text' = text /\ mode' = mode /\ erased' = erased
      /\ consumer = Idle /\ line[ch] # <<>>
      /\ consumer' = [ch |-> ch, user |-> Head(line[ch]),
                      admins |-> IF ch = "AdminMessage" THEN admins ELSE {}]
      /\ line'[ch] = Tail(line[ch])
      /\ ch # "AdminMessage" => line'["AdminMessage"] = line["AdminMessage"]
  BY DEF Take, SameAnswers, login, history, TypeOK, Channels
<1>1. Fresh'
  BY <1>k, FreshKept DEF Login
<1>2. Prompts'
  BY <1>k DEF Login, Prompts, Waiting, Asking, SameAnswers, Idle
<1>3. Answerable'
  BY <1>k DEF Login, Answerable, QuestionComes, AnswerComes, Waiting, SameAnswers, Idle
<1>4. Alone'
  <2> SUFFICES ASSUME admins = {}
               PROVE  /\ consumer'.admins = {}
                      /\ \A u \in Users : mode'[u] = 0
                      /\ \A x \in Texts : text'[x].phase = "none"
                      /\ Len(line'["AdminMessage"]) + InHand' + Len(codes') <= Awaited'
    BY <1>k DEF Alone
  <2>1. /\ \A u \in Users : mode[u] = 0
        /\ \A x \in Texts : text[x].phase = "none"
        /\ Len(line["AdminMessage"]) + InHand + Len(codes) <= Awaited
    BY DEF Login, Alone
  <2>2. InHand = 0 /\ Awaited' = Awaited /\ Len(codes') = Len(codes) /\ Awaited \in Nat
    BY <1>k DEF InHand, Idle, Awaited, Waiting, SameAnswers
  <2>3. Len(line'["AdminMessage"]) + InHand' = Len(line["AdminMessage"])
    <3>1. CASE ch = "AdminMessage"
      <4>1. /\ line["AdminMessage"] \in Seq(Users \union {NoUser}) /\ line["AdminMessage"] # <<>>
            /\ line'["AdminMessage"] = Tail(line["AdminMessage"])
        BY <1>k, <3>1, Facts
      <4>2. /\ Len(line'["AdminMessage"]) = Len(line["AdminMessage"]) - 1
            /\ Len(line["AdminMessage"]) \in Nat
        BY <4>1
      <4>3. InHand' = 1
        BY <1>k, <3>1 DEF InHand
      <4> QED
        BY <4>2, <4>3
    <3>2. CASE ch # "AdminMessage"
      <4>1. InHand' = 0
        BY <1>k, <3>2 DEF InHand
      <4> QED
        BY <1>k, <3>2, <4>1, Facts
    <3> QED
      BY <3>1, <3>2
  <2> QED
    BY <1>k, <2>1, <2>2, <2>3, Facts
<1> QED
  BY <1>1, <1>2, <1>3, <1>4 DEF Login

\* The consumer is done with a message.
LEMMA HandleLogin == ASSUME TypeOK, TypeOK', Login, Handle PROVE Login'
<1>1. ASSUME consumer.ch \notin {"AdminMessage", "none"}, consumer' = Idle, SameAnswers,
             admins' = admins, text' = text, line' = line,
             \/ mode' = mode /\ erased' = erased
             \/ \E u \in Users \union {NoUser} :
                   /\ mode' = [mode EXCEPT ![u] = 0]
                   /\ mode[u] # 0 => erased'
                   /\ erased => erased'
      PROVE  Login'
  <2>1. Fresh'
    BY <1>1, FreshKept DEF Login
  <2>m. \A v \in Users : mode'[v] = mode[v] \/ (mode'[v] = 0 /\ erased') \/ mode[v] = 0
    BY <1>1 DEF TypeOK
  <2>n. \A v \in Users : mode'[v] \in {0, mode[v]}
    BY <1>1 DEF TypeOK
  <2>2. Prompts'
    BY <1>1, <2>n, Facts DEF Login, Prompts, Waiting, Asking, SameAnswers, Idle
  <2>3. Answerable'
    <3> SUFFICES ASSUME Waiting PROVE (QuestionComes \/ AnswerComes)'
      BY <1>1 DEF Answerable, Waiting, SameAnswers
    <3>1. line["AdminMessage"] # <<>> \/ AnswerComes
      BY <1>1 DEF Login, Answerable, QuestionComes
    <3>2. asked.prompt >= 1
      BY DEF Login, Prompts
    <3>3. CASE \E u \in Users : mode[u] = asked.prompt
      BY <1>1, <2>m, <3>2, <3>3, Facts DEF AnswerComes, SameAnswers
    <3>4. CASE erased
      BY <1>1, <3>4 DEF AnswerComes
    <3> QED
      BY <1>1, <3>1, <3>3, <3>4 DEF AnswerComes, QuestionComes, SameAnswers
  <2>4. Alone'
    BY <1>1, <2>n, Facts DEF Login, Alone, InHand, Awaited, Waiting, SameAnswers, Idle
  <2> QED
    BY <2>1, <2>2, <2>3, <2>4 DEF Login
<1>2. CASE HandleConversation
  <2>1. /\ consumer.ch \notin {"AdminMessage", "none"} /\ consumer' = Idle /\ SameAnswers
        /\ admins' = admins /\ text' = text /\ line' = line
    BY <1>2 DEF HandleConversation, SameAnswers, server, login
  <2>2. consumer.user \in Users \union {NoUser}
    BY DEF TypeOK
  <2>3. \/ mode' = mode /\ erased' = erased
        \/ /\ mode' = [mode EXCEPT ![consumer.user] = 0]
           /\ mode[consumer.user] # 0 => erased'
           /\ erased => erased'
    BY <1>2, Zenon DEF HandleConversation, LeaveAdminMode
  <2> QED
    BY <1>1, <2>1, <2>2, <2>3
<1>3. CASE HandleMessage
  BY <1>1, <1>3 DEF HandleMessage, SameAnswers, server, login, history
<1>4. CASE HandleAdminAlone
  <2>k. /\ consumer.ch = "AdminMessage" /\ admins = {} /\ consumer' = Idle
        /\ codes' = Append(codes, asked.prompt) /\ answered' = answered \union {asked.prompt}
        /\ odd' = (odd \/ asked.prompt \in answered)
        /\ admins' = admins /\ line' = line /\ asked' = asked /\ text' = text /\ mode' = mode
        /\ stale' = stale /\ erased' = erased
    BY <1>4 DEF HandleAdminAlone, Answer, server
  <2>1. Waiting /\ Len(codes) = 0 /\ Len(line["AdminMessage"]) = 0
    BY <2>k, Facts DEF Login, Alone, InHand, Awaited
  <2>2. codes = <<>> /\ asked.prompt >= 1 /\ asked.prompt \notin answered
    BY <2>1, Facts DEF Login, Prompts
  <2>3. codes' = <<asked.prompt>> /\ Len(codes') = 1
    BY <2>k, <2>2
  <2>4. Prompts'
    <3>1. /\ \A v \in Users : mode'[v] <= asked'.prompt
          /\ \A x \in Texts :
                /\ text'[x].phase # "none" =>
                      text'[x].user \in Users /\ text'[x].prompt \in 1..asked'.prompt
                /\ text'[x].phase = "clear" => text'[x].prompt \in answered'
      BY <2>k DEF Login, Prompts
    <3>2. answered' \subseteq 1..asked'.prompt
      <4>1. asked.prompt \in 1..asked.prompt
        BY <2>2, Facts
      <4> QED
        BY <2>k, <4>1 DEF Login, Prompts
    <3>3. asked'.prompt >= 1 /\ codes' # <<>>
      BY <2>k, <2>2, <2>3
    <3> QED
      BY <3>1, <3>2, <3>3 DEF Prompts
  <2>5. Answerable'
    BY <2>3 DEF Answerable, AnswerComes
  <2>6. Fresh'
    <3>1. odd' => odd
      BY <2>k, <2>2
    <3>2. ~odd' => ~stale' /\ \A p \in 1..asked.prompt : p # asked.prompt \/ ~Waiting => p \in answered
      BY <2>k, Zenon DEF Login, Fresh
    <3> QED
      BY <2>k, <2>1, <2>3, <3>2 DEF Fresh, Unread, Waiting
  <2>7. Alone'
    BY <2>k, <2>1, <2>3 DEF Login, Alone, InHand, Awaited, Waiting, Idle
  <2> QED
    BY <2>4, <2>5, <2>6, <2>7 DEF Login
<1>5. ASSUME NEW a \in Users, AskAdmin(a) PROVE Login'
  <2>k. /\ a \in consumer.admins /\ consumer' = [consumer EXCEPT !.admins = @ \ {a}]
        /\ SameAnswers /\ admins' = admins /\ text' = text /\ line' = line
        /\ \/ mode' = [mode EXCEPT ![a] = asked.prompt] /\ erased' = erased
           \/ mode' = mode /\ erased'
    BY <1>5 DEF AskAdmin, SameAnswers, server, login
  <2>1. consumer'.ch = consumer.ch /\ admins # {}
    BY <2>k DEF Login, Alone, TypeOK
  <2>2. Fresh'
    BY <2>k, FreshKept DEF Login
  <2>3. mode'[a] = asked.prompt \/ erased'
    BY <2>k DEF TypeOK
  <2>n. \A v \in Users : mode'[v] \in {mode[v], asked.prompt}
    BY <2>k DEF TypeOK
  <2>4. Prompts'
    <3>1. \A v \in Users : mode'[v] <= asked.prompt
      BY <2>n, Facts DEF Login, Prompts
    <3>2. Asking' = Asking /\ Waiting' = Waiting
      BY <2>k, <2>1 DEF Asking, Waiting, SameAnswers
    <3> QED
      BY <2>k, <3>1, <3>2 DEF Login, Prompts, SameAnswers
  <2>5. Answerable'
    BY <2>k, <2>3 DEF Answerable, AnswerComes, SameAnswers
  <2>6. Alone'
    BY <2>k, <2>1 DEF Alone
  <2> QED
    BY <2>2, <2>4, <2>5, <2>6 DEF Login
<1>6. CASE HandledAdmin
  <2>k. /\ consumer.ch = "AdminMessage" /\ admins # {} /\ consumer.admins = {} /\ consumer' = Idle
        /\ SameAnswers /\ admins' = admins /\ text' = text /\ line' = line
        /\ mode' = mode /\ erased' = erased
    BY <1>6 DEF HandledAdmin, SameAnswers, server, login, history
  <2>1. Fresh'
    BY <2>k, FreshKept DEF Login
  <2>2. Prompts'
    BY <2>k DEF Login, Prompts, Waiting, Asking, SameAnswers, Idle
  <2>3. Answerable'
    BY <2>k DEF Login, Answerable, QuestionComes, AnswerComes, Waiting, SameAnswers
  <2>4. Alone'
    BY <2>k DEF Alone
  <2> QED
    BY <2>1, <2>2, <2>3, <2>4 DEF Login
<1> QED
  BY <1>2, <1>3, <1>4, <1>5, <1>6 DEF Handle

\* The statistics bot asks, or takes an answer.
LEMMA AuthenticateLogin == ASSUME TypeOK, TypeOK', Login, Authenticate PROVE Login'
<1>1. CASE Ask
  <2>k. /\ asked.phase \in {"code", "password"} /\ asked'.phase \in {"wait_code", "wait_password"}
        /\ asked'.prompt = asked.prompt + 1
        /\ line'["AdminMessage"] = Append(line["AdminMessage"], NoUser)
        /\ admins' = admins /\ consumer' = consumer /\ codes' = codes /\ text' = text /\ mode' = mode
        /\ answered' = answered /\ odd' = odd /\ stale' = stale
    BY <1>1 DEF Ask, TypeOK, Channels
  <2>1. ~Waiting /\ Waiting'
    BY <2>k DEF Waiting
  <2>2. line'["AdminMessage"] # <<>> /\ Len(line'["AdminMessage"]) = Len(line["AdminMessage"]) + 1
    <3>1. line["AdminMessage"] \in Seq(Users \union {NoUser})
      BY Facts
    <3> QED
      BY <2>k, <3>1
  <2>3. asked'.prompt \notin answered
    BY <2>k, Facts DEF Login, Prompts
  <2>4. Prompts'
    BY <2>k, <2>3, Facts DEF Login, Prompts
  <2>5. Answerable'
    BY <2>2 DEF Answerable, QuestionComes
  <2>6. Fresh'
    <3> SUFFICES ASSUME ~odd PROVE Fresh'
      BY <2>k DEF Fresh
    <3>1. /\ ~stale /\ codes = <<>>
          /\ \A p \in 1..asked.prompt : p \in answered
      BY <2>1 DEF Login, Fresh, Unread
    <3>2. \A p \in 1..asked'.prompt : p # asked'.prompt => p \in answered
      BY <2>k, <3>1, Facts
    <3>3. Unread' = <<>>
      BY <2>k, <2>3 DEF Unread
    <3> QED
      BY <2>k, <2>1, <3>1, <3>2, <3>3 DEF Fresh
  <2>7. Alone'
    <3>1. Awaited = 0 /\ Awaited' = 1 /\ InHand' = InHand /\ InHand \in Nat
      BY <2>k, <2>1 DEF Awaited, InHand
    <3> QED
      BY <2>k, <2>2, <3>1, Facts DEF Login, Alone
  <2> QED
    BY <2>4, <2>5, <2>6, <2>7 DEF Login
<1>2. CASE Read
  <2>k. /\ Waiting /\ codes # <<>> /\ codes' = Tail(codes)
        /\ asked'.phase \in {"done", "failed", "password"} /\ asked'.prompt = asked.prompt
        /\ admins' = admins /\ line' = line /\ consumer' = consumer /\ text' = text /\ mode' = mode
        /\ answered' = answered /\ odd' = odd /\ erased' = erased
    BY <1>2 DEF Read, Waiting, TypeOK, server
  <2>s. stale' = (stale \/ Head(codes) # asked.prompt)
    BY <1>2 DEF Read
  <2>1. ~Waiting'
    BY <2>k DEF Waiting
  <2>2. Prompts'
    BY <2>k, <2>1 DEF Login, Prompts, Asking
  <2>3. Answerable'
    BY <2>1 DEF Answerable
  <2>4. Fresh'
    <3> SUFFICES ASSUME ~odd PROVE Fresh'
      BY <2>k DEF Fresh
    <3>1. /\ ~stale /\ codes = <<asked.prompt>> /\ asked.prompt \in answered
          /\ \A p \in 1..asked.prompt : p # asked.prompt => p \in answered
      BY <2>k DEF Login, Fresh, Unread
    <3>2. codes' = <<>> /\ Head(codes) = asked.prompt
      BY <2>k, <3>1
    <3>3. ~stale'
      BY <2>s, <3>1, <3>2
    <3>4. Unread' = <<>>
      BY <2>1 DEF Unread
    <3> QED
      BY <2>k, <3>1, <3>2, <3>3, <3>4 DEF Fresh
  <2>5. Alone'
    <3>1. Len(codes') = Len(codes) - 1
      BY <2>k, Facts
    <3>2. InHand' = InHand /\ InHand \in Nat /\ Awaited = 1 /\ Awaited' = 0
      BY <2>k, <2>1 DEF InHand, Awaited
    <3> QED
      BY <2>k, <3>1, <3>2, Facts DEF Login, Alone
  <2> QED
    BY <2>2, <2>3, <2>4, <2>5 DEF Login
<1> QED
  BY <1>1, <1>2 DEF Authenticate

\* An admin answers, or goes on with something else.
LEMMA TextLogin == ASSUME TypeOK, TypeOK', Login, NEW x \in Texts, TextStep(x) PROVE Login'
<1>1. ASSUME NEW u \in Users, OnText(x, u) PROVE Login'
  <2>k. /\ mode[u] # 0 /\ text' = [text EXCEPT ![x] = [phase |-> "send", user |-> u, prompt |-> mode[u]]]
        /\ text[x].phase = "none"
        /\ SameAnswers /\ admins' = admins /\ line' = line /\ consumer' = consumer
        /\ mode' = mode /\ erased' = erased
    BY <1>1 DEF OnText, NoText, SameAnswers, server, history
  <2>1. /\ text'[x] = [phase |-> "send", user |-> u, prompt |-> mode[u]]
        /\ \A y \in Texts \ {x} : text'[y] = text[y]
    BY <2>k DEF TypeOK
  <2>2. Fresh'
    BY <2>k, FreshKept DEF Login
  <2>3. Prompts'
    <3>1. mode[u] \in 1..asked.prompt
      BY <2>k, Facts DEF Login, Prompts
    <3>2. Asking' = Asking /\ Waiting' = Waiting
      BY <2>k DEF Asking, Waiting, SameAnswers
    <3>3. \A y \in Texts :
             /\ text'[y].phase # "none" => text'[y].user \in Users /\ text'[y].prompt \in 1..asked.prompt
             /\ text'[y].phase = "clear" => text'[y].prompt \in answered
      BY <2>1, <3>1 DEF Login, Prompts
    <3> QED
      BY <2>k, <3>2, <3>3 DEF Login, Prompts, SameAnswers
  <2>4. Answerable'
    BY <2>1 DEF Answerable, AnswerComes
  <2>5. Alone'
    BY <2>k DEF Login, Alone
  <2> QED
    BY <2>2, <2>3, <2>4, <2>5 DEF Login
<1>2. CASE SendCode(x)
  <2> DEFINE p == text[x].prompt
  <2>k. /\ text[x].phase = "send" /\ codes' = Append(codes, p) /\ answered' = answered \union {p}
        /\ odd' = (odd \/ p \in answered)
        /\ text' = [text EXCEPT ![x] = [@ EXCEPT !.phase = "clear"]]
        /\ admins' = admins /\ line' = line /\ consumer' = consumer /\ asked' = asked
        /\ mode' = mode /\ stale' = stale /\ erased' = erased
    BY <1>2 DEF SendCode, Answer, server
  <2>p. p \in 1..asked.prompt /\ text[x].user \in Users
    BY <2>k DEF Login, Prompts
  <2>1. /\ text'[x].phase = "clear" /\ text'[x].user = text[x].user /\ text'[x].prompt = p
        /\ \A y \in Texts \ {x} : text'[y] = text[y]
    BY <2>k DEF TypeOK
  <2>2. codes' # <<>>
    BY <2>k, Facts
  <2> HIDE DEF p
  <2>3. Prompts'
    <3>1. Asking' = Asking /\ Waiting' = Waiting
      BY <2>k DEF Asking, Waiting
    <3>2. \A y \in Texts :
             /\ text'[y].phase # "none" => text'[y].user \in Users /\ text'[y].prompt \in 1..asked.prompt
             /\ text'[y].phase = "clear" => text'[y].prompt \in answered'
      BY <2>k, <2>p, <2>1 DEF Login, Prompts
    <3>3. answered' \subseteq 1..asked.prompt
      BY <2>k, <2>p DEF Login, Prompts
    <3> QED
      BY <2>k, <2>2, <3>1, <3>2, <3>3 DEF Login, Prompts
  <2>4. Answerable'
    BY <2>2 DEF Answerable, AnswerComes
  <2>5. Fresh'
    <3> SUFFICES ASSUME ~odd' PROVE Fresh'
      BY DEF Fresh
    <3>1. ~odd /\ p \notin answered
      BY <2>k
    <3>2. /\ ~stale /\ codes = Unread
          /\ \A q \in 1..asked.prompt : q # asked.prompt \/ ~Waiting => q \in answered
      BY <3>1 DEF Login, Fresh
    <3>3. p = asked.prompt /\ Waiting
      BY <2>p, <3>1, <3>2
    <3>4. codes = <<>>
      BY <3>1, <3>2, <3>3 DEF Unread
    <3>5. codes' = <<asked.prompt>>
      BY <2>k, <3>3, <3>4
    <3>6. Unread' = <<asked.prompt>>
      BY <2>k, <3>3 DEF Unread, Waiting
    <3> QED
      BY <2>k, <3>2, <3>5, <3>6 DEF Fresh, Waiting
  <2>6. Alone'
    BY <2>k DEF Login, Alone
  <2> QED
    BY <2>3, <2>4, <2>5, <2>6 DEF Login
<1>3. CASE ClearState(x)
  <2> DEFINE u == text[x].user
  <2>k. /\ text[x].phase = "clear" /\ text' = [text EXCEPT ![x] = NoText]
        /\ SameAnswers /\ admins' = admins /\ line' = line /\ consumer' = consumer
    BY <1>3 DEF ClearState, SameAnswers, server
  <2>m. \/ mode' = mode /\ erased' = erased
        \/ /\ mode' = [mode EXCEPT ![u] = 0]
           /\ mode[u] \notin {0, text[x].prompt} => erased'
           /\ erased => erased'
    BY <1>3, Zenon DEF ClearState
  <2>1. /\ u \in Users /\ text[x].prompt \in 1..asked.prompt /\ text[x].prompt \in answered
    BY <2>k DEF Login, Prompts
  <2>2. /\ text'[x].phase = "none" /\ \A y \in Texts \ {x} : text'[y] = text[y]
    BY <2>k DEF TypeOK, NoText
  <2>n. \A v \in Users : mode'[v] = mode[v] \/ (v = u /\ mode'[v] = 0)
    BY <2>m DEF TypeOK
  <2> HIDE DEF u
  <2>3. Fresh'
    BY <2>k, FreshKept DEF Login
  <2>4. Prompts'
    <3>1. Asking' = Asking /\ Waiting' = Waiting
      BY <2>k DEF Asking, Waiting, SameAnswers
    <3>2. \A y \in Texts :
             /\ text'[y].phase # "none" => text'[y].user \in Users /\ text'[y].prompt \in 1..asked.prompt
             /\ text'[y].phase = "clear" => text'[y].prompt \in answered
      BY <2>2 DEF Login, Prompts
    <3>3. \A v \in Users : mode'[v] <= asked.prompt
      BY <2>n, Facts DEF Login, Prompts
    <3> QED
      BY <2>k, <3>1, <3>2, <3>3 DEF Login, Prompts, SameAnswers
  <2>5. Answerable'
    <3> SUFFICES ASSUME Waiting PROVE (QuestionComes \/ AnswerComes)'
      BY <2>k DEF Answerable, Waiting, SameAnswers
    <3>1. QuestionComes \/ AnswerComes
      BY DEF Login, Answerable
    <3>2. CASE codes # <<>>
      BY <2>k, <3>2 DEF AnswerComes, SameAnswers
    <3>3. ASSUME codes = <<>>, NEW v \in Users, mode[v] = asked.prompt PROVE AnswerComes'
      <4>1. text[x].prompt # asked.prompt /\ asked.prompt >= 1
        BY <2>1, <3>3 DEF Login, Prompts
      <4>2. CASE mode'[v] = mode[v]
        BY <2>k, <3>3, <4>2 DEF AnswerComes, SameAnswers
      <4>3. CASE mode'[v] # mode[v]
        <5>1. v = u /\ mode[u] \notin {0, text[x].prompt}
          BY <2>n, <3>3, <4>1, <4>3, Facts
        <5>2. erased'
          BY <2>m, <4>3, <5>1
        <5> QED
          BY <5>2 DEF AnswerComes
      <4> QED
        BY <4>2, <4>3
    <3>4. CASE erased
      BY <2>m, <3>4, Zenon DEF AnswerComes
    <3>5. CASE QuestionComes
      BY <2>k, <3>5 DEF QuestionComes
    <3>6. ASSUME NEW y \in Texts, text[y].phase = "send" PROVE AnswerComes'
      BY <2>k, <2>2, <3>6 DEF AnswerComes
    <3> QED
      BY <3>1, <3>2, <3>3, <3>4, <3>5, <3>6 DEF AnswerComes
  <2>6. Alone'
    BY <2>k DEF Login, Alone
  <2> QED
    BY <2>3, <2>4, <2>5, <2>6 DEF Login
<1> QED
  BY <1>1, <1>2, <1>3 DEF TextStep

LEMMA DistractLogin == ASSUME TypeOK, TypeOK', Login, NEW u \in Users, Distract(u) PROVE Login'
<1>k. /\ mode[u] # 0 /\ mode' = [mode EXCEPT ![u] = 0]
      /\ SameAnswers /\ admins' = admins /\ text' = text /\ line' = line /\ consumer' = consumer
  BY DEF Distract, LeaveAdminMode, SameAnswers, server, login
<1>1. erased'
  BY Zenon DEF Distract, LeaveAdminMode
<1>2. \A v \in Users : mode'[v] \in {0, mode[v]}
  BY <1>k DEF TypeOK
<1>3. Fresh'
  BY <1>k, FreshKept DEF Login
<1>4. Prompts'
  <2>1. Asking' = Asking /\ Waiting' = Waiting
    BY <1>k DEF Asking, Waiting, SameAnswers
  <2>2. \A v \in Users : mode'[v] <= asked.prompt
    BY <1>2, Facts DEF Login, Prompts
  <2> QED
    BY <1>k, <2>1, <2>2 DEF Login, Prompts, SameAnswers
<1>5. Answerable'
  BY <1>1 DEF Answerable, AnswerComes
<1>6. Alone'
  BY <1>k DEF Login, Alone
<1> QED
  BY <1>3, <1>4, <1>5, <1>6 DEF Login

\* What a restart leaves is an old answer at most, and that is odd.
LEMMA RestartLogin == ASSUME TypeOK, TypeOK', Login, Restart PROVE Login'
<1>k. /\ line' = [ch \in Channels |-> <<>>] /\ consumer' = Idle /\ codes' = <<>>
      /\ text' = [x \in Texts |-> NoText]
      /\ asked'.prompt = asked.prompt /\ asked'.phase \in {"code", "done"}
      /\ answered' = 1..asked.prompt
      /\ admins' = admins /\ mode' = mode /\ odd' = odd /\ stale' = stale
  BY DEF Restart, TypeOK
<1>1. ~Waiting'
  BY <1>k DEF Waiting
<1>2. line'["AdminMessage"] = <<>> /\ consumer'.ch = "none" /\ consumer'.admins = {}
  BY <1>k DEF Channels, Idle
<1>3. Prompts'
  BY <1>k, <1>1, <1>2 DEF Login, Prompts, Asking, NoText
<1>4. Answerable'
  BY <1>1 DEF Answerable
<1>5. Fresh'
  <2>1. Unread' = <<>>
    BY <1>1 DEF Unread
  <2> QED
    BY <1>k, <2>1 DEF Login, Fresh
<1>6. Alone'
  <2>1. InHand' = 0 /\ Awaited' = 0 /\ Len(codes') = 0 /\ Len(line'["AdminMessage"]) = 0
    BY <1>k, <1>1, <1>2 DEF InHand, Awaited
  <2> QED
    BY <1>k, <1>2, <2>1 DEF Login, Alone, NoText
<1> QED
  BY <1>3, <1>4, <1>5, <1>6 DEF Login

LEMMA LoginInit == ASSUME Init PROVE Login
<1>k. /\ line["AdminMessage"] = <<>> /\ consumer.ch = "none" /\ consumer.admins = {}
      /\ asked.phase = "code" /\ asked.prompt = 0 /\ codes = <<>> /\ answered = {}
      /\ text = [x \in Texts |-> NoText] /\ mode = [u \in Users |-> 0] /\ ~odd /\ ~stale
  BY DEF Init, Idle, Channels
<1>1. ~Waiting
  BY <1>k DEF Waiting
<1>2. Prompts
  BY <1>k, <1>1 DEF Prompts, Asking, NoText
<1>3. Answerable
  BY <1>1 DEF Answerable
<1>4. Fresh
  BY <1>k, <1>1 DEF Fresh, Unread
<1>5. Alone
  BY <1>k, <1>1 DEF Alone, NoText, InHand, Awaited
<1> QED
  BY <1>2, <1>3, <1>4, <1>5 DEF Login
-----------------------------------------------------------------------------
(* What holds in every state *)

LEMMA StepKeeps == ASSUME TypeOK, Wired, Login, [Next]_vars PROVE (TypeOK /\ Wired /\ Login)'
<1>1. TypeOK' /\ Wired'
  BY TypeStep
<1>2. CASE UNCHANGED vars
  <2>1. Unmoved /\ consumer' = consumer
    BY <1>2 DEF vars, server, login, history, Unmoved, SameAnswers
  <2> QED
    BY <1>1, <2>1, UnmovedStep
<1>3. CASE SenderStep
  BY <1>1, <1>3, SenderLogin
<1>4. ASSUME NEW ch \in Channels, Take(ch) PROVE Login'
  BY <1>4, TakeLogin
<1>5. CASE Handle
  BY <1>1, <1>5, HandleLogin
<1>6. CASE Authenticate
  BY <1>1, <1>6, AuthenticateLogin
<1>7. ASSUME NEW x \in Texts, TextStep(x) PROVE Login'
  BY <1>1, <1>7, TextLogin
<1>8. ASSUME NEW u \in Users, Distract(u) PROVE Login'
  BY <1>1, <1>8, DistractLogin
<1>9. CASE Restart
  BY <1>1, <1>9, RestartLogin
<1> QED
  BY <1>1, <1>2, <1>3, <1>4, <1>5, <1>6, <1>7, <1>8, <1>9, NextCases

\* The inductive invariant.
THEOREM LoginHolds == Spec => [](TypeOK /\ Wired /\ Login)
<1>1. Init => TypeOK /\ Wired /\ Login
  BY StartsTyped, LoginInit
<1>2. TypeOK /\ Wired /\ Login /\ [Next]_vars => (TypeOK /\ Wired /\ Login)'
  BY StepKeeps
<1> QED
  BY <1>1, <1>2, PTL DEF Spec

\* The channels, the goroutines and the rows of bot_states have the shape the code
\* gives them; CodeMessage never holds more than its capacity.
THEOREM TypeCorrect == Spec => []TypeOK
BY LoginHolds, PTL

\* Whatever the admins do, and wherever the process stops: while the statistics bot
\* waits, its question or an answer is under way or some admin's next message will
\* be taken as one, unless the admin's row was overwritten.
THEOREM AlwaysAnswerable == Spec => []PromptIsAnswerable
<1>1. TypeOK /\ Login => PromptIsAnswerable
  <2> SUFFICES ASSUME TypeOK, Login, Waiting
               PROVE  \/ line["AdminMessage"] # <<>> \/ consumer.ch = "AdminMessage"
                      \/ codes # <<>> \/ \E x \in Texts : text[x].phase = "send"
                      \/ \E u \in Users : mode[u] # 0
                      \/ erased
    BY DEF PromptIsAnswerable
  <2>1. QuestionComes \/ AnswerComes
    BY DEF Login, Answerable
  <2>2. asked.prompt >= 1
    BY DEF Login, Prompts
  <2> QED
    BY <2>1, <2>2, Facts DEF QuestionComes, AnswerComes
<1> QED
  BY <1>1, LoginHolds, PTL

\* The statistics bot logs in with the answer to its own question, unless some
\* prompt was answered twice or after a restart.
THEOREM OnlyFreshCodes == Spec => []CodesAreFresh
<1>1. Login => CodesAreFresh
  BY DEF Login, Fresh, CodesAreFresh
<1> QED
  BY <1>1, LoginHolds, PTL

\* Without admins there is one question or answer at a time, so CodeMessage has
\* room when the consumer puts a code into it.
THEOREM ConsumerIsFree == Spec => []ConsumerNeverBlocks
<1>1. TypeOK /\ Login => ConsumerNeverBlocks
  <2> SUFFICES ASSUME TypeOK, Login, consumer.ch = "AdminMessage", admins = {}
               PROVE  Len(codes) < Cap
    BY DEF ConsumerNeverBlocks
  <2>1. InHand = 1 /\ Awaited <= 1 /\ Awaited \in Nat
    BY DEF InHand, Awaited
  <2>2. Len(codes) = 0
    BY <2>1, Facts DEF Login, Alone
  <2> QED
    BY <2>2, BridgeAssumption
<1> QED
  BY <1>1, LoginHolds, PTL
-----------------------------------------------------------------------------
(* The answers of the statistics bot                                         *)

RequestPhases == {"resolve", "full", "admins", "first", "boosts", "recent", "stats", "done", "refused"}
Accepted == {"first", "boosts", "recent", "stats", "done"}

Chats == [members : Int, public : BOOLEAN, broadcast : BOOLEAN, posts : Seq(Posts),
          last : Nat, standing : [Accounts -> Standings]]
Full == [members : Int, public : BOOLEAN, broadcast : BOOLEAN, stats : BOOLEAN]
Figure == [from : Nat, to : Nat, count : Nat, avgViews : Nat, medianViews : Nat,
           avgForwards : Nat, medianForwards : Nat]
Responses == [subscribers : Int, first : Nat, total : Nat, posts : Figure,
              languages : Seq([total : Nat, ratio : Nat]), statsAvailable : BOOLEAN]

StatsTypes ==
    /\ chat \in Chats
    /\ req \in [phase : RequestPhases, full : Full]
    /\ resp \in Responses
    /\ changes \in Nat

\* The posts are numbered as they come.
PostsInTime == InTime(chat.posts, chat.last)

\* What was found on the way still holds, or has changed.
Copied ==
    req.phase \in Accepted \union {"admins"} =>
        /\ "members" \in moved \/ chat.members = req.full.members
        /\ "public" \in moved \/ chat.public = req.full.public

Admitted ==
    req.phase \in Accepted =>
        /\ Required(req.full)
        /\ requester \in moved \/ chat.standing[requester] # "none"
        /\ textBot \in moved \/ chat.standing[textBot] = "all"
        /\ userBot \in moved \/ "self" \in lost \/ chat.standing[userBot] = "all"
        /\ resp.statsAvailable \/ resp.subscribers = req.full.members

\* No post is older than the first one was, and no more are added than changes.
FirstPost ==
    req.phase \in Accepted \ {"first"} =>
        /\ {"posts", "first"} \intersect (moved \union lost) # {} \/ resp.total = Len(chat.posts)
        /\ "first" \notin lost =>
              /\ Len(chat.posts) <= resp.total + changes
              /\ resp.first <= chat.last
              /\ \A i \in DOMAIN chat.posts : resp.first <= chat.posts[i].date

RecentPosts ==
    IF req.phase \in {"stats", "done"}
      THEN {"posts", "recent"} \intersect (moved \union lost) # {} \/ resp.posts = PostsStats(chat.posts)
      ELSE resp.posts = NoPosts

PostsFit ==
    LET p == resp.posts
    IN  p # NoPosts =>
          /\ p.from <= p.to /\ p.count <= Window
          /\ p.avgViews > 0 /\ p.medianViews > 0
          /\ "first" \notin lost => resp.first <= p.from /\ p.count <= resp.total + changes

SharesFit ==
    LET shares == Total([i \in DOMAIN resp.languages |-> resp.languages[i].ratio])
    IN  resp.languages # <<>> => shares <= Whole /\ shares + Len(resp.languages) > Whole

\* There are statistics if Telegram has some and the question did not fail.
StatsKnown ==
    IF req.phase = "done"
      THEN resp.statsAvailable <=> req.full.stats /\ "stats" \notin lost
      ELSE ~resp.statsAvailable /\ "stats" \notin lost

StatsInv ==
    /\ StatsTypes /\ PostsInTime /\ Copied /\ Admitted /\ FirstPost
    /\ RecentPosts /\ PostsFit /\ SharesFit /\ StatsKnown

LEMMA NewestPosts ==
    ASSUME NEW posts \in Seq(Posts)
    PROVE  LET m == IF Len(posts) < Window THEN Len(posts) ELSE Window
           IN  /\ m \in Nat /\ m <= Len(posts) /\ m <= Window
               /\ Newest(posts) \in [1..m -> Posts]
               /\ \A i \in 1..m : /\ Newest(posts)[i] = posts[Len(posts) + 1 - i]
                                  /\ Len(posts) + 1 - i \in DOMAIN posts
  <1>1. Len(posts) \in Nat /\ Window \in Nat /\ DOMAIN posts = 1..Len(posts)
    BY StatsAssumption
  <1>2. \A i \in DOMAIN posts : posts[i] \in Posts
    OBVIOUS
  <1> QED
    BY <1>1, <1>2 DEF Newest

\* What is counted, and the order the loop comes to it in.
LEMMA CountedPosts ==
    ASSUME NEW posts \in Seq(Posts)
    PROVE  LET newest == Newest(posts)
               shown == Counted(newest)
               n == Cardinality(shown)
           IN  /\ shown \in SUBSET (DOMAIN newest) /\ IsFiniteSet(shown)
               /\ n \in Nat /\ n <= Len(posts) /\ n <= Window
               /\ \A i \in shown : newest[i] \in Posts /\ newest[i].views # 0
               /\ \E order \in Bijection(1..n, shown) :
                     /\ Passing(newest, shown) = [k \in 1..n |-> newest[order[k]]]
                     /\ \A k, l \in 1..n : k <= l => order[k] <= order[l]
  <1> DEFINE m == IF Len(posts) < Window THEN Len(posts) ELSE Window
             newest == Newest(posts)
             shown == Counted(newest)
             n == Cardinality(shown)
  <1>1. /\ m \in Nat /\ m <= Len(posts) /\ m <= Window
        /\ newest \in [1..m -> Posts]
    BY NewestPosts
  <1>2. Len(posts) \in Nat /\ Window \in Nat
    BY StatsAssumption
  <1> HIDE DEF m, newest
  <1>3. DOMAIN newest = 1..m
    BY <1>1
  <1>4. shown \subseteq 1..m
    BY <1>3 DEF Counted
  <1>5. IsFiniteSet(1..m) /\ Cardinality(1..m) = m
    BY <1>1, FS_Interval
  <1>6. IsFiniteSet(shown) /\ n <= m
    BY <1>4, <1>5, FS_Subset
  <1>7. n \in Nat
    BY <1>6, FS_CardinalityType
  <1>8. \A i \in shown : newest[i] \in Posts /\ newest[i].views # 0
    BY <1>1, <1>4 DEF Counted
  <1> HIDE DEF shown
  <1>9. \E order \in Bijection(1..n, shown) :
           /\ Passing(newest, shown) = [k \in 1..n |-> newest[order[k]]]
           /\ \A k, l \in 1..n : k <= l => order[k] <= order[l]
    <2>1. shown \in SUBSET Nat
      BY <1>4
    <2> QED
      BY <1>6, <2>1, PassingPlaces
  <1>10. n <= Len(posts) /\ n <= Window
    BY <1>1, <1>2, <1>6, <1>7
  <1> QED
    BY <1>3, <1>4, <1>6, <1>7, <1>8, <1>9, <1>10 DEF shown, newest

\* The figures of posts in time.
LEMMA StatsOfPosts ==
    ASSUME NEW posts \in Seq(Posts), NEW now \in Nat, InTime(posts, now)
    PROVE  LET stats == PostsStats(posts)
               newest == Newest(posts)
               shown == Counted(newest)
           IN  /\ stats \in Figure
               /\ stats.count = Cardinality(shown)
               /\ stats.medianViews = Median([i \in shown |-> newest[i].views])
               /\ stats.medianForwards = Median([i \in shown |-> newest[i].forwards])
               /\ stats.avgViews = Mean([i \in shown |-> newest[i].views])
               /\ stats.avgForwards = Mean([i \in shown |-> newest[i].forwards])
               /\ \A i \in shown : newest[i].date \in stats.from..stats.to
               /\ stats # NoPosts =>
                     /\ stats.from <= stats.to /\ stats.count <= Window
                     /\ stats.avgViews > 0 /\ stats.medianViews > 0
                     /\ stats.count <= Len(posts)
                     /\ \E i \in DOMAIN posts : stats.from = posts[i].date
  <1> DEFINE newest == Newest(posts)
             shown == Counted(newest)
             n == Cardinality(shown)
             viewed == [i \in shown |-> newest[i].views]
             forwarded == [i \in shown |-> newest[i].forwards]
             counted == Passing(newest, shown)
             views == [i \in DOMAIN counted |-> counted[i].views]
             forwards == [i \in DOMAIN counted |-> counted[i].forwards]
             stats == PostsStats(posts)
  <1>1. /\ shown \in SUBSET (DOMAIN newest) /\ IsFiniteSet(shown)
        /\ n \in Nat /\ n <= Len(posts) /\ n <= Window
        /\ \A i \in shown : newest[i] \in Posts /\ newest[i].views # 0
    BY CountedPosts
  <1>2. PICK order \in Bijection(1..n, shown) :
           /\ counted = [k \in 1..n |-> newest[order[k]]]
           /\ \A k, l \in 1..n : k <= l => order[k] <= order[l]
    BY CountedPosts
  <1>3. order \in [1..n -> shown]
    BY DEF Bijection, Injection
  <1>4. /\ \A i \in DOMAIN newest : /\ i \in Nat /\ newest[i] = posts[Len(posts) + 1 - i]
                                    /\ Len(posts) + 1 - i \in DOMAIN posts
        /\ Len(posts) \in Nat
    <2> DEFINE m == IF Len(posts) < Window THEN Len(posts) ELSE Window
    <2>1. m \in Nat /\ newest \in [1..m -> Posts]
          /\ \A i \in 1..m : newest[i] = posts[Len(posts) + 1 - i] /\ Len(posts) + 1 - i \in DOMAIN posts
      BY NewestPosts
    <2> HIDE DEF m, newest
    <2>2. DOMAIN newest = 1..m
      BY <2>1
    <2> QED
      BY <2>1, <2>2
  <1>5. stats = IF Len(counted) = 0 THEN NoPosts
                ELSE [from |-> counted[Len(counted)].date, to |-> counted[1].date, count |-> Len(counted),
                      avgViews |-> Average(views), medianViews |-> CalculateMedian(views),
                      avgForwards |-> Average(forwards), medianForwards |-> CalculateMedian(forwards)]
    BY DEF PostsStats
  <1> HIDE DEF newest, shown, n, counted, stats
  <1>6. DOMAIN counted = 1..n /\ Len(counted) = n
    BY <1>1, <1>2
  <1>7. \A k \in 1..n : counted[k] = newest[order[k]] /\ order[k] \in shown
    BY <1>2, <1>3
  <1>8. /\ views \in [1..n -> Nat] /\ \A k \in 1..n : views[k] # 0
        /\ forwards \in [1..n -> Nat]
    BY <1>1, <1>6, <1>7 DEF Posts
  <1>9. viewed \in [shown -> Nat] /\ forwarded \in [shown -> Nat]
    BY <1>1 DEF Posts
  <1>10. \A k \in 1..n : views[k] = viewed[order[k]] /\ forwards[k] = forwarded[order[k]]
    BY <1>6, <1>7
  <1> HIDE DEF views, forwards, viewed, forwarded
  <1>11. /\ CalculateMedian(views) = Median(viewed)
         /\ CalculateMedian(forwards) = Median(forwarded)
         /\ Average(views) = Mean(viewed)
         /\ Average(forwards) = Mean(forwarded)
    <2>1. n \in Nat /\ IsFiniteSet(shown) /\ order \in Bijection(1..n, shown)
      BY <1>1
    <2>2. \A values \in [1..n -> Nat], table \in [shown -> Nat] :
              (\A k \in 1..n : values[k] = table[order[k]]) => CalculateMedian(values) = Median(table)
      BY <2>1, MedianIsMedian
    <2>a. \A values \in [1..n -> Nat], table \in [shown -> Nat] :
              (\A k \in 1..n : values[k] = table[order[k]]) => Average(values) = Mean(table)
      BY <2>1, AverageIsMean
    <2>3. /\ \A k \in 1..n : views[k] = viewed[order[k]]
          /\ \A k \in 1..n : forwards[k] = forwarded[order[k]]
      BY <1>10
    <2> QED
      BY <1>8, <1>9, <2>2, <2>a, <2>3
  <1>12. CASE n = 0
    <2>1. stats = NoPosts
      BY <1>5, <1>6, <1>12
    <2>2. Len(views) = 0 /\ Len(forwards) = 0
      BY <1>8, <1>12
    <2>3. /\ CalculateMedian(views) = 0 /\ CalculateMedian(forwards) = 0
          /\ Average(views) = 0 /\ Average(forwards) = 0
      BY <2>2 DEF CalculateMedian, Average
    <2>4. /\ stats \in Figure /\ stats.count = 0
          /\ stats.medianViews = 0 /\ stats.medianForwards = 0
          /\ stats.avgViews = 0 /\ stats.avgForwards = 0
      BY <2>1 DEF NoPosts, Figure
    <2>5. shown = {}
      BY <1>1, <1>12, FS_EmptySet DEF n
    <2> QED
      BY <1>11, <1>12, <2>1, <2>3, <2>4, <2>5 DEF n, shown, newest, stats, viewed, forwarded
  <1>13. CASE n # 0
    <2>1. stats = [from |-> counted[n].date, to |-> counted[1].date, count |-> n,
                   avgViews |-> Average(views), medianViews |-> CalculateMedian(views),
                   avgForwards |-> Average(forwards), medianForwards |-> CalculateMedian(forwards)]
      BY <1>5, <1>6, <1>13
    <2>2. /\ CalculateMedian(views) \in Nat /\ CalculateMedian(views) # 0
          /\ CalculateMedian(forwards) \in Nat
      BY <1>1, <1>8, <1>13, MedianIsNat
    <2>3. /\ Average(views) \in Nat /\ Average(views) # 0
          /\ Average(forwards) \in Nat
      BY <1>1, <1>8, <1>13, AverageIsNat
    <2>4. 1 \in 1..n /\ n \in 1..n /\ 1 <= n
      BY <1>1, <1>13
    <2>5. order[1] \in DOMAIN newest /\ order[n] \in DOMAIN newest /\ order[1] <= order[n]
      BY <1>1, <1>2, <1>7, <2>4
    <2> DEFINE i == Len(posts) + 1 - order[n]
               j == Len(posts) + 1 - order[1]
    <2>6. i \in DOMAIN posts /\ j \in DOMAIN posts /\ i <= j
      BY <1>4, <2>5
    <2>7. counted[n] = posts[i] /\ counted[1] = posts[j]
      BY <1>4, <1>7, <2>4, <2>5
    <2>8. posts[i] \in Posts /\ posts[j] \in Posts
      BY <2>6
    <2> HIDE DEF i, j
    <2>9. counted[n].date <= counted[1].date /\ counted[n].date \in Nat /\ counted[1].date \in Nat
      BY <2>6, <2>7, <2>8 DEF InTime, Posts
    <2>10. /\ stats.from = counted[n].date /\ stats.to = counted[1].date /\ stats.count = n
           /\ stats.avgViews = Average(views) /\ stats.medianViews = CalculateMedian(views)
           /\ stats.medianForwards = CalculateMedian(forwards) /\ stats.avgForwards = Average(forwards)
      BY <2>1
    <2>a. ASSUME NEW x \in shown PROVE newest[x].date \in stats.from..stats.to
      <3>1. PICK k \in 1..n : order[k] = x
        BY DEF Bijection, Surjection
      <3>2. /\ order[1] <= order[k] /\ order[k] <= order[n]
            /\ order[1] \in DOMAIN newest /\ order[k] \in DOMAIN newest /\ order[n] \in DOMAIN newest
        BY <1>1, <1>2, <1>7, <2>4
      <3> DEFINE l == Len(posts) + 1 - order[k]
      <3>3. l \in DOMAIN posts /\ i <= l /\ l <= j /\ newest[order[k]] = posts[l]
        BY <1>4, <3>2 DEF i, j
      <3> HIDE DEF l
      <3>4. posts[i].date <= posts[l].date /\ posts[l].date <= posts[j].date
        BY <2>6, <3>3 DEF InTime
      <3>5. posts[l].date \in Nat
        <4>1. posts[l] \in Posts
          BY <3>3
        <4> QED
          BY <4>1 DEF Posts
      <3> QED
        BY <2>7, <2>9, <2>10, <3>1, <3>3, <3>4, <3>5
    <2>11. stats \in Figure
      BY <1>1, <2>1, <2>2, <2>3, <2>9 DEF Figure
    <2>12. /\ stats.from <= stats.to /\ stats.avgViews > 0 /\ stats.medianViews > 0
           /\ stats.from = posts[i].date
      BY <2>2, <2>3, <2>7, <2>9, <2>10
    <2> QED
      BY <1>1, <1>11, <2>6, <2>10, <2>11, <2>12, <2>a DEF n, shown, newest, stats, viewed, forwarded
  <1> QED
    BY <1>12, <1>13

\* The languages of any columns.
LEMMA LanguagesOf ==
    ASSUME NEW columns \in Seq([wellFormed : BOOLEAN, total : Nat])
    PROVE  LET languages == ParseLanguages(columns)
               shares == Total([i \in DOMAIN languages |-> languages[i].ratio])
           IN  /\ languages \in Seq([total : Nat, ratio : Nat])
               /\ languages # <<>> => shares <= Whole /\ shares + Len(languages) > Whole
  <1> DEFINE places == {i \in 2..Len(columns) : columns[i].wellFormed}
             kept == Passing(columns, places)
             n == Cardinality(places)
             totals == [i \in DOMAIN kept |-> kept[i].total]
             languages == ParseLanguages(columns)
             ratios == [i \in DOMAIN languages |-> languages[i].ratio]
  <1>1. Len(columns) \in Nat /\ Whole \in Nat
    BY StatsAssumption
  <1>2. places \subseteq 1..Len(columns)
    OBVIOUS
  <1>3. places \in SUBSET Nat /\ IsFiniteSet(places)
    <2>1. IsFiniteSet(1..Len(columns))
      BY <1>1, FS_Interval
    <2> QED
      BY <1>2, <2>1, FS_Subset
  <1>4. \A i \in places : columns[i].total \in Nat
    <2> DEFINE Column == [wellFormed : BOOLEAN, total : Nat]
    <2>1. columns \in Seq(Column)
      OBVIOUS
    <2>2. \A c \in Column : c.total \in Nat
      OBVIOUS
    <2> HIDE DEF Column
    <2>3. \A i \in 1..Len(columns) : columns[i] \in Column
      BY <2>1
    <2> QED
      BY <1>2, <2>2, <2>3
  <1>5. languages = IF Total(totals) = 0 THEN <<>>
                    ELSE [i \in DOMAIN kept |->
                             [total |-> totals[i], ratio |-> (totals[i] * Whole) \div Total(totals)]]
    BY DEF ParseLanguages
  <1> HIDE DEF places, languages
  <1>6. /\ n \in Nat
        /\ \E order \in Bijection(1..n, places) : kept = [k \in 1..n |-> columns[order[k]]]
    BY <1>3, PassingPlaces
  <1>7. PICK order \in Bijection(1..n, places) : kept = [k \in 1..n |-> columns[order[k]]]
    BY <1>6
  <1>8. order \in [1..n -> places]
    BY DEF Bijection, Injection
  <1> HIDE DEF kept, n
  <1>9. DOMAIN kept = 1..n /\ totals \in [1..n -> Nat]
    BY <1>4, <1>7, <1>8
  <1>10. Total(totals) \in Nat
    <2>1. IsFiniteSet(1..n)
      BY <1>6, FS_Interval
    <2> QED
      BY <1>9, <2>1, TotalIsNat
  <1> HIDE DEF totals
  <1>11. CASE Total(totals) = 0
    BY <1>5, <1>11 DEF languages
  <1>12. CASE Total(totals) # 0
    <2>1. languages = [i \in 1..n |->
                          [total |-> totals[i], ratio |-> (totals[i] * Whole) \div Total(totals)]]
      BY <1>5, <1>9, <1>12
    <2>2. \A a \in Nat : (a * Whole) \div Total(totals) \in Nat
      <3>1. \A a, b \in Nat : a * b \in Nat
        OBVIOUS
      <3>2. \A a \in Nat : a \div Total(totals) \in Nat
        BY <1>10, <1>12
      <3> QED
        BY <1>1, <3>1, <3>2
    <2>3. \A i \in 1..n : totals[i] \in Nat
      BY <1>9
    <2>4. languages \in Seq([total : Nat, ratio : Nat]) /\ Len(languages) = n /\ DOMAIN languages = 1..n
      <3> DEFINE Share == [total : Nat, ratio : Nat]
      <3>1. languages \in [1..n -> Share]
        BY <2>1, <2>2, <2>3
      <3> HIDE DEF Share
      <3>2. languages \in Seq(Share) /\ Len(languages) = n /\ DOMAIN languages = 1..n
        BY <1>6, <3>1
      <3> QED
        BY <3>2 DEF Share
    <2>5. /\ ratios \in [1..n -> Nat]
          /\ \A i \in 1..n : ratios[i] = (totals[i] * Whole) \div Total(totals)
      BY <2>1, <2>2, <2>3
    <2> HIDE DEF ratios
    <2>6. Total(ratios) <= Whole /\ Total(ratios) + n > Whole
      BY <1>1, <1>6, <1>9, <1>12, <2>5, SharesOfWhole
    <2> QED
      BY <2>4, <2>6 DEF languages, ratios
  <1> QED
    BY <1>11, <1>12

\* A list of posts that came of another one, of which some are gone and at most
\* one is new and younger than all.
CameOf(new, posts, then, now) ==
    /\ new \in Seq(Posts) /\ InTime(new, now) /\ now \in Nat /\ then <= now
    /\ Len(new) <= Len(posts) + 1
    /\ \A i \in DOMAIN new : \/ then <= new[i].date
                             \/ \E j \in DOMAIN posts : new[i].date = posts[j].date

LEMMA PublishedPosts ==
    ASSUME NEW posts \in Seq(Posts), NEW now \in Nat, InTime(posts, now), NEW service \in BOOLEAN
    PROVE  CameOf(Append(posts, Post(now + 1, service, 0, 0)), posts, now, now + 1)
  <1> DEFINE p == Post(now + 1, service, 0, 0)
             new == Append(posts, p)
             n == Len(posts)
  <1>1. p \in Posts /\ p.date = now + 1
    BY DEF Post, Posts
  <1>2. n \in Nat /\ DOMAIN posts = 1..n
    OBVIOUS
  <1> HIDE DEF p
  <1>3. new \in Seq(Posts) /\ Len(new) = n + 1 /\ DOMAIN new = 1..(n + 1)
    BY <1>1
  <1>4. /\ \A i \in 1..n : new[i] = posts[i]
        /\ new[n + 1] = p
    OBVIOUS
  <1>5. \A i \in 1..n : posts[i].date \in Nat /\ posts[i].date <= now
    <2>1. \A i \in 1..n : posts[i] \in Posts
      BY <1>2
    <2> QED
      BY <1>2, <2>1 DEF InTime, Posts
  <1> HIDE DEF new, n
  <1>6. \A i \in DOMAIN new : \/ i \in DOMAIN posts /\ new[i].date = posts[i].date
                              \/ i = n + 1 /\ new[i].date = now + 1
    BY <1>1, <1>2, <1>3, <1>4
  <1>7. InTime(new, now + 1)
    <2> SUFFICES ASSUME NEW i \in DOMAIN new, NEW j \in DOMAIN new, i <= j
                 PROVE  new[i].date <= new[j].date /\ new[j].date <= now + 1
      BY DEF InTime
    <2>1. CASE j = n + 1
      BY <1>2, <1>3, <1>5, <1>6, <2>1
    <2>2. CASE j # n + 1
      <3>1. i \in DOMAIN posts /\ j \in DOMAIN posts
        BY <1>2, <1>3, <2>2
      <3>2. posts[i].date <= posts[j].date
        BY <3>1 DEF InTime
      <3> QED
        BY <1>2, <1>4, <1>5, <3>1, <3>2
    <2> QED
      BY <2>1, <2>2
  <1>8. now + 1 \in Nat /\ now <= now + 1
    OBVIOUS
  <1>9. CameOf(new, posts, now, now + 1)
    BY <1>3, <1>6, <1>7, <1>8 DEF CameOf, n
  <1> QED
    BY <1>9 DEF new, p

LEMMA DeletedPosts ==
    ASSUME NEW posts \in Seq(Posts), NEW now \in Nat, InTime(posts, now), NEW k \in DOMAIN posts
    PROVE  CameOf(SubSeq(posts, 1, k - 1) \o SubSeq(posts, k + 1, Len(posts)), posts, now, now)
  <1> DEFINE n == Len(posts)
             new == SubSeq(posts, 1, k - 1) \o SubSeq(posts, k + 1, n)
  <1>1. n \in Nat /\ DOMAIN posts = 1..n /\ k \in 1..n
    OBVIOUS
  <1>2. /\ SubSeq(posts, 1, k - 1) \in Seq(Posts) /\ Len(SubSeq(posts, 1, k - 1)) = k - 1
        /\ \A i \in 1..(k - 1) : SubSeq(posts, 1, k - 1)[i] = posts[i]
    BY <1>1
  <1>3. /\ SubSeq(posts, k + 1, n) \in Seq(Posts) /\ Len(SubSeq(posts, k + 1, n)) = n - k
        /\ \A i \in 1..(n - k) : SubSeq(posts, k + 1, n)[i] = posts[k + i]
    BY <1>1
  <1>4. /\ new \in Seq(Posts) /\ Len(new) = n - 1 /\ DOMAIN new = 1..(n - 1)
        /\ \A i \in 1..(n - 1) : new[i] = posts[IF i < k THEN i ELSE i + 1]
    <2> DEFINE front == SubSeq(posts, 1, k - 1)
               back == SubSeq(posts, k + 1, n)
    <2>1. /\ front \in Seq(Posts) /\ back \in Seq(Posts)
          /\ Len(front) = k - 1 /\ Len(back) = n - k /\ new = front \o back
      BY <1>2, <1>3
    <2> HIDE DEF front, back, new
    <2>2. new \in Seq(Posts) /\ Len(new) = (k - 1) + (n - k)
      <3>1. front \o back \in Seq(Posts) /\ Len(front \o back) = Len(front) + Len(back)
        BY <2>1, ConcatProperties
      <3> QED
        BY <2>1, <3>1
    <2>3. Len(new) = n - 1 /\ DOMAIN new = 1..(n - 1)
      BY <1>1, <2>2
    <2>4. \A i \in 1..(n - 1) : new[i] = IF i < k THEN front[i] ELSE back[i - (k - 1)]
      <3>1. \A i \in 1..(Len(front) + Len(back)) :
                new[i] = IF i <= Len(front) THEN front[i] ELSE back[i - Len(front)]
        BY <2>1, ConcatProperties
      <3>2. Len(front) + Len(back) = n - 1
        BY <1>1, <2>1
      <3>3. \A i \in 1..(n - 1) : i <= Len(front) <=> i < k
        BY <1>1, <2>1
      <3> QED
        BY <2>1, <3>1, <3>2, <3>3
    <2>5. \A i \in 1..(n - 1) : IF i < k THEN i \in 1..(k - 1)
                               ELSE i - (k - 1) \in 1..(n - k) /\ k + (i - (k - 1)) = i + 1
      BY <1>1
    <2> QED
      BY <1>2, <1>3, <2>2, <2>3, <2>4, <2>5 DEF front, back
  <1> HIDE DEF new, n
  <1>5. InTime(new, now)
    <2> SUFFICES ASSUME NEW i \in 1..(n - 1), NEW j \in 1..(n - 1), i <= j
                 PROVE  new[i].date <= new[j].date /\ new[j].date <= now
      BY <1>4 DEF InTime
    <2> DEFINE a == IF i < k THEN i ELSE i + 1
               b == IF j < k THEN j ELSE j + 1
    <2>1. a \in DOMAIN posts /\ b \in DOMAIN posts /\ a <= b
      BY <1>1
    <2>2. new[i] = posts[a] /\ new[j] = posts[b]
      BY <1>4
    <2> HIDE DEF a, b
    <2> QED
      BY <2>1, <2>2 DEF InTime
  <1>6. \A i \in DOMAIN new : \E j \in DOMAIN posts : new[i].date = posts[j].date
    <2> TAKE i \in DOMAIN new
    <2>1. (IF i < k THEN i ELSE i + 1) \in DOMAIN posts
      BY <1>1, <1>4
    <2> QED
      BY <1>4, <2>1
  <1>7. Len(new) <= n + 1 /\ now <= now
    BY <1>1, <1>4
  <1>8. CameOf(new, posts, now, now)
    BY <1>4, <1>5, <1>6, <1>7 DEF CameOf, n
  <1> QED
    BY <1>8 DEF new, n

LEMMA ViewedPosts ==
    ASSUME NEW posts \in Seq(Posts), NEW now \in Nat, InTime(posts, now), NEW k \in DOMAIN posts
    PROVE  CameOf([posts EXCEPT ![k].views = @ + 1], posts, now, now)
  <1> DEFINE new == [posts EXCEPT ![k].views = @ + 1]
  <1>1. \A i \in DOMAIN posts : posts[i] \in Posts
    OBVIOUS
  <1>2. \A p \in Posts : [p EXCEPT !.views = p.views + 1] \in Posts /\ [p EXCEPT !.views = p.views + 1].date = p.date
    <2> TAKE p \in Posts
    <2>1. p.views \in Nat
      BY DEF Posts
    <2>2. p.views + 1 \in Nat
      BY <2>1
    <2> DEFINE views == p.views + 1
    <2> HIDE DEF views
    <2>3. [p EXCEPT !.views = views] \in Posts /\ [p EXCEPT !.views = views].date = p.date
      BY <2>2 DEF Posts, views
    <2> QED
      BY <2>3 DEF views
  <1>3. DOMAIN new = DOMAIN posts /\ \A i \in DOMAIN posts : new[i] \in Posts /\ new[i].date = posts[i].date
    BY <1>1, <1>2
  <1>4. new \in Seq(Posts) /\ Len(new) = Len(posts)
    <2>1. DOMAIN posts = 1..Len(posts) /\ Len(posts) \in Nat
      OBVIOUS
    <2>2. new \in [1..Len(posts) -> Posts]
      BY <1>3, <2>1
    <2> HIDE DEF new
    <2> QED
      BY <2>1, <2>2
  <1> HIDE DEF new
  <1>5. InTime(new, now)
    BY <1>3 DEF InTime
  <1>6. Len(new) <= Len(posts) + 1 /\ now <= now
    BY <1>4
  <1>7. CameOf(new, posts, now, now)
    BY <1>3, <1>4, <1>5, <1>6 DEF CameOf
  <1> QED
    BY <1>7 DEF new

\* What moves in the channel is in moved, and each move is a change.
Moves ==
    /\ chat' \in Chats
    /\ CameOf(chat'.posts, chat.posts, chat.last, chat'.last)
    /\ req' = req /\ resp' = resp /\ lost' = lost
    /\ moved \subseteq moved' /\ changes' \in {changes, changes + 1}
    /\ chat'.posts = chat.posts \/ ("posts" \in moved' /\ changes' = changes + 1)
    /\ chat'.members = chat.members \/ "members" \in moved'
    /\ chat'.public = chat.public \/ "public" \in moved'
    /\ \A u \in Accounts : chat'.standing[u] = chat.standing[u] \/ u \in moved'

LEMMA SamePosts ==
    ASSUME NEW posts \in Seq(Posts), NEW now \in Nat, InTime(posts, now)
    PROVE  CameOf(posts, posts, now, now)
  <1>1. Len(posts) <= Len(posts) + 1 /\ now <= now
    OBVIOUS
  <1> QED
    BY <1>1 DEF CameOf

LEMMA WhatMoves ==
    ASSUME StatsTypes, PostsInTime, Meanwhile
    PROVE  Moves
  <1> DEFINE now == chat.last
  <1>1. /\ chat.posts \in Seq(Posts) /\ now \in Nat /\ InTime(chat.posts, now)
        /\ chat.standing \in [Accounts -> Standings] /\ chat \in Chats /\ changes \in Nat
    BY DEF StatsTypes, PostsInTime, Chats
  <1>2. CameOf(chat.posts, chat.posts, now, now)
    BY <1>1, SamePosts
  <1>3. ASSUME NEW what, Change(what)
        PROVE  /\ req' = req /\ resp' = resp /\ lost' = lost
               /\ moved \subseteq moved' /\ changes' = changes + 1 /\ what \in moved'
    BY <1>3 DEF Change
  <1>4. ASSUME NEW new, NEW later, CameOf(new, chat.posts, now, later),
               chat' = [chat EXCEPT !.last = later, !.posts = new], Change("posts")
        PROVE  Moves
    <2>1. new \in Seq(Posts) /\ later \in Nat
      BY <1>4 DEF CameOf
    <2>2. /\ chat' \in Chats /\ chat'.posts = new /\ chat'.last = later
          /\ chat'.members = chat.members /\ chat'.public = chat.public
          /\ chat'.standing = chat.standing
      BY <1>1, <1>4, <2>1 DEF Chats
    <2> QED
      BY <1>3, <1>4, <2>2 DEF Moves
  <1>5. ASSUME Publish PROVE Moves
    <2>1. PICK service \in BOOLEAN :
             chat' = [chat EXCEPT !.last = @ + 1,
                                  !.posts = Append(@, Post(chat.last + 1, service, 0, 0))]
      BY <1>5 DEF Publish
    <2> DEFINE new == Append(chat.posts, Post(now + 1, service, 0, 0))
    <2>2. CameOf(new, chat.posts, now, now + 1)
      BY <1>1, PublishedPosts
    <2>3. chat' = [chat EXCEPT !.last = now + 1, !.posts = new] /\ Change("posts")
      BY <1>5, <2>1 DEF Publish
    <2> HIDE DEF new, now
    <2> QED
      BY <1>4, <2>2, <2>3
  <1>6. ASSUME NEW i \in DOMAIN chat.posts, Delete(i) PROVE Moves
    <2> DEFINE new == SubSeq(chat.posts, 1, i - 1) \o SubSeq(chat.posts, i + 1, Len(chat.posts))
    <2>1. CameOf(new, chat.posts, now, now)
      BY <1>1, DeletedPosts
    <2>2. chat' = [chat EXCEPT !.posts = new] /\ Change("posts")
      BY <1>6 DEF Delete
    <2> HIDE DEF new
    <2>3. chat' = [chat EXCEPT !.last = now, !.posts = new]
      BY <1>1, <2>2 DEF Chats
    <2> HIDE DEF now
    <2> QED
      BY <1>4, <2>1, <2>2, <2>3
  <1>7. ASSUME NEW i \in DOMAIN chat.posts, View(i) PROVE Moves
    <2> DEFINE new == [chat.posts EXCEPT ![i].views = @ + 1]
    <2>1. CameOf(new, chat.posts, now, now)
      BY <1>1, ViewedPosts
    <2>2. chat' = [chat EXCEPT !.posts = new] /\ Change("posts")
      BY <1>1, <1>7 DEF View, Chats
    <2> HIDE DEF new
    <2>3. chat' = [chat EXCEPT !.last = now, !.posts = new]
      BY <1>1, <2>2 DEF Chats
    <2> HIDE DEF now
    <2> QED
      BY <1>4, <2>1, <2>2, <2>3
  <1>8. ASSUME JoinOrLeave PROVE Moves
    <2>1. PICK n \in 0..MaxMembers : chat' = [chat EXCEPT !.members = n]
      BY <1>8 DEF JoinOrLeave
    <2>2. /\ chat' \in Chats /\ chat'.posts = chat.posts /\ chat'.last = now
          /\ chat'.public = chat.public /\ chat'.standing = chat.standing
      BY <1>1, <2>1 DEF Chats
    <2>3. Change("members")
      BY <1>8 DEF JoinOrLeave
    <2> HIDE DEF now
    <2> QED
      BY <1>2, <1>3, <2>2, <2>3 DEF Moves, now
  <1>9. ASSUME MakePrivate PROVE Moves
    <2>1. chat' = [chat EXCEPT !.public = FALSE] /\ Change("public")
      BY <1>9 DEF MakePrivate
    <2>2. /\ chat' \in Chats /\ chat'.posts = chat.posts /\ chat'.last = now
          /\ chat'.members = chat.members /\ chat'.standing = chat.standing
      BY <1>1, <2>1 DEF Chats
    <2> HIDE DEF now
    <2> QED
      BY <1>2, <1>3, <2>1, <2>2 DEF Moves, now
  <1>10. ASSUME NEW u \in Accounts, NEW s \in Standings, SetStanding(u, s) PROVE Moves
    <2>1. chat' = [chat EXCEPT !.standing = [chat.standing EXCEPT ![u] = s]] /\ Change(u)
      BY <1>1, <1>10 DEF SetStanding, Chats
    <2> DEFINE standing == [chat.standing EXCEPT ![u] = s]
    <2>2. standing \in [Accounts -> Standings] /\ \A v \in Accounts : v = u \/ standing[v] = chat.standing[v]
      BY <1>1
    <2> HIDE DEF standing
    <2>3. /\ chat' \in Chats /\ chat'.posts = chat.posts /\ chat'.last = now
          /\ chat'.members = chat.members /\ chat'.public = chat.public /\ chat'.standing = standing
      BY <1>1, <2>1, <2>2 DEF Chats, standing
    <2> HIDE DEF now
    <2> QED
      BY <1>2, <1>3, <2>1, <2>2, <2>3 DEF Moves, now
  <1>11. ASSUME Self PROVE Moves
    BY <1>1, <1>2, <1>11 DEF Self, Moves
  <1> QED
    BY <1>5, <1>6, <1>7, <1>8, <1>9, <1>10, <1>11 DEF Meanwhile

LEMMA MovesKeep ==
    ASSUME StatsInv, Moves
    PROVE  StatsInv'
  <1>1. /\ chat.posts \in Seq(Posts) /\ chat.last \in Nat /\ changes \in Nat
        /\ resp.first \in Nat /\ resp.total \in Nat /\ resp.posts.count \in Nat
    BY DEF StatsInv, StatsTypes, Chats, Responses, Figure
  <1>2. changes' \in Nat /\ changes <= changes'
    BY <1>1 DEF Moves
  <1>3. StatsTypes'
    BY <1>2 DEF StatsInv, StatsTypes, Moves
  <1>4. PostsInTime'
    BY DEF PostsInTime, Moves, CameOf
  <1>5. Copied'
    BY DEF StatsInv, Copied, Moves
  <1>6. Admitted'
    BY DEF StatsInv, Admitted, Moves, Accounts
  <1>7. FirstPost'
    <2> SUFFICES ASSUME req.phase \in Accepted \ {"first"} PROVE FirstPost'
      BY DEF FirstPost, Moves
    <2>1. {"posts", "first"} \intersect (moved' \union lost') # {} \/ resp'.total = Len(chat'.posts)
      BY DEF StatsInv, FirstPost, Moves
    <2>2. ASSUME "first" \notin lost'
          PROVE  /\ Len(chat'.posts) <= resp'.total + changes'
                 /\ resp'.first <= chat'.last
                 /\ \A i \in DOMAIN chat'.posts : resp'.first <= chat'.posts[i].date
      <3>1. /\ Len(chat.posts) <= resp.total + changes /\ resp.first <= chat.last
            /\ \A i \in DOMAIN chat.posts : resp.first <= chat.posts[i].date
        BY <2>2 DEF StatsInv, FirstPost, Moves
      <3>2. resp' = resp /\ CameOf(chat'.posts, chat.posts, chat.last, chat'.last)
        BY DEF Moves
      <3>3. Len(chat'.posts) <= resp.total + changes'
        <4>1. Len(chat'.posts) \in Nat /\ Len(chat.posts) \in Nat
          BY <1>1, <3>2 DEF CameOf
        <4>2. CASE chat'.posts = chat.posts
          BY <1>1, <1>2, <3>1, <4>1, <4>2
        <4>3. CASE changes' = changes + 1
          BY <1>1, <3>1, <3>2, <4>1, <4>3 DEF CameOf
        <4> QED
          BY <4>2, <4>3 DEF Moves
      <3>4. chat'.last \in Nat /\ resp.first <= chat'.last
        BY <1>1, <3>1, <3>2 DEF CameOf
      <3>5. ASSUME NEW i \in DOMAIN chat'.posts PROVE resp.first <= chat'.posts[i].date
        <4>1. chat'.posts[i].date \in Nat
          <5>1. chat'.posts \in Seq(Posts)
            BY <3>2 DEF CameOf
          <5>2. chat'.posts[i] \in Posts
            BY <5>1
          <5> QED
            BY <5>2 DEF Posts
        <4>2. CASE chat.last <= chat'.posts[i].date
          BY <1>1, <3>1, <4>1, <4>2
        <4>3. CASE \E j \in DOMAIN chat.posts : chat'.posts[i].date = chat.posts[j].date
          BY <3>1, <4>3
        <4> QED
          BY <3>2, <4>2, <4>3 DEF CameOf
      <3> QED
        BY <3>2, <3>3, <3>4, <3>5
    <2> QED
      BY <2>1, <2>2 DEF FirstPost
  <1>8. RecentPosts'
    BY DEF StatsInv, RecentPosts, Moves
  <1>9. PostsFit'
    BY <1>1, <1>2 DEF StatsInv, PostsFit, Moves
  <1>10. SharesFit'
    BY DEF StatsInv, SharesFit, Moves
  <1>11. StatsKnown'
    BY DEF StatsInv, StatsKnown, Moves
  <1> QED
    BY <1>3, <1>4, <1>5, <1>6, <1>7, <1>8, <1>9, <1>10, <1>11 DEF StatsInv


LEMMA ResolveUsernameKeeps ==
    ASSUME StatsInv, ResolveUsername
    PROVE  StatsInv'
  <1> USE DEF ResolveUsername, Answered, Goto, Refuse, env
  <1>1. StatsTypes'
    BY DEF StatsInv, StatsTypes, Chats, RequestPhases, Full, Responses
  <1>2. PostsInTime'
    BY DEF StatsInv, PostsInTime, StatsTypes, Chats, RequestPhases, Full, Responses
  <1>3. Copied'
    BY DEF StatsInv, Copied, Accepted, StatsTypes, Chats, RequestPhases, Full, Responses
  <1>4. Admitted'
    BY DEF StatsInv, Admitted, Accepted, StatsTypes, Chats, RequestPhases, Full, Responses
  <1>5. FirstPost'
    BY DEF StatsInv, FirstPost, Accepted, StatsTypes, Chats, RequestPhases, Full, Responses
  <1>6. RecentPosts'
    BY DEF StatsInv, RecentPosts, StatsTypes, Chats, RequestPhases, Full, Responses
  <1>7. PostsFit'
    BY DEF StatsInv, PostsFit, StatsTypes, Chats, RequestPhases, Full, Responses
  <1>8. SharesFit'
    BY DEF StatsInv, SharesFit, StatsTypes, Chats, RequestPhases, Full, Responses
  <1>9. StatsKnown'
    BY DEF StatsInv, StatsKnown, StatsTypes, Chats, RequestPhases, Full, Responses
  <1> QED
    BY <1>1, <1>2, <1>3, <1>4, <1>5, <1>6, <1>7, <1>8, <1>9 DEF StatsInv

LEMMA GetFullChannelKeeps ==
    ASSUME StatsInv, GetFullChannel
    PROVE  StatsInv'
  <1> USE DEF GetFullChannel, Answered, Goto, Refuse, env
  <1>1. StatsTypes'
    BY DEF StatsInv, StatsTypes, Chats, RequestPhases, Full, Responses
  <1>2. PostsInTime'
    BY DEF StatsInv, PostsInTime, StatsTypes, Chats, RequestPhases, Full, Responses
  <1>3. Copied'
    BY DEF StatsInv, Copied, Accepted, StatsTypes, Chats, RequestPhases, Full, Responses
  <1>4. Admitted'
    BY DEF StatsInv, Admitted, Accepted, StatsTypes, Chats, RequestPhases, Full, Responses
  <1>5. FirstPost'
    BY DEF StatsInv, FirstPost, Accepted, StatsTypes, Chats, RequestPhases, Full, Responses
  <1>6. RecentPosts'
    BY DEF StatsInv, RecentPosts, StatsTypes, Chats, RequestPhases, Full, Responses
  <1>7. PostsFit'
    BY DEF StatsInv, PostsFit, StatsTypes, Chats, RequestPhases, Full, Responses
  <1>8. SharesFit'
    BY DEF StatsInv, SharesFit, StatsTypes, Chats, RequestPhases, Full, Responses
  <1>9. StatsKnown'
    BY DEF StatsInv, StatsKnown, StatsTypes, Chats, RequestPhases, Full, Responses
  <1> QED
    BY <1>1, <1>2, <1>3, <1>4, <1>5, <1>6, <1>7, <1>8, <1>9 DEF StatsInv

LEMMA ValidateChannelKeeps ==
    ASSUME StatsInv, ValidateChannel
    PROVE  StatsInv'
  <1> USE DEF ValidateChannel, Answered, Goto, Refuse, env
  <1>1. StatsTypes'
    BY DEF StatsInv, StatsTypes, Chats, RequestPhases, Full, Responses
  <1>2. PostsInTime'
    BY DEF StatsInv, PostsInTime, StatsTypes, Chats, RequestPhases, Full, Responses
  <1>3. Copied'
    BY DEF StatsInv, Copied, Accepted, StatsTypes, Chats, RequestPhases, Full, Responses
  <1>4. Admitted'
    <2>1. req \in [phase : RequestPhases, full : Full] /\ resp \in Responses
      BY DEF StatsInv, StatsTypes
    <2>2. CASE AccessIsGranted /\ Required(req.full)
      <3>1. /\ req'.full = req.full /\ resp'.subscribers = req.full.members
            /\ chat' = chat /\ moved' = moved
        BY <2>1, <2>2 DEF Responses
      <3>2. /\ chat.standing[requester] # "none" /\ chat.standing[textBot] = "all"
            /\ "self" \in lost' \/ chat.standing[userBot] = "all"
        BY <2>2 DEF AccessIsGranted
      <3>3. Required(req'.full)
        BY <2>2, <3>1
      <3> QED
        BY <3>1, <3>2, <3>3 DEF Admitted
    <2>3. CASE ~(AccessIsGranted /\ Required(req.full))
      <3>1. req'.phase = "refused"
        BY <2>1, <2>3
      <3> QED
        BY <3>1 DEF Admitted, Accepted
    <2> QED
      BY <2>2, <2>3
  <1>5. FirstPost'
    BY DEF StatsInv, FirstPost, Accepted, StatsTypes, Chats, RequestPhases, Full, Responses
  <1>6. RecentPosts'
    BY DEF StatsInv, RecentPosts, StatsTypes, Chats, RequestPhases, Full, Responses
  <1>7. PostsFit'
    BY DEF StatsInv, PostsFit, StatsTypes, Chats, RequestPhases, Full, Responses
  <1>8. SharesFit'
    BY DEF StatsInv, SharesFit, StatsTypes, Chats, RequestPhases, Full, Responses
  <1>9. StatsKnown'
    BY DEF StatsInv, StatsKnown, StatsTypes, Chats, RequestPhases, Full, Responses
  <1> QED
    BY <1>1, <1>2, <1>3, <1>4, <1>5, <1>6, <1>7, <1>8, <1>9 DEF StatsInv

LEMMA GetFirstPostInfoKeeps ==
    ASSUME StatsInv, GetFirstPostInfo
    PROVE  StatsInv'
  <1> USE DEF GetFirstPostInfo, Answered, Goto, Refuse, env
  <1>1. StatsTypes'
    <2>1. chat.posts \in Seq(Posts) /\ Len(chat.posts) \in Nat
      BY DEF StatsInv, StatsTypes, Chats
    <2>2. chat.posts # <<>> => Head(chat.posts).date \in Nat
      <3> SUFFICES ASSUME chat.posts # <<>> PROVE Head(chat.posts).date \in Nat
        OBVIOUS
      <3>1. Head(chat.posts) \in Posts
        BY <2>1
      <3> QED
        BY <3>1 DEF Posts
    <2> QED
      BY <2>1, <2>2 DEF StatsInv, StatsTypes, Chats, RequestPhases, Full, Responses
  <1>2. PostsInTime'
    BY DEF StatsInv, PostsInTime, StatsTypes, Chats, RequestPhases, Full, Responses
  <1>3. Copied'
    BY DEF StatsInv, Copied, Accepted, StatsTypes, Chats, RequestPhases, Full, Responses
  <1>4. Admitted'
    BY DEF StatsInv, Admitted, Accepted, StatsTypes, Chats, RequestPhases, Full, Responses
  <1>5. FirstPost'
    <2>1. /\ chat.posts \in Seq(Posts) /\ chat.last \in Nat /\ changes \in Nat
          /\ InTime(chat.posts, chat.last) /\ resp \in Responses
      BY DEF StatsInv, StatsTypes, PostsInTime, Chats
    <2>2. resp'.total = Len(chat.posts) /\ resp'.first = IF chat.posts = <<>> THEN 0 ELSE Head(chat.posts).date
      BY <2>1 DEF Responses
    <2>3. chat' = chat /\ changes' = changes
      OBVIOUS
    <2>4. Len(chat.posts) <= resp'.total + changes
      BY <2>1, <2>2
    <2>5. resp'.first <= chat.last /\ \A i \in DOMAIN chat.posts : resp'.first <= chat.posts[i].date
      <3>1. CASE chat.posts = <<>>
        BY <2>1, <2>2, <3>1
      <3>2. CASE chat.posts # <<>>
        <4>1. Head(chat.posts) = chat.posts[1] /\ 1 \in DOMAIN chat.posts /\ \A i \in DOMAIN chat.posts : 1 <= i
          BY <2>1, <3>2
        <4> QED
          BY <2>1, <2>2, <3>2, <4>1 DEF InTime
      <3> QED
        BY <3>1, <3>2
    <2> QED
      BY <2>2, <2>3, <2>4, <2>5 DEF FirstPost
  <1>6. RecentPosts'
    BY DEF StatsInv, RecentPosts, StatsTypes, Chats, RequestPhases, Full, Responses
  <1>7. PostsFit'
    <2>1. resp.posts = NoPosts
      BY DEF StatsInv, RecentPosts
    <2>2. resp'.posts = resp.posts
      BY DEF StatsInv, StatsTypes, Responses
    <2> QED
      BY <2>1, <2>2 DEF PostsFit
  <1>8. SharesFit'
    BY DEF StatsInv, SharesFit, StatsTypes, Chats, RequestPhases, Full, Responses
  <1>9. StatsKnown'
    BY DEF StatsInv, StatsKnown, StatsTypes, Chats, RequestPhases, Full, Responses
  <1> QED
    BY <1>1, <1>2, <1>3, <1>4, <1>5, <1>6, <1>7, <1>8, <1>9 DEF StatsInv

LEMMA GetBoostsInfoKeeps ==
    ASSUME StatsInv, GetBoostsInfo
    PROVE  StatsInv'
  <1> USE DEF GetBoostsInfo, Answered, Goto, Refuse, env
  <1>1. StatsTypes'
    BY DEF StatsInv, StatsTypes, Chats, RequestPhases, Full, Responses
  <1>2. PostsInTime'
    BY DEF StatsInv, PostsInTime, StatsTypes, Chats, RequestPhases, Full, Responses
  <1>3. Copied'
    BY DEF StatsInv, Copied, Accepted, StatsTypes, Chats, RequestPhases, Full, Responses
  <1>4. Admitted'
    BY DEF StatsInv, Admitted, Accepted, StatsTypes, Chats, RequestPhases, Full, Responses
  <1>5. FirstPost'
    BY DEF StatsInv, FirstPost, Accepted, StatsTypes, Chats, RequestPhases, Full, Responses
  <1>6. RecentPosts'
    BY DEF StatsInv, RecentPosts, StatsTypes, Chats, RequestPhases, Full, Responses
  <1>7. PostsFit'
    BY DEF StatsInv, PostsFit, StatsTypes, Chats, RequestPhases, Full, Responses
  <1>8. SharesFit'
    BY DEF StatsInv, SharesFit, StatsTypes, Chats, RequestPhases, Full, Responses
  <1>9. StatsKnown'
    BY DEF StatsInv, StatsKnown, StatsTypes, Chats, RequestPhases, Full, Responses
  <1> QED
    BY <1>1, <1>2, <1>3, <1>4, <1>5, <1>6, <1>7, <1>8, <1>9 DEF StatsInv

LEMMA GetRecentPostsStatsKeeps ==
    ASSUME StatsInv, GetRecentPostsStats
    PROVE  StatsInv'
  <1> USE DEF GetRecentPostsStats, Answered, Goto, Refuse, env
  <1>1. StatsTypes'
    <2>1. chat.posts \in Seq(Posts) /\ chat.last \in Nat /\ InTime(chat.posts, chat.last)
      BY DEF StatsInv, StatsTypes, PostsInTime, Chats
    <2>2. PostsStats(chat.posts) \in Figure
      BY <2>1, StatsOfPosts
    <2> QED
      BY <2>2 DEF StatsInv, StatsTypes, Responses, RequestPhases, Full
  <1>2. PostsInTime'
    BY DEF StatsInv, PostsInTime, StatsTypes, Chats, RequestPhases, Full, Responses
  <1>3. Copied'
    BY DEF StatsInv, Copied, Accepted, StatsTypes, Chats, RequestPhases, Full, Responses
  <1>4. Admitted'
    BY DEF StatsInv, Admitted, Accepted, StatsTypes, Chats, RequestPhases, Full, Responses
  <1>5. FirstPost'
    BY DEF StatsInv, FirstPost, Accepted, StatsTypes, Chats, RequestPhases, Full, Responses
  <1>6. RecentPosts'
    BY DEF StatsInv, RecentPosts, StatsTypes, Chats, RequestPhases, Full, Responses
  <1>7. PostsFit'
    <2> DEFINE stats == PostsStats(chat.posts)
    <2>1. /\ chat.posts \in Seq(Posts) /\ chat.last \in Nat /\ InTime(chat.posts, chat.last)
          /\ changes \in Nat /\ resp \in Responses /\ resp.first \in Nat /\ resp.total \in Nat
      BY DEF StatsInv, StatsTypes, PostsInTime, Chats, Responses
    <2>2. /\ stats \in Figure
          /\ stats # NoPosts =>
                /\ stats.from <= stats.to /\ stats.count <= Window
                /\ stats.avgViews > 0 /\ stats.medianViews > 0
                /\ stats.count <= Len(chat.posts)
                /\ \E i \in DOMAIN chat.posts : stats.from = chat.posts[i].date
      BY <2>1, StatsOfPosts
    <2>3. resp'.posts = stats /\ resp'.first = resp.first /\ resp'.total = resp.total
      BY <2>1 DEF Responses
    <2>4. chat' = chat /\ lost' = lost /\ changes' = changes
      OBVIOUS
    <2>5. "first" \notin lost => /\ Len(chat.posts) <= resp.total + changes
                                 /\ \A i \in DOMAIN chat.posts : resp.first <= chat.posts[i].date
      BY DEF StatsInv, FirstPost, Accepted
    <2>6. stats.count \in Nat /\ Len(chat.posts) \in Nat
      BY <2>1, <2>2 DEF Figure
    <2> HIDE DEF stats
    <2>7. ASSUME stats # NoPosts, "first" \notin lost
          PROVE  resp.first <= stats.from /\ stats.count <= resp.total + changes
      BY <2>1, <2>2, <2>5, <2>6, <2>7
    <2> QED
      BY <2>2, <2>3, <2>4, <2>7 DEF PostsFit
  <1>8. SharesFit'
    BY DEF StatsInv, SharesFit, StatsTypes, Chats, RequestPhases, Full, Responses
  <1>9. StatsKnown'
    BY DEF StatsInv, StatsKnown, StatsTypes, Chats, RequestPhases, Full, Responses
  <1> QED
    BY <1>1, <1>2, <1>3, <1>4, <1>5, <1>6, <1>7, <1>8, <1>9 DEF StatsInv

LEMMA GetBroadcastStatsKeeps ==
    ASSUME StatsInv, GetBroadcastStats
    PROVE  StatsInv'
  <1> USE DEF GetBroadcastStats, Answered, Goto, Refuse, env
  <1>1. StatsTypes'
    <2>1. PICK followers \in {MinMembers - 1, MinMembers}, columns \in {<<>>} \union Columns :
             resp' = [resp EXCEPT
                 !.statsAvailable = TRUE, !.subscribers = followers,
                 !.languages = IF columns = <<>> THEN <<>> ELSE ParseLanguages(columns)]
      OBVIOUS
    <2> DEFINE languages == IF columns = <<>> THEN <<>> ELSE ParseLanguages(columns)
    <2>2. languages \in Seq([total : Nat, ratio : Nat])
      <3>1. CASE columns = <<>>
        BY <3>1
      <3>2. CASE columns # <<>>
        BY <3>2, LanguagesOf, StatsAssumption
      <3> QED
        BY <3>1, <3>2
    <2>3. followers \in Int
      BY StatsAssumption
    <2> DEFINE Languages == Seq([total : Nat, ratio : Nat])
    <2> HIDE DEF languages, Languages
    <2>4. resp \in [subscribers : Int, first : Nat, total : Nat, posts : Figure,
                    languages : Languages, statsAvailable : BOOLEAN]
      BY DEF StatsInv, StatsTypes, Responses, Languages
    <2>5. resp' = [resp EXCEPT !.statsAvailable = TRUE, !.subscribers = followers, !.languages = languages]
      BY <2>1 DEF languages
    <2>6. resp' \in [subscribers : Int, first : Nat, total : Nat, posts : Figure,
                     languages : Languages, statsAvailable : BOOLEAN]
      BY <2>2, <2>3, <2>4, <2>5 DEF Languages
    <2>7. resp' \in Responses
      BY <2>6 DEF Responses, Languages
    <2> QED
      BY <2>7 DEF StatsInv, StatsTypes, RequestPhases
  <1>2. PostsInTime'
    BY DEF StatsInv, PostsInTime, StatsTypes, Chats, RequestPhases, Full, Responses
  <1>3. Copied'
    BY DEF StatsInv, Copied, Accepted, StatsTypes, Chats, RequestPhases, Full, Responses
  <1>4. Admitted'
    BY DEF StatsInv, Admitted, Accepted, StatsTypes, Chats, RequestPhases, Full, Responses
  <1>5. FirstPost'
    BY DEF StatsInv, FirstPost, Accepted, StatsTypes, Chats, RequestPhases, Full, Responses
  <1>6. RecentPosts'
    BY DEF StatsInv, RecentPosts, StatsTypes, Chats, RequestPhases, Full, Responses
  <1>7. PostsFit'
    BY DEF StatsInv, PostsFit, StatsTypes, Chats, RequestPhases, Full, Responses
  <1>8. SharesFit'
    <2>1. PICK followers \in {MinMembers - 1, MinMembers}, columns \in {<<>>} \union Columns :
             resp' = [resp EXCEPT
                 !.statsAvailable = TRUE, !.subscribers = followers,
                 !.languages = IF columns = <<>> THEN <<>> ELSE ParseLanguages(columns)]
      OBVIOUS
    <2> DEFINE languages == IF columns = <<>> THEN <<>> ELSE ParseLanguages(columns)
    <2>2. resp'.languages = languages
      BY <2>1 DEF StatsInv, StatsTypes, Responses
    <2>3. CASE columns = <<>>
      BY <2>2, <2>3 DEF SharesFit
    <2>4. CASE columns # <<>>
      <3>1. columns \in Seq([wellFormed : BOOLEAN, total : Nat]) /\ resp'.languages = ParseLanguages(columns)
        BY <2>2, <2>4, StatsAssumption
      <3> QED
        BY <3>1, LanguagesOf DEF SharesFit
    <2> QED
      BY <2>3, <2>4
  <1>9. StatsKnown'
    BY DEF StatsInv, StatsKnown, StatsTypes, Chats, RequestPhases, Full, Responses
  <1> QED
    BY <1>1, <1>2, <1>3, <1>4, <1>5, <1>6, <1>7, <1>8, <1>9 DEF StatsInv

LEMMA NoBroadcastStatsKeeps ==
    ASSUME StatsInv, NoBroadcastStats
    PROVE  StatsInv'
  <1> USE DEF NoBroadcastStats, Answered, Goto, Refuse, env
  <1>1. StatsTypes'
    BY DEF StatsInv, StatsTypes, Chats, RequestPhases, Full, Responses
  <1>2. PostsInTime'
    BY DEF StatsInv, PostsInTime, StatsTypes, Chats, RequestPhases, Full, Responses
  <1>3. Copied'
    BY DEF StatsInv, Copied, Accepted, StatsTypes, Chats, RequestPhases, Full, Responses
  <1>4. Admitted'
    BY DEF StatsInv, Admitted, Accepted, StatsTypes, Chats, RequestPhases, Full, Responses
  <1>5. FirstPost'
    BY DEF StatsInv, FirstPost, Accepted, StatsTypes, Chats, RequestPhases, Full, Responses
  <1>6. RecentPosts'
    BY DEF StatsInv, RecentPosts, StatsTypes, Chats, RequestPhases, Full, Responses
  <1>7. PostsFit'
    BY DEF StatsInv, PostsFit, StatsTypes, Chats, RequestPhases, Full, Responses
  <1>8. SharesFit'
    BY DEF StatsInv, SharesFit, StatsTypes, Chats, RequestPhases, Full, Responses
  <1>9. StatsKnown'
    BY DEF StatsInv, StatsKnown, StatsTypes, Chats, RequestPhases, Full, Responses
  <1> QED
    BY <1>1, <1>2, <1>3, <1>4, <1>5, <1>6, <1>7, <1>8, <1>9 DEF StatsInv

\* A call that fails: what comes next, and what is lost.
LEMMA CallFailsKeeps ==
    ASSUME StatsInv, CallFails
    PROVE  StatsInv'
  <1> USE DEF env
  <1>0. /\ chat' = chat /\ resp' = resp /\ changes' = changes /\ moved' = moved
        /\ lost' = lost \union {req.phase} /\ req.phase \notin {"done", "refused"}
        /\ req.phase = "stats" => req.full.stats
    BY DEF CallFails
  <1>a. /\ req' = [req EXCEPT !.phase = req'.phase] /\ req' \in [phase : RequestPhases, full : Full]
        /\ req'.full = req.full
        /\ \/ req.phase = "first" /\ req'.phase = "boosts"
           \/ req.phase = "boosts" /\ req'.phase = "recent"
           \/ req.phase = "recent" /\ req'.phase = "stats"
           \/ req.phase = "stats" /\ req'.phase = "done"
           \/ req.phase \in {"resolve", "full", "admins"} /\ req'.phase = "refused"
    <2>1. req \in [phase : RequestPhases, full : Full]
      BY DEF StatsInv, StatsTypes
    <2>2. CASE req.phase \in DOMAIN Later
      <3>1. req' = [req EXCEPT !.phase = Later[req.phase]]
        BY <2>2 DEF CallFails, Goto
      <3>2. \/ req.phase = "first" /\ Later[req.phase] = "boosts"
            \/ req.phase = "boosts" /\ Later[req.phase] = "recent"
            \/ req.phase = "recent" /\ Later[req.phase] = "stats"
            \/ req.phase = "stats" /\ Later[req.phase] = "done"
        BY <2>2 DEF Later
      <3> DEFINE next == Later[req.phase]
      <3> HIDE DEF next
      <3>3. next \in RequestPhases
        BY <3>2 DEF next, RequestPhases
      <3>4. req' = [req EXCEPT !.phase = next]
        BY <3>1 DEF next
      <3>5. req'.phase = next /\ req'.full = req.full /\ req' \in [phase : RequestPhases, full : Full]
        BY <2>1, <3>3, <3>4
      <3> QED
        BY <3>2, <3>4, <3>5 DEF next
    <2>3. CASE req.phase \notin DOMAIN Later
      <3>1. req' = [req EXCEPT !.phase = "refused"]
        BY <2>3 DEF CallFails, Refuse
      <3>2. req.phase \in {"resolve", "full", "admins"}
        BY <1>0, <2>1, <2>3 DEF Later, RequestPhases
      <3> QED
        BY <2>1, <3>1, <3>2 DEF RequestPhases
    <2> QED
      BY <2>2, <2>3
  <1>1. StatsTypes'
    BY <1>0, <1>a DEF StatsInv, StatsTypes
  <1>2. PostsInTime'
    BY <1>0, <1>a DEF StatsInv, PostsInTime
  <1>3. Copied'
    BY <1>0, <1>a DEF StatsInv, Copied, Accepted
  <1>4. Admitted'
    BY <1>0, <1>a DEF StatsInv, Admitted, Accepted
  <1>5. FirstPost'
    BY <1>0, <1>a DEF StatsInv, FirstPost, Accepted
  <1>6. RecentPosts'
    BY <1>0, <1>a DEF StatsInv, RecentPosts
  <1>7. PostsFit'
    BY <1>0, <1>a DEF StatsInv, PostsFit
  <1>8. SharesFit'
    BY <1>0, <1>a DEF StatsInv, SharesFit
  <1>9. StatsKnown'
    BY <1>0, <1>a DEF StatsInv, StatsKnown
  <1> QED
    BY <1>1, <1>2, <1>3, <1>4, <1>5, <1>6, <1>7, <1>8, <1>9 DEF StatsInv

LEMMA ExpireKeeps ==
    ASSUME StatsInv, Expire
    PROVE  StatsInv'
  <1> USE DEF Expire, Answered, Goto, Refuse, env
  <1>1. StatsTypes'
    BY DEF StatsInv, StatsTypes, Chats, RequestPhases, Full, Responses
  <1>2. PostsInTime'
    BY DEF StatsInv, PostsInTime, StatsTypes, Chats, RequestPhases, Full, Responses
  <1>3. Copied'
    BY DEF StatsInv, Copied, Accepted, StatsTypes, Chats, RequestPhases, Full, Responses
  <1>4. Admitted'
    BY DEF StatsInv, Admitted, Accepted, StatsTypes, Chats, RequestPhases, Full, Responses
  <1>5. FirstPost'
    BY DEF StatsInv, FirstPost, Accepted, StatsTypes, Chats, RequestPhases, Full, Responses
  <1>6. RecentPosts'
    BY DEF StatsInv, RecentPosts, StatsTypes, Chats, RequestPhases, Full, Responses
  <1>7. PostsFit'
    BY DEF StatsInv, PostsFit, StatsTypes, Chats, RequestPhases, Full, Responses
  <1>8. SharesFit'
    BY DEF StatsInv, SharesFit, StatsTypes, Chats, RequestPhases, Full, Responses
  <1>9. StatsKnown'
    BY DEF StatsInv, StatsKnown, StatsTypes, Chats, RequestPhases, Full, Responses
  <1> QED
    BY <1>1, <1>2, <1>3, <1>4, <1>5, <1>6, <1>7, <1>8, <1>9 DEF StatsInv

LEMMA StatsStart ==
    ASSUME StatsInit
    PROVE  StatsInv
  <1>1. PICK posts \in Histories : chat.posts = posts
    BY DEF StatsInit
  <1>2. posts \in Seq(Posts) /\ InTime(posts, MaxPosts)
    BY StatsAssumption
  <1>3. /\ chat.last = MaxPosts /\ chat.members \in {MinMembers - 1, MinMembers}
        /\ chat \in [members : {MinMembers - 1, MinMembers}, public : {TRUE},
                     broadcast : BOOLEAN, posts : Histories, last : {MaxPosts},
                     standing : [Accounts -> {"all"}]]
    BY DEF StatsInit
  <1>4. chat \in Chats
    <2>1. /\ {MinMembers - 1, MinMembers} \subseteq Int /\ {TRUE} \subseteq BOOLEAN
          /\ {MaxPosts} \subseteq Nat /\ [Accounts -> {"all"}] \subseteq [Accounts -> Standings]
          /\ Histories \subseteq Seq(Posts)
      BY StatsAssumption DEF Standings
    <2> QED
      BY <1>3, <2>1 DEF Chats
  <1>5. req \in [phase : RequestPhases, full : Full] /\ changes \in Nat
    BY DEF StatsInit, RequestPhases, Full, Nothing
  <1>6. resp \in Responses
    BY DEF StatsInit, EmptyResp, NoPosts, Responses, Figure
  <1>7. StatsTypes
    BY <1>4, <1>5, <1>6 DEF StatsTypes
  <1>8. PostsInTime
    BY <1>1, <1>2, <1>3 DEF PostsInTime
  <1>9. /\ req.phase = "resolve" /\ resp.posts = NoPosts /\ resp.languages = <<>>
        /\ resp.statsAvailable = FALSE /\ lost = {}
    BY DEF StatsInit, EmptyResp
  <1>10. Copied /\ Admitted /\ FirstPost
    BY <1>9 DEF Copied, Admitted, FirstPost, Accepted
  <1>11. RecentPosts /\ PostsFit /\ StatsKnown
    BY <1>9 DEF RecentPosts, PostsFit, StatsKnown
  <1>12. SharesFit
    BY <1>9 DEF SharesFit
  <1> QED
    BY <1>7, <1>8, <1>10, <1>11, <1>12 DEF StatsInv

LEMMA StatsStep ==
    ASSUME StatsInv, [StatsNext]_statsVars
    PROVE  StatsInv'
  <1>1. CASE Call
    BY <1>1, ResolveUsernameKeeps, GetFullChannelKeeps, ValidateChannelKeeps, GetFirstPostInfoKeeps,
       GetBoostsInfoKeeps, GetRecentPostsStatsKeeps, GetBroadcastStatsKeeps, NoBroadcastStatsKeeps
       DEF Call
  <1>2. CASE CallFails
    BY <1>2, CallFailsKeeps
  <1>3. CASE Expire
    BY <1>3, ExpireKeeps
  <1>4. CASE Meanwhile
    BY <1>4, WhatMoves, MovesKeep DEF StatsInv
  <1>5. CASE UNCHANGED statsVars
    BY <1>5 DEF statsVars, env, StatsInv, StatsTypes, PostsInTime, Copied, Admitted, FirstPost,
                RecentPosts, PostsFit, SharesFit, StatsKnown
  <1> QED
    BY <1>1, <1>2, <1>3, <1>4, <1>5 DEF StatsNext

LEMMA StatsHold == StatsSpec => []StatsInv
  <1>1. StatsInit => StatsInv
    BY StatsStart
  <1>2. StatsInv /\ [StatsNext]_statsVars => StatsInv'
    BY StatsStep
  <1> QED
    BY <1>1, <1>2, PTL DEF StatsSpec

\* What an answer says is true when it is given, unless it changed meanwhile or
\* was not answered (GetChannel); any channel, with any posts, any number of
\* changes and of failures.
THEOREM TrueAnswers == StatsSpec => []AnswersAreTrue
  <1>1. StatsInv => AnswersAreTrue
    <2> SUFFICES ASSUME StatsInv, req.phase = "done" PROVE AnswersAreTrue
      BY DEF AnswersAreTrue
    <2> DEFINE newest == Newest(chat.posts)
               shown == Counted(newest)
               views == [i \in shown |-> newest[i].views]
               forwards == [i \in shown |-> newest[i].forwards]
    <2>1. /\ requester \in moved \/ chat.standing[requester] # "none"
          /\ textBot \in moved \/ chat.standing[textBot] = "all"
          /\ userBot \in moved \/ "self" \in lost \/ chat.standing[userBot] = "all"
      BY DEF StatsInv, Admitted, Accepted
    <2>2. /\ "members" \in moved \/ chat.members >= MinMembers
          /\ "public" \in moved \/ chat.public
      BY DEF StatsInv, Admitted, Copied, Accepted, Required
    <2>3. {"posts", "first"} \intersect (moved \union lost) # {} \/ resp.total = Len(chat.posts)
      BY DEF StatsInv, FirstPost, Accepted
    <2>4. {"posts", "recent"} \intersect (moved \union lost) # {} \/
              /\ resp.posts.count = Cardinality(shown)
              /\ resp.posts.medianViews = Median(views)
              /\ resp.posts.medianForwards = Median(forwards)
              /\ resp.posts.avgViews = Mean(views)
              /\ resp.posts.avgForwards = Mean(forwards)
              /\ \A i \in shown : newest[i].date \in resp.posts.from..resp.posts.to
      <3>1. {"posts", "recent"} \intersect (moved \union lost) # {} \/ resp.posts = PostsStats(chat.posts)
        BY DEF StatsInv, RecentPosts
      <3>2. chat.posts \in Seq(Posts) /\ chat.last \in Nat /\ InTime(chat.posts, chat.last)
        BY DEF StatsInv, StatsTypes, PostsInTime, Chats
      <3>3. LET stats == PostsStats(chat.posts)
            IN  /\ stats.count = Cardinality(shown)
                /\ stats.medianViews = Median(views)
                /\ stats.medianForwards = Median(forwards)
                /\ stats.avgViews = Mean(views)
                /\ stats.avgForwards = Mean(forwards)
                /\ \A i \in shown : newest[i].date \in stats.from..stats.to
        BY <3>2, StatsOfPosts
      <3> QED
        BY <3>1, <3>3
    <2>5. resp.statsAvailable <=> req.full.stats /\ "stats" \notin lost
      BY DEF StatsInv, StatsKnown
    <2> QED
      BY <2>1, <2>2, <2>3, <2>4, <2>5 DEF AnswersAreTrue
  <1> QED
    BY <1>1, StatsHold, PTL

\* The parts of an answer fit together although they are of different moments
\* and some may be missing (GetChannel, GetRecentPostsStats, ParseLanguages):
\* any channel, and any graph of languages.
THEOREM FittingAnswers == StatsSpec => []AnswersFitTogether
  <1>1. StatsInv => AnswersFitTogether
    <2> SUFFICES ASSUME StatsInv PROVE AnswersFitTogether
      OBVIOUS
    <2>1. PostsFit /\ SharesFit
      BY DEF StatsInv
    <2>2. req.phase = "done" => resp.subscribers >= MinMembers \/ resp.statsAvailable
      BY DEF StatsInv, Admitted, Accepted, Required
    <2>3. resp.statsAvailable => req.phase = "done" /\ req.full.stats
      BY DEF StatsInv, StatsKnown
    <2> QED
      BY <2>1, <2>2, <2>3 DEF AnswersFitTogether, PostsFit, SharesFit
  <1> QED
    BY <1>1, StatsHold, PTL
=============================================================================
