---------------------------- MODULE ChannelStats ----------------------------
(***************************************************************************)
(* What the statistics bot says of a channel (stats_bot, GetChannel): it   *)
(* asks Telegram six questions one after the other within 60 seconds,      *)
(* while people write in the channel, leave it and change its admins.  The *)
(* first three answers decide whether the channel is accepted, the others  *)
(* give the figures it is shown with, and are done without if they fail.   *)
(*                                                                         *)
(* GetChannel writes nothing but its answer, so one request is enough.     *)
(* Reactions are counted as forwards are, and the graphs that are only     *)
(* stored are left out: the one of the languages is parsed.                *)
(***************************************************************************)
EXTENDS Figures

CONSTANTS
    requester, textBot, userBot,
    MinMembers,  \* config.MinChannelSubscribers
    Window,      \* the posts the figures are about, 100 in the code
    Whole,       \* the parts a share is given in, 10000 in the code
    Histories,   \* the posts a channel may have had before
    Columns,     \* the columns the languages graph may have
    MaxMembers,  \* bound: members of a channel
    MaxPosts,    \* bound: posts of a channel
    MaxChanges,  \* bound: changes of the channel during the request
    MaxFaults    \* bound: calls that fail for other reasons than the deadline

Accounts == {requester, textBot, userBot}
Posts == [date : Nat, service : BOOLEAN, views : Nat, forwards : Nat]

\* Posts are numbered as they come, and dated; none is of the future.
InTime(posts, now) ==
    \A i, j \in DOMAIN posts : i <= j => posts[i].date <= posts[j].date /\ posts[j].date <= now

ASSUME StatsAssumption ==
    /\ {MinMembers, Window, Whole, MaxMembers, MaxPosts, MaxChanges, MaxFaults} \subseteq Nat
    /\ Histories \subseteq Seq(Posts)
    /\ \A posts \in Histories : InTime(posts, MaxPosts)
    /\ Columns \subseteq Seq([wellFormed : BOOLEAN, total : Nat])

\* no admin; admin without one of the rights to post, edit, delete; with them
Standings == {"none", "some", "all"}

VARIABLES
    chat,      \* the channel in Telegram
    selfKnown, \* cfg.UserBot.UserID is set: the client has called Self
    req,       \* how far the request is, and GetFullChannel's answer
    resp,      \* AddChannelResponse
    expired,   \* the 60 seconds are over
    changes, faults,
    moved,     \* history: what has changed since the request began
    lost       \* history: the calls that failed

env == <<chat, selfKnown>>
statsVars == <<env, req, resp, expired, changes, faults, moved, lost>>

Post(date, service, views, forwards) ==
    [date |-> date, service |-> service, views |-> views, forwards |-> forwards]
NoPosts == [from |-> 0, to |-> 0, count |-> 0, avgViews |-> 0, medianViews |-> 0,
            avgForwards |-> 0, medianForwards |-> 0]
Nothing == [members |-> 0, public |-> FALSE, broadcast |-> FALSE, stats |-> FALSE]
EmptyResp == [subscribers |-> 0, first |-> 0, total |-> 0, posts |-> NoPosts,
              languages |-> <<>>, statsAvailable |-> FALSE]

StatsInit ==
    /\ chat \in [members : {MinMembers - 1, MinMembers}, public : {TRUE},
                 broadcast : BOOLEAN, posts : Histories, last : {MaxPosts},
                 standing : [Accounts -> {"all"}]]
    /\ selfKnown \in BOOLEAN
    /\ req = [phase |-> "resolve", full |-> Nothing]
    /\ resp = EmptyResp
    /\ expired = FALSE
    /\ changes = 0 /\ faults = 0
    /\ moved = {} /\ lost = {}
-----------------------------------------------------------------------------
(* The figures *)

\* GetHistory: the newest first, Window at most
Newest(posts) ==
    [i \in 1..(IF Len(posts) < Window THEN Len(posts) ELSE Window) |-> posts[Len(posts) + 1 - i]]

\* Service messages and posts nobody has seen yet do not count.
Counted(posts) == {i \in DOMAIN posts : ~posts[i].service /\ posts[i].views # 0}

OldestFirst(posts) ==
    LET counted == Passing(posts, Counted(posts))
        views == [i \in DOMAIN counted |-> counted[i].views]
        forwards == [i \in DOMAIN counted |-> counted[i].forwards]
        n == Len(counted)
    IN  IF n = 0 THEN NoPosts
        ELSE [from |-> counted[n].date, to |-> counted[1].date, count |-> n,
              avgViews |-> Average(views), medianViews |-> CalculateMedian(views),
              avgForwards |-> Average(forwards), medianForwards |-> CalculateMedian(forwards)]

PostsStats(posts) ==
    LET newest == Newest(posts)
        counted == Passing(newest, Counted(newest))
        views == [i \in DOMAIN counted |-> counted[i].views]
        forwards == [i \in DOMAIN counted |-> counted[i].forwards]
        n == Len(counted)
    IN  IF n = 0 THEN NoPosts
        ELSE [from |-> counted[n].date, to |-> counted[1].date, count |-> n,
              avgViews |-> Average(views), medianViews |-> CalculateMedian(views),
              avgForwards |-> Average(forwards), medianForwards |-> CalculateMedian(forwards)]

\* The first column is the axis, columns that are too short or have no key are
\* passed over.  The shares are in parts of Whole, truncated.
ParseLanguages(columns) ==
    LET languages == Passing(columns, {i \in 2..Len(columns) : columns[i].wellFormed})
        totals == [i \in DOMAIN languages |-> languages[i].total]
    IN  IF Total(totals) = 0 THEN <<>>
        ELSE [i \in DOMAIN languages |->
                 [total |-> totals[i], ratio |-> (totals[i] * Whole) \div Total(totals)]]
-----------------------------------------------------------------------------
(* The six calls *)

Answered(phase) == req.phase = phase /\ ~expired
Refuse == req' = [req EXCEPT !.phase = "refused"]
Goto(phase) == req' = [req EXCEPT !.phase = phase]

ResolveUsername ==
    /\ Answered("resolve")
    /\ IF chat.public THEN Goto("full") ELSE Refuse
    /\ UNCHANGED <<env, resp, expired, changes, faults, moved, lost>>

\* Whether there are statistics for the bot is Telegram's business, if it is admin.
GetFullChannel ==
    /\ Answered("full")
    /\ \E stats \in BOOLEAN :
          /\ stats => chat.standing[userBot] # "none"
          /\ req' = [phase |-> "admins",
                     full |-> [members |-> chat.members, public |-> chat.public,
                               broadcast |-> chat.broadcast, stats |-> stats]]
    /\ UNCHANGED <<env, resp, expired, changes, faults, moved, lost>>

\* validateChannelAccess; before it has logged in the bot does not know who it is.
AccessIsGranted ==
    /\ chat.standing[requester] # "none"
    /\ chat.standing[textBot] = "all"
    /\ selfKnown => chat.standing[userBot] = "all"

\* validateChannelRequirements, on the copy
Required(full) == full.broadcast /\ full.public /\ full.members >= MinMembers

\* GetChannelAdmins, then extractBasicInfo and the requirements
ValidateChannel ==
    /\ Answered("admins")
    /\ IF AccessIsGranted /\ Required(req.full)
         THEN Goto("first") /\ resp' = [resp EXCEPT !.subscribers = req.full.members]
         ELSE Refuse /\ UNCHANGED resp
    /\ lost' = IF selfKnown THEN lost ELSE lost \union {"self"}
    /\ UNCHANGED <<env, expired, changes, faults, moved>>

GetFirstPostInfo ==
    /\ Answered("first")
    /\ Goto("boosts")
    /\ resp' = [resp EXCEPT !.total = Len(chat.posts),
                            !.first = IF chat.posts = <<>> THEN 0 ELSE Head(chat.posts).date]
    /\ UNCHANGED <<env, expired, changes, faults, moved, lost>>

\* Boosts and premium subscribers are stored as they come.
GetBoostsInfo ==
    /\ Answered("boosts")
    /\ Goto("recent")
    /\ UNCHANGED <<env, resp, expired, changes, faults, moved, lost>>

GetRecentPostsStats ==
    /\ Answered("recent")
    /\ Goto("stats")
    /\ resp' = [resp EXCEPT !.posts = PostsStats(chat.posts)]
    /\ UNCHANGED <<env, expired, changes, faults, moved, lost>>

\* The graph may be missing, and the number of followers is not of this moment.
GetBroadcastStats ==
    /\ Answered("stats") /\ req.full.stats /\ chat.standing[userBot] # "none"
    /\ Goto("done")
    /\ \E followers \in {MinMembers - 1, MinMembers}, columns \in {<<>>} \union Columns :
          resp' = [resp EXCEPT
              !.statsAvailable = TRUE, !.subscribers = followers,
              !.languages = IF columns = <<>> THEN <<>> ELSE ParseLanguages(columns)]
    /\ UNCHANGED <<env, expired, changes, faults, moved, lost>>

NoBroadcastStats ==
    /\ req.phase = "stats"
    /\ ~req.full.stats \/ (~expired /\ chat.standing[userBot] = "none")
    /\ Goto("done")
    /\ lost' = IF req.full.stats THEN lost \union {"stats"} ELSE lost
    /\ UNCHANGED <<env, resp, expired, changes, faults, moved>>

Later == [first |-> "boosts", boosts |-> "recent", recent |-> "stats", stats |-> "done"]

\* A call fails: without the first three there is no answer, the others are logged.
CallFails ==
    /\ req.phase \notin {"done", "refused"}
    /\ \/ expired /\ UNCHANGED faults
       \/ faults < MaxFaults /\ faults' = faults + 1
    /\ req.phase = "stats" => req.full.stats
    /\ IF req.phase \in DOMAIN Later THEN Goto(Later[req.phase]) ELSE Refuse
    /\ lost' = lost \union {req.phase}
    /\ UNCHANGED <<env, resp, expired, changes, moved>>

Expire ==
    /\ req.phase \notin {"done", "refused"}
    /\ ~expired /\ expired' = TRUE
    /\ UNCHANGED <<env, req, resp, changes, faults, moved, lost>>

Call ==
    \/ ResolveUsername \/ GetFullChannel \/ ValidateChannel
    \/ GetFirstPostInfo \/ GetBoostsInfo \/ GetRecentPostsStats
    \/ GetBroadcastStats \/ NoBroadcastStats
-----------------------------------------------------------------------------
(* Meanwhile in the channel, and in the client of the bot *)

Change(what) ==
    /\ req.phase \notin {"done", "refused"}
    /\ changes < MaxChanges /\ changes' = changes + 1
    /\ moved' = moved \union {what}
    /\ UNCHANGED <<selfKnown, req, resp, expired, faults, lost>>

Publish ==
    /\ Len(chat.posts) < MaxPosts
    /\ \E service \in BOOLEAN :
          chat' = [chat EXCEPT !.last = @ + 1,
                               !.posts = Append(@, Post(chat.last + 1, service, 0, 0))]
    /\ Change("posts")

Delete(i) ==
    /\ chat' = [chat EXCEPT !.posts = SubSeq(@, 1, i - 1) \o SubSeq(@, i + 1, Len(@))]
    /\ Change("posts")

View(i) ==
    /\ ~chat.posts[i].service
    /\ chat' = [chat EXCEPT !.posts[i].views = @ + 1]
    /\ Change("posts")

JoinOrLeave ==
    /\ \E n \in {chat.members - 1, chat.members + 1} \intersect (0..MaxMembers) :
          chat' = [chat EXCEPT !.members = n]
    /\ Change("members")

MakePrivate ==
    /\ chat.public /\ chat' = [chat EXCEPT !.public = FALSE]
    /\ Change("public")

SetStanding(u, s) ==
    /\ chat.standing[u] # s /\ chat' = [chat EXCEPT !.standing[u] = s]
    /\ Change(u)

Self ==
    /\ ~selfKnown /\ selfKnown' = TRUE
    /\ UNCHANGED <<chat, req, resp, expired, changes, faults, moved, lost>>

Meanwhile ==
    \/ Publish
    \/ \E i \in DOMAIN chat.posts : Delete(i) \/ View(i)
    \/ JoinOrLeave \/ MakePrivate
    \/ \E u \in Accounts, s \in Standings : SetStanding(u, s)
    \/ Self

StatsNext == Call \/ CallFails \/ Expire \/ Meanwhile

StatsSpec == StatsInit /\ [][StatsNext]_statsVars
-----------------------------------------------------------------------------
(* What an answer says still holds when it is given, unless it has changed     *)
(* since the request began: the bots have their rights and the requester is an *)
(* admin, the channel is public and large enough, and the figures are those of *)
(* the posts.  Excepted are the calls that failed, and a bot that did not know *)
(* itself when it compared the admins (telegram_run.go:38).                    *)
AnswersAreTrue ==
    req.phase = "done" =>
        LET newest == Newest(chat.posts)
            shown == Counted(newest)
            views == [i \in shown |-> newest[i].views]
            forwards == [i \in shown |-> newest[i].forwards]
        IN  /\ requester \in moved \/ chat.standing[requester] # "none"
            /\ textBot \in moved \/ chat.standing[textBot] = "all"
            /\ userBot \in moved \/ "self" \in lost \/ chat.standing[userBot] = "all"
            /\ "members" \in moved \/ chat.members >= MinMembers
            /\ "public" \in moved \/ chat.public
            /\ {"posts", "first"} \intersect (moved \union lost) # {} \/ resp.total = Len(chat.posts)
            /\ {"posts", "recent"} \intersect (moved \union lost) # {} \/
                  /\ resp.posts.count = Cardinality(shown)
                  /\ resp.posts.medianViews = Median(views)
                  /\ resp.posts.medianForwards = Median(forwards)
                  /\ resp.posts.avgViews = Mean(views)
                  /\ resp.posts.avgForwards = Mean(forwards)
                  /\ \A i \in shown : newest[i].date \in resp.posts.from..resp.posts.to
            /\ resp.statsAvailable <=> req.full.stats /\ "stats" \notin lost

(* The parts of an answer fit together although they are of different moments  *)
(* and some may be missing: the posts counted are not older than the first     *)
(* one, and no more than there were or came meanwhile; their mean and their    *)
(* median are of posts that were seen; the languages are parts of a whole; and *)
(* a channel below the minimum is shown only with statistics.                  *)
AnswersFitTogether ==
    LET p == resp.posts
        shares == Total([i \in DOMAIN resp.languages |-> resp.languages[i].ratio])
    IN  /\ p # NoPosts =>
              /\ p.from <= p.to /\ p.count <= Window
              /\ p.avgViews > 0 /\ p.medianViews > 0
              /\ "first" \notin lost => resp.first <= p.from /\ p.count <= resp.total + changes
        /\ resp.languages # <<>> => shares <= Whole /\ shares + Len(resp.languages) > Whole
        /\ req.phase = "done" => resp.subscribers >= MinMembers \/ resp.statsAvailable
        /\ resp.statsAvailable => req.phase = "done" /\ req.full.stats
=============================================================================
