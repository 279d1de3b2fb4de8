----------------------------- MODULE PostDraft -----------------------------
(***************************************************************************)
(* The post of a deal: how an advertiser writes it in the chat with the    *)
(* bot, and which post is published in the end                             *)
(* (internal/modules/telegram_bot/main_handlers.go, post_handlers.go,      *)
(* dialog_handlers.go, async.go, storage/dialogs.go).                      *)
(*                                                                         *)
(* Everything is about one user, whose conversation is one row of          *)
(* bot_states.  Every update of Telegram is handled in a goroutine of its  *)
(* own; the handlers read the row, talk to Telegram and write the row back *)
(* from the copy they read.  Only photos and videos exclude each other, by *)
(* the mutex of the user.  An album arrives photo by photo: each restarts  *)
(* a timer of one second, which shows the post when it fires.              *)
(***************************************************************************)
EXTENDS Naturals

CONSTANTS
    Deals,
    Messages,   \* what the user sends, each once
    Texts,      \* the messages without a photo
    AlbumOf,    \* [Messages -> albums or None]
    Captioned,  \* the photos with a caption
    Taps,       \* buttons the user presses and make-deal requests
    MaxFaults,  \* bound: crashes, failed calls to Telegram and the database
    None

ASSUME PostDraftAssumption ==
    /\ None \notin Messages /\ None \notin Deals
    /\ Texts \subseteq Messages /\ Captioned \subseteq Messages \ Texts
    /\ DOMAIN AlbumOf = Messages /\ \A m \in Texts : AlbumOf[m] = None
    /\ MaxFaults \in Nat

VARIABLES
    row,      \* the row of bot_states
    target,   \* the post in the target of a deal
    status,   \* of a deal
    asked,    \* deals in the Post channel
    buttons,  \* the buttons the user has been shown
    task,     \* the goroutines
    stored,   \* albumTimers: album -> the message whose timer it holds
    \* history, read by no action
    meant,    \* the deal a message was taken to be for
    posted,   \* the post that was published
    blank,    \* deals that a make-deal request has loaded without a post
    stale,    \* a preview was saved over a post it did not show
    faults

bot == <<row, buttons, task, stored, meant, stale>>
deals == <<target, status, posted, blank>>
vars == <<bot, deals, asked, faults>>

Albums == {AlbumOf[m] : m \in Messages} \ {None}

\* TgMsgData.  The ids of the preview stand for the post they show.
Post == [images : SUBSET Messages, text : Messages \union {None}]
NoPost == [images |-> {}, text |-> None]
Row == [state : {"IDLE", "POST", "DIALOG"}, deal : Deals \union {None},
        album : Albums \union {None}, post : Post, preview : Post]
NoRow == [state |-> "IDLE", deal |-> None, album |-> None,
          post |-> NoPost, preview |-> NoPost]
NewDraft(d) == [NoRow EXCEPT !.state = "POST", !.deal = d]
NewDialog(d) == [NoRow EXCEPT !.state = "DIALOG", !.deal = d]
\* What a request to make the deal has loaded.
Loaded(d, post) == [NoRow EXCEPT !.deal = d, !.post = post]

\* A message has its handler and, if it is part of an album, its timer.
Message(m) == <<"message", m>>
Timer(m) == <<"timer", m>>
Tap(k) == <<"tap", k>>
Tasks == ({"message", "timer"} \X Messages) \union ({"tap"} \X Taps)
Phases == {"new", "armed", "fired", "forgot", "read", "wrote", "shown",
           "relay", "relayed", "accept", "accepted", "cancel", "make", "done"}
Task == [phase : Phases, copy : Row]
Started == [phase |-> "new", copy |-> NoRow]
Done == [phase |-> "done", copy |-> NoRow]

Statuses == {"DRAFT", "PENDING", "AWAITING_PUBLICATION", "PUBLISHED", "ERR_PUBLISH"}

Init ==
    /\ row = NoRow
    /\ target = [d \in Deals |-> NoPost]
    /\ status = [d \in Deals |-> "DRAFT"]
    /\ asked = {}
    /\ buttons = {}
    /\ task = [k \in Tasks |-> Started]
    /\ stored = [a \in Albums |-> None]
    /\ meant = [m \in Messages |-> None]
    /\ posted = [d \in Deals |-> NoPost]
    /\ blank = {}
    /\ stale = FALSE
    /\ faults = 0

Fault == faults < MaxFaults /\ faults' = faults + 1

GoesOn(k, from, phase, copy) ==
    /\ task[k].phase = from
    /\ task' = [task EXCEPT ![k] = [phase |-> phase, copy |-> copy]]

Ends(k, from) ==
    /\ task[k].phase = from
    /\ task' = [task EXCEPT ![k] = Done]
-----------------------------------------------------------------------------
(* The one goroutine that listens to the server. *)

\* SendDealData: the request waits in the channel.
SendDealData(d) ==
    /\ status[d] = "DRAFT"
    /\ asked' = asked \union {d}
    /\ UNCHANGED <<bot, deals, faults>>

\* handlePost: asks for the post of a deal, whatever the user was doing.
HandlePost(d) ==
    /\ d \in asked
    /\ asked' = asked \ {d}
    /\ \/ row' = NewDraft(d) /\ UNCHANGED faults
       \/ UNCHANGED row /\ Fault
    /\ UNCHANGED <<buttons, task, stored, meant, stale, deals>>

\* handleDialog, with a button to cancel, or handleAnswer without.  The request was
\* made in an earlier status, perhaps.
HandleDialog(d) ==
    /\ status[d] \notin {"DRAFT", "PENDING"}
    /\ row' = NewDialog(d)
    /\ buttons' \in {buttons, buttons \union {"cancel"}}
    /\ UNCHANGED <<task, stored, meant, stale, deals, asked, faults>>
-----------------------------------------------------------------------------
(* Messages. *)

Reads(m) ==
    /\ row.state = "POST"
    /\ GoesOn(Message(m), "new", "read", row)
    /\ meant' = [meant EXCEPT ![m] = row.deal]
    /\ UNCHANGED <<row, buttons, stored, stale, deals, asked, faults>>

OnText(m) == m \in Texts /\ Reads(m)

OnMediaUnlocked(m) == m \notin Texts /\ Reads(m)

\* onMedia holds the mutex of the user to its end.
OnMedia(m) ==
    /\ m \notin Texts
    /\ \A n \in Messages \ Texts :
          task[Message(n)].phase \notin {"read", "wrote", "shown"}
    /\ Reads(m)

WithPhotoMixed(m, old) ==
    LET sameAlbum == AlbumOf[m] # None
    IN  [old EXCEPT !.album = AlbumOf[m],
                    !.post = [images |-> IF sameAlbum THEN @.images \union {m} ELSE {m},
                              text |-> IF m \in Captioned THEN m ELSE @.text]]

\* A photo of the album at hand is added to it.  Another album starts afresh; a
\* photo of no album keeps the text there is.
WithPhoto(m, old) ==
    LET sameAlbum == AlbumOf[m] # None /\ AlbumOf[m] = old.album
        images == IF sameAlbum THEN old.post.images \union {m} ELSE {m}
        text == IF sameAlbum \/ AlbumOf[m] = None THEN old.post.text ELSE None
    IN  [old EXCEPT !.album = AlbumOf[m],
                    !.post = [images |-> images,
                              text |-> IF m \in Captioned THEN m ELSE text]]

WithText(m, old) == [NewDraft(old.deal) EXCEPT !.post = [images |-> {}, text |-> m]]

\* SetState: the upsert ...
WriteDraft(m) ==
    LET old == task[Message(m)].copy
    IN  /\ GoesOn(Message(m), "read", "wrote", NoRow)
        /\ row' = IF m \in Texts THEN WithText(m, old) ELSE WithPhoto(m, old)
        /\ UNCHANGED <<buttons, stored, meant, stale, deals, asked, faults>>

\* showPost, at the end of a message or a timer: the row is read, and what it holds is
\* sent to the user; nothing, if there is no row or no post in it.
Shows(k, from) ==
    /\ \/ row.post = NoPost /\ Ends(k, from) /\ UNCHANGED buttons
       \/ /\ row.post # NoPost
          /\ GoesOn(k, from, "shown", row)
          /\ buttons' = buttons \union {"accept", "cancel"}
    /\ UNCHANGED <<row, stored, meant, stale, deals, asked, faults>>

\* ... and the query after it.  The row may be gone by then, or be another.
ReadBack(m) == (row = NoRow \/ AlbumOf[m] = None) /\ Shows(Message(m), "wrote")

StartTimerStopsItself(m) ==
    /\ AlbumOf[m] # None /\ row # NoRow
    /\ Ends(Message(m), "wrote")
    /\ stored' = [stored EXCEPT ![AlbumOf[m]] = m]
    /\ UNCHANGED <<row, buttons, meant, stale, deals, asked, faults>>

\* A photo of an album stops the timer of the one before and starts its own.
StartTimer(m) ==
    LET album == AlbumOf[m]
        before == stored[album]
        running == before # None /\ task[Timer(before)].phase = "armed"
    IN  /\ album # None /\ row # NoRow
        /\ task[Message(m)].phase = "wrote"
        /\ task' = [k \in Tasks |->
                      CASE k = Message(m) -> Done
                        [] k = Timer(m) -> [phase |-> "armed", copy |-> NoRow]
                        [] running /\ k = Timer(before) -> Done
                        [] OTHER -> task[k]]
        /\ stored' = [stored EXCEPT ![album] = m]
        /\ UNCHANGED <<row, buttons, meant, stale, deals, asked, faults>>
-----------------------------------------------------------------------------
(* The timer of an album. *)

TimerFires(m) ==
    /\ GoesOn(Timer(m), "armed", "fired", NoRow)
    /\ UNCHANGED <<row, buttons, stored, meant, stale, deals, asked, faults>>

\* Whichever timer is stored by now.
TimerForgets(m) ==
    /\ GoesOn(Timer(m), "fired", "forgot", NoRow)
    /\ stored' = [stored EXCEPT ![AlbumOf[m]] = None]
    /\ UNCHANGED <<row, buttons, meant, stale, deals, asked, faults>>

TimerReads(m) == Shows(Timer(m), "forgot")
-----------------------------------------------------------------------------
(* The rest of showPost. *)

SavePreviewForThisDeal(k) ==
    LET copy == task[k].copy
    IN  /\ Ends(k, "shown")
        /\ row' = [copy EXCEPT !.state = "POST", !.preview = copy.post,
                               !.deal = IF row.deal # None THEN row.deal ELSE @]
        /\ stale' = (stale \/ row.post # copy.post)
        /\ UNCHANGED <<buttons, stored, meant, deals, asked, faults>>

\* The ids of the preview are written with the whole copy that was shown.
SavePreview(k) ==
    LET copy == task[k].copy
    IN  /\ Ends(k, "shown")
        /\ row' = [copy EXCEPT !.state = "POST", !.preview = copy.post]
        /\ stale' = (stale \/ row.post # copy.post)
        /\ UNCHANGED <<buttons, stored, meant, deals, asked, faults>>
-----------------------------------------------------------------------------
(* Relaying a text to the other party: handleDialogMessage. *)

OnDialogText(m) ==
    /\ m \in Texts /\ row.state = "DIALOG"
    /\ GoesOn(Message(m), "new", "relay", NoRow)
    /\ UNCHANGED <<row, buttons, stored, meant, stale, deals, asked, faults>>

\* The row is read once more.  If it is gone the handler panics, and is recovered.
Relay(m) ==
    /\ \/ row = NoRow /\ Ends(Message(m), "relay")
       \/ row # NoRow /\ GoesOn(Message(m), "relay", "relayed", NoRow)
    /\ UNCHANGED <<row, buttons, stored, meant, stale, deals, asked, faults>>

ClearAfterRelay(m) ==
    /\ Ends(Message(m), "relayed")
    /\ row' = NoRow
    /\ UNCHANGED <<buttons, stored, meant, stale, deals, asked, faults>>
-----------------------------------------------------------------------------
(* Buttons. *)

\* acceptPost reads the row and sends the post to the user; with nothing to send
\* it ends there.
AcceptPost(k) ==
    /\ "accept" \in buttons
    /\ row.state = "POST" /\ row.post # NoPost
    /\ GoesOn(Tap(k), "new", "accept", row)
    /\ UNCHANGED <<row, buttons, stored, meant, stale, deals, asked, faults>>

\* Whatever the status of the deal.
SaveTarget(k) ==
    LET copy == task[Tap(k)].copy
    IN  /\ GoesOn(Tap(k), "accept", "accepted", NoRow)
        /\ target' = [target EXCEPT ![copy.deal] = copy.post]
        /\ UNCHANGED <<row, buttons, stored, meant, stale, status, posted, blank, asked, faults>>

ClearAfterAccept(k) ==
    /\ Ends(Tap(k), "accepted")
    /\ row' = NoRow
    /\ UNCHANGED <<buttons, stored, meant, stale, deals, asked, faults>>

\* handleCancel; a row that cannot be read counts as no row.
HandleCancel(k) ==
    /\ "cancel" \in buttons
    /\ \/ GoesOn(Tap(k), "new", "cancel", row) /\ UNCHANGED faults
       \/ GoesOn(Tap(k), "new", "cancel", NoRow) /\ Fault
    /\ UNCHANGED <<row, buttons, stored, meant, stale, deals, asked>>

CancelAnyDraft(k) ==
    LET copy == task[Tap(k)].copy
    IN  /\ Ends(Tap(k), "cancel")
        /\ row' = NewDraft(copy.deal)
        /\ UNCHANGED <<buttons, stored, meant, stale, deals, asked, faults>>

\* The user can write another post for the same deal, or the conversation ends.
CancelDraft(k) ==
    LET copy == task[Tap(k)].copy
    IN  /\ Ends(Tap(k), "cancel")
        /\ row' = IF copy.state = "POST" THEN NewDraft(copy.deal) ELSE NoRow
        /\ UNCHANGED <<buttons, stored, meant, stale, deals, asked, faults>>
-----------------------------------------------------------------------------
(* The deal, as far as its post is concerned. *)

\* MakeDeal has loaded the deal.  Its check of the target asks for a map, and the map
\* of a deal without a post is empty, not missing ...
MakeDeal(k, d) ==
    /\ status[d] = "DRAFT"
    /\ GoesOn(Tap(k), "new", "make", Loaded(d, target[d]))
    /\ blank' = IF target[d] = NoPost THEN blank \union {d} ELSE blank
    /\ UNCHANGED <<row, buttons, stored, meant, stale, target, status, posted, asked, faults>>

MakeDealDropsPost(k) ==
    LET copy == task[Tap(k)].copy
    IN  /\ Ends(Tap(k), "make")
        /\ target' = [target EXCEPT ![copy.deal] = NoPost]
        /\ status' = [status EXCEPT ![copy.deal] = "PENDING"]
        /\ UNCHANGED <<row, buttons, stored, meant, stale, posted, blank, asked, faults>>

\* ... and writes back what it loaded, with the time that was asked for.
MakeDealWrites(k) ==
    LET copy == task[Tap(k)].copy
    IN  /\ Ends(Tap(k), "make")
        /\ target' = [target EXCEPT ![copy.deal] = copy.post]
        /\ status' = [status EXCEPT ![copy.deal] = "PENDING"]
        /\ UNCHANGED <<row, buttons, stored, meant, stale, posted, blank, asked, faults>>

\* The manager accepts the deal and proposes a time, the advertiser approves it: three
\* requests, each with its status in Escrow, that touch nothing else here.
Negotiate(d) ==
    /\ status[d] = "PENDING"
    /\ status' = [status EXCEPT ![d] = "AWAITING_PUBLICATION"]
    /\ UNCHANGED <<bot, target, posted, blank, asked, faults>>

\* handleAutoPost posts what the target holds by now ...
HandleAutoPost(d) ==
    /\ status[d] = "AWAITING_PUBLICATION" /\ target[d] # NoPost
    /\ status' = [status EXCEPT ![d] = "PUBLISHED"]
    /\ posted' = [posted EXCEPT ![d] = target[d]]
    /\ UNCHANGED <<bot, target, blank, asked, faults>>

\* ... or finds nothing to post.  (That Telegram refuses a post is left to Escrow.)
AutoPostFails(d) ==
    /\ status[d] = "AWAITING_PUBLICATION" /\ target[d] = NoPost
    /\ status' = [status EXCEPT ![d] = "ERR_PUBLISH"]
    /\ UNCHANGED <<bot, target, posted, blank, asked, faults>>
-----------------------------------------------------------------------------
\* A handler stops at an error: of the database, or of Telegram.
HandlerFails(k) ==
    /\ task[k].phase \notin {"new", "armed", "fired", "done"}
    /\ Fault
    /\ task' = [task EXCEPT ![k] = Done]
    /\ UNCHANGED <<row, buttons, stored, meant, stale, deals, asked>>

\* The process starts again: the row and the deals are all that is left.
Crash ==
    /\ Fault
    /\ task' = [k \in Tasks |-> IF task[k].phase = "new" THEN task[k] ELSE Done]
    /\ stored' = [a \in Albums |-> None]
    /\ asked' = {}
    /\ UNCHANGED <<row, buttons, meant, stale, deals>>

UserStep ==
    \/ \E d \in Deals : SendDealData(d) \/ HandleDialog(d)
    \/ \E m \in Messages : OnText(m) \/ OnMedia(m) \/ OnDialogText(m)
    \/ \E k \in Taps : AcceptPost(k) \/ HandleCancel(k) \/ \E d \in Deals : MakeDeal(k, d)

MessageStep(m) ==
    \/ WriteDraft(m) \/ ReadBack(m) \/ StartTimer(m) \/ Relay(m) \/ ClearAfterRelay(m)
    \/ SavePreview(Message(m))

TimerStep(m) ==
    TimerFires(m) \/ TimerForgets(m) \/ TimerReads(m) \/ SavePreview(Timer(m))

TapStep(k) == SaveTarget(k) \/ ClearAfterAccept(k) \/ CancelDraft(k) \/ MakeDealWrites(k)

DealStep(d) ==
    Negotiate(d) \/ HandleAutoPost(d) \/ AutoPostFails(d)

Next ==
    \/ UserStep
    \/ \E m \in Messages : MessageStep(m) \/ TimerStep(m)
    \/ \E k \in Taps : TapStep(k)
    \/ \E d \in Deals : HandlePost(d) \/ DealStep(d)
    \/ \E k \in Tasks : HandlerFails(k)
    \/ Crash

Spec == Init /\ [][Next]_vars

\* What was started runs to its end, and timers fire.
FairSpec ==
    /\ Spec
    /\ \A m \in Messages : WF_vars(MessageStep(m)) /\ WF_vars(TimerStep(m))
    /\ \A k \in Taps : WF_vars(TapStep(k))
-----------------------------------------------------------------------------
(* Type invariant; a conversation is about a deal. *)
TypeOK ==
    /\ row \in Row /\ (row = NoRow \/ row.deal \in Deals)
    /\ target \in [Deals -> Post]
    /\ status \in [Deals -> Statuses]
    /\ asked \subseteq Deals
    /\ buttons \subseteq {"accept", "cancel"}
    /\ task \in [Tasks -> Task]
    /\ stored \in [Albums -> Messages \union {None}]
    /\ meant \in [Messages -> Deals \union {None}]
    /\ posted \in [Deals -> Post] /\ blank \subseteq Deals
    /\ stale \in BOOLEAN /\ faults \in Nat

Content(p) == p.images \union {m \in {p.text} : m # None}
IsFor(p, d) == \A m \in Content(p) : meant[m] = d

(* A post is made of messages that were sent for its deal, though the row is *)
(* turned to another deal under the hands of handlers that still write what  *)
(* they read.                                                                *)
PostsStayWithDeal ==
    /\ \A d \in Deals : IsFor(target[d], d) /\ IsFor(posted[d], d)
    /\ row.state = "POST" => IsFor(row.post, row.deal)

(* A deal that left DRAFT has a post, so that publishing finds one, whatever *)
(* was cancelled, cleared or accepted again meanwhile; unless a request to   *)
(* make it loaded it when it had none, which may even overwrite a post that  *)
(* was accepted in between.  No deal is published without a post.            *)
PendingHasPost ==
    \A d \in Deals :
        /\ status[d] # "DRAFT" /\ d \notin blank => target[d] # NoPost
        /\ status[d] = "PUBLISHED" => posted[d] # NoPost

\* All photos are of one album, and its text is the caption of one of them.
IsWhole(p) ==
    /\ \A m, n \in p.images : m = n \/ (AlbumOf[m] = AlbumOf[n] /\ AlbumOf[m] # None)
    /\ (\E m \in p.images : AlbumOf[m] # None) => p.text \in p.images \union {None}

(* "New album, start fresh" (main_handlers.go:208): albums are never mixed,  *)
(* and no text of something else gets under an album, in no order of the     *)
(* photos, the timers and the other messages.                                *)
AlbumsAreWhole == \A d \in Deals : IsWhole(target[d])

(* No photo of the album at hand is lost by another photo of it or by a      *)
(* timer, unless a preview was saved over a post it did not show.            *)
PhotosAreKept ==
    [][row.state = "POST" /\ row'.album = row.album /\ row.album # None /\ ~stale'
          => row.post.images \subseteq row'.post.images]_vars

(* A post in the row is shown in the end, or replaced: no timer is stopped   *)
(* without another that shows what it would have shown.                      *)
PreviewHappens == row.post # row.preview ~> row.post = row.preview
=============================================================================
