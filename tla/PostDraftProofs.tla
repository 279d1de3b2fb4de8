-------------------------- MODULE PostDraftProofs --------------------------
(***************************************************************************)
(* Theorems about PostDraft, for any number of deals, messages, albums,    *)
(* buttons pressed and faults.                                             *)
(*                                                                         *)
(* What a step can do is said once, for each piece of state (Shape); the   *)
(* invariants are proved from that.                                        *)
(***************************************************************************)
EXTENDS PostDraft, TLAPS

\* The phases in which a goroutine will still use the post it holds.
Held == {"read", "shown", "accept", "make"}

CopyShape(k) ==
    \/ task'[k] = task[k]
    \/ task'[k].phase \notin Held \union {"new", "cancel"} /\ task'[k].copy = NoRow
    \/ /\ task'[k] = [phase |-> "read", copy |-> row] /\ row.state = "POST"
       /\ \E m \in Messages : k = Message(m) /\ task[k].phase = "new" /\ meant'[m] = row.deal
    \/ task'[k] = [phase |-> "shown", copy |-> row] /\ row.post # NoPost
    \/ /\ task'[k] = [phase |-> "accept", copy |-> row]
       /\ row.state = "POST" /\ row.post # NoPost
    \/ \E r \in {row, NoRow} : task'[k] = [phase |-> "cancel", copy |-> r]
    \/ \E d \in Deals :
          /\ target[d] # NoPost \/ d \in blank'
          /\ task'[k] = [phase |-> "make", copy |-> Loaded(d, target[d])]

RowShape ==
    \/ row' = row
    \/ row' = NoRow
    \/ \E d \in Deals : row' \in {NewDraft(d), NewDialog(d)}
    \/ \E m \in Messages :
          /\ task[Message(m)].phase = "read"
          /\ row' = IF m \in Texts THEN WithText(m, task[Message(m)].copy)
                                   ELSE WithPhoto(m, task[Message(m)].copy)
    \/ \E k \in Tasks :
          /\ task[k].phase = "shown"
          /\ row' = [task[k].copy EXCEPT !.state = "POST", !.preview = task[k].copy.post]
    \/ \E k \in Tasks :
          /\ task[k].phase = "cancel" /\ task[k].copy.state = "POST"
          /\ row' = NewDraft(task[k].copy.deal)

SavesTarget(k) == target' = [target EXCEPT ![task[k].copy.deal] = task[k].copy.post]

DealShape ==
    \/ UNCHANGED <<target, status, posted>>
    \/ \E k \in Tasks :
          task[k].phase = "accept" /\ SavesTarget(k) /\ UNCHANGED <<status, posted>>
    \/ \E k \in Tasks :
          /\ task[k].phase = "make" /\ SavesTarget(k)
          /\ status' = [status EXCEPT ![task[k].copy.deal] = "PENDING"]
          /\ UNCHANGED posted
    \/ \E d \in Deals, s \in Statuses \ {"DRAFT", "PUBLISHED"} :
          /\ status[d] # "DRAFT" /\ status' = [status EXCEPT ![d] = s]
          /\ UNCHANGED <<target, posted>>
    \/ \E d \in Deals :
          /\ status[d] # "DRAFT" /\ status' = [status EXCEPT ![d] = "PUBLISHED"]
          /\ target[d] # NoPost
          /\ posted' = [posted EXCEPT ![d] = target[d]] /\ UNCHANGED target

MeantShape ==
    \/ UNCHANGED meant
    \/ \E m \in Messages :
          /\ task[Message(m)].phase = "new" /\ task'[Message(m)].phase = "read"
          /\ row.state = "POST" /\ meant' = [meant EXCEPT ![m] = row.deal]

RestShape ==
    /\ asked' \subseteq asked \union Deals
    /\ blank \subseteq blank' /\ blank' \subseteq blank \union Deals
    /\ buttons' \subseteq buttons \union {"accept", "cancel"}
    /\ \/ stored' = stored
       \/ stored' = [a \in Albums |-> None]
       \/ \E a \in Albums, m \in Messages \union {None} : stored' = [stored EXCEPT ![a] = m]
    /\ stale' \in {stale, TRUE, FALSE}
    /\ faults' \in {faults, faults + 1}

TaskShape ==
    /\ DOMAIN task' = Tasks /\ task' = [k \in Tasks |-> task'[k]]
    /\ \A k \in Tasks : task'[k] = [phase |-> task'[k].phase, copy |-> task'[k].copy]
    /\ \A k \in Tasks : task'[k].phase \in Phases
    /\ \A k \in Tasks : CopyShape(k)

Shape == TaskShape /\ RowShape /\ DealShape /\ MeantShape /\ RestShape
-----------------------------------------------------------------------------
(* Every step has the shape. *)

LEMMA TaskIds ==
    /\ \A m \in Messages : Message(m) \in Tasks /\ Timer(m) \in Tasks
    /\ \A k \in Taps : Tap(k) \in Tasks
    /\ \A m, n \in Messages : Message(m) = Message(n) => m = n
BY DEF Message, Timer, Tap, Tasks

\* A step of one goroutine.
LEMMA OneGoesOn ==
    ASSUME task \in [Tasks -> Task], NEW k \in Tasks, NEW phase \in Phases, NEW copy,
           task' = [task EXCEPT ![k] = [phase |-> phase, copy |-> copy]],
           CopyShape(k)
    PROVE  TaskShape
<1>1. \A j \in Tasks : task[j].phase \in Phases
                       /\ task[j] = [phase |-> task[j].phase, copy |-> task[j].copy]
  BY DEF Task
<1>2. \A j \in Tasks : j # k => task'[j] = task[j]
  OBVIOUS
<1>3. task'[k] = [phase |-> phase, copy |-> copy]
  OBVIOUS
<1>4. \A j \in Tasks : CopyShape(j)
  BY <1>2 DEF CopyShape
<1> QED
  BY <1>1, <1>2, <1>3, <1>4 DEF TaskShape

LEMMA NobodyMoves ==
    ASSUME task \in [Tasks -> Task], task' = task
    PROVE  TaskShape
BY DEF TaskShape, CopyShape, Task

LEMMA OneEnds ==
    ASSUME task \in [Tasks -> Task], NEW k \in Tasks, task' = [task EXCEPT ![k] = Done]
    PROVE  TaskShape
<1>1. task'[k] = Done
  OBVIOUS
<1>2. CopyShape(k)
  BY <1>1 DEF CopyShape, Done, Held
<1> QED
  BY <1>2, OneGoesOn DEF Done, Phases

LEMMA EndsOrWaits ==
    ASSUME NEW k, task'[k] \in {task[k], Done, [phase |-> "armed", copy |-> NoRow]}
    PROVE  CopyShape(k)
<1>1. CASE task'[k] = task[k]
  BY <1>1 DEF CopyShape
<1>2. CASE task'[k] \in {Done, [phase |-> "armed", copy |-> NoRow]}
  <2>1. task'[k].phase \in {"done", "armed"} /\ task'[k].copy = NoRow
    BY <1>2 DEF Done
  <2> QED
    BY <2>1 DEF CopyShape, Held
<1> QED
  BY <1>1, <1>2

LEMMA ListenerShape ==
    ASSUME TypeOK, NEW d \in Deals, SendDealData(d) \/ HandlePost(d) \/ HandleDialog(d)
    PROVE  Shape
<1>1. task' = task
  BY DEF SendDealData, HandlePost, HandleDialog, bot
<1>2. TaskShape
  BY <1>1, NobodyMoves DEF TypeOK
<1> QED
  BY <1>2 DEF Shape, SendDealData, HandlePost, HandleDialog, Fault, bot, deals, RowShape, DealShape,
              MeantShape, RestShape

\* What the row holds is sent to the user, or there is nothing in it.
LEMMA ShowsShape ==
    ASSUME TypeOK, NEW k \in Tasks, NEW from, Shows(k, from)
    PROVE  Shape
<1>k. task \in [Tasks -> Task]
  BY DEF TypeOK
<1>1. CASE Ends(k, from)
  <2>1. TaskShape
    BY <1>1, <1>k, OneEnds DEF Ends
  <2> QED
    BY <2>1 DEF Shape, Shows, deals, RowShape, DealShape, MeantShape, RestShape
<1>2. CASE row.post # NoPost /\ GoesOn(k, from, "shown", row)
  <2>1. task' = [task EXCEPT ![k] = [phase |-> "shown", copy |-> row]]
    BY <1>2 DEF GoesOn
  <2>2. CopyShape(k)
    BY <1>2, <2>1, <1>k DEF CopyShape
  <2>3. TaskShape
    BY <2>1, <2>2, <1>k, OneGoesOn DEF Phases
  <2> QED
    BY <2>3 DEF Shape, Shows, deals, RowShape, DealShape, MeantShape, RestShape
<1> QED
  BY <1>1, <1>2 DEF Shows

\* The handler of a message up to what it writes.
LEMMA WriterShape ==
    ASSUME TypeOK, NEW m \in Messages, Reads(m) \/ WriteDraft(m) \/ ReadBack(m)
    PROVE  Shape
<1>k. Message(m) \in Tasks /\ row \in Row /\ task \in [Tasks -> Task] /\ meant \in [Messages -> Deals \union {None}]
  BY TaskIds DEF TypeOK
<1>1. CASE Reads(m)
  <2>1. /\ row.state = "POST" /\ task[Message(m)].phase = "new"
        /\ task' = [task EXCEPT ![Message(m)] = [phase |-> "read", copy |-> row]]
        /\ meant' = [meant EXCEPT ![m] = row.deal]
        /\ UNCHANGED <<row, buttons, stored, stale, deals, asked, faults>>
    BY <1>1 DEF Reads, GoesOn
  <2>2. task'[Message(m)] = [phase |-> "read", copy |-> row] /\ meant'[m] = row.deal
    BY <2>1, <1>k
  <2>3. CopyShape(Message(m))
    BY <2>1, <2>2 DEF CopyShape
  <2>4. TaskShape
    BY <2>1, <2>3, <1>k, OneGoesOn DEF Phases
  <2>5. MeantShape
    <3>1. /\ task[Message(m)].phase = "new" /\ task'[Message(m)].phase = "read"
          /\ row.state = "POST" /\ meant' = [meant EXCEPT ![m] = row.deal]
      BY <2>1, <2>2
    <3> QED
      BY <3>1, Zenon DEF MeantShape
  <2>6. RestShape /\ RowShape /\ DealShape
    BY <2>1 DEF deals, RowShape, DealShape, RestShape
  <2> QED
    BY <2>4, <2>5, <2>6 DEF Shape
<1>2. CASE WriteDraft(m)
  <2>1. /\ task[Message(m)].phase = "read"
        /\ task' = [task EXCEPT ![Message(m)] = [phase |-> "wrote", copy |-> NoRow]]
        /\ row' = IF m \in Texts THEN WithText(m, task[Message(m)].copy)
                                 ELSE WithPhoto(m, task[Message(m)].copy)
        /\ UNCHANGED <<buttons, stored, meant, stale, deals, asked, faults>>
    BY <1>2 DEF WriteDraft, GoesOn
  <2>2. CopyShape(Message(m))
    BY <2>1, <1>k DEF CopyShape, Held
  <2>3. TaskShape
    BY <2>1, <2>2, <1>k, OneGoesOn DEF Phases
  <2>4. RowShape
    BY <2>1 DEF RowShape
  <2> QED
    BY <2>1, <2>3, <2>4 DEF Shape, deals, DealShape, MeantShape, RestShape
<1>3. CASE ReadBack(m)
  BY <1>3, <1>k, ShowsShape DEF ReadBack
<1> QED
  BY <1>1, <1>2, <1>3

LEMMA TimerShape ==
    ASSUME TypeOK, NEW m \in Messages,
           StartTimer(m) \/ TimerFires(m) \/ TimerForgets(m) \/ TimerReads(m)
    PROVE  Shape
<1>k. /\ Message(m) \in Tasks /\ Timer(m) \in Tasks
      /\ task \in [Tasks -> Task] /\ stored \in [Albums -> Messages \union {None}]
  BY TaskIds DEF TypeOK
<1>a. AlbumOf[m] # None => AlbumOf[m] \in Albums
  BY DEF Albums
<1>1. CASE StartTimer(m)
  <2>1. \A k \in Tasks : task'[k] \in {task[k], Done, [phase |-> "armed", copy |-> NoRow]}
    BY <1>1 DEF StartTimer
  <2>2. task' = [k \in Tasks |-> task'[k]]
    BY <1>1 DEF StartTimer
  <2>3. \A k \in Tasks : CopyShape(k)
    BY <2>1, EndsOrWaits
  <2>4. TaskShape
    BY <2>1, <2>2, <2>3, <1>k DEF TaskShape, Task, Done, Phases
  <2> QED
    BY <1>1, <1>a, <2>4 DEF Shape, StartTimer, deals, RowShape, DealShape, MeantShape, RestShape
<1>2. CASE TimerFires(m)
  <2>1. task' = [task EXCEPT ![Timer(m)] = [phase |-> "fired", copy |-> NoRow]]
    BY <1>2 DEF TimerFires, GoesOn
  <2>2. CopyShape(Timer(m))
    BY <2>1, <1>k DEF CopyShape, Held
  <2>3. TaskShape
    BY <2>1, <2>2, <1>k, OneGoesOn DEF Phases
  <2> QED
    BY <1>2, <2>3 DEF Shape, TimerFires, deals, RowShape, DealShape, MeantShape, RestShape
<1>3. CASE TimerForgets(m)
  <2>1. task' = [task EXCEPT ![Timer(m)] = [phase |-> "forgot", copy |-> NoRow]]
    BY <1>3 DEF TimerForgets, GoesOn
  <2>2. CopyShape(Timer(m))
    BY <2>1, <1>k DEF CopyShape, Held
  <2>3. TaskShape
    BY <2>1, <2>2, <1>k, OneGoesOn DEF Phases
  <2>4. stored' = stored \/ (AlbumOf[m] \in Albums /\ stored' = [stored EXCEPT ![AlbumOf[m]] = None])
    <3>1. AlbumOf[m] \notin Albums => [stored EXCEPT ![AlbumOf[m]] = None] = stored
      BY <1>k
    <3> QED
      BY <1>3, <3>1 DEF TimerForgets
  <2> QED
    BY <1>3, <2>3, <2>4 DEF Shape, TimerForgets, deals, RowShape, DealShape, MeantShape, RestShape
<1>4. CASE TimerReads(m)
  BY <1>4, <1>k, ShowsShape DEF TimerReads
<1> QED
  BY <1>1, <1>2, <1>3, <1>4

LEMMA PreviewShape ==
    ASSUME TypeOK, NEW k \in Tasks, SavePreview(k)
    PROVE  Shape
<1>1. TaskShape
  BY OneEnds DEF SavePreview, Ends, TypeOK
<1>2. /\ task[k].phase = "shown"
      /\ row' = [task[k].copy EXCEPT !.state = "POST", !.preview = task[k].copy.post]
      /\ UNCHANGED <<buttons, stored, meant, deals, asked, faults>>
  BY DEF SavePreview, Ends
<1>3. stale' \in {stale, TRUE, FALSE}
  BY DEF SavePreview, TypeOK
<1>4. RowShape
  BY <1>2 DEF RowShape
<1> QED
  BY <1>1, <1>2, <1>3, <1>4 DEF Shape, deals, DealShape, MeantShape, RestShape

LEMMA RelayShape ==
    ASSUME TypeOK, NEW m \in Messages, OnDialogText(m) \/ Relay(m) \/ ClearAfterRelay(m)
    PROVE  Shape
<1>k. Message(m) \in Tasks /\ task \in [Tasks -> Task]
  BY TaskIds DEF TypeOK
<1>1. \/ task' = [task EXCEPT ![Message(m)] = Done]
      \/ \E phase \in {"relay", "relayed"} :
            task' = [task EXCEPT ![Message(m)] = [phase |-> phase, copy |-> NoRow]]
  BY DEF OnDialogText, Relay, ClearAfterRelay, GoesOn, Ends
<1>2. ASSUME NEW phase \in {"relay", "relayed"},
             task' = [task EXCEPT ![Message(m)] = [phase |-> phase, copy |-> NoRow]]
      PROVE  TaskShape
  <2>1. CopyShape(Message(m))
    BY <1>2, <1>k DEF CopyShape, Held
  <2> QED
    BY <1>2, <2>1, <1>k, OneGoesOn DEF Phases
<1>3. TaskShape
  BY <1>1, <1>2, <1>k, OneEnds
<1> QED
  BY <1>3 DEF Shape, OnDialogText, Relay, ClearAfterRelay, deals, RowShape, DealShape,
              MeantShape, RestShape

LEMMA ButtonShape ==
    ASSUME TypeOK, NEW k \in Taps,
           \/ AcceptPost(k) \/ SaveTarget(k) \/ ClearAfterAccept(k)
           \/ HandleCancel(k) \/ CancelDraft(k)
    PROVE  Shape
<1>k. Tap(k) \in Tasks /\ task \in [Tasks -> Task]
  BY TaskIds DEF TypeOK
<1>1. CASE AcceptPost(k)
  <2>1. /\ task' = [task EXCEPT ![Tap(k)] = [phase |-> "accept", copy |-> row]]
        /\ row.state = "POST" /\ row.post # NoPost
    BY <1>1 DEF AcceptPost, GoesOn
  <2>2. CopyShape(Tap(k))
    BY <2>1, <1>k DEF CopyShape
  <2>3. TaskShape
    BY <2>1, <2>2, <1>k, OneGoesOn DEF Phases
  <2> QED
    BY <1>1, <2>3 DEF Shape, AcceptPost, deals, RowShape, DealShape, MeantShape, RestShape
<1>2. CASE SaveTarget(k)
  <2>1. task' = [task EXCEPT ![Tap(k)] = [phase |-> "accepted", copy |-> NoRow]]
    BY <1>2 DEF SaveTarget, GoesOn
  <2>2. CopyShape(Tap(k))
    BY <2>1, <1>k DEF CopyShape, Held
  <2>3. TaskShape
    BY <2>1, <2>2, <1>k, OneGoesOn DEF Phases
  <2>4. DealShape
    BY <1>2, <1>k DEF SaveTarget, GoesOn, DealShape, SavesTarget
  <2> QED
    BY <1>2, <2>3, <2>4 DEF Shape, SaveTarget, RowShape, MeantShape, RestShape
<1>3. CASE ClearAfterAccept(k)
  <2>1. TaskShape
    BY <1>3, <1>k, OneEnds DEF ClearAfterAccept, Ends
  <2> QED
    BY <1>3, <2>1 DEF Shape, ClearAfterAccept, deals, RowShape, DealShape, MeantShape, RestShape
<1>4. CASE HandleCancel(k)
  <2>1. PICK r \in {row, NoRow} :
           task' = [task EXCEPT ![Tap(k)] = [phase |-> "cancel", copy |-> r]]
    BY <1>4 DEF HandleCancel, GoesOn
  <2>2. CopyShape(Tap(k))
    BY <2>1, <1>k DEF CopyShape
  <2>3. TaskShape
    BY <2>1, <2>2, <1>k, OneGoesOn DEF Phases
  <2> QED
    BY <1>4, <2>3 DEF Shape, HandleCancel, Fault, deals, RowShape, DealShape, MeantShape, RestShape
<1>5. CASE CancelDraft(k)
  <2>1. TaskShape
    BY <1>5, <1>k, OneEnds DEF CancelDraft, Ends
  <2> QED
    BY <1>5, <1>k, <2>1 DEF Shape, CancelDraft, Ends, deals, RowShape, DealShape, MeantShape,
                          RestShape
<1> QED
  BY <1>1, <1>2, <1>3, <1>4, <1>5

LEMMA MakeDealShape ==
    ASSUME TypeOK, NEW k \in Taps, MakeDealWrites(k) \/ \E d \in Deals : MakeDeal(k, d)
    PROVE  Shape
<1>k. Tap(k) \in Tasks /\ task \in [Tasks -> Task]
  BY TaskIds DEF TypeOK
<1>1. ASSUME NEW d \in Deals, MakeDeal(k, d)
      PROVE  Shape
  <2>1. /\ task' = [task EXCEPT ![Tap(k)] =
                      [phase |-> "make", copy |-> Loaded(d, target[d])]]
        /\ target[d] # NoPost \/ d \in blank'
        /\ blank \subseteq blank' /\ blank' \subseteq blank \union Deals
    BY <1>1 DEF MakeDeal, GoesOn
  <2>2. CopyShape(Tap(k))
    BY <2>1, <1>k DEF CopyShape
  <2>3. TaskShape
    BY <2>1, <2>2, <1>k, OneGoesOn DEF Phases
  <2> QED
    BY <1>1, <2>1, <2>3 DEF Shape, MakeDeal, deals, RowShape, DealShape, MeantShape, RestShape
<1>2. CASE MakeDealWrites(k)
  <2>1. TaskShape
    BY <1>2, <1>k, OneEnds DEF MakeDealWrites, Ends
  <2>2. DealShape
    BY <1>2, <1>k DEF MakeDealWrites, Ends, DealShape, SavesTarget
  <2> QED
    BY <1>2, <2>1, <2>2 DEF Shape, MakeDealWrites, RowShape, MeantShape, RestShape
<1> QED
  BY <1>1, <1>2

LEMMA DealStepShape ==
    ASSUME TypeOK, NEW d \in Deals, DealStep(d)
    PROVE  Shape
<1>1. task' = task /\ UNCHANGED <<row, buttons, stored, meant, stale, blank, asked, faults>>
  BY DEF DealStep, Negotiate, HandleAutoPost, AutoPostFails, bot
<1>2. TaskShape
  BY <1>1, NobodyMoves DEF TypeOK
<1>3. DealShape
  BY DEF DealStep, Negotiate, HandleAutoPost, AutoPostFails, DealShape, Statuses
<1> QED
  BY <1>1, <1>2, <1>3 DEF Shape, RowShape, MeantShape, RestShape

LEMMA FaultShape ==
    ASSUME TypeOK, Crash \/ \E k \in Tasks : HandlerFails(k)
    PROVE  Shape
<1>k. task \in [Tasks -> Task]
  BY DEF TypeOK
<1>1. ASSUME NEW k \in Tasks, HandlerFails(k)
      PROVE  Shape
  <2>1. TaskShape
    BY <1>1, <1>k, OneEnds DEF HandlerFails
  <2> QED
    BY <1>1, <2>1 DEF Shape, HandlerFails, Fault, deals, RowShape, DealShape, MeantShape, RestShape
<1>2. CASE Crash
  <2>1. task' = [k \in Tasks |-> IF task[k].phase = "new" THEN task[k] ELSE Done]
    BY <1>2 DEF Crash
  <2>2. \A k \in Tasks : task'[k] \in {task[k], Done}
    BY <2>1
  <2>3. \A k \in Tasks : CopyShape(k)
    BY <2>2, EndsOrWaits
  <2>4. TaskShape
    BY <2>1, <2>2, <2>3, <1>k DEF TaskShape, Task, Done, Phases
  <2> QED
    BY <1>2, <2>4 DEF Shape, Crash, Fault, deals, RowShape, DealShape, MeantShape, RestShape
<1> QED
  BY <1>1, <1>2

LEMMA NextShape == TypeOK /\ [Next]_vars => Shape
<1> SUFFICES ASSUME TypeOK, [Next]_vars PROVE Shape
  OBVIOUS
<1>1. CASE UNCHANGED vars
  <2>1. TaskShape
    BY <1>1, NobodyMoves DEF TypeOK, vars, bot
  <2> QED
    BY <1>1, <2>1 DEF Shape, vars, bot, deals, RowShape, DealShape, MeantShape, RestShape
<1>2. CASE UserStep
  BY <1>2, ListenerShape, WriterShape, RelayShape, ButtonShape, MakeDealShape
     DEF UserStep, OnText, OnMedia
<1>3. ASSUME NEW m \in Messages, MessageStep(m) PROVE Shape
  BY <1>3, TaskIds, WriterShape, TimerShape, RelayShape, PreviewShape DEF MessageStep
<1>4. ASSUME NEW m \in Messages, TimerStep(m) PROVE Shape
  BY <1>4, TaskIds, TimerShape, PreviewShape DEF TimerStep
<1>5. ASSUME NEW k \in Taps, TapStep(k) PROVE Shape
  BY <1>5, ButtonShape, MakeDealShape DEF TapStep
<1>6. ASSUME NEW d \in Deals, HandlePost(d) \/ DealStep(d) PROVE Shape
  BY <1>6, ListenerShape, DealStepShape
<1>7. CASE Crash \/ \E k \in Tasks : HandlerFails(k)
  BY <1>7, FaultShape
<1> QED
  BY <1>1, <1>2, <1>3, <1>4, <1>5, <1>6, <1>7 DEF Next
-----------------------------------------------------------------------------
(* Types. *)

\* Who will still write for a deal knows the deal.
InFlight ==
    \A k \in Tasks :
        \/ task[k].phase \in Held
        \/ task[k].phase = "cancel" /\ task[k].copy.state = "POST"
        => task[k].copy.deal \in Deals

TypeInv == TypeOK /\ InFlight

LEMMA RowTypes ==
    /\ NoPost \in Post
    /\ NoRow \in Row /\ NoRow.state = "IDLE" /\ NoRow.post = NoPost /\ NoRow.deal = None
    /\ \A d \in Deals :
          /\ NewDraft(d) \in Row /\ NewDraft(d).deal = d /\ NewDraft(d).post = NoPost
          /\ NewDialog(d) \in Row
          /\ NewDialog(d).deal = d
          /\ NewDialog(d).post = NoPost
    /\ \A d \in Deals, q \in Post :
          /\ Loaded(d, q) \in Row
          /\ Loaded(d, q).deal = d
          /\ Loaded(d, q).post = q
    /\ \A r \in Row :
          /\ [r EXCEPT !.state = "POST", !.preview = r.post] \in Row
          /\ [r EXCEPT !.state = "POST", !.preview = r.post].deal = r.deal
          /\ [r EXCEPT !.state = "POST", !.preview = r.post].post = r.post
          /\ [r EXCEPT !.state = "POST", !.preview = r.post].album = r.album
    /\ NoRow.album = None
    /\ \A d \in Deals : NewDraft(d).album = None
    /\ \A d \in Deals : NewDialog(d).album = None
BY DEF NoRow, NoPost, Row, Post, NewDraft, NewDialog, Loaded

\* What a message makes of a row.
LEMMA TextTypes ==
    ASSUME NEW m \in Messages, NEW r \in Row, r.deal \in Deals
    PROVE  /\ WithText(m, r) \in Row /\ WithText(m, r).deal = r.deal
           /\ WithText(m, r).post = [images |-> {}, text |-> m]
           /\ WithText(m, r).album = None
BY DEF WithText, NewDraft, NoRow, NoPost, Row, Post

LEMMA PhotoTypes ==
    ASSUME NEW m \in Messages, NEW r \in Row
    PROVE  /\ WithPhoto(m, r) \in Row /\ WithPhoto(m, r).deal = r.deal
           /\ WithPhoto(m, r).album = AlbumOf[m]
           /\ \/ /\ AlbumOf[m] # None /\ AlbumOf[m] = r.album
                 /\ WithPhoto(m, r).post.images = r.post.images \union {m}
                 /\ WithPhoto(m, r).post.text \in {r.post.text, m}
              \/ /\ AlbumOf[m] = None
                 /\ WithPhoto(m, r).post.images = {m}
                 /\ WithPhoto(m, r).post.text \in {r.post.text, m}
              \/ /\ WithPhoto(m, r).post.images = {m}
                 /\ WithPhoto(m, r).post.text \in {None, m}
<1> DEFINE sameAlbum == AlbumOf[m] # None /\ AlbumOf[m] = r.album
           images == IF sameAlbum THEN r.post.images \union {m} ELSE {m}
           kept == IF sameAlbum \/ AlbumOf[m] = None THEN r.post.text ELSE None
           text == IF m \in Captioned THEN m ELSE kept
<1>1. WithPhoto(m, r) = [r EXCEPT !.album = AlbumOf[m], !.post = [images |-> images, text |-> text]]
  BY DEF WithPhoto
<1>2. images \in SUBSET Messages /\ text \in Messages \union {None}
  BY DEF Row, Post
<1>3. AlbumOf[m] \in Albums \union {None}
  BY DEF Albums
<1> HIDE DEF images, text
<1>4. /\ WithPhoto(m, r) \in Row /\ WithPhoto(m, r).deal = r.deal
      /\ WithPhoto(m, r).album = AlbumOf[m]
      /\ WithPhoto(m, r).post.images = images /\ WithPhoto(m, r).post.text = text
  <2> DEFINE q == [images |-> images, text |-> text]
  <2>1. q \in Post /\ q.images = images /\ q.text = text
    BY <1>2 DEF Post
  <2>2. WithPhoto(m, r) = [r EXCEPT !.album = AlbumOf[m], !.post = q]
    BY <1>1
  <2> HIDE DEF q
  <2>3. WithPhoto(m, r).post = q
    BY <2>2 DEF Row
  <2> QED
    BY <2>1, <2>2, <2>3, <1>3 DEF Row
<1> QED
  BY <1>4 DEF images, text

LEMMA RowTypeStep ==
    ASSUME TypeInv, RowShape
    PROVE  row' \in Row /\ (row' = NoRow \/ row'.deal \in Deals)
<1>k. /\ row \in Row /\ (row = NoRow \/ row.deal \in Deals)
      /\ \A k \in Tasks : task[k].copy \in Row
      /\ \A k \in Tasks : task[k].phase \in Held => task[k].copy.deal \in Deals
      /\ \A k \in Tasks : task[k].phase = "cancel" /\ task[k].copy.state = "POST"
                          => task[k].copy.deal \in Deals
  BY DEF TypeInv, TypeOK, InFlight, Task
<1>1. CASE row' = row \/ row' = NoRow
  BY <1>1, <1>k, RowTypes
<1>2. ASSUME NEW d \in Deals,
             row' \in {NewDraft(d), NewDialog(d)}
      PROVE  row' \in Row /\ row'.deal \in Deals
  BY <1>2, RowTypes
<1>3. ASSUME NEW m \in Messages, task[Message(m)].phase = "read",
             row' = IF m \in Texts THEN WithText(m, task[Message(m)].copy)
                                   ELSE WithPhoto(m, task[Message(m)].copy)
      PROVE  row' \in Row /\ row'.deal \in Deals
  <2>1. task[Message(m)].copy \in Row /\ task[Message(m)].copy.deal \in Deals
    BY <1>3, <1>k, TaskIds DEF Held
  <2>2. CASE m \in Texts
    <3>1. row' = WithText(m, task[Message(m)].copy)
      BY <1>3, <2>2
    <3> QED
      BY <2>1, <3>1, TextTypes
  <2>3. CASE m \notin Texts
    <3>1. row' = WithPhoto(m, task[Message(m)].copy)
      BY <1>3, <2>3
    <3> QED
      BY <2>1, <3>1, PhotoTypes
  <2> QED
    BY <2>2, <2>3
<1>4. ASSUME NEW k \in Tasks, task[k].phase = "shown",
             row' = [task[k].copy EXCEPT !.state = "POST", !.preview = task[k].copy.post]
      PROVE  row' \in Row /\ row'.deal \in Deals
  BY <1>4, <1>k, RowTypes DEF Held
<1>5. ASSUME NEW k \in Tasks, task[k].phase = "cancel", task[k].copy.state = "POST",
             row' = NewDraft(task[k].copy.deal)
      PROVE  row' \in Row /\ row'.deal \in Deals
  BY <1>5, <1>k, RowTypes
<1> QED
  BY <1>1, <1>2, <1>3, <1>4, <1>5 DEF RowShape

LEMMA CopyTypeStep ==
    ASSUME TypeInv, NEW k \in Tasks, CopyShape(k)
    PROVE  /\ task'[k].copy \in Row
           /\ \/ task'[k].phase \in Held
              \/ task'[k].phase = "cancel" /\ task'[k].copy.state = "POST"
              => task'[k].copy.deal \in Deals
<1>k. /\ row \in Row /\ (row = NoRow \/ row.deal \in Deals)
      /\ task[k].copy \in Row /\ \A d \in Deals : target[d] \in Post
      /\ task[k].phase \in Held => task[k].copy.deal \in Deals
      /\ task[k].phase = "cancel" /\ task[k].copy.state = "POST" => task[k].copy.deal \in Deals
  BY DEF TypeInv, TypeOK, InFlight, Task
<1>1. CASE task'[k] = task[k]
  BY <1>1, <1>k
<1>2. CASE task'[k].phase \notin Held \union {"new", "cancel"} /\ task'[k].copy = NoRow
  BY <1>2, RowTypes
<1>3. CASE /\ \/ task'[k] = [phase |-> "read", copy |-> row]
              \/ task'[k] = [phase |-> "accept", copy |-> row]
           /\ row.state = "POST"
  <2>1. task'[k].copy = row
    BY <1>3
  <2>2. row # NoRow
    BY <1>3, RowTypes
  <2> QED
    BY <2>1, <2>2, <1>k
<1>4. CASE task'[k] = [phase |-> "shown", copy |-> row] /\ row.post # NoPost
  <2>1. row # NoRow
    BY <1>4, RowTypes
  <2> QED
    BY <1>4, <2>1, <1>k
<1>6. ASSUME NEW r \in {row, NoRow}, task'[k] = [phase |-> "cancel", copy |-> r]
      PROVE  /\ task'[k].copy \in Row
             /\ \/ task'[k].phase \in Held
                \/ task'[k].phase = "cancel" /\ task'[k].copy.state = "POST"
                => task'[k].copy.deal \in Deals
  <2>1. task'[k].copy = r /\ task'[k].phase = "cancel"
    BY <1>6
  <2>2. r \in Row /\ (r.state = "POST" => r.deal \in Deals)
    <3>1. r = row \/ r = NoRow
      BY <1>6
    <3>2. NoRow \in Row /\ NoRow.state # "POST"
      BY RowTypes
    <3> QED
      BY <3>1, <3>2, <1>k
  <2> QED
    BY <2>1, <2>2 DEF Held
<1>7. ASSUME NEW d \in Deals,
             task'[k] = [phase |-> "make", copy |-> Loaded(d, target[d])]
      PROVE  task'[k].copy \in Row /\ task'[k].copy.deal \in Deals
  <2> DEFINE c == Loaded(d, target[d])
  <2>1. c \in Row /\ c.deal = d
    BY <1>k, RowTypes
  <2>2. task'[k] = [phase |-> "make", copy |-> c]
    BY <1>7
  <2> HIDE DEF c
  <2> QED
    BY <2>1, <2>2
<1> QED
  BY <1>1, <1>2, <1>3, <1>4, <1>6, <1>7 DEF CopyShape

LEMMA TypeStep ==
    ASSUME TypeInv, Shape
    PROVE  TypeInv'
<1>1. row' \in Row /\ (row' = NoRow \/ row'.deal \in Deals)
  BY RowTypeStep DEF Shape
<1>2. task' \in [Tasks -> Task] /\ InFlight'
  <2>1. \A k \in Tasks : task'[k].copy \in Row
    BY CopyTypeStep DEF Shape, TaskShape
  <2>2. \A k \in Tasks : task'[k] \in Task
    BY <2>1 DEF Shape, TaskShape, Task
  <2>3. task' \in [Tasks -> Task]
    BY <2>2 DEF Shape, TaskShape
  <2>4. InFlight'
    BY CopyTypeStep DEF Shape, TaskShape, InFlight
  <2> QED
    BY <2>3, <2>4
<1>3. target' \in [Deals -> Post] /\ status' \in [Deals -> Statuses] /\ posted' \in [Deals -> Post]
  <2>1. /\ target \in [Deals -> Post] /\ status \in [Deals -> Statuses]
        /\ posted \in [Deals -> Post]
        /\ \A k \in Tasks : task[k].copy.post \in Post
    BY DEF TypeInv, TypeOK, Task, Row
  <2>2. DealShape
    BY DEF Shape
  <2>3. \A k \in Tasks : SavesTarget(k) => target' \in [Deals -> Post]
    BY <2>1 DEF SavesTarget
  <2> QED
    BY <2>1, <2>2, <2>3 DEF DealShape, Statuses
<1>4. meant' \in [Messages -> Deals \union {None}]
  <2>1. MeantShape /\ meant \in [Messages -> Deals \union {None}]
        /\ row \in Row
    BY DEF Shape, TypeInv, TypeOK
  <2> QED
    BY <2>1 DEF MeantShape, Row
<1>5. /\ asked' \subseteq Deals /\ buttons' \subseteq {"accept", "cancel"}
      /\ stored' \in [Albums -> Messages \union {None}]
      /\ stale' \in BOOLEAN /\ faults' \in Nat /\ blank' \subseteq Deals
  <2>1. RestShape /\ stored \in [Albums -> Messages \union {None}]
        /\ asked \subseteq Deals /\ buttons \subseteq {"accept", "cancel"}
        /\ stale \in BOOLEAN /\ faults \in Nat /\ blank \subseteq Deals
    BY DEF Shape, TypeInv, TypeOK
  <2>2. stored' \in [Albums -> Messages \union {None}]
    BY <2>1 DEF RestShape
  <2>3. stale' \in BOOLEAN
    BY <2>1 DEF RestShape
  <2> QED
    BY <2>1, <2>2, <2>3 DEF RestShape
<1> QED
  BY <1>1, <1>2, <1>3, <1>4, <1>5 DEF TypeInv, TypeOK

LEMMA InitTypes == Init => TypeInv
<1> SUFFICES ASSUME Init PROVE TypeInv
  OBVIOUS
<1>1. Started \in Task /\ Started.phase \notin Held \union {"cancel"}
  BY RowTypes DEF Started, Task, Phases, Held
<1>2. InFlight
  BY <1>1 DEF Init, InFlight
<1>3. TypeOK
  BY <1>1, RowTypes DEF Init, TypeOK, Statuses
<1> QED
  BY <1>2, <1>3 DEF TypeInv

LEMMA TypeInvCorrect == Spec => []TypeInv
<1>1. TypeInv /\ [Next]_vars => TypeInv'
  BY NextShape, TypeStep DEF TypeInv
<1> QED
  BY <1>1, InitTypes, PTL DEF Spec

(* The variables keep their types, whatever the handlers write, and a row  *)
(* that is not empty is about a deal.                                      *)
THEOREM TypeCorrect == Spec => []TypeOK
BY TypeInvCorrect, PTL DEF TypeInv
-----------------------------------------------------------------------------
(* Posts are made of messages for their deal. *)

For(p, d, mt) == \A m \in Content(p) : mt[m] = d

LEMMA ContentIs ==
    ASSUME NEW p, NEW m
    PROVE  m \in Content(p) <=> m \in p.images \/ (m = p.text /\ m # None)
BY DEF Content

PostsInv ==
    /\ For(row.post, row.deal, meant)
    /\ \A d \in Deals : For(target[d], d, meant) /\ For(posted[d], d, meant)
    /\ \A k \in Tasks : task[k].phase \in Held => For(task[k].copy.post, task[k].copy.deal, meant)
    /\ \A m \in Messages :
          /\ task[Message(m)].phase = "new" => meant[m] = None
          /\ task[Message(m)].phase = "read" => meant[m] = task[Message(m)].copy.deal

LEMMA NothingFor ==
    ASSUME NEW d, NEW mt
    PROVE  For(NoPost, d, mt)
BY ContentIs DEF For, NoPost

\* What a message was for is settled once.
LEMMA MeantKept ==
    ASSUME TypeInv, PostsInv, MeantShape
    PROVE  \A m \in Messages : meant[m] \in Deals => meant'[m] = meant[m]
BY PostDraftAssumption DEF TypeInv, TypeOK, PostsInv, MeantShape

LEMMA ForKept ==
    ASSUME TypeInv, PostsInv, MeantShape, NEW p \in Post, NEW d \in Deals \union {None},
           For(p, d, meant), d = None => p = NoPost
    PROVE  For(p, d, meant')
<1>1. CASE d = None
  BY <1>1, NothingFor
<1>2. CASE d \in Deals
  <2>1. \A m \in Content(p) : m \in Messages
    BY ContentIs DEF Post
  <2> QED
    BY <1>2, <2>1, MeantKept DEF For
<1> QED
  BY <1>1, <1>2

\* The message that is written is for the deal of the row it is written to.
LEMMA WritesFor ==
    ASSUME NEW m \in Messages, NEW r \in Row, r.deal \in Deals, NEW mt,
           For(r.post, r.deal, mt), mt[m] = r.deal
    PROVE  /\ For(WithText(m, r).post, r.deal, mt)
           /\ For(WithPhoto(m, r).post, r.deal, mt)
<1>1. For(WithText(m, r).post, r.deal, mt)
  <2>1. WithText(m, r).post = [images |-> {}, text |-> m]
    BY TextTypes
  <2>2. WithText(m, r).post.images = {} /\ WithText(m, r).post.text = m
    BY <2>1
  <2>3. \A n \in Content(WithText(m, r).post) : n = m
    BY <2>2, ContentIs
  <2> QED
    BY <2>3 DEF For
<1>2. \A n \in Content(WithPhoto(m, r).post) : n \in Content(r.post) \/ n = m
  <2> TAKE n \in Content(WithPhoto(m, r).post)
  <2>1. \/ n \in WithPhoto(m, r).post.images
        \/ n = WithPhoto(m, r).post.text /\ n # None
    BY ContentIs
  <2>2. \/ n \in r.post.images \union {m}
        \/ n \in {r.post.text, None, m} /\ n # None
    BY <2>1, PhotoTypes
  <2> QED
    BY <2>2, ContentIs
<1> QED
  BY <1>1, <1>2 DEF For

LEMMA PostsRow ==
    ASSUME TypeInv, PostsInv, Shape
    PROVE  For(row'.post, row'.deal, meant')
<1>k. /\ RowShape /\ MeantShape /\ row \in Row /\ (row = NoRow \/ row.deal \in Deals)
      /\ For(row.post, row.deal, meant)
      /\ NoRow.post = NoPost /\ NoRow.deal = None
  BY RowTypes DEF Shape, TypeInv, TypeOK, PostsInv
<1>c. ASSUME NEW k \in Tasks, task[k].phase \in Held
      PROVE  /\ task[k].copy \in Row /\ task[k].copy.deal \in Deals
             /\ For(task[k].copy.post, task[k].copy.deal, meant)
             /\ For(task[k].copy.post, task[k].copy.deal, meant')
  <2>1. /\ task[k].copy \in Row /\ task[k].copy.deal \in Deals
        /\ For(task[k].copy.post, task[k].copy.deal, meant)
    BY <1>c DEF TypeInv, TypeOK, InFlight, Task, PostsInv
  <2>2. task[k].copy.post \in Post /\ task[k].copy.deal # None
    BY <2>1, PostDraftAssumption DEF Row
  <2> QED
    BY <2>1, <2>2, <1>k, ForKept
<1>1. CASE row' = row
  <2>1. row.post \in Post /\ row.deal \in Deals \union {None} /\ (row.deal = None => row.post = NoPost)
    BY <1>k, PostDraftAssumption DEF Row
  <2> QED
    BY <1>1, <1>k, <2>1, ForKept
<1>2. CASE row' = NoRow
  BY <1>2, <1>k, NothingFor
<1>3. ASSUME NEW d \in Deals,
             row' \in {NewDraft(d), NewDialog(d)}
      PROVE  For(row'.post, row'.deal, meant')
  <2>1. row'.post = NoPost
    <3>1. NewDraft(d).post = NoPost /\ NewDialog(d).post = NoPost
      BY RowTypes
    <3> QED
      BY <1>3, <3>1
  <2> QED
    BY <2>1, NothingFor
<1>4. ASSUME NEW m \in Messages, task[Message(m)].phase = "read",
             row' = IF m \in Texts THEN WithText(m, task[Message(m)].copy)
                                   ELSE WithPhoto(m, task[Message(m)].copy)
      PROVE  For(row'.post, row'.deal, meant')
  <2> DEFINE c == task[Message(m)].copy
  <2>1. c \in Row /\ c.deal \in Deals /\ For(c.post, c.deal, meant')
    BY <1>4, <1>c, TaskIds DEF Held
  <2>2. meant[m] = c.deal
    BY <1>4 DEF PostsInv
  <2>3. meant'[m] = c.deal
    BY <2>1, <2>2, <1>k, MeantKept
  <2>4. row' = IF m \in Texts THEN WithText(m, c) ELSE WithPhoto(m, c)
    BY <1>4
  <2> HIDE DEF c
  <2>5. For(WithText(m, c).post, c.deal, meant') /\ For(WithPhoto(m, c).post, c.deal, meant')
    BY <2>1, <2>3, WritesFor
  <2>6. WithText(m, c).deal = c.deal
    BY <2>1, TextTypes
  <2>7. WithPhoto(m, c).deal = c.deal
    BY <2>1, PhotoTypes
  <2> QED
    BY <2>4, <2>5, <2>6, <2>7
<1>5. ASSUME NEW k \in Tasks, task[k].phase = "shown",
             row' = [task[k].copy EXCEPT !.state = "POST", !.preview = task[k].copy.post]
      PROVE  For(row'.post, row'.deal, meant')
  <2>1. task[k].copy \in Row /\ For(task[k].copy.post, task[k].copy.deal, meant')
    BY <1>5, <1>c DEF Held
  <2>2. row'.post = task[k].copy.post /\ row'.deal = task[k].copy.deal
    BY <1>5, <2>1, RowTypes
  <2> QED
    BY <2>1, <2>2
<1>6. ASSUME NEW k \in Tasks, task[k].phase = "cancel", task[k].copy.state = "POST",
             row' = NewDraft(task[k].copy.deal)
      PROVE  For(row'.post, row'.deal, meant')
  <2>1. task[k].copy.deal \in Deals
    BY <1>6 DEF TypeInv, InFlight
  <2>2. row'.post = NoPost
    BY <1>6, <2>1, RowTypes
  <2> QED
    BY <2>2, NothingFor
<1> QED
  BY <1>k, <1>1, <1>2, <1>3, <1>4, <1>5, <1>6 DEF RowShape

LEMMA PostsCopies ==
    ASSUME TypeInv, PostsInv, Shape, NEW k \in Tasks, task'[k].phase \in Held
    PROVE  For(task'[k].copy.post, task'[k].copy.deal, meant')
<1>k. /\ CopyShape(k) /\ MeantShape /\ row \in Row /\ (row = NoRow \/ row.deal \in Deals)
      /\ For(row.post, row.deal, meant)
      /\ NoRow.post = NoPost /\ NoRow.deal = None
  BY RowTypes DEF Shape, TaskShape, TypeInv, TypeOK, PostsInv
<1>r. For(row.post, row.deal, meant')
  <2>1. row.post \in Post /\ row.deal \in Deals \union {None} /\ (row.deal = None => row.post = NoPost)
    BY <1>k, PostDraftAssumption DEF Row
  <2> QED
    BY <1>k, <2>1, ForKept
<1>c. ASSUME task[k].phase \in Held
      PROVE  For(task[k].copy.post, task[k].copy.deal, meant')
  <2>1. /\ task[k].copy \in Row /\ task[k].copy.deal \in Deals
        /\ For(task[k].copy.post, task[k].copy.deal, meant)
    BY <1>c DEF TypeInv, TypeOK, InFlight, Task, PostsInv
  <2>2. task[k].copy.post \in Post /\ task[k].copy.deal # None
    BY <2>1, PostDraftAssumption DEF Row
  <2> QED
    BY <2>1, <2>2, <1>k, ForKept
<1>1. CASE task'[k] = task[k]
  BY <1>1, <1>c
<1>2. CASE task'[k].phase \in {"read", "shown", "accept"} /\ task'[k].copy = row
  BY <1>2, <1>r
<1>4. ASSUME NEW d \in Deals,
             task'[k] = [phase |-> "make", copy |-> Loaded(d, target[d])]
      PROVE  For(task'[k].copy.post, task'[k].copy.deal, meant')
  <2>1. target[d] \in Post /\ For(target[d], d, meant)
    BY DEF TypeInv, TypeOK, PostsInv
  <2>2. For(target[d], d, meant')
    BY <2>1, <1>k, ForKept, PostDraftAssumption
  <2> DEFINE c == Loaded(d, target[d])
  <2>3. c.post = target[d] /\ c.deal = d
    BY <2>1, RowTypes
  <2>4. task'[k].copy = c
    BY <1>4
  <2> HIDE DEF c
  <2> QED
    BY <2>2, <2>3, <2>4
<1>5. \/ task'[k] = task[k]
      \/ task'[k].phase \in {"read", "shown", "accept"} /\ task'[k].copy = row
      \/ \E d \in Deals :
            task'[k] = [phase |-> "make", copy |-> Loaded(d, target[d])]
  BY <1>k DEF CopyShape, Held
<1> QED
  BY <1>1, <1>2, <1>4, <1>5

LEMMA PostsDeals ==
    ASSUME TypeInv, PostsInv, Shape, NEW d \in Deals
    PROVE  For(target'[d], d, meant') /\ For(posted'[d], d, meant')
<1>k. /\ DealShape /\ MeantShape
      /\ target \in [Deals -> Post] /\ posted \in [Deals -> Post]
      /\ \A e \in Deals : For(target[e], e, meant) /\ For(posted[e], e, meant)
  BY DEF Shape, TypeInv, TypeOK, PostsInv
<1>1. For(target[d], d, meant') /\ For(posted[d], d, meant')
  BY <1>k, ForKept, PostDraftAssumption
<1>2. ASSUME NEW k \in Tasks, task[k].phase \in Held, SavesTarget(k)
      PROVE  For(target'[d], d, meant')
  <2>1. /\ task[k].copy \in Row /\ task[k].copy.deal \in Deals
        /\ For(task[k].copy.post, task[k].copy.deal, meant)
    BY <1>2 DEF TypeInv, TypeOK, InFlight, Task, PostsInv
  <2>2. task[k].copy.post \in Post /\ task[k].copy.deal # None
    BY <2>1, PostDraftAssumption DEF Row
  <2>3. For(task[k].copy.post, task[k].copy.deal, meant')
    BY <2>1, <2>2, <1>k, ForKept
  <2> QED
    BY <1>2, <1>k, <1>1, <2>3 DEF SavesTarget
<1>3. \A e \in Deals : posted' = [posted EXCEPT ![e] = target[e]] => For(posted'[d], d, meant')
  BY <1>k, <1>1
<1> QED
  BY <1>k, <1>1, <1>2, <1>3 DEF DealShape, Held

\* Who is new was new, and who has read either had or does so now.
LEMMA StartShape ==
    ASSUME NEW k \in Tasks, CopyShape(k), task'[k].phase \in {"new", "read"}, task'[k] # task[k]
    PROVE  /\ task'[k] = [phase |-> "read", copy |-> row]
           /\ \E m \in Messages : k = Message(m) /\ meant'[m] = row.deal
<1>1. task'[k] # [phase |-> "shown", copy |-> row]
  OBVIOUS
<1>3. task'[k] # [phase |-> "accept", copy |-> row]
  OBVIOUS
<1>4. \A r : task'[k] # [phase |-> "cancel", copy |-> r]
  OBVIOUS
<1>5. \A d \in Deals : task'[k] # [phase |-> "make", copy |-> Loaded(d, target[d])]
  OBVIOUS
<1>6. task'[k].phase \in Held \union {"new", "cancel"}
  BY DEF Held
<1> QED
  BY <1>1, <1>3, <1>4, <1>5, <1>6, Zenon DEF CopyShape

LEMMA PostsMeant ==
    ASSUME TypeInv, PostsInv, Shape, NEW m \in Messages
    PROVE  /\ task'[Message(m)].phase = "new" => meant'[m] = None
           /\ task'[Message(m)].phase = "read" => meant'[m] = task'[Message(m)].copy.deal
<1>k. /\ CopyShape(Message(m)) /\ MeantShape /\ meant \in [Messages -> Deals \union {None}]
      /\ task[Message(m)].phase = "new" => meant[m] = None
      /\ task[Message(m)].phase = "read" => /\ meant[m] = task[Message(m)].copy.deal
                                            /\ task[Message(m)].copy.deal \in Deals
  BY TaskIds DEF Shape, TaskShape, TypeInv, TypeOK, PostsInv, InFlight, Held
<1>1. ASSUME task'[Message(m)].phase = "new"
      PROVE  meant'[m] = None
  <2>1. task'[Message(m)] = task[Message(m)]
    <3>1. [phase |-> "read", copy |-> row].phase # "new"
      OBVIOUS
    <3> QED
      BY <1>1, <3>1, <1>k, StartShape, TaskIds
  <2>2. meant'[m] = meant[m]
    <3>1. ASSUME NEW n \in Messages, task'[Message(n)].phase = "read",
                 meant' = [meant EXCEPT ![n] = row.deal]
          PROVE  meant'[m] = meant[m]
      <4>1. n # m
        BY <1>1, <3>1
      <4> QED
        BY <3>1, <4>1, <1>k
    <3> QED
      BY <1>k, <3>1 DEF MeantShape
  <2> QED
    BY <1>1, <1>k, <2>1, <2>2
<1>2. ASSUME task'[Message(m)].phase = "read"
      PROVE  meant'[m] = task'[Message(m)].copy.deal
  <2>1. CASE task'[Message(m)] = task[Message(m)]
    BY <1>2, <2>1, <1>k, MeantKept
  <2>2. ASSUME NEW n \in Messages, Message(m) = Message(n), meant'[n] = row.deal,
               task'[Message(m)] = [phase |-> "read", copy |-> row]
        PROVE  meant'[m] = task'[Message(m)].copy.deal
    BY <2>2, TaskIds
  <2> QED
    BY <1>2, <1>k, <2>1, <2>2, StartShape, TaskIds
<1> QED
  BY <1>1, <1>2

LEMMA PostsStep == TypeInv /\ PostsInv /\ [Next]_vars => PostsInv'
BY NextShape, PostsRow, PostsCopies, PostsDeals, PostsMeant DEF TypeInv, PostsInv

LEMMA InitPosts == Init => PostsInv
<1> SUFFICES ASSUME Init PROVE PostsInv
  OBVIOUS
<1>1. \A k \in Tasks : task[k] = Started
  BY DEF Init
<1>2. Started.phase = "new"
  BY DEF Started
<1>3. row.post = NoPost /\ \A d \in Deals : target[d] = NoPost /\ posted[d] = NoPost
  BY RowTypes DEF Init
<1>4. \A m \in Messages : meant[m] = None
  BY DEF Init
<1> QED
  BY <1>1, <1>2, <1>3, <1>4, NothingFor, TaskIds DEF PostsInv, Held

(* Whatever handlers write back after the row was turned to another deal,  *)
(* the post of a deal, and the post published for it, are made of messages *)
(* sent for that deal.                                                     *)
THEOREM PostsStayCorrect == Spec => []PostsStayWithDeal
<1>1. TypeInv /\ PostsInv => PostsStayWithDeal
  BY DEF PostsInv, PostsStayWithDeal, IsFor, For
<1> QED
  BY <1>1, InitPosts, PostsStep, TypeInvCorrect, PTL DEF Spec
-----------------------------------------------------------------------------
(* A deal that left DRAFT has a post. *)

PendingInv ==
    /\ PendingHasPost
    /\ \A k \in Tasks :
          /\ task[k].phase = "accept" => task[k].copy.post # NoPost
          /\ task[k].phase = "make" => task[k].copy.post # NoPost \/ task[k].copy.deal \in blank

\* What a goroutine is about to write into a deal.
LEMMA PendingCopies ==
    ASSUME TypeInv, PendingInv, Shape, NEW k \in Tasks
    PROVE  /\ task'[k].phase = "accept" => task'[k].copy.post # NoPost
           /\ task'[k].phase = "make" =>
                 task'[k].copy.post # NoPost \/ task'[k].copy.deal \in blank'
<1> SUFFICES ASSUME task'[k].phase \in {"make", "accept"}
             PROVE  \/ task'[k].copy.post # NoPost
                    \/ task'[k].phase = "make" /\ task'[k].copy.deal \in blank'
  OBVIOUS
<1>1. CASE task'[k] = task[k]
  BY <1>1 DEF PendingInv, Shape, RestShape
<1>2. CASE task'[k] = [phase |-> "accept", copy |-> row] /\ row.post # NoPost
  BY <1>2
<1>3. ASSUME NEW d \in Deals, target[d] # NoPost \/ d \in blank',
             task'[k] = [phase |-> "make", copy |-> Loaded(d, target[d])]
      PROVE  task'[k].copy.post # NoPost \/ task'[k].copy.deal \in blank'
  <2>1. target[d] \in Post
    BY DEF TypeInv, TypeOK
  <2>2. Loaded(d, target[d]).post = target[d] /\ Loaded(d, target[d]).deal = d
    BY <2>1, RowTypes
  <2> QED
    BY <1>3, <2>2
<1>4. /\ task'[k] # [phase |-> "read", copy |-> row]
      /\ task'[k] # [phase |-> "shown", copy |-> row]
      /\ \A r : task'[k] # [phase |-> "cancel", copy |-> r]
      /\ task'[k].phase \in Held
  BY DEF Held
<1>5. ASSUME NEW d \in Deals, task'[k] = [phase |-> "make", copy |-> Loaded(d, target[d])]
      PROVE  task'[k].phase = "make"
  BY <1>5
<1>6. CopyShape(k)
  BY DEF Shape, TaskShape
<1> QED
  BY <1>1, <1>2, <1>3, <1>4, <1>5, <1>6 DEF CopyShape

LEMMA PendingStep ==
    ASSUME TypeInv, PendingInv, Shape
    PROVE  PendingInv'
<1>k. /\ target \in [Deals -> Post] /\ status \in [Deals -> Statuses]
      /\ posted \in [Deals -> Post] /\ DealShape /\ blank \subseteq blank'
      /\ \A d \in Deals : /\ status[d] # "DRAFT" /\ d \notin blank => target[d] # NoPost
                          /\ status[d] = "PUBLISHED" => posted[d] # NoPost
  BY DEF TypeInv, TypeOK, Shape, PendingInv, PendingHasPost, RestShape
<1>1. UNCHANGED <<target, status, posted>> => PendingHasPost'
  BY <1>k DEF PendingHasPost
<1>2. ASSUME NEW k \in Tasks, task[k].phase \in {"make", "accept"}, SavesTarget(k),
             UNCHANGED posted,
             \/ UNCHANGED status
             \/ status' = [status EXCEPT ![task[k].copy.deal] = "PENDING"]
      PROVE  PendingHasPost'
  <2>1. task[k].copy.post # NoPost \/ task[k].copy.deal \in blank
    BY <1>2 DEF PendingInv
  <2>2. \A d \in Deals : target'[d] = IF d = task[k].copy.deal THEN task[k].copy.post ELSE target[d]
    BY <1>k, <1>2 DEF SavesTarget
  <2>3. \A d \in Deals : \/ status'[d] = status[d]
                         \/ d = task[k].copy.deal /\ status'[d] = "PENDING"
    BY <1>k, <1>2
  <2> QED
    BY <1>k, <1>2, <2>1, <2>2, <2>3 DEF PendingHasPost
<1>3. ASSUME NEW d \in Deals, NEW s \in Statuses \ {"DRAFT", "PUBLISHED"},
             status[d] # "DRAFT", status' = [status EXCEPT ![d] = s],
             UNCHANGED <<target, posted>>
      PROVE  PendingHasPost'
  BY <1>k, <1>3 DEF PendingHasPost
<1>4. ASSUME NEW d \in Deals, status[d] # "DRAFT", target[d] # NoPost,
             status' = [status EXCEPT ![d] = "PUBLISHED"],
             posted' = [posted EXCEPT ![d] = target[d]], UNCHANGED target
      PROVE  PendingHasPost'
  BY <1>k, <1>4 DEF PendingHasPost
<1>5. PendingHasPost'
  BY <1>k, <1>1, <1>2, <1>3, <1>4 DEF DealShape
<1> QED
  BY <1>5, PendingCopies DEF PendingInv

LEMMA InitPending == Init => PendingInv
BY DEF Init, PendingInv, PendingHasPost, Started

(* In every status after DRAFT the deal has a post, however the buttons and   *)
(* requests interleave, but for the deals that a make-deal request loaded     *)
(* when they had none; and a published deal was published with one.           *)
THEOREM PendingHasPostCorrect == Spec => []PendingHasPost
<1>1. TypeInv /\ PendingInv /\ [Next]_vars => PendingInv'
  BY NextShape, PendingStep DEF TypeInv
<1> QED
  BY <1>1, InitPending, TypeInvCorrect, PTL DEF Spec, PendingInv
-----------------------------------------------------------------------------
(* Albums are whole. *)

\* What the row says of its album is so.
WholeRow(r) ==
    IF r.album = None
    THEN /\ \A m, n \in r.post.images : m = n
         /\ \A m \in r.post.images : AlbumOf[m] = None
    ELSE /\ \A m \in r.post.images : AlbumOf[m] = r.album
         /\ r.post.text \in r.post.images \union {None}

WholeInv ==
    /\ AlbumsAreWhole
    /\ WholeRow(row)
    /\ \A k \in Tasks :
          /\ task[k].phase \in Held \ {"make"} => WholeRow(task[k].copy)
          /\ task[k].phase = "make" => IsWhole(task[k].copy.post)

LEMMA WholeRowIsWhole ==
    ASSUME NEW r, WholeRow(r)
    PROVE  IsWhole(r.post)
BY DEF WholeRow, IsWhole

LEMMA EmptyIsWhole ==
    ASSUME NEW r, r.post = NoPost
    PROVE  WholeRow(r)
BY DEF WholeRow, NoPost

\* A message leaves the album whole, or starts another.
LEMMA WritesWhole ==
    ASSUME NEW m \in Messages, NEW r \in Row, r.deal \in Deals, WholeRow(r)
    PROVE  WholeRow(WithText(m, r)) /\ WholeRow(WithPhoto(m, r))
<1>1. WholeRow(WithText(m, r))
  <2>1. WithText(m, r).album = None /\ WithText(m, r).post = [images |-> {}, text |-> m]
    BY TextTypes
  <2>2. WithText(m, r).post.images = {}
    BY <2>1
  <2> QED
    BY <2>1, <2>2 DEF WholeRow
<1>2. WholeRow(WithPhoto(m, r))
  <2> DEFINE new == WithPhoto(m, r)
  <2>1. /\ new.album = AlbumOf[m]
        /\ \/ /\ AlbumOf[m] # None /\ AlbumOf[m] = r.album
              /\ new.post.images = r.post.images \union {m}
              /\ new.post.text \in {r.post.text, m}
           \/ /\ AlbumOf[m] = None
              /\ new.post.images = {m}
              /\ new.post.text \in {r.post.text, m}
           \/ new.post.images = {m} /\ new.post.text \in {None, m}
    BY PhotoTypes
  <2> HIDE DEF new
  <2>2. WholeRow(new)
    BY <2>1 DEF WholeRow
  <2> QED
    BY <2>2 DEF new
<1> QED
  BY <1>1, <1>2

LEMMA WholeRowStep ==
    ASSUME TypeInv, WholeInv, Shape
    PROVE  WholeRow(row')
<1>k. RowShape /\ WholeRow(row) /\ NoRow.post = NoPost
  BY RowTypes DEF Shape, WholeInv
<1>1. CASE row' = row
  BY <1>1, <1>k
<1>2. CASE row' = NoRow
  BY <1>2, <1>k, EmptyIsWhole
<1>3. ASSUME NEW d \in Deals, row' \in {NewDraft(d), NewDialog(d)}
      PROVE  WholeRow(row')
  <2>1. NewDraft(d).post = NoPost /\ NewDialog(d).post = NoPost
    BY RowTypes
  <2> QED
    BY <1>3, <2>1, EmptyIsWhole
<1>4. ASSUME NEW m \in Messages, task[Message(m)].phase = "read",
             row' = IF m \in Texts THEN WithText(m, task[Message(m)].copy)
                                   ELSE WithPhoto(m, task[Message(m)].copy)
      PROVE  WholeRow(row')
  <2> DEFINE c == task[Message(m)].copy
  <2>1. c \in Row /\ c.deal \in Deals /\ WholeRow(c)
    BY <1>4, TaskIds DEF Held, WholeInv, TypeInv, TypeOK, InFlight, Task
  <2>2. row' = IF m \in Texts THEN WithText(m, c) ELSE WithPhoto(m, c)
    BY <1>4
  <2> HIDE DEF c
  <2> QED
    BY <2>1, <2>2, WritesWhole
<1>5. ASSUME NEW k \in Tasks, task[k].phase = "shown",
             row' = [task[k].copy EXCEPT !.state = "POST", !.preview = task[k].copy.post]
      PROVE  WholeRow(row')
  <2>1. task[k].copy \in Row /\ WholeRow(task[k].copy)
    BY <1>5 DEF Held, WholeInv, TypeInv, TypeOK, Task
  <2>2. row'.post = task[k].copy.post /\ row'.album = task[k].copy.album
    BY <1>5, <2>1, RowTypes
  <2> QED
    BY <2>1, <2>2 DEF WholeRow
<1>6. ASSUME NEW k \in Tasks, task[k].phase = "cancel", task[k].copy.state = "POST",
             row' = NewDraft(task[k].copy.deal)
      PROVE  WholeRow(row')
  <2>1. task[k].copy.deal \in Deals
    BY <1>6 DEF TypeInv, InFlight
  <2>2. row'.post = NoPost
    BY <1>6, <2>1, RowTypes
  <2> QED
    BY <2>2, EmptyIsWhole
<1> QED
  BY <1>k, <1>1, <1>2, <1>3, <1>4, <1>5, <1>6 DEF RowShape

LEMMA WholeCopyStep ==
    ASSUME TypeInv, WholeInv, Shape, NEW k \in Tasks
    PROVE  /\ task'[k].phase \in Held \ {"make"} => WholeRow(task'[k].copy)
           /\ task'[k].phase = "make" => IsWhole(task'[k].copy.post)
<1>k. /\ CopyShape(k) /\ WholeRow(row) /\ \A d \in Deals : IsWhole(target[d])
      /\ task[k].phase \in Held \ {"make"} => WholeRow(task[k].copy)
      /\ task[k].phase = "make" => IsWhole(task[k].copy.post)
      /\ \A d \in Deals : target[d] \in Post
  BY DEF Shape, TaskShape, WholeInv, AlbumsAreWhole, TypeInv, TypeOK
<1>1. CASE task'[k] = task[k]
  BY <1>1, <1>k
<1>2. CASE task'[k].phase \in {"read", "shown", "accept"} /\ task'[k].copy = row
  BY <1>2, <1>k
<1>4. ASSUME NEW d \in Deals, task'[k] = [phase |-> "make", copy |-> Loaded(d, target[d])]
      PROVE  task'[k].phase = "make" /\ IsWhole(task'[k].copy.post)
  <2>1. Loaded(d, target[d]).post = target[d]
    BY <1>k, RowTypes
  <2> QED
    BY <1>4, <1>k, <2>1
<1>5. CASE task'[k].phase \notin Held
  BY <1>5 DEF Held
<1>6. \/ task'[k] = task[k]
      \/ task'[k].phase \notin Held
      \/ task'[k].phase \in {"read", "shown", "accept"} /\ task'[k].copy = row
      \/ \E d \in Deals : task'[k] = [phase |-> "make", copy |-> Loaded(d, target[d])]
  BY <1>k DEF CopyShape, Held
<1> QED
  BY <1>1, <1>2, <1>4, <1>5, <1>6

LEMMA WholeStep ==
    ASSUME TypeInv, WholeInv, Shape
    PROVE  WholeInv'
<1>1. AlbumsAreWhole'
  <2>k. /\ target \in [Deals -> Post] /\ DealShape
        /\ \A d \in Deals : IsWhole(target[d])
    BY DEF TypeInv, TypeOK, Shape, WholeInv, AlbumsAreWhole
  <2>1. ASSUME NEW k \in Tasks, task[k].phase \in {"make", "accept"}
        PROVE  IsWhole(task[k].copy.post)
    BY <2>1, WholeRowIsWhole DEF WholeInv, Held
  <2>2. \A d \in Deals : IsWhole(target'[d])
    <3> TAKE d \in Deals
    <3>1. ASSUME NEW k \in Tasks, task[k].phase \in {"make", "accept"}, SavesTarget(k)
          PROVE  IsWhole(target'[d])
      <4>1. target'[d] = IF d = task[k].copy.deal THEN task[k].copy.post ELSE target[d]
        BY <2>k, <3>1 DEF SavesTarget
      <4> QED
        BY <2>k, <2>1, <3>1, <4>1
    <3> QED
      BY <2>k, <3>1 DEF DealShape
  <2> QED
    BY <2>2 DEF AlbumsAreWhole, IsWhole
<1> QED
  BY <1>1, WholeRowStep, WholeCopyStep DEF WholeInv, WholeRow, IsWhole

LEMMA InitWhole == Init => WholeInv
<1> SUFFICES ASSUME Init PROVE WholeInv
  OBVIOUS
<1>1. row.post = NoPost /\ \A d \in Deals : target[d] = NoPost
  BY RowTypes DEF Init
<1>2. \A k \in Tasks : task[k].phase = "new"
  BY DEF Init, Started
<1>3. IsWhole(NoPost)
  BY DEF IsWhole, NoPost
<1> QED
  BY <1>1, <1>2, <1>3, EmptyIsWhole DEF WholeInv, AlbumsAreWhole, Held

(* The photos of a post that is kept for a deal are of one album, under no *)
(* text but a caption of theirs, in no order of photos, timers and buttons. *)
THEOREM AlbumsAreWholeCorrect == Spec => []AlbumsAreWhole
<1>1. TypeInv /\ WholeInv /\ [Next]_vars => WholeInv'
  BY NextShape, WholeStep DEF TypeInv
<1> QED
  BY <1>1, InitWhole, TypeInvCorrect, PTL DEF Spec, WholeInv
-----------------------------------------------------------------------------
(* No photo is lost. *)

Photos == Messages \ Texts
Reading(m) == task[Message(m)].phase = "read"

\* One photo at a time is between reading the row and writing it.  While it is, the
\* row may lose its album, but it is not filled with other photos of an album.
KeptInv ==
    /\ \A m, n \in Photos : Reading(m) /\ Reading(n) => m = n
    /\ ~stale => \A m \in Photos :
          Reading(m) /\ row.album # None /\ row.post.images # {} =>
             /\ row.album = task[Message(m)].copy.album
             /\ row.post.images = task[Message(m)].copy.post.images

NoNewReader ==
    \A m \in Photos : Reading(m)' => task'[Message(m)] = task[Message(m)]

LEMMA OtherTask ==
    ASSUME task \in [Tasks -> Task], NEW k \in Tasks, NEW v, v.phase # "read",
           task' = [task EXCEPT ![k] = v]
    PROVE  NoNewReader
BY TaskIds DEF NoNewReader, Reading, Photos

LEMMA EndsQuietly ==
    ASSUME task \in [Tasks -> Task], NEW k \in Tasks, task' = [task EXCEPT ![k] = Done]
    PROVE  NoNewReader
<1>1. Done.phase # "read"
  BY DEF Done
<1> QED
  BY <1>1, OtherTask

\* A goroutine goes on, and not to read a row as a photo.
LEMMA GoesOnQuietly ==
    ASSUME task \in [Tasks -> Task], NEW k \in Tasks, NEW from, NEW phase, NEW copy,
           phase # "read", GoesOn(k, from, phase, copy)
    PROVE  NoNewReader
<1>1. [phase |-> phase, copy |-> copy].phase # "read"
  OBVIOUS
<1> QED
  BY <1>1, OtherTask DEF GoesOn

\* The row is kept or leaves its album, and no photo reads it.
Aside == stale' = stale /\ (row' = row \/ row'.album = None) /\ NoNewReader

LEMMA MessageAside ==
    ASSUME TypeOK, NEW m \in Messages,
           \/ OnText(m) \/ OnDialogText(m)
           \/ (m \in Texts /\ WriteDraft(m)) \/ ReadBack(m) \/ StartTimer(m)
           \/ Relay(m) \/ ClearAfterRelay(m)
           \/ TimerFires(m) \/ TimerForgets(m) \/ TimerReads(m)
    PROVE  Aside
<1>k. /\ task \in [Tasks -> Task] /\ Message(m) \in Tasks /\ Timer(m) \in Tasks
      /\ NoRow.album = None
  BY TaskIds, RowTypes DEF TypeOK
<1>1. CASE OnText(m)
  <2>1. task' = [task EXCEPT ![Message(m)] = [phase |-> "read", copy |-> row]] /\ m \in Texts
    BY <1>1 DEF OnText, Reads, GoesOn
  <2>2. NoNewReader
    BY <2>1, <1>k, TaskIds DEF NoNewReader, Reading, Photos
  <2> QED
    BY <1>1, <2>2 DEF Aside, OnText, Reads
<1>2. CASE OnDialogText(m)
  BY <1>2, <1>k, GoesOnQuietly DEF OnDialogText, Aside
<1>3. CASE m \in Texts /\ WriteDraft(m)
  <2>1. NoNewReader
    BY <1>3, <1>k, GoesOnQuietly DEF WriteDraft
  <2>2. row' = WithText(m, task[Message(m)].copy) /\ stale' = stale
    BY <1>3 DEF WriteDraft
  <2>3. row'.album = None
    <3>1. task[Message(m)].copy.deal \in Deals \union {None}
      BY <1>k DEF Task, Row
    <3> QED
      BY <2>2 DEF WithText, NewDraft, NoRow
  <2> QED
    BY <2>1, <2>2, <2>3 DEF Aside
<1>4. CASE ReadBack(m)
  <2>1. NoNewReader
    BY <1>4, <1>k, GoesOnQuietly, EndsQuietly DEF ReadBack, Shows, Ends
  <2> QED
    BY <1>4, <2>1 DEF ReadBack, Shows, Aside
<1>5. CASE StartTimer(m)
  <2>1. \A k \in Tasks : task'[k] \in {task[k], Done, [phase |-> "armed", copy |-> NoRow]}
    BY <1>5 DEF StartTimer
  <2>2. NoNewReader
    BY <2>1, TaskIds DEF NoNewReader, Reading, Photos, Done
  <2> QED
    BY <1>5, <2>2 DEF StartTimer, Aside
<1>6. CASE Relay(m)
  <2>1. NoNewReader
    BY <1>6, <1>k, GoesOnQuietly, EndsQuietly DEF Relay, Ends
  <2> QED
    BY <1>6, <2>1 DEF Relay, Aside
<1>7. CASE ClearAfterRelay(m)
  BY <1>7, <1>k, EndsQuietly DEF ClearAfterRelay, Ends, Aside
<1>8. CASE TimerFires(m)
  BY <1>8, <1>k, GoesOnQuietly DEF TimerFires, Aside
<1>9. CASE TimerForgets(m)
  BY <1>9, <1>k, GoesOnQuietly DEF TimerForgets, Aside
<1>10. CASE TimerReads(m)
  <2>1. NoNewReader
    BY <1>10, <1>k, GoesOnQuietly, EndsQuietly DEF TimerReads, Shows, Ends
  <2> QED
    BY <1>10, <2>1 DEF TimerReads, Shows, Aside
<1> QED
  BY <1>1, <1>2, <1>3, <1>4, <1>5, <1>6, <1>7, <1>8, <1>9, <1>10

LEMMA TapAside ==
    ASSUME TypeInv, NEW k \in Taps,
           \/ AcceptPost(k) \/ HandleCancel(k) \/ TapStep(k)
           \/ \E d \in Deals : MakeDeal(k, d)
    PROVE  Aside
<1>k. task \in [Tasks -> Task] /\ Tap(k) \in Tasks /\ NoRow.album = None
  BY TaskIds, RowTypes DEF TypeInv, TypeOK
<1>1. CASE AcceptPost(k)
  BY <1>1, <1>k, GoesOnQuietly DEF AcceptPost, Aside
<1>2. CASE HandleCancel(k)
  <2>1. NoNewReader
    BY <1>2, <1>k, GoesOnQuietly DEF HandleCancel
  <2> QED
    BY <1>2, <2>1 DEF HandleCancel, Aside
<1>3. ASSUME NEW d \in Deals, MakeDeal(k, d) PROVE Aside
  BY <1>3, <1>k, GoesOnQuietly DEF MakeDeal, Aside
<1>4. CASE SaveTarget(k)
  BY <1>4, <1>k, GoesOnQuietly DEF SaveTarget, Aside
<1>5. CASE ClearAfterAccept(k)
  BY <1>5, <1>k, EndsQuietly DEF ClearAfterAccept, Ends, Aside
<1>6. CASE CancelDraft(k)
  <2>1. NoNewReader
    BY <1>6, <1>k, EndsQuietly DEF CancelDraft, Ends
  <2>2. task[Tap(k)].phase = "cancel"
    BY <1>6 DEF CancelDraft, Ends
  <2>3. task[Tap(k)].copy.state = "POST" => task[Tap(k)].copy.deal \in Deals
    BY <1>k, <2>2 DEF TypeInv, InFlight
  <2>4. row'.album = None
    BY <1>6, <1>k, <2>3, RowTypes DEF CancelDraft
  <2> QED
    BY <1>6, <2>1, <2>4 DEF CancelDraft, Aside
<1>7. CASE MakeDealWrites(k)
  BY <1>7, <1>k, EndsQuietly DEF MakeDealWrites, Ends, Aside
<1> QED
  BY <1>1, <1>2, <1>3, <1>4, <1>5, <1>6, <1>7 DEF TapStep

\* Every step but three.
LEMMA NextMoves ==
    ASSUME TypeInv, [Next]_vars
    PROVE  \/ Aside
           \/ \E m \in Photos : OnMedia(m) \/ WriteDraft(m)
           \/ \E k \in Tasks : SavePreview(k)
<1>k. TypeOK /\ task \in [Tasks -> Task]
  BY DEF TypeInv, TypeOK
<1>1. CASE UNCHANGED vars
  BY <1>1 DEF vars, bot, Aside, NoNewReader
<1>2. ASSUME NEW d \in Deals, SendDealData(d) \/ HandleDialog(d) \/ HandlePost(d) \/ DealStep(d)
      PROVE  Aside
  <2>1. task' = task /\ stale' = stale
    BY <1>2 DEF SendDealData, HandleDialog, HandlePost, DealStep, Negotiate,
                HandleAutoPost, AutoPostFails, bot
  <2>2. row' = row \/ row'.album = None
    BY <1>2, RowTypes DEF SendDealData, HandleDialog, HandlePost, DealStep, Negotiate,
                          HandleAutoPost, AutoPostFails, bot
  <2> QED
    BY <2>1, <2>2 DEF Aside, NoNewReader
<1>5. ASSUME NEW k \in Tasks, HandlerFails(k) PROVE Aside
  BY <1>5, <1>k, EndsQuietly DEF HandlerFails, Aside
<1>6. CASE Crash
  <2>1. \A k \in Tasks : task'[k] \in {task[k], Done}
    BY <1>6 DEF Crash
  <2>2. NoNewReader
    BY <2>1, TaskIds DEF NoNewReader, Reading, Photos, Done
  <2> QED
    BY <1>6, <2>2 DEF Crash, Aside
<1>7. ASSUME NEW m \in Messages, MessageStep(m)
      PROVE  Aside \/ (m \in Photos /\ WriteDraft(m)) \/ SavePreview(Message(m))
  BY <1>7, <1>k, TaskIds, MessageAside DEF MessageStep, Photos
<1>8. ASSUME NEW m \in Messages, TimerStep(m)
      PROVE  Aside \/ SavePreview(Timer(m))
  BY <1>8, <1>k, TaskIds, MessageAside DEF TimerStep
<1>9. CASE UserStep
  BY <1>2, <1>9, <1>k, MessageAside, TapAside DEF UserStep, OnMedia, Photos
<1>10. ASSUME NEW k \in Taps, TapStep(k) PROVE Aside
  BY <1>10, TapAside
<1> QED
  BY <1>1, <1>2, <1>5, <1>6, <1>7, <1>8, <1>9, <1>10, TaskIds DEF Next, Photos

\* What the preview is saved with, when it is what the row holds.
LEMMA PreviewKeeps ==
    ASSUME TypeInv, NEW k \in Tasks, SavePreview(k), ~stale'
    PROVE  /\ ~stale /\ row'.post = row.post /\ row.post = task[k].copy.post
           /\ row'.album = task[k].copy.album
<1>1. task[k].copy \in Row
  BY DEF TypeInv, TypeOK, Task
<1>2. row' = [task[k].copy EXCEPT !.state = "POST", !.preview = task[k].copy.post]
  BY DEF SavePreview
<1>3. row'.post = task[k].copy.post /\ row'.album = task[k].copy.album
  BY <1>1, <1>2, RowTypes
<1>4. ~stale /\ row.post = task[k].copy.post
  BY Zenon DEF SavePreview
<1> QED
  BY <1>3, <1>4

LEMMA KeptStep ==
    ASSUME TypeInv, WholeInv, KeptInv, [Next]_vars
    PROVE  KeptInv'
<1>k. task \in [Tasks -> Task] /\ \A m \in Photos : Message(m) \in Tasks
  BY TaskIds DEF TypeInv, TypeOK, Photos
<1>1. CASE Aside
  BY <1>1 DEF Aside, NoNewReader, KeptInv, Reading
<1>2. ASSUME NEW m \in Photos, OnMedia(m) PROVE KeptInv'
  <2>1. /\ row' = row /\ stale' = stale
        /\ task' = [task EXCEPT ![Message(m)] = [phase |-> "read", copy |-> row]]
        /\ \A n \in Photos : ~Reading(n)
    BY <1>2 DEF OnMedia, Reads, GoesOn, Photos, Reading
  <2>2. task'[Message(m)].copy = row
    BY <1>k, <2>1
  <2>3. \A n \in Photos : n # m => task'[Message(n)] = task[Message(n)]
    BY <1>k, <2>1, TaskIds DEF Photos
  <2> QED
    BY <2>1, <2>2, <2>3 DEF KeptInv, Reading
<1>3. ASSUME NEW m \in Photos, WriteDraft(m) PROVE KeptInv'
  <2>1. /\ Reading(m) /\ task' = [task EXCEPT ![Message(m)] = [phase |-> "wrote", copy |-> NoRow]]
    BY <1>3 DEF WriteDraft, GoesOn, Reading
  <2>2. task'[Message(m)].phase = "wrote"
    BY <1>k, <2>1
  <2>3. \A n \in Photos : n # m => task'[Message(n)] = task[Message(n)]
    BY <1>k, <2>1, TaskIds DEF Photos
  <2>4. \A n \in Photos : ~Reading(n)'
    BY <2>1, <2>2, <2>3 DEF KeptInv, Reading
  <2> QED
    BY <2>4 DEF KeptInv
<1>4. ASSUME NEW k \in Tasks, SavePreview(k) PROVE KeptInv'
  <2>1. NoNewReader /\ task[k].phase = "shown"
    BY <1>4, <1>k, EndsQuietly DEF SavePreview, Ends
  <2>2. \A m, n \in Photos : Reading(m)' /\ Reading(n)' => m = n
    BY <2>1 DEF KeptInv, NoNewReader, Reading
  <2>3. ASSUME ~stale', NEW m \in Photos, Reading(m)', row'.album # None, row'.post.images # {}
        PROVE  /\ row'.album = task'[Message(m)].copy.album
               /\ row'.post.images = task'[Message(m)].copy.post.images
    <3>1. /\ ~stale /\ row'.post = row.post /\ row.post = task[k].copy.post
          /\ row'.album = task[k].copy.album
      BY <1>4, <2>3, PreviewKeeps
    <3>2. WholeRow(row) /\ WholeRow(task[k].copy)
      BY <2>1 DEF WholeInv, Held
    <3>3. row.album = row'.album
      BY <2>3, <3>1, <3>2 DEF WholeRow
    <3>4. task'[Message(m)] = task[Message(m)] /\ Reading(m)
      BY <2>1, <2>3 DEF NoNewReader, Reading
    <3> QED
      BY <2>3, <3>1, <3>3, <3>4 DEF KeptInv
  <2> QED
    BY <2>2, <2>3 DEF KeptInv
<1> QED
  BY <1>1, <1>2, <1>3, <1>4, NextMoves

LEMMA InitKept == Init => KeptInv
<1> SUFFICES ASSUME Init PROVE KeptInv
  OBVIOUS
<1>1. \A m \in Photos : task[Message(m)].phase = "new"
  BY TaskIds DEF Init, Started, Photos
<1> QED
  BY <1>1 DEF KeptInv, Reading

(* For any deals, messages, buttons and faults: no photo of the album at hand  *)
(* is lost by another photo or a timer, unless a stale preview was saved.  It  *)
(* is the mutex of the user that makes it so, and not the timers.              *)
THEOREM PhotosAreKeptCorrect == Spec => PhotosAreKept
<1>1. TypeInv /\ WholeInv /\ [Next]_vars => WholeInv'
  BY NextShape, WholeStep DEF TypeInv
<1>2. TypeInv /\ WholeInv /\ KeptInv /\ [Next]_vars => KeptInv'
  BY KeptStep
<1>3. TypeInv /\ WholeInv /\ KeptInv /\ [Next]_vars =>
        [row.state = "POST" /\ row'.album = row.album /\ row.album # None /\ ~stale'
           => row.post.images \subseteq row'.post.images]_vars
  <2> SUFFICES ASSUME TypeInv, WholeInv, KeptInv, [Next]_vars,
                      row'.album = row.album, row.album # None, ~stale'
               PROVE  row.post.images \subseteq row'.post.images
    OBVIOUS
  <2>1. CASE Aside
    BY <2>1 DEF Aside
  <2>2. ASSUME NEW m \in Photos, OnMedia(m) PROVE row' = row
    BY <2>2 DEF OnMedia, Reads
  <2>3. ASSUME NEW m \in Photos, WriteDraft(m), row.post.images # {}
        PROVE  row.post.images \subseteq row'.post.images
    <3> DEFINE c == task[Message(m)].copy
    <3>1. Reading(m) /\ row' = WithPhoto(m, c) /\ ~stale
      BY <2>3 DEF WriteDraft, GoesOn, Reading, Photos
    <3>2. row.album = c.album /\ row.post.images = c.post.images
      BY <2>3, <3>1 DEF KeptInv
    <3>3. m \in Messages /\ c \in Row /\ c.deal \in Deals /\ Message(m) \in Tasks
      BY <3>1, TaskIds DEF Photos, Reading, TypeInv, TypeOK, Task, InFlight, Held
    <3> HIDE DEF c
    <3>4. row'.album = AlbumOf[m]
      BY <3>1, <3>3, PhotoTypes
    <3>5. row'.post.images = c.post.images \union {m}
      BY <3>1, <3>2, <3>3, <3>4 DEF WithPhoto, Row
    <3> QED
      BY <3>2, <3>5
  <2>4. ASSUME NEW k \in Tasks, SavePreview(k) PROVE row'.post = row.post
    BY <2>4, PreviewKeeps
  <2> QED
    BY <2>1, <2>2, <2>3, <2>4, NextMoves
<1> QED
  BY <1>1, <1>2, <1>3, InitWhole, InitKept, TypeInvCorrect, PTL DEF Spec, PhotosAreKept
=============================================================================
