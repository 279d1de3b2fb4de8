# TAM backend: a verification project in TLA+

TAM is the backend of a Telegram advertising marketplace. An advertiser offers a
deal to the manager of a channel, both negotiate the post and the time over a
REST API and a Telegram bot, the price is held in escrow on the advertiser's TON
balance, the backend publishes the post, watches that it stays up, and pays the
manager or refunds the advertiser.

Everything here is translated from the Go code under `src/`. Paths below are
relative to `src/internal/modules/` unless they start with `src/`.

    tlc -config MCEscrow_race.cfg MCEscrow.tla     model-check one run
    tlapm EscrowProofs.tla                         check the proofs

## 1. Inventory

One process (`src/cmd/backend/main.go`), one PostgreSQL database, no locks, no
row locking and only two multi-statement transactions
(`TransferBalanceToManagerForDeal`, `ProcessDepositForTransaction`).  Echo runs
every HTTP request in a goroutine of its own; the loops below are goroutines
started once.

| Component | State | Operations | Talks to |
|---|---|---|---|
| Customer balances, `storage/customers.go` | `ton_balance`, `ton_balance_locked` of each customer | lock, unlock, transfer, deduct, refund; one SQL statement each (transfer: a transaction of two) | deal handlers, publisher, refunder, withdrawal, deposits |
| Deal HTTP handlers, `server/deal_handlers.go`, `server/middleware.go` | the `deals` table: status, `expires_at`, publication time, deadlines | offer, make, cancel, accept, propose time, approve, decline | balances; Notification, Dialog and Post channels |
| Deal publisher, `server/deal_publisher.go` | nothing of its own: lists it read | every 30 s: expire, pay and complete, claim and hand to the bot | deals, balances, AutoPost channel |
| Refunder, `server/balance_cron.go` | nothing of its own | every 15 s: unlock, set `balance_refunded` | deals, balances |
| Bridge, `channels/channels.go` | seven in-memory Go channels: Dialog and Post without a buffer, Notification, Deal, AdminMessage, CodeMessage and AutoPost with 100 places | send (AutoPost non-blocking, the others block when there is no place), receive | server and bot |
| Auto-posting, `telegram_bot/async.go` | the entry being handled | send to Telegram, store the message ids, PUBLISHED or an error status | deals, Telegram |
| Post monitoring, `telegram_bot/post_monitoring.go` | nothing of its own | every 15 s: look at t.me, TERMS_VIOLATED | deals, t.me |
| Channel monitoring, `telegram_bot/channel_monitoring.go` | nothing of its own | bot removed, foreign post: TERMS_VIOLATED | deals, Telegram updates |
| Bot dialogues and drafts, `telegram_bot/{main,post,dialog}_handlers.go`, `storage/dialogs.go` | one dialogue row per user, album timers, the `target` of a deal | start, text, media, accept a post, relay a message | deals, Dialog and Post channels |
| Withdrawal, `server/balance_handlers.go`, `ton/wallet.go` | nothing of its own | check, deduct, send, refund after an error | balances, TON |
| Deposits, `ton/indexer.go`, `ton/deposit_processor.go`, `storage/indexer.go` | `last_seqno`, the `transactions` table, the address book | index blocks, save, credit | balances, TON |
| Registration, `server/auth_handlers.go`, `telegram_bot/main_handlers.go`, `server/customer_handlers.go` | customer rows with unique wallet addresses, tokens | create, assign a wallet, register, update the profile | customers |
| Channel registry, `server/channel_handlers.go`, `storage/channels.go` | channel rows, their links to customers | add, describe, delete (cascades to links and deals), shut | statistics bot, deals, Telegram updates |
| Statistics bot, `stats_bot/` | the login of its Telegram client; nothing per request | log in over the bridge, ask Telegram for a channel, compute figures | bridge, Telegram, channel registry |
| Pure helpers, `src/internal/common/deal_target.go`, `telegram_bot/util.go` | none | parse, validate | all |
| Briefs, uploads, messages, logging | rows nobody else writes, or none | I/O | – |

**What is hard here.**  The middleware loads a deal, the handler checks that copy,
and `UpdateDeal` writes `WHERE id = ?` only: a status is never compared when it
is written.  Seven kinds of actor write it.  Money and status change in separate
statements, so a crash, a failed statement or a cancelled request context between
the two leaves them apart.  A claim is committed before the post is made, and the
request to post lives in memory.  Loops work through lists read earlier.

**What makes each part correct.**  Balances: no amount is created or lost, none is
negative.  A deal: it is paid or refunded, once, and only from money locked for
it; a deal that ended stays ended; the post appears at the time both agreed on
and is displayed for the time paid for; every deal ends.  Deposits: each incoming
transaction is credited exactly once, to the customer it was sent to.  Withdrawal: what leaves the balance
arrives or comes back.  Drafts: what is approved is what is posted.  Bridge: no
request and no loop hangs, the one consumer never waits for itself, and an answer
belongs to the question that was asked.  Registration: everybody gets a wallet, and
nobody the wallet of another.  Registry: a channel has one manager, its deals are
with that manager, and it is open only with the bot in it.  Statistics: what a
channel is shown with was true of it.  The
hazards, each at its line, are in `PROJECT.json`.

## 2. Plan

Modules, the most important behaviour first.

| # | Module | Models | State |
|---|---|---|---|
| 1 | `Ledger` | the SQL statements on the two money columns | done |
| 2 | `Escrow` (EXTENDS `Ledger`) | deals and everybody who writes their status | done |
| 3 | `DealContract` (abstract), `EscrowContract` (the refinement) | what a deal promises its parties | done |
| 4 | `EscrowProofs` | types, balances, books, refunds, funding, displays, posts, and that `Escrow` keeps the contract | done |
| 5 | `Deposits` (EXTENDS `Ledger`), `DepositsProofs` | chain of one shard, indexer, address book, transactions table, deposit processor | done |
| 6 | `Withdrawal` (EXTENDS `Ledger`), `WithdrawalProofs` | check, deduct, send, wait, compensate; a chain that answers late | done |
| 7 | `PostDraft`, `PostDraftProofs` | the row of a user in `bot_states`, goroutine by goroutine, album timers, the target of a deal | done |
| 8 | `Bridge`, `BotProofs` | the Go channels, those who block on them, the one consumer, the login of the statistics bot | done |
| 9 | `Registration`, `RegistrationProofs` | the ways to become a customer with a wallet | done |
| 10 | `ChannelRegistry`, `RegistryProofs` | channels, their managers and what hangs on them | done |
| 11 | `ChannelStats` (EXTENDS `Figures`), `BotProofs` | what the statistics bot says of a channel, call by call, and the figures: sorting, median, mean, shares | done |
| 12 | `Totals`, `TotalsTheorems` | sums of tables, for what is said of all the money there is; what the figures come to | done |

`Escrow`, `Deposits` and `Withdrawal` are three users of the columns in `Ledger`; the
deals in `Withdrawal` are the statements of `Escrow` that touch balances, in any order.
`Deposits` has of registration what writes the address columns; `Registration` has the rest.  `PostDraft`
shares the status of a deal with `Escrow` and keeps only the path to publication.
`Bridge` has every Go channel and everybody who sends to one, but not what the
messages do; `Escrow` has the AutoPost channel with the deals in it.
`ChannelRegistry` has of a deal what hangs on its channel, and of `ChannelStats` only
the two answers, yes or no and with or without statistics.

## 3. Escrow: model and code

**Rows.**  `status`, `expires_at`, `publication_time`, `top_deadline`,
`common_deadline`, `balance_refunded` are the columns of the deals table;
`channel_post_ids` only says whether message ids are stored.  `NONE` is a row that
does not exist yet.  `top_duration` and `common_duration` are the constants
`TopHours` and `CommonHours`, one tick being whatever unit they are counted in.

**Requests.**  `Begin(r, op, d)` is the middleware loading the deal plus the check
the handler makes on that copy; a failed check answers 400 and changes nothing, so
it is no step.  What the handler writes later is the second step of the request.
`MakeDeal` has three: `MakeLock`, then `MakeWrite`, or `MakeReject` when the
conditional update finds too little money.  Validation of texts, prices and times
is left out, except that a publication time lies at least `Lead` ahead.
`ReviseDealData` exists but is not routed, `SendDealBrief` is empty, and
`SendDealData` and `DealMessage` only hand over to the bot.

**Publisher.**  `publisher.phase` is the place in the loop body, `todo` what is left
of the list the last query returned: `PublisherTick` (query of expired deals) –
`ExpireOne` – `StartComplete` (query) – `PayOne`, `MarkCompleted` – `StartPublish`
(query and clock) – `ClaimOne`, then `SendAutoPost` or `RevertClaim` –
`PublisherRests`.  `PublisherFails` is a statement that returns an error.

**Refunder.**  `RefunderTick` (query), `RefundOne` (unlock), `FlagRefunded`.  A tick
that finds nothing is left out: it changes nothing.

**Bot.**  `autopost` is the Go channel.  `BotTakes`, then `BotPosts` (Telegram has the
post) and `BotRecords` (the row), or `BotGivesUp` (bad target, Telegram refuses).

**Voiding.**  `monitor`, `kicked` and `foreign` are the lists three actors read
before they write deal by deal.  What t.me answers, and when somebody removes the
bot or posts, is nondeterministic.  Telegram delivers its updates to handlers in
goroutines; one handler of each kind at a time is modelled.  A message of the bot
itself that arrives before its ids are stored is the `foreign` case as well.

**Crash.**  Everything outside the database is lost and the process starts again.

**History variables** (`locks`, `refunds`, `payouts`, `overrun`, `torn`, `faults`) are
read by no action.  `overrun[d]` records that a status was written that the
writer's own check would no longer have allowed; `torn[d]` that a fault separated a
money movement from the row update that belongs to it; `misdated[d]` that an
approval landed whose deadlines belong to a publication time the row no longer has.
They are what lets `SettledExactly` and `DisplayedAsAgreed` say under which
circumstances the account of a deal is exact and its display the one agreed on,
instead of assuming that nothing goes wrong.  A display that was agreed again at
another time, or paid before its end, violates `DisplayedAsAgreed`.

**The contract.**  `DealContract` knows neither tables nor actors: a deal is offered,
agreed when its price is set aside, displayed, and then paid for and settled, or it
is over and its price given back, each once.  `EscrowContract` maps the statuses to
these stages and the counters to the sums, with `Landed(d)` the locks whose deal row
was written.  A lock is one step of the ledger and another of the row; the contract
sees it when the second is done.  `Break` stands for what the code does not prevent:
a contract is broken exactly when `overrun` or `torn` say so, or when a display is
paid for that somebody ended between the query of the publisher and the transfer
(`PaidTooLate`).  Everything else a handler, a loop or a fault does is a step of the
contract or none.

`BooksBalance` is the other half: whatever is broken, the two columns of every
customer always are the sum of the locks, refunds and payments that happened.  That
sum, and the sums of `BalanceIsDeposits` and `Solvent`, are `Total` of `Totals`, which
counts units instead of recurring over a set; `MCEscrow` compares it with
`MapThenSumSet` of the community modules on small tables, in an `ASSUME`.

## 4. Deposits: model and code

**Chain** (external).  One shard.  `NewShardBlock` makes a block with some of the
transfers still to be sent, `NewMasterBlock` names the newest shard block: the same
as before when there was none, and not all of them when there were several
(`Burst`).  Master blocks are counted from the one at which the row of
`indexer_state` was created, because nothing before it is ever looked at.

**Indexer.**  `cycle` is the loop of `processAllPendingBlocks`: `StartCycle` reads
`last_seqno` and the current master block, `OpenBlock` asks for the shard block and its
transactions (`todo`), each of which is then saved (`SaveTransaction`), passed over
because its address is not in the book (`IgnoreTransaction`), or lost to an error
that is logged (`CheckTransactionFails`); `NextBlock`, and in the end `EndCycle` and
`SaveState`.  `BlockFails` is the error that ends a cycle after recording the blocks
before the broken one.  Transactions that are no incoming transfer to some customer
credit nothing and are left out.

**Addresses.**  `bounceable` and `nonbounceable` are the two columns of `customers`, each
UNIQUE by itself (`Free`).  `Register` writes both forms of the address of the subwallet
(`Own`); `UpdateMe` any strings, for one column or both: the address of another customer,
or `Other`, which is every string that is no bounceable address on the chain.  A transfer
is saved with the bounceable form of the address it went to, so `Other` finds nobody.

**Address book.**  `RefreshBook` replaces `book` by the bounceable column of the moment.

**Processor.**  `ListProcessing` reads ids (`batch`).  `FindCustomer` reads one row again and
looks for the customer who has its address in a column *now*: when there is none, or more
than one (`HolderOf`), the row is left as it is, to be listed again at the next tick.
`ProcessDeposit` credits whom it found and marks the row DONE, in one transaction; the
addresses may have changed since the lookup.

**Crash** loses the cycle, the batch, the lookup and the book.  History: `credited` and
`payee` how often and to whom, `edits` who replaced an address, `missed` what a scan passed
over.

## 5. Withdrawal: model and code

`call[r].phase` is where the handler of request `r` stands: `Check` (the customer was
loaded and has the balance), `Deduct` (the conditional update) or `Refuse`, `Send`
(the message is built with the seqno of the subwallet and broadcast) or `SendFails`,
`Confirm` (the hash came) or `GiveUp` (an error while waiting), `Compensate` or
`CompensateFails`.  The chain is external: a message is accepted when its seqno is
the one of the subwallet, delivers if the coins are there, costs gas if they are
not, and expires.  Validation of amounts and addresses is left out: `Amounts` are the ones
that pass.

Deals between the customers move balances and no coins.  `HoldDeal`, `PayDeal` and
`ReturnDeal` are the three statements of `storage/customers.go`; only the lock has a
condition, on the spendable balance.  None asks whether the deal was locked or settled
before, so they come in any order and number here, up to `MaxMoved`: locked twice, paid
twice, returned without a lock.  Which of these happen is the subject of `Escrow`.  `locked`
and `settled` count what was moved for a deal.  What is owed for it is the difference, and
`Unbacked` is the part of what was settled that was never locked.

## 6. PostDraft: model and code

One user.  `row` is the row of `bot_states`; `NoRow` is no row.  Its data are the images,
the text (one message each, wording left out), the album id and the ids of the
preview messages, which stand for the post these show.  The target of a deal is its
post; `brief_data`, `story_data`, `repost_data` and `preferable_datetime` are left out.

Every update is a goroutine, `task[k]`: its phase, and the row it read and will write
back.  A message: `OnText` or `OnMedia` (reads the row), `WriteDraft` (the upsert of
`SetState`), `ReadBack` (the query after it and the calls to Telegram, if there is anything
to show: `Shows`), `SavePreview` (the upsert of the ids, with everything else as it was read).  The
mutex of the user is the guard of `OnMedia`: no other photo is between its read and
its end.  A photo of an album ends in `StartTimer` instead; the timer is `armed`, then
`fired`, `forgot` (deleted what `albumTimers` holds for the album by then), and shows
the post as a message does.  A text during a dialogue: `OnDialogText`, `Relay` (reads the
row again), `ClearAfterRelay`.  Buttons are pressed only after they were shown
(`buttons`; old ones remain in the chat): `AcceptPost`, `SaveTarget`,
`ClearAfterAccept`; `HandleCancel`, `CancelDraft`.  `SendDealData`, `HandlePost` and
`HandleDialog` are the requests of the server.  `MakeDeal` loads a deal, with a post or
without: its check asks for a target that is not nil, and the target of a deal without a
post is `{}`.  `MakeDealWrites` writes back what was loaded.  Then the deal goes its way
(`Negotiate`: accepting, proposing a time and approving, which leave the post alone), and
`HandleAutoPost` publishes what the target holds; when it holds nothing, `AutoPostFails`.

Each message is sent once and each button of `Taps` pressed once.  History:
`meant[m]` is the deal of the row when `m` was read, `posted` what was published,
`blank` the deals a make-deal request loaded without a post, `stale` that a preview was
saved over a post it did not show.

## 7. Bridge: model and code

`line[ch]` is what is in a channel: first the buffer, then the messages of the senders
that sleep behind it; `place[s]` is where goroutine `s` is in a line, if it sleeps.
`Send` completes a send into the buffer or falls asleep, `Take` receives the first
message and moves everybody behind it up, which is what the Go runtime does.
`Request` is a handler or a loop with what it has to send (`Sends`), `TryAutoPost` the
`select` with a `default`.  `consumer` is the goroutine of `listenChannels` with the
message it handles; every `Handle...` is a handler with its calls to the end.

`asked` is `ChanAuthenticator`: `Ask` sends the question (or fails, after five seconds,
when the channel is full), `Read` waits for a code.  The consumer passes the question
to the admins and puts each of them in ADMIN_MODE (`AskAdmin`); without admins it
answers itself (`HandleAdminAlone`, a send to a bounded channel by its only reader).
An admin's text goes `OnText`, `SendCode`, `ClearState`, in a goroutine of its own;
`Distract` is any other dialogue that takes the one row of the admin.  `Restart` loses
the channels and keeps the rows.  History: the prompts carry numbers, which the code
does not have; `odd`, `stale` and `erased` record how an answer and its question got
apart.

## 8. Registration: model and code

`call[r]` is one invocation of `onStart` or `onAuth`, statement by statement: `Look`,
`CreateCustomer`, `ReadBack` (the `wallet_hd_id` the database chose; `onStart` reads the
row twice and the second look finds the same), `SetAddress`, `Promote`, `GenerateJWT`.  Each may fail (`Fail`), and `Crash`
ends all of them.  The table is a function from users to rows: `tg_id` is UNIQUE.  So is
each of the two address columns; rows are inserted with `''` in both (`NewRow`), so there
is room for one such row (`Taken`).  `identity` is the identity column: an INSERT that is
refused uses a value up.  The form of the address of subwallet `n` that belongs into a
column is `n`, in either.

`UpdateMe` stores what the client sends, for one column or both, unchecked: `Strings` are
these strings, and there is no assumption about them.  `''`, the address of another
customer (which the UNIQUE column refuses) and the address of the subwallet that the next
customer will be given are among them; when that customer comes, `SetAddress` fails.
History: `edited` who did so, and `squatters[u]` who held the addresses when `u` was to get
them.  Names, pictures and the check of the Telegram signature are left out.

## 9. ChannelRegistry: model and code

`channels[c]` is the row of chat `c`, `links[i]` the customers linked to row `i`, the
first of whom is the manager of new deals; ids of rows are never used again.  `req[r]`
is a request between its statements: `AskStatsBot` – `CreateChannel` –
`AddCustomerChannel` or, after an error, `UndoCreate`; `LoadChannel` – `Activate`;
`BeginDelete` – `DeleteChannel`; `BeginOffer` – `CreateDeal`.  `update[c]` is the handling
of a removal of the bot: `FindRemoved` – `Shut` – `VoidDeals`.  The last is an UPDATE for
each deal and one step here, because `Escrow` has these steps (`kicked`).  Deals have
the stages the registry can tell apart: DRAFT, HELD (money locked, running), VOID
(violated, to be refunded), ENDED, and DELETED or STRANDED for rows that a cascade
took, without or with money locked for them.

`AddChannel` looks for the id of the statistics bot and stores the one of the Bot
API, `-(10^12 + id)`: the look never finds anything, the branch for a known channel
is never entered, and the second request fails at the UNIQUE column.  The branch has
no counterpart in the model.  History: `blind` has the chats whose removal met a
request under way or a fault, `orphaned` the rows a fault left without a link.

## 10. ChannelStats: model and code

One request, since requests write nothing: the phases of `req` are the six calls of
`GetChannel` in their order, with `req.full` the copy of `GetFullChannel` that is
checked after the next call.  `chat` is the channel in Telegram, and everything in it
may change between two calls (`Publish`, `Delete`, `View`, `JoinOrLeave`,
`MakePrivate`, `SetStanding`), at most `MaxChanges` times.  An admin's rights are `none`
(no admin), `some` (one of the three rights is missing) or `all`.  `Expire` is the
deadline of 60 seconds, after which every call fails; `CallFails` is any error: of the
first three calls it ends the request, of the others it leaves the figures empty.

The figures are operators: `PostsStats` (the newest `Window` posts that were seen, in
the order of the history, their mean and `CalculateMedian`) and `ParseLanguages`.  What
they are built from is in `Figures`: `Sorted` is `sort.Ints`, `Passing` a loop that passes
over some of the entries, `Average` and `CalculateMedian` follow the code line by line.
Integer division is that of Go on numbers that are not negative.  Shares are computed in
floating point and truncated to ten-thousandths (`Whole` is 10000) in the code; exact
division gives the same for every pair of numbers up to 60 that was compared.

The properties do not use what they judge: `Median` and `Mean` in `Figures` speak of a
table, a set of posts each with a number, not of a list in some order.  The median is a
value with fewer than half of the table below it and at least half up to it.

## 11. Runs

The `escrow` runs have one advertiser, one manager, one channel and a price of 2;
`Lifetime = 2`, `Lead = 1`, `CommonHours = 2`, `TopHours = 1`, except where the table says
more.

| Run | Instance | Shows |
|---|---|---|
| `escrow_race` | 1 deal, 2 requests, money for two locks, clock to 2, every deadline one tick, no fault, no watcher | `TypeOK` (with the bound of the AutoPost channel), `FundedBeforePaid`, `DisplayedAsAgreed`, `KeepsContract` (refinement) through every interleaving of two requests, publisher, refunder and bot |
| `escrow_faults` | 1 deal, 1 request, clock to 3, 1 fault, 2 watchers at once, fair loops | `BalanceNonNegative`, `RefundsBounded`, `BooksBalance`, `SettledExactly`, `PostedOnce` with a crash or a failed statement anywhere; `RefundsHappen`, `ExpiryHappens`, `CompletionHappens` |
| `deposits_faults` | 2 transfers to the subwallet of one of 2 customers, 1 profile update of each, 2 master blocks, 1 fault, fair loops | `CreditedOnce`, `IndexedUpToSeqno`, `BalanceIsDeposits`, `EveryDepositCredited` |
| `withdrawal_race` | 2 calls of 2 customers, amounts 1 and 3, fee 1, 2 deals of 3 with up to 3 locks and settlements each, 1 fault | `Solvent`: the coins cover what is owed, except for refunds of messages that were accepted and settlements beyond what was locked |
| `draft_deals` | 2 deals, 1 photo of an album, 1 text, 2 buttons, 1 fault | `PostsStayWithDeal`, `PendingHasPost`, `AlbumsAreWhole` |
| `draft_album` | 1 deal, 2 photos of an album, 1 text, no fault, fair handlers | `PhotosAreKept`, `PreviewHappens` |
| `bridge_traffic` | 2 senders, buffers of 1, three kinds of requests, a user who is an admin or is not, fair goroutines | `SendersGetThrough`, `ChannelsAreServed` |
| `bridge_login` | 1 sender, 2 users, 1 text at a time, 1 restart | `PromptIsAnswerable`, `CodesAreFresh`, `ConsumerNeverBlocks` |
| `registration_faults` | 2 users, 3 calls, `''` and the address of the second subwallet for what clients send, 1 fault, fair handlers | `WalletIsOwn`, `WalletlessIsExplained`, `WalletsArrive` |
| `registry_race` | 1 channel, 2 admins, 1 advertiser, 4 requests, 1 deal, 2 removals, 1 fault | `ChannelsHaveOneManager`, `DealsAreWithTheManager`, `OpenChannelsHaveTheBot`, `StrandedByItsManager` |
| `stats_answers` | histories of up to 3 posts, window of 3, shares in tenths, 2 changes, 1 failed call, the deadline | `AnswersAreTrue`, `AnswersFitTogether` |

**Why the bounds are enough.**  Two requests are what it takes for one to act
between the check and the write of another, and for a double lock; the middleware
gives them no other way to interact, and a third would only repeat the effect.
Three ticks let a deal be agreed at 0, published at 1 and completed at 3, and let it
expire in every status before that; in `escrow_race`, where every interval is one
tick, two are enough for the same.  The AutoPost channel has one place, which is
full while the bot posts the entry before it and the publisher offers the deal again;
that deals do not disturb each other is proved (`OneDealAtATime`).  One fault
reaches each gap between two statements; the theorems cover any number of faults,
deals and requests for the properties they prove.  Symmetry is over requests and
deals, which differ in nothing; it is off where liveness is checked.

In `Deposits` two master blocks let one repeat the shard block of the other, and let a cycle
over both break off between them (540 000 states).  Bursts are of one block: the
blocks a longer one hides are visited by nobody, and the theorems cover any length.  Two customers and one update of each let the
holder of an address give it up and another one take it, before the scan, between scan and
lookup, and between lookup and credit.  In `Withdrawal` two calls are two of one customer or
one of each, and three moves of a deal are a lock with a double settlement, a double lock
with a settlement, or settlements alone; one fault gives the refund of a message that was
delivered after all (810 000 states).  In `PostDraft` two
deals are what it takes to mistake one for the other, a photo and a text are the two
kinds of writers, two buttons let accepting, cancelling and making the deal overlap;
two photos let a timer be stopped, replaced and forgotten by the wrong one.

In `Bridge` one place in a buffer is filled by two senders, and one question fills
`CodeMessage` when it is answered twice; two admins answer the same question, and a
restart comes between an answer and its use.  In `Registration` two users meet at the
one empty address, the first can take the address of the second's subwallet before the
second registers, and the calls are enough for both handlers of one user to overlap
with one of the other (300 000 states).  In `ChannelRegistry` four requests are adding, describing,
deleting, and adding again by the other admin while an offer is under way takes the
place of one of them; two removals let one be handled while a request started after
the first is not over.  In `ChannelStats` three posts have a middle one, in every order
of views, and two changes put one before and one after any call; the theorems cover
histories, windows and graphs of any length.

**Fairness.**  Weak fairness of the publisher, the refunder and the bot: they are
goroutines whose tickers keep firing until the process is stopped, and after a
crash they start again.  Weak fairness of the clock.  None for requests, Telegram
or faults: nobody has to send, remove or post anything, and a started request may
stay where it is.  `FairSpec` keeps the fault actions out of the fair sets, so a
loop always gets its statements through in the end.  `Deposits`: the chain makes master
blocks, the indexer and the processor take their steps (both tickers fire until the
process stops), and the refresher is not needed.  `PostDraft`: a handler or a timer
that was started runs to its end; nobody has to send or press anything.  `Bridge`:
weak fairness of the goroutines, and strong fairness of `Take` for each channel, because
`select` chooses at random among the channels that are ready, so that none is passed
over for ever; nobody has to answer a question.  `Registration`: a handler that was
called executes its statements, each of which returns or is a fault.

### What the code does otherwise than it says

This run checks one property taken from a comment of the repository, and ends with a
counterexample.

| Run | Property | What happens |
|---|---|---|
| `escrow_refund_unlocked` | `RefundIsBacked` | a deal cancelled in DRAFT is refunded though nothing was ever locked |

That and the observations below explain the form of the properties that hold:
`SettledExactly` and the contract exclude deals whose status was overrun or whose
statements were torn, `RefundsBounded` counts faults, `FundedBeforePaid` asks for a
lock, not for money still held, `PostedOnce` excludes overrun deals, `EveryDepositCredited`
speaks of blocks a master block names and of addresses one customer has in the end,
`BalanceIsDeposits` of who never edited the profile, `Solvent` counts the refunds of accepted
messages and the settlements without a lock, `PendingHasPost` excludes deals that were
loaded without a post, `WalletlessIsExplained` counts the edits of others, `PhotosAreKept` excludes
stale previews, `CodesAreFresh` second answers, `OpenChannelsHaveTheBot` removals that met
a request.

### Observations

Met while modelling; the models contain the behaviour, no run is spent on it.

* A cancellation checked before the claim is refunded, the bot writes PUBLISHED over
  it, and the manager is paid as well (`async.go:259`): `overrun`.
* A crash after the claim loses the request to post, which lives in memory: the deal is
  never posted, completed and paid for (`deal_publisher.go:72`).  It is why `PostedOnce`
  promises a post only while there was no fault.
* When a shard makes two blocks between two master blocks the older one is never
  scanned (`ton/indexer.go:222`).
* A withdrawal whose wait for the hash fails is refunded though the chain may deliver
  it (`balance_handlers.go:107`), against the comment of `RefundBalance`
  (`storage/customers.go:302`); it is one of the exceptions `Solvent` makes.
* The payment and the refund of a deal ask for no lock and for no earlier settlement
  (`storage/customers.go:232`, `:244`): a deal that was never locked, or is settled twice
  (`deal_publisher.go:104`), leaves the backend owing more than it holds.  It is the
  other exception.
* `CancelDeal` logs an error of its update and answers 202 (`deal_handlers.go:425`).
* A channel added while the statistics could not be had is UNACTIVATED for good: the
  branch that would take it up again is never entered, only deleting and adding it
  helps (`channel_handlers.go:72`, `:152`).  A deadline that passes after the third
  call of the statistics bot is enough, and the channel then has no figures either.
* Followers of the statistics replace the number of members that was compared with
  the minimum (`stats_bot/channel_posts.go:189`).
* Before its client has called `Self` the statistics bot does not know its id and does
  not ask for its own rights (`stats_bot/channel_validation.go:60`); the field is
  written and read by different goroutines.
* A customer whose address was not written, after a fault or by a profile update to
  `''`, blocks every other registration: nothing but a profile update of that customer,
  or a repair by hand, writes the address later (`telegram_bot/main_handlers.go:44`).
* `UpdateMe` stores any string as an address (`server/customer_handlers.go:90`).  A customer
  who gives up the address of the subwallet gets no more deposits: a row that finds
  nobody stays PROCESSING for good (`storage/indexer.go:148`), and one that finds another
  customer, who has put the address in a column, credits that customer.  With an address in
  the column of one customer and in the other column of another, `Only` fails and the row
  stays as well.
* The same strings can be addresses of subwallets not given out yet.  The customer who gets
  that subwallet is then refused the address and stays with `''`, which blocks every other
  registration: without a fault, and without an edit of that customer.
* Deleting a channel takes its deals along; what was locked for them stays locked
  (`channel_handlers.go:489`).
* `is_listed` stays on when the bot is removed, and `OfferDeal` does not look at the
  status of a channel.
* `ClearState` after an answer removes ADMIN_MODE of a question that came meanwhile
  (`admin_handlers.go:14`): the statistics bot then waits until it is restarted.
* `PreferableDatetime` documents times as HH.MM (`src/internal/common/deal_target.go:12`),
  the validation wants HH:MM.

* A make-deal that was checked before a cancellation turns CANCELED into PENDING.
* Approving does not extend `expires_at`: an approved deal can expire ahead of its
  publication (`deal_handlers.go:682`).
* An approval that lands after a new proposal leaves the new time with the deadlines
  of the old one (`deal_handlers.go:678`).
* Income from deals passes the check of a withdrawal, but the coins are in the
  subwallet of the advertiser (`server/balance_handlers.go:107`): the message transfers
  nothing.
* `acceptPost` writes the target whatever the status of the deal, so an old button can
  change an approved post, and it drops `preferable_datetime` from the target.
* `SavePreview` writes the whole copy: it can bring back a row that was cleared, turn a
  row back to the deal before, or lose what was written since.  `PostsStayWithDeal`
  holds because deal and content are written together.
* `MakeDeal` writes back the target it loaded, over a post accepted meanwhile.
* Its check for a missing target (`deal_handlers.go:245`) never fires: the column is
  `NOT NULL DEFAULT '{}'` and is read as an empty map.  A deal without a post becomes PENDING,
  has its price locked, can be accepted and approved, and ends as ERR_PUBLISH when there is
  nothing to send, which refunds it.
* The relay of a message clears the row of the sender, whatever is in it by then.

## 12. Proofs

`EscrowProofs` proves, for every value of the constants allowed by
`EscrowAssumption` (any number of deals, requests, faults and watchers, any prices
and durations):

* `TypeCorrect`: `TypeOK`.  The inductive invariant `TypeInv` adds `InFlight`: a
  request, the publisher and the refunder hold a deal exactly in the phases in which
  the code uses it, and `Len(autopost) <= AutoPostCap` survives because the send is
  guarded by the length.
* `BalancesStayNonNegative`: from `TypeInv` and the guard of the lock; every other
  movement adds to `ton_balance`.
* `RefundsStayBounded`: `RefundsInv` says that the refunds of a deal number at most
  `faults`, plus one if its flag is set or the refunder has just unlocked it, and
  that a deal still on the refunder's list is not flagged.  Without the second part
  a list read earlier could refund a flagged deal; it holds because only the
  refunder sets the flag and it takes a deal off the list before it does.
* `FundingComesFirst`: `FundedBeforePaid` is not inductive, because actors write
  statuses from lists and copies: a claim writes PUBLISHED whatever the row says.
  `FundedInFlight` adds that every deal in the hands of a request beyond "make", of
  the publisher when it completes or claims, of the AutoPost channel and of the bot
  had its money locked.

* `BooksAlwaysBalance`: `BooksBalance` is inductive with `TypeInv`.  `WorthOnceMore` is its
  key lemma: a lock, a refund or a payment that is counted once more for one deal
  changes a sum over all deals by the price of that deal.  No fault, no overrun and
  no list read earlier is excepted, because each SQL statement and its counter are
  one step.
* `AccountsAreExact`: `SettledInv` says of every deal that was neither overrun nor torn
  what `SettledExactly` says, and what makes the lists of the loops trustworthy
  (`Listed`): a deal the refunder still has to do was not refunded, one the publisher
  has to pay was not paid, and meanwhile it can only have been voided.  `StatusMove`
  is the key lemma: a status that moves without an overrun moves along one of the
  ways the statuses are meant to take.  `LandedStep` counts the locks in flight as
  the cardinality of the requests that hold one.
* `ImplementsContract`: each action touches at most one deal (`OneDealAtATime`), whose
  stage and sums make one step of the contract (`DealStep`) or none (`SameKept`); a
  crash and the faults break contracts.  What is broken stays broken (`BrokenStays`).
* `PostsAreMadeOnce`: `PostedOnce` counts the places where a deal waits to be posted.
  `ClaimedInv` says of every deal that was not overrun that it is in one place at most:
  with the publisher that is to send it, in AutoPost (once), with the bot, or posted;
  and that a deal in one of these places was claimed.  `ClaimsOfOne` says what of `Claims`
  belongs to one deal when an entry is put in, taken out or taken back, `PlacesMove` how a
  deal goes from place to place.  That `ClaimOne` finds it in none rests on its status:
  only a deal that is AWAITING_PUBLICATION is claimed, and one that waits or was posted is not.
* `DisplaysAreAsAgreed`: `DatedInv` adds that the publisher works only on deals whose
  display is over (`Due`), and that nobody negotiates these any more.

`RegistrationProofs`, from `RegistrationAssumption` (any users, calls, faults).  `RegInv`
is the conjunction of the properties with `OwnSubwallet` (subwallets are below
`identity` and distinct), `OwnAddress` (the addresses of who never edited are the own ones
or empty), `SquattersEdited` and `Knows` (what the copy of a handler says of the row).  `WalletsAreOwn` rests on one fact that is easy to lose: between the INSERT
and the address nobody else may write the row, or only the same address.
`WalletlessAreExplained` rests on the UNIQUE columns: a second row without an address is
refused, and an address that is refused is held by somebody who, by `OwnSubwallet` and
`OwnAddress`, has edited the profile (`HoldersEdited`).  Nothing is assumed about `Strings`.  `TokensCorrect` proves `TokensAreForRegistered`, which no run checks.

`RegistryProofs`, from `RegistryAssumption` (any channels, admins, requests, deals,
removals, faults).  It proves every property of `registry_race`.

* `TypeCorrect`: `TypeInv` adds what the record of a request means in its phase
  (`KnowsRequest`); rows only grow (`RowsGrow`), because an id is never used again.
* `OneManager`: `LinkInv` says that rows belong to one channel and a row under
  construction to one request, and that it has no link yet.  `RowSteps` sorts the steps
  once: nearly all leave rows and links as they are (`SameRows`), four do not.
* `DealsWithTheManager` and `StrandedByManager`: `PartyInv` extends the claim from deals to
  the offers and deletions under way, which act on what they checked before.  An offer
  on a row that was deleted meanwhile fails at the foreign key, and a row added again
  has another id; `ManagedRows` is that argument.
* `OpenHasTheBot`: `BotInv` extends the claim to the requests that are about to create or
  to activate a channel.  `WatchedStep` follows a removal from the update to the UPDATE.

`DepositsProofs`, from `DepositsAssumption` (any transfers, blocks, bursts, faults):

* `TypeCorrect`: `BaseInv` is `TypeOK` and `CycleInv`, which bounds a cycle by the master
  blocks there are: only because of it is `last_seqno` never ahead of the chain.
* `CreditedOnceCorrect`: what a cycle still has to save is on the chain; the credit
  and DONE are one transaction.
* `IndexedCorrect`: `ScanInv` says of the cycle what `IndexedUpToSeqno` says of
  `last_seqno`: everything in the blocks behind it was saved or passed over, and so was
  what is no longer in `todo` of the open block.  Blocks behind never get new
  transfers, because a new shard block is one that no master block has named.
* `BalancesAreDeposits`: the balance of a customer is the initial one and the sum of the
  transfers whose row is DONE and that were credited to that customer; one transaction
  credits the balance and sets DONE.  `HolderInv` says of the lookup that its row is still
  PROCESSING and that who was found has the subwallet the transfer went to, or has edited
  the profile; it holds because a customer who never did has the own address in the
  columns, or none.

`WithdrawalProofs`, from `WithdrawalAssumption` (any customers, calls, amounts, faults):
`IInv` is `LedgerInv` (types, no negative balance), `CallInv` (a call beyond its check has a
customer and an amount) and `ChainInv` (no message before it is sent).  `TypeCorrect`
and `NeverNegative` follow; the second rests on the condition in the `WHERE` of
`DeductBalance` and `LockBalanceForDeal`, not on the check before it.

`AlwaysSolvent` (`Solvent`, the coins cover what is owed) is a statement about three
sums that no single step keeps.  Its strengthening has two halves:

* `OwedStep`: what is owed and the debits of the calls that have deducted and were not
  refunded (`Debits`) together change only by what is `Unbacked`.  A lock moves money
  between columns, a settlement moves it back or adds to what is settled beyond the locks
  (`BeyondChange`, `SettledChange`: one of the two differences of a deal is zero), a deduction
  moves it from the balance to `Debits`, a refund back.
* `CoinsStep`: coins leave the subwallets only for messages, and never more than
  `Costs` says of an accepted message: the amount and the fee, or the fee alone.

Every accepted message belongs to a call that was debited for at least its cost,
unless it was refunded after all: these are `PaidTwice`, the first exception `Solvent` makes.

`BotProofs` has two parts.  From `BridgeAssumption` (any users and admins, goroutines,
messages handled at once, capacity and restarts) come the theorems about the login.  It proves every property of `bridge_login`.
The inductive invariant is `TypeOK`, `Wired` (no handler sends on AdminMessage) and
`Login`, which has four parts:

* `Prompts`: nobody answers a prompt that was not asked, and while the statistics bot
  waits an answer to its prompt is still in CodeMessage.
* `Answerable`, for `AlwaysAnswerable`: `PromptIsAnswerable` is not inductive, because
  the ADMIN_MODE it counts on may be left from an older prompt and go with the
  ClearState of its answer.  What is inductive says that some admin has ADMIN_MODE of
  *this* prompt, or that no admin was passed over by a consumer still at work.
* `Fresh`, for `OnlyFreshCodes`: while nothing is odd CodeMessage holds the answer to
  the prompt that is waited for, or nothing, and every earlier prompt was answered.
* `Alone`, for `ConsumerIsFree`: without admins the question in the channel, the one in
  the hands of the consumer and the code in CodeMessage are one at most, and none
  while the statistics bot does not wait.

From `StatsAssumption` (any channel, posts dated in their order, any graph of columns,
any window, minimum, number of changes and of failed calls) come the two theorems about
the answers, `TrueAnswers` and `FittingAnswers`.  The inductive invariant is `StatsInv`:

* `PostsInTime`: posts stay numbered as they come (`CameOf`: what publishing, deleting and
  viewing make of a list of posts); `Copied` and `Admitted`: what the copy and the answers
  so far say still holds or is in `moved`.  `AnswersAreTrue` speaks of the end of the
  request only; these say it of every phase.
* `FirstPost`: no post is older than the first one was, and there are at most as many more
  as there were changes, which is why the counts of two moments fit together.
* `RecentPosts`, `PostsFit`, `SharesFit`, `StatsKnown`: the figures of one answer, and when
  there are some.

What the steps need of the figures are lemmas about any list of posts (`StatsOfPosts`) and
any columns (`LanguagesOf`).  `Moves` says once what a change of the channel can do, so that
only the calls are gone through one by one.

`PostDraftProofs`, from `PostDraftAssumption` (any deals, messages, albums, buttons,
faults).  Many handlers write in few ways, so `Shape` says once what a step can do to
the copies, the row, the deals and `meant`, and `NextShape` that every step does only
that; the invariants are proved from `Shape` alone.

* `TypeCorrect`: `TypeInv` adds that whoever still writes for a deal has one.
* `PostsStayCorrect`: `PostsInv` extends `PostsStayWithDeal` from the row and the deals to
  the copies in the hands of goroutines, and says that a message about to be written
  is meant for the deal of the copy it is written to.
* `PendingHasPostCorrect`: `PendingInv` adds that what `AcceptPost` holds is not empty, nor
  what `MakeDeal` holds unless its deal is in `blank`, so that no other write can take a
  post away.
* `AlbumsAreWholeCorrect`: `WholeInv` says that the album id of a row and of every copy
  tells the truth about its images; the id is gone from a target, where only
  `IsWhole` remains.
* `PhotosAreKeptCorrect` is the action property `PhotosAreKept`.  `KeptInv` says that one
  photo at a time is between reading and writing the row, and that while it is the row
  holds no album with other photos than the copy; `NextMoves` sorts the steps into the
  three that matter (a photo reads, a photo writes, a preview is saved) and the others.
  Of the mutex only "one at a time" is used, of the timers nothing.

`TotalsTheorems` is what the sums rest on.  `Total(f)` is the cardinality of
`Units(f)`, the pairs of a row and a number up to its value, so that what induction
over the rows would show follows from the theorems about cardinalities:
`TotalChange` (one row changes), `TotalGrows` (no row gets smaller), `TotalOfSums` (two
tables are added), for tables of finitely many rows.  That the rows are finite
(`IsFiniteSet(Deals)`, `IsFiniteSet(Txs)`, `IsFiniteSet(Customers)`, `IsFiniteSet(Calls)`) is
assumed in the modules that declare them: the tables of a database are, and so are
the requests of a process.

The figures are proved about in the same way.  `OrderedRows`: in a finite set with a total
order every row has the place that the number of rows up to it says (`Rank`), so sorting
and looping need no recursion.  From it come `SortedValues`, `PassingPlaces`, and

* `MedianIsMedian`: `CalculateMedian` of a list is `Median` of the table it was read from;
  `AverageIsMean` says the same of the mean, as the total of a table does not depend on what
  its rows are called (`TotalOfRenamed`);
* `SharesOfWhole`: shares that are each truncated do not exceed the whole together, and
  lack less than one part each.  It needs `TotalOfMultiples`, which is by induction: a
  set of numbers that has 0 and with every number the next one has them all
  (`AllNumbers`, from the least number of a finite set, `Least`).

The proofs are laid out as frame lemmas (which actions touch which variable, or
`Shape`), type lemmas for one part of the state each, and one lemma per part of each
invariant.

**Model-checked only:** the liveness properties, as fairness is out of the prover's
reach: `RefundsHappen`, `ExpiryHappens`, `CompletionHappens`, `EveryDepositCredited`,
`PreviewHappens`, `SendersGetThrough`, `ChannelsAreServed`, `WalletsArrive`.  Every invariant
and every action property that a passing run checks is proved, and so is the refinement.

## 13. Not modelled

* The code generated by ent (`src/internal/database/ent`, 46 000 lines) and the API
  documentation (`src/docs`): four fifths of the repository.  The models take the
  SQL they execute for granted: one statement, atomic, with the conditions of its
  WHERE clause and the constraints of the migrations.
* Parsing of durations and dates, paging of lists, and the conversion of rows to
  JSON: single expressions on their input.
* Rounding: balances are double precision columns in the code and integers here.
* Graceful shutdown: `main.go` stops the parts in order; it is covered by `Crash`,
  which may stop them anywhere.
* Several processes on one database: the code is deployed as one.
* The test commands of the bot (`testAdd`, `topUp`, `pubNow` in `telegram.go`).
* What the messages of the bridge say, and Telegram refusing them.
* More than one shard of the chain, and what a transaction looks like inside.
* Formatting, wording, graphs, briefs, uploads, the signature of tokens: no state
  that other parts depend on.
