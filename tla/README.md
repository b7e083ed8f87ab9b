# A verification of the Mazadak auction backend

Mazadak is a NestJS server for online auctions: users bid by hand or by proxy
out of a wallet, the winner's money goes into an escrow, and a buyer's
confirmation, a deadline or an admin's decision pays it out.  Several instances
of the server run at once over one MongoDB (replica set, multi-document
transactions), one Redis (locks and caches) and one RabbitMQ.

This directory holds TLA+ modules of these parts and of the components around them
(withdrawals, deposits, events, notifications, reviews, chat, cache, accounts), the
instances on which TLC checks them, and proofs that TLAPS checks.  Paths below are relative to
the repository; `src/` is its source directory.

    tlc -config MCBiddingRaces.cfg MCBidding      # a run
    tlapm BiddingProofs.tla                       # the proofs of a module

`PROJECT.json` lists the runs, the theorems, the source lines each definition
stands for, the hazards of the code at their lines and, for each property, a
mutation of the model that breaks it.

## 1. Inventory

| Part | State | Operations | Talks to |
|---|---|---|---|
| Proxy bidding engine `bids/services/proxy-bidding-engine.service.ts` | none: a pure function | `calculateNextState` | called by bids and auto-bids |
| Bids `bids/bids.service.ts` | `bids`, Redis `auction:bid:lock:<id>` | `placeBid`, cron `finalizeEndedAuctions` | wallet, engine, auctions, escrow, outbox, in one transaction |
| Auto-bids `bids/services/auto-bidding.service.ts` | `autobids`, the same lock | `setAutoBid`, `cancelAutoBid` | the same |
| Auctions `auctions/auctions.service.ts` | `auctions`, Redis keys of two cron jobs | create, update, `cancelAuction`, `adminCancelAuction`, crons `activatePendingAuctions`, `endActiveAuctions` | wallet, bids, outbox; `UserBanned` events cancel the seller's auctions |
| Wallet `wallet/wallet.service.ts`, its repository | `wallets` {balance, heldBalance} | credit, debit, hold, release, capture; each a conditional `findOneAndUpdate` plus a `transactions` row | called by all that moves money |
| Escrow `escrow/services/escrow.service.ts` | `escrows` | create, `confirmDelivery`, `releaseEscrow`, `refundEscrow`, cron `handleExpiredHeldEscrows` | wallet, outbox |
| Disputes `escrow/services/disputes.service.ts` | `disputes` | `openDispute`, `cancelDispute`, `updateDisputeStatus`, `resolveDispute` | escrow |
| Withdrawals `withdrawals/withdrawals.service.ts` | `withdrawals` (one per user and day, unique index) | request, cancel, start, complete, reject | wallet hold, capture, release |
| Payments `payment/`, `transaction/` | `transactions` (append-only, at most one child of a PENDING row), webhook inbox | deposit intent, webhook, expiry worker, reconciliation worker | gateway, outbox, wallet consumer |
| Outbox and RabbitMQ `infrastructure/outbox`, `infrastructure/rabbitmq` | `outbox` rows, queues, dead letters | `saveEvent` in the writer's transaction; worker publishes 50 rows under a 10 s lock | every consumer |
| Consumers `wallet/`, `auctions/`, `auth/`, `notifications/` | Redis idempotency keys | handle, retry through a 5 s queue, dead-letter after 3 | wallet, auctions |
| Cache `infrastructure/redis/redis.service.ts` | soft and hard TTL entries | stale-while-revalidate, invalidation | queries |
| Reviews `reviews/` | `reviews` (unique per auction and reviewer), ratings of users | `createReview`, `replyToReview`, hide and unhide, cron `handleExpiredPendingReviews` | auctions (end time, parties), outbox |
| Auth and users `auth/`, `users/` | `users` {isBanned, deletedAt}, refresh tokens, Redis `user:auth-status:<id>` | login, refresh, logout, `toggleBan`, `softDeleteUser`, `reactivateUser`, the check of every request in `jwt.strategy.ts` | outbox; its own consumer deletes the tokens of a banned user |
| Notifications `notifications/` | in-app notifications | one handler per event type: mails and in-app notifications | consumes 26 event types; the mail server |
| Chat `chat/` | `chatmessages` (unique per auction, sender and clientMessageId) | send, edit, delete, react, read marks, paging by cursor | auctions (who may talk), notifications |
| Realtime, upload, admin queries | none of their own | publication to subscribers, files, statistics | |

What is hard here, and where a unit test hardly reaches:

* **Interleaving.** A request checks something outside its transaction and writes
  inside it (`cancelAuction`, `openDispute`, `cancelDispute`, `updateDisputeStatus`,
  the pre-flight check of an auto-bidder's wallet, `requestWithdrawal`); the Redis
  locks have TTLs of 5 s (bids), 30 s and 55 s (jobs) and 600 s (escrow), so two
  holders may run at once.
* **One hold for all auctions.** `heldBalance` is one number per wallet.  The guard of
  a release or capture compares with that number, not with what the auction holds:
  releasing one auction twice would silently take the hold of another.
* **Failure.** A server may die in a transaction, between two writes that have no
  transaction (admin payouts), or with a lock in its hand.  The cron loops catch the
  failure of one item and go on.
* **Delivery.** An event is written to the outbox with the change it is about, and
  published at least once: a worker that dies after publishing, or outlives its lock,
  publishes it again.  A consumer checks a key in Redis, works, sets the key,
  acknowledges; every crash in between repeats the work, and a consumer that
  acknowledges before it hands a failed message to the retry queue loses it.  The keys
  are per message, not per consumer.
* **Jobs against webhooks.** A deposit may be decided by the webhook's consumer, by
  reconciliation and by expiry, each on what it read before; the jobs count pages of a
  list that shrinks under them.
* **Snapshots.** Two reviews, two replies, two requests for a withdrawal of one user:
  transactions that do not see each other.
* **Caches** filled with what was read before a change and stored after it: lists behind
  stale-while-revalidate, the status of an account.
* **Arithmetic of the engine**: ties, ceilings less than an increment apart.

What makes the parts correct: a wallet never holds more than it has; an auction has
one leader, whose bid is the price; what is held for an auction is the leader's bid;
money is neither made nor lost between wallets and escrows; the escrow is the
winner's, for the price; it is paid once, to the right party; a dispute freezes it; a
proxy never passes its ceiling and never stops short of it.  A withdrawal holds its
amount until it is paid or given back, once, and a user has one a day; the ledger's rows
explain the wallet; a deposit is accepted only when the gateway has the money, and then
credited once; a due payment is decided; whoever should hear of an event does; nobody
reviews after he could read the other's review, and no review waits for ever; paging
through a chat skips and repeats nothing; a cache ends up with what the database has; a
ban is seen, and a deletion reaches the seller's auctions.

## 2. The modules

**`Wallet`** The guards and updates of the repository methods (`CanHold`/`WithHold`,
`CanRelease`/`Released`, `CanCapture`/`Captured`, ...) as operators on a record
{balance, held}.  Amounts are whole units; the code computes in Decimal128, exactly, so
that the unit may be read as a piastre.

**`ProxyEngine`** `calculateNextState` as operators, one per scenario: `AfterManualBid`
(A), and `FirstAutoBid`, `DefendAutoBid`, `ChallengeAutoBid` (B).  An auto-bid is
[user, max, born]; `born` stands for `createdAt`.  No module is trusted to call it
right: `Bidding` computes its input from the documents as the services do.

**`Bidding`** composes both with auctions, bids, auto-bids and the jobs.  Variables:
the documents (`auctions`, `bids`, `autobids`, `wallets`, `escrows`), `reserved` (the
sum of the wallet-transaction rows by the auction they refer to: HOLD - RELEASE -
CAPTURE), `outbox` (rows per event type), the Redis keys (`bidLock`, `cronLock`), and
what is under way (`handler`, `canceller`, `cron`).

* A `placeBid` or `setAutoBid` request is two or three steps: take the lock, open the
  transaction, read and compute on the snapshot (`PlaceBid`, `SetAutoBid`); read the
  auto-bidder's wallet outside the transaction (`Preflight`), if an auto-bid is about
  to win; write and commit (`ManualBidWins`, `AutoBidAnswers`, `AutoBidStored`,
  `AutoBidTakesOver`) or abort (`AbortBid`).  `CrashBid` leaves the lock behind.
* **MongoDB's transactions** are snapshots with first-committer-wins: `missed[h]` is
  the set of documents others have written since h's snapshot, and a commit that
  writes one of them aborts (`NoConflict`).  Only the order of snapshots and commits
  matters, so a transaction writes when it commits.  Nothing in the code retries.
* Wallet updates are judged at the commit.  That is exact: the transaction writes every
  wallet whose guard it evaluates, so a wallet changed since the snapshot is a conflict.
* `cancelAuction` and `adminCancelAuction` read the auction (`RequestCancel`) and then
  commit on the status they read (`CommitCancel`).  The finalizer's transaction of one
  auction is one step; so are the status updates of the other jobs, each on the strength
  of the list the job read when it started (`StartJob`).
* Start and end times are abstracted: an auction of the right status may be due at any
  moment.  `updateAuction` is not modelled: price, increment and seller are constants.
* `setAutoBid` reads its own user's wallet outside the session just before it computes;
  the two reads are one step.  This only decides whether the request is refused.

**`Escrow`** starts where `Finalize` ends.  `confirmDelivery` and the expiry job check
the escrow in the transaction that pays it: one step.  The four dispute calls check
before their transaction: `ReadToOpen`/`ReadDispute`, then the write, which is
unconditional in the code.  The admin mutations `releaseEscrow` and `refundEscrow` pass
no session: five steps, each visible at once, and `AdminFails` stops between any two.
`credited`, `ledger` and `outbox` count deposits, DEPOSIT rows and event rows, so that
"paid twice" and "announced but not paid" can be told.

Nothing in the model keeps the check of a dispute call fresh, as nothing in the code
does: whatever happened since, `OpenDispute` and `CancelDispute` write the escrow
(`Overwrite`), and `UpdateDisputeStatus` stores any status an admin may pass.  Two history
variables remember what the properties must tell apart: `reopened` counts per escrow the
writes of dispute calls over a paid status, and `byHand` has the disputes last written by
`updateDisputeStatus`.  No action reads them.

**`Withdrawals`** (over `Wallet`) `requestWithdrawal` is two steps, the checks
(`AskForWithdrawal`: payout details, limits, balance, no request today) and the
transaction (`CreateWithdrawal`, where the unique index on user and day is the second
guard).  Cancel, start, complete and reject are one step each: a conditional update of the
status decides inside the transaction.  `withdraw`, the admin's balance adjustment and the
hold of bids share the wallet document.  `ledger` is the sum of the transaction rows by
type; the admin's credit passes no session, so that its row is a step of its own
(`RecordCredit`) or never comes (`CrashCredit`).

**`Delivery`** is what all events have in common.  An event stands for an outbox row and
its messageId; a copy is one message in one queue, `ready`, `checked` (past the duplicate
check) or `handled`.  `Dispatch` publishes to the queues bound to the type and marks the
row; `DispatchUnmarked` is the worker that dies in between, or a second worker.
`Take`, `SkipDuplicate`, `Acknowledge` are the ends of `handleMessage`; `Fail` is
`handleProcessingError` (retry or dead letter); `FailHalfway` breaks off between
acknowledgement and retry message, in the order of the consumer at hand (`AcksFirst`);
`CrashConsumers` returns what was in hand; `KeyExpires` is the end of the day-long key.
`faults` is how many of these misfortunes still happen.

**`Payments`** (over `Delivery`) `initializePayment` is three steps around the gateway
(`CreatePending`, `CreateAtGateway`, `AttachIntent`) with its catch (`AppendFailed`,
`MarkParent`).  The gateway moves by itself (`UserPays`).  `HandleWebhook` writes inbox and
outbox; `ProcessWebhook` and `CreditWallet` are the work of the two consumers between
`Take` and `Acknowledge`; `Decide` is `updateTransactionStatusDirect`, which appends a
child row unless there is one.  Both jobs read a page (`StartJob`, `NextPage`) and then
treat its rows one by one, reconciliation asking the gateway first (`AskGateway`,
`RecordAnswer`).  `ProviderEventId` keeps what distinguishes webhooks for the inbox.
**`Deposits`** is the abstract specification: pay, accept, credit, each once and in this
order.  `DepositsImplemented` maps it to `Payments` (gateway's state, SUCCESS rows, and the
number of credits).

**`Notifications`** (over `Delivery`) A handler is the sequence of its mails and in-app
notifications (`Steps`), taken one by one: an ineligible recipient is skipped, a mail that
cannot be sent fails the message (`Fail` of `Delivery`) and the retry begins with the first
step again, an in-app notification that cannot be stored is logged.  Events of the auth
and chat services are published without the outbox and may be lost (`NotPublished`).

**`Reviews`** One ended auction with its two parties.  `BeginReview` and `BeginReply` take a
snapshot, `CommitReview` and `CommitReply` write unless a document they write has been
written since (`lost`), `PublishExpired` is a row of the job's list.  Ratings and texts are
left out.

**`Chat`** One room.  A message gets id and time in `Send` and becomes visible in `Insert`,
or is answered with the one that is there (`ReturnExisting`).  `GetChatMessages` is one
page of a client that reads on while others write and delete.

**`Cache`** One key of `getOrSetSWR`: cold fetches (`StartFlight`, `Fetch`, `Land`),
background refreshes under a lock in Redis (`Revalidate`, `Refetch`, `Refresh`, `Release`),
invalidation some time after the write.

**`Accounts`** (over `Delivery`) One user: `toggleBan` and `softDeleteUser` as read, update
in the transaction (`Update`, which also deletes the cached status, before the commit) and
`Commit`; `dbCheckAndCache` as read and store; login, refresh and logout as far as they
create and delete tokens; the auth consumer (`DeleteTokens`) and the auction consumer
(`CancelAuctions`, which logs the failure of an auction).

**`MCPlatform`** composes the eight above.  They have only the message system in common, and
wallets, reviews and the like of one are not read by another, so that an interleaving of
two of them shows nothing that each alone does not: `part` chooses one at the start and the
others stay in their initial states.  Several parts are instances of one module with
different restrictions (below).

**`MCProxyEngine`, `MCBidding`, `MCEscrow`** give the constants of the other runs.
`MCProxyEngine` has one initial state for each input the two callers can give the engine
(`ManualCall`, `AutoCall`) and one step that answers it.
**`ProxyEngineProofs`, `MCProxyEngineProofs`, `BiddingProofs`, `EscrowProofs`,
`WithdrawalsProofs`, `PaymentsProofs`** hold the theorems, each about the module it is named
after; **`PlatformProofs`** those about `Cache`, `Reviews`, `Notifications`, `Chat`,
`Accounts` and `MCPlatform`; **`SumProofs`** lemmas about sums over finite sets, for the
books of `Bidding` and `Withdrawals`.

## 3. What the runs check

| Run | Instance | Question |
|---|---|---|
| `proxy_engine` | 3 users, amounts to 5, every input `placeBid` or `setAutoBid` can give (102 thousand) | Is the engine right on each? |
| `bid_races` | 1 auction, 2 requests, 1 cron run, 3 offers; the bid lock may overrun, every server may die (532 thousand states) | Do two requests ever both win, or record bids out of order, when the Redis lock fails? |
| `two_auctions` | 2 auctions, 2 bidders who cannot lead both at the top offer, 2 requests (512 thousand) | Do holds follow winning bids, is no wallet overdrawn, is money conserved, does the proxy keep its promise? |
| `auction_jobs` | 1 auction, 2 cron runs, those that end and finalize overlapping as their locks overrun, 2 requests, a cancellation (88 thousand) | Can an auction get a wrong or second escrow, or a proxy pass its ceiling? |
| `escrow` | 2 escrows, 2 disputes, 4 dispute calls with checks of any age and any status, 2 job runs (383 thousand) | Does every further payout follow a write that put the paid escrow back, does each go to the party recorded, and can a frozen escrow always be settled? |
| `escrow_settles` | 2 escrows, 1 dispute, 2 dispute calls, 1 admin payout, 1 job (198 thousand), with fairness | Is nothing announced that was not paid, and is no escrow held for ever? |
| `platform` | eleven parts, see below, with fairness | Withdrawals, deposits, notifications, reviews, chat, cache and accounts: nine invariants and eight action or temporal properties |
| `minimum_bid` | as `proxy_engine` | disagreement, section 5 |
| `ban_delivery` | part `banned_seller`: 2 calls of an administrator, 1 auction | disagreement, section 5 |
| `cancelled_hold`, `stale_dispute`, `admin_payout` | 1 auction or escrow | disagreements, section 5 |

The properties, each with the code behaviour it is about, stand at the end of
`Bidding`, `Escrow`, `MCProxyEngine` and the modules that `MCPlatform` extends.

**The parts of `platform`:**

| Part | Instance | What happens in it |
|---|---|---|
| `withdrawals` | 1 user with 100, 2 requests and holds and debits of 50, 1 admin credit, 2 days | two requests race for the day and for the money, with bids and debits in between; all calls on one request in any order |
| `payment` | 1 Paymob payment, webhooks pending and paid, 1 fault, 1 retry, a row published at most twice | the webhook against both jobs; a fault anywhere, from the catch of `initializePayment` to the acknowledgement |
| `payments` | 2 payments, no webhooks, pages of 1 | jobs whose list shrinks between two pages |
| `foreign` | 1 Stripe payment in another currency, which the webhook's consumer drops and reconciliation does not | the same without faults |
| `notifications` | each of the 26 event types alone, the seller may be or become ineligible, 1 fault | every handler, with a step that fails, a message that is repeated or dead |
| `reviews`, `moderation` | window of 2 days, 5 days, 2 calls at once; in `moderation` 1 call and an administrator | both parties at the same moment, the job at the end of the window, runs that overlap |
| `chat` | 2 senders, 3 calls, 2 minutes, pages of 1 | a repeated call, equal times, a page boundary at each message |
| `cache` | 1 server, 3 refreshes, 1 write | a refresh and a fetch that read before the write and store after the invalidation; a lock that runs out under its holder, twice |
| `bans`, `deletions` | 2 calls of the administrator, 1 status check, 1 auction; faults in `deletions` | a check between update and commit; delete, reactivate, delete |

`BanReachesAuctions`, which is not among the passing properties, needs the auth and the
auction queue to be served; `ban_delivery` does it without a fault.

**Why the bounds are enough.** A race over the lead needs two requests and a job; a
third request meets the same documents in the same states.  Three offers let a bid be
outbid, answered and outbid again; with two poor bidders and two auctions every pair of
(lead here, lead there) occurs, and a bidder runs out of money.  Ceilings up to 5 with
increments 1 and 2 put a second ceiling below, at, between and above price and minimum.
Two job runs suffice for an overlap, as a lock names one holder.  Four dispute calls
open, review and resolve or cancel one escrow while a fourth, with an older check, writes
over the outcome; two such calls reopen an escrow twice, and the second escrow shares
the runs of the job.  The
bounded counters are the numbers of escrows, disputes and calls, which are sets of
constants, and the offers.  The runs have no deadlock check: when every auction is
finalized or every call spent the system rightly stops.

**Overruns are split.** `two_auctions` keeps the locks within their TTLs: with an
overrunning finalizer and two auctions of one bidder `MoneyConserved` does fail (section
5).  `auction_jobs` shows what remains true of one auction then.  The activation job keeps
within its lock in every passing run: a late activation run reopens an auction that was
paid, which takes a second auction to do harm (section 5), and the theorem assumes the
same as the run.

For `platform`: the races are between two requests, two jobs or a job and a message, and
each part has these and nothing more.  One fault at any point separates what is repeated
from what is lost; a second one repeats it again.  With `MaxRetries` 1 a message can be
retried and can become dead, which in the code takes three retries.  Pages of one row
make every row a page boundary.  `ReviewWindow` 2 has a first, a last and a following day.
A second server would only add another `singleFlight`, which stores what it read like
the first.

**Fairness** is assumed in `escrow_settles` and `platform`.  In `escrow_settles` time passes (`WindowEnds`); the
scheduler starts the job every ten minutes, so a job that could start does
(`StartSweep`); a loop that has begun an item ends it (`SkipExpired`); Redis drops a key
at its TTL (`SweepLockExpires`); and a release that is tried again and again commits in
the end (strong fairness of `ReleaseExpired`), as an abort needs a new conflicting write
or a new outage each time.  A crash may happen at any moment and for ever.  The job's
limit of 50 escrows per run is not modelled: 50 escrows that can never be
released would starve the others.

In `platform`, each only for the property that needs it:
* `AcceptedIsCredited`: the outbox worker runs every second and publishes what is
  there (`Dispatch`), and RabbitMQ delivers to a wallet consumer that handles what it gets
  (`WalletConsumerMoves`).  Faults are finitely many.  That the worker comes to a row at
  all assumes that its batch of 50 is not filled by rows that can never be published.
* `DueIsDecided`: the expiration job starts again and again and goes through its list.
  Nothing is assumed of the gateway, of webhooks or of reconciliation.
* `PendingIsRevealed`: the clock goes on, transactions end (`AttemptEnds`; MongoDB aborts
  them after a minute), the job starts and goes on.  Its rows may fail and its runs die
  until the last day.
* `CacheCatchesUp`: Redis expires what has a TTL, and fetches that run come to an end.
* `BanIsSeen`: the same of `user:auth-status` and of `dbCheckAndCache`.

## 4. What is proved

For every value of the constants (see the ASSUMEs of the modules and the assumptions in
the statements):

| Theorem | Says | Assumes |
|---|---|---|
| `BiddingProofs!TypeCorrect` | `[]TypeOK` | finitely many users and auctions |
| `BiddingProofs!WalletsStaySound` | `[]WalletsSound`: 0 <= held <= balance | the same; locks may overrun, servers die |
| `BiddingProofs!WalletsAgreeWithLedger` | `[]HeldIsReserved`: held is the sum of what the ledger holds for the auctions | the same |
| `BiddingProofs!OneLeaderAtThePrice` | `[]LeadIsPrice`: one leader, the last bid, at currentPrice | the same |
| `BiddingProofs!BidsAreAscending` | `[]BidsAscend`: bids are recorded in ascending order | the same |
| `BiddingProofs!EscrowIsTheWinners` | `[]EscrowMatchesWinner`: a won auction has one escrow, the winner's, for the price | the activation job keeps within its lock |
| `BiddingProofs!MoneyIsConserved` | `[]MoneyConserved`: wallets and escrows have what the users brought | the finalizer keeps within its lock |
| `BiddingProofs!HoldsAreTheLeaders` | `[]HoldsMatchBids`: a hold is the winning bid's, until the capture | no cancellations; activation and finalizer keep within their locks |
| `BiddingProofs!ProxyPromiseKept` | `[]ProxyPromise`: nobody is left who could still bid | bid requests keep within their locks |
| `BiddingProofs!ProxiesKeepCeilings` | `ProxyWithinCeiling`: no automatic bid above the ceiling of its user | the same |
| `ProxyEngineProofs!ManualBidAnswer`, `AutoBidAnswer` | price and ceilings of the engine's answer, nobody able to answer forgotten | any finite set of auto-bids; scenario B: some ceiling reaches the minimum required |
| `MCProxyEngineProofs!WinnersPayWithinLimit`, `WinningBidsRaisePrice`, `ExhaustedWereReached`, `BestLimitsWin`, `WarsAreOver` | the five invariants of the run `proxy_engine` | every input of the two callers, for any number of users and bounds on amounts |
| `EscrowProofs!TypeCorrect` | `[]TypeOK` | |
| `EscrowProofs!EveryPayoutRecorded` | a row and an event for each deposit | no admin payouts |
| `EscrowProofs!ResolutionsArePaid` | a dispute resolved by `resolveDispute` was paid as it says | |
| `EscrowProofs!DisputesFreeze` | only a resolution pays a disputed escrow | no admin payouts |
| `EscrowProofs!PayoutsFollowReopenings` | `[]PaidOncePerReopening`: paid once, and once more for each dispute call that put the paid escrow back | no admin payouts |
| `EscrowProofs!FrozenEscrowsCanBeSettled` | `[]FrozenCanBeSettled`: a DISPUTED escrow has a dispute to resolve or cancel, unless an admin typed its status | |
| `EscrowProofs!AnnouncementsArePaid` | no event without row, no row without deposit | finitely many admin payouts, which stop anywhere |
| `WithdrawalsProofs!WithdrawalsAreTyped` | `[]WithdrawalTypeOK` | finitely many requests and adjustments |
| `WithdrawalsProofs!OneRequestADay` | `[]OneRequestPerDay`: one open or completed request a day | the same |
| `WithdrawalsProofs!HoldsAreOwed` | `[]HeldIsOwed`: held is the bids' holds plus the open requests | the same |
| `WithdrawalsProofs!RowsExplainWallets` | `[]LedgerExplainsWallet`: the rows add up to balance and hold | the same |
| `PaymentsProofs!PaymentsAreTyped` | `[]PaymentTypeOK` | |
| `PaymentsProofs!AcceptedIsTraced` | `[]AcceptedIsOnItsWay`: credited, in a queue, dead, or dropped between acknowledgement and retry | the wallet's queue is among the modelled ones |
| `PaymentsProofs!PaymentsImplementDeposits` | `Payments` implements `Deposits` | |
| `PlatformProofs!CacheIsTyped`, `OneWorkerAtATime` | one worker within its time | |
| `PlatformProofs!ReviewsAreTyped` | `[]ReviewTypeOK` | a window of two days or more |
| `PlatformProofs!RepliesAreFinal` | no reply is replaced | the same |
| `PlatformProofs!ReviewsAreBlind` | nobody reviews after he could read the other review | the same; administrators excepted |
| `PlatformProofs!NotificationsAreTyped` | `[]NotificationTypeOK` | the queue of notifications is among the modelled ones |
| `PlatformProofs!NobodyForgotten` | `[]NobodyIsForgotten` | the same |
| `PlatformProofs!ChatIsTyped`, `PagesAlwaysFit` | `[]ChatTypeOK`, `[]PagesFitTogether` | |
| `PlatformProofs!AccountIsTyped` | `[]AccountTypeOK` | the auction queue is among the modelled ones |
| `PlatformProofs!DeletionsReachAuctions` | `[]DeletionReachesAuctions` | the same |
| `PlatformProofs!PlatformIsTyped` | `PlatformSpec => []PlatformTypeOK` | both queues |

The assumptions are conditions the code does not enforce, or choices of the model, and each
is needed:

* *Locks that are not outlived* (`Overrun`).  The code takes a Redis lock with a time limit
  and never looks at it again, so that a slow holder may meet the next one.  What needs no
  assumption is protected by MongoDB alone.  Two finalizers at once capture one winning bid
  twice, if the winner has another hold.  Two activation runs can make an auction that has
  ended ACTIVE again, to be bid on after its escrow was created; `EscrowMatchesWinner` is
  checked and proved for activation runs that keep within their lock.  Two requests of one auction do not
  see each other's auto-bid documents.
* *No cancellations* (`Cancellers = {}`) for `HoldsMatchBids`: see `cancelled_hold` in
  section 5.
* *Queues* (`Watched`): the model may leave out consumers; the code has all five, and so
  have the runs.
* The constants' ASSUMEs: finite sets of users and auctions, prices and increments that
  the code's validation lets pass, a window of reviews of at least two days (the code's is
  longer).

**The invariants.**

* *Types of Bidding.* `TypeOK` is not inductive: a commit indexes the bids with the
  winning bid the request found.  `WinningKnown` adds that this index is still one of
  the auction's bids (bids are never deleted).  The engine's answers are typed by the
  lemmas `AfterManualBidTyped` and `AfterAutoBidTyped`.
* *Wallets.* `WalletsSound` is inductive over `Typed`: each update preserves it under its
  own guard.  The proof uses neither locks nor snapshots: the conditional updates suffice.
* *One leader.* `FreshLeader`: a request whose auction document nobody has written since
  its snapshot still knows the winning bid of this moment.  Whoever writes bids also
  writes the auction document, so a commit without conflict replaces the leader there is,
  and puts its bid last.  Every step is a commit, an opening, or `Quiet` (no bid, no
  price).  Nothing in the argument is about the Redis lock: the write conflict on the
  auction document is what protects the lead.
* *Ascending bids.* `Ascending` adds to `BidsAscend` that the last bid wins and that every
  open request offers more than the price it has seen, with its answer above the manual bid
  it answers (`OffersMore`).  If the auction document was written meanwhile the request
  cannot commit; if not, its price is still the price.
* *The settlement.* `Settlement` says for every auction which jobs may have it on their lists, by
  its status (`LifeOf`: nothing that ended is on an activation run's), that a request can
  only commit on an ACTIVE one (`FreshOpen`), and that a finalized one has the winner, price and escrow of its winning bid and
  any other has none (`SettledOf`).  `Alone` is what a lock within its time gives: at most
  one run of a job.  `FinalOnce`: what the finalizer has left to do is not finalized.
  `HoldsMatchBids` is inductive together with these: each commit moves the hold from the
  leader it found to the new one.  `MoneyConserved` needs `FinalOnce` and the sums: a
  finalization takes from one wallet what it puts into one escrow, every other step moves
  nothing between them.
* *The proxy promise.* `LockHeld`: an open request still has its lock.  So nothing is bid
  and no auto-bid set on its auction while it is open, and what the engine answered is still
  true when it commits, except for auto-bids cancelled meanwhile (`Answered`).  After the
  commit no active auto-bid can pass the new price (`PromiseOf`), by the lemmas about the
  engine; before, that is what lets a manual bid meet only auto-bids below it.
* *The engine.* `MCProxyEngineProofs` shows from the lemmas of `ProxyEngineProofs` that the
  answer to each possible call is right in all five respects (`Right`).
* *Escrow.* `NamesExisting` (a call's dispute exists) completes the types.  With the types
  `PaidOncePerReopening` is inductive, as every write of an escrow is a payout
  (`PayOutAccounted`) or an `Overwrite` (`OverwriteAccounted`), and so are
  `FrozenCanBeSettled` (`FrozenStep`) and `ResolutionWasPaid`.  `InOrder` counts the admin
  payouts between two writes: ledger rows plus payouts at "record" do not exceed deposits,
  event rows plus payouts at "status" or "event" do not exceed ledger rows.

* *Sums.* `HeldIsReserved`, `HeldIsOwed` and `LedgerExplainsWallet` are about sums over
  sets of any finite size.  `SumProofs` shows what `SumFunctionOnSet` computes: nothing
  over the empty set, any element may be taken out (`SumTakeOut`), one changed value
  changes the sum by as much (`SumChanges`).  Its proofs take a smallest set for which the
  claim fails, from well-foundedness, in place of induction over finite sets.  Then each
  step of `Bidding` writes one wallet and one entry of its ledger by the same amount
  (`OneEntry`), twice in `TakeOver`.
* *Withdrawals.* `WithdrawalInv` is types, `OneRequestPerDay` and `Books`.  `Books` is
  `HeldIsOwed` and the ledger's equations for every user.  The types need the books, as
  they say that no wallet becomes negative; `OneRequestPerDay` needs only the index.
* *Payments.* `PaymentInv` is types, `GatewayInv` (every "paid" in a notice, an answer or
  a row goes back to the gateway's money), `CreditedOnce` (a payment is credited
  once if its wallet transaction is there, else never) and `MessageInv`: every copy lies in
  a queue bound to its type and is about something that exists, and a deposit whose message
  was handled, or whose key is in Redis, is credited.  `Traced` follows an accepted deposit through outbox, queues and dead letters;
  each action of `Delivery` moves it along.  The refinement maps the gateway's state,
  the SUCCESS row and the credit, and every step is a step of `Deposits` or none.
* *Cache.* `LockIsHeld`: who has not outlived the lock holds it.
* *Reviews.* `GoodReview` says what a call that has read can rely on at its commit: the
  clock has passed one midnight at most (a day is longer than a transaction lives); if it
  saw the other review PENDING it still is, or the call has lost; if it saw none, a review
  written since is too young for the job.  `LoneIsLate`: unless an administrator took part,
  a review without a counterpart is only shown after the window.  With `ReviewWindow` 1
  the argument, and the property, would fail.
* *Notifications.* The steps of one try are taken in order (`InOrder`), what was taken was
  heard (`TakenAreHeard`), a message is only acknowledged, and its key only stored, after
  every step (`HandledAreHeard`); so an event that has left the queues was heard, or is
  among the dead letters (`NoneForgotten`).
* *Chat.* No two messages have one _id, so that time and _id order the room without ties
  (`NewerIsAnOrder`), a page is the newest of what lies behind the cursor
  (`PageIsTheNewest`) and its last message the next cursor.  What the reader has seen or wants
  is in the room.  That a finite room has a last message is shown from well-foundedness.
* *Accounts.* `DeletionTraced` follows the event of each deletion: it only ever lies in the
  auction queue; once handled, every auction listed for it is closed or logged; an auction
  that is listed is one that exists, and none that was closed is opened again.
* *The platform.* `PartsInv`: the component that moves is in its invariant, and the
  others keep their types, because the message system holds only events of the one that moves.

**Only model-checked:** the liveness properties `HeldIsSettled`, `AcceptedIsCredited`,
`DueIsDecided`, `PendingIsRevealed`, `CacheCatchesUp` and `BanIsSeen`, as fairness is out of
the prover's reach.  Every invariant and action property of the passing runs is stated by a
theorem, with the assumptions of the table.  The theorems about the components of
`MCPlatform` are about the components' own specifications; `PlatformIsTyped` is about the
composition.

## 5. Where code and documents disagree

Five runs are expected to end in a counterexample; "findings" in `PROJECT.json` quotes
what each contradicts.

* `minimum_bid`: the challenger of another leader pays an increment over the minimum
  required when the second ceiling lies between price and minimum (README.md:347).
* `cancelled_hold`: `cancelAuction` that read PENDING and commits after activation and a
  bid leaves that bid's hold in place, and nothing releases it later (README.md:698).
* `stale_dispute`: `openDispute` puts an escrow that was just released back to DISPUTED;
  the resolution pays it again (README.md:561).
* `admin_payout`: an admin payout whose check came before a dispute pays a disputed
  escrow (README.md:572).
* `ban_delivery`: auth and auction consumer set the same key `rabbit:msg:<messageId>`, and
  both are bound to `UserBanned`; the one that looks after the other has finished takes the
  event for a duplicate, and the auctions of the banned seller stay open (README.md:698).

Met while modelling, and seen by TLC when asked, without a run of their own:

* `cancelAutoBid` takes no lock: a proxy cancelled after a request's snapshot may still
  win (README.md:388 "Auto-bidding stops for that user").
* An auto-bid inserted while the finalizer runs may stay ACTIVE on a finalized auction.
* `activatePendingAuctions` acts on its list: an auction cancelled meanwhile becomes
  ACTIVE again.  So is a finalized one if the run outlives its lock; if its winner leads
  another auction as well, the next bid releases his hold there, and the auction's price
  and winner no longer match its escrow.
* When bid locks overrun, `ProxyPromise` and `ProxyWithinCeiling` may fail: two snapshots
  do not see each other's auto-bid documents.
* When finalizers overlap and one bidder has won two auctions, one auction can be captured
  twice, out of the other's hold; a cancellation that read ACTIVE and commits after the
  finalization can release such a hold as well.
* The comment at `auto-bidding.service.ts:252` says that the upsert of an auto-bid that
  cannot pay "will be rolled-back with the session": the session is committed.
* `cancelDispute` whose check came before a resolution puts the paid escrow back to HELD
  (`PaidOncePerReopening` counts this); `updateDisputeStatus` accepts every status, and
  CANCELLED or RESOLVED given so leaves the escrow DISPUTED for ever (`FrozenCanBeSettled`
  excepts this and nothing else).
* An admin payout that stops after its deposit leaves the escrow HELD, to be paid again.
* A payment marked EXPIRED, or FAILED by reconciliation (Stripe reports an intent nobody
  has paid yet like a failed one), that the user then pays is never credited: the later
  success is recorded as processed and changes nothing.
* Paymob's notices carry the id of the attempt; a notice "pending" makes the later notice
  of its success a duplicate of the inbox, and counts as a failure itself.
* The auth consumer's retry queue leads back to the routing key `UserBanned`, to which the
  auction queue is bound as well.
* The comment "only one revalidation worker at a time" holds as long as the worker ends
  within the lock's 30 s; `OneRevalidation` says so.

## 6. Plan

Written: all modules of section 2, their instances, and the proofs of section 4.  What is
left, in order:

1. Proofs: the invariants of the components of `MCPlatform` for the composition as well
   (`PartsInv` has them for the part that moves); that a client message is in the room once
   (`SentOnce`).
2. An abstract auction (leader, price, settled once) implemented by `Bidding`, for locks that
   are not outlived: `LeadIsPrice`, `BidsAscend`, `EscrowMatchesWinner` and `FinalOnce` are
   its steps.
3. `createAuction` and `updateAuction` with times, which `Bidding` abstracts to any moment.
4. Registration, e-mail verification and password reset as part of `Accounts`; refresh
   tokens one by one instead of "has one".
5. Two wallets, several auctions and a deposit together: `Bidding` and `Withdrawals` share
   the wallet document, and are checked with holds of the other part as opaque amounts.

## 7. Not modelled

* `createAuction` and `updateAuction` (auctions exist from the start with fixed terms);
  `createWallet` (wallets exist from the start).
* Of payments: signatures, and webhooks whose amount is not the payment's, which are
  refused and end in the dead letter queue; an update of the intent's id that is applied
  while its answer is lost, after which the catch appends FAILED.  Of messages: the delay in a retry queue, what
  cannot be parsed, a broker that loses what it has confirmed.
* Registration, e-mail verification, password reset, profiles; hashing, JWT and OAuth.
* `editMessage`, reactions, read marks and the list of rooms of the chat; read marks and
  deletion of in-app notifications.
* The queries, validation of input and roles, Decimal128 beyond whole units, the text of
  events and notifications.
* What happens when Redis itself is down: no lock is taken, so requests are refused and
  jobs do not start.
* Realtime publication (fire-and-forget), upload, and the admin statistics, which keep no
  state worth checking.
