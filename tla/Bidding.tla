------------------------------- MODULE Bidding ------------------------------
(***************************************************************************)
(* Auctions, bids, auto-bids and the wallet holds behind them: the         *)
(* handlers of auctions/auctions.service.ts, bids/bids.service.ts and      *)
(* bids/services/auto-bidding.service.ts, run by any number of concurrent  *)
(* requests and cron runs over one MongoDB and one Redis.                  *)
(*                                                                         *)
(* A MongoDB transaction is a snapshot at its first read and a commit that *)
(* fails when a document it writes was written by somebody else since.     *)
(* missed[h] is the set of documents written since the snapshot of the     *)
(* transaction of request h.  Where the documents a transaction reads are  *)
(* all protected by one it writes, the transaction is one step.  Nothing   *)
(* in the code retries an aborted transaction.                             *)
(***************************************************************************)
EXTENDS Integers, Sequences, FiniteSets, Functions, Wallet, ProxyEngine

CONSTANTS
    Users,
    Auctions,
    Handlers,         \* requests placeBid and setAutoBid run in
    Cancellers,       \* requests cancelAuction and adminCancelAuction run in
    Crons,            \* runs of the cron jobs, of all server instances
    Seller,           \* the seller of each auction
    StartingPrice,    \* startingPrice and minimumBidIncrement of each
    Increment,        \*   auction: updateAuction is not modelled
    InitialBalance,   \* the balance each user's wallet starts with
    Offers,           \* the amounts and ceilings users offer
    Overrun,          \* the locks whose TTL may run out under a live holder
    Mortal,           \* the requests and runs whose server may die
    None

Jobs == {"activate", "end", "finalize"}

ASSUME ConstantsAssumption ==
    /\ IsFiniteSet(Users)
    /\ IsFiniteSet(Auctions)
    /\ Seller \in [Auctions -> Users]
    /\ StartingPrice \in [Auctions -> Nat \ {0}]
    /\ Increment \in [Auctions -> Nat \ {0}]
    /\ InitialBalance \in [Users -> Nat]
    /\ Offers \subseteq Nat
    /\ \A n \in Offers : n > 0
    /\ Overrun \subseteq Jobs \cup {"bid"}
    /\ None \notin Handlers \cup Crons
    /\ None \notin Users

VARIABLES
    auctions,   \* the auction documents
    bids,       \* the bid documents of each auction, in order of creation
    autobids,   \* the auto-bid document of each auction and user
    wallets,    \* the wallet documents
    reserved,   \* per user and auction, HOLD - RELEASE - CAPTURE of the
                \*   wallet transactions that refer to that auction
    escrows,    \* the escrow document of each auction, as a set
    outbox,     \* per auction, how many outbox rows of each event type
    bidLock,    \* Redis keys auction:bid:lock:<id>
    cronLock,   \* Redis keys of the three cron jobs
    handler,    \* what each placeBid / setAutoBid request has read so far
    missed,     \* documents written since its transaction's snapshot
    canceller,  \* what each cancel request has read so far
    cron        \* the cron job each run is in and the auctions it listed

vars == <<auctions, bids, autobids, wallets, reserved, escrows, outbox,
          bidLock, cronLock, handler, missed, canceller, cron>>

-----------------------------------------------------------------------------
EventTypes == {"AuctionStarted", "AuctionEnded", "AuctionCancelled",
               "BidPlaced", "AutoBidPlaced", "AutoBidExhausted", "EscrowCreated"}

Statuses == {"PENDING", "ACTIVE", "ENDED", "CANCELLED"}

Idle == [op |-> "idle"]

\* The identity of a document, for the write conflicts of transactions.
AuctionDoc(a) == <<"auction", a>>
AutoBidDoc(a, u) == <<"autobid", a, u>>
WalletDocOf(u) == <<"wallet", u>>

\* findWinningByAuctionId: some bid with status WINNING, here its index;
\* 0 stands for null.
AllBids(a) == DOMAIN bids[a]

WinningBids(a) == {i \in DOMAIN bids[a] : bids[a][i].status = "WINNING"}
FoundWinning(a) == IF WinningBids(a) = {} THEN {0} ELSE WinningBids(a)

StartingPriceOnly(a, winning) == StartingPrice[a]

MinimumRequired(a, winning) ==
    IF winning = 0 THEN StartingPrice[a] ELSE auctions[a].price + Increment[a]

ActiveUsers(a) == {u \in Users : autobids[a][u].status = "ACTIVE"}

Candidate(a, u) == [user |-> u, max |-> autobids[a][u].max, born |-> autobids[a][u].born]

\* findActiveByAuctionId.
ActiveAutoBids(a) == {Candidate(a, u) : u \in ActiveUsers(a)}

\* createdAt is set when the document is first inserted and kept after.
Birth(a, u) ==
    IF autobids[a][u].status # "NONE" THEN autobids[a][u].born
    ELSE 1 + Cardinality({v \in Users : autobids[a][v].status # "NONE"})

Emit(a, counts) ==
    outbox' = [outbox EXCEPT ![a] =
                  [e \in EventTypes |-> @[e] + (IF e \in DOMAIN counts THEN counts[e] ELSE 0)]]

\* What another committed write means to the open transactions.
Wrote(docs) ==
    missed' = [h \in Handlers |-> IF handler[h] = Idle THEN {} ELSE missed[h] \cup docs]

\* RELEASE_LOCK_LUA_SCRIPT: delete the key if it still has the holder's value.
UnlockBid(h, a) == bidLock' = [bidLock EXCEPT ![a] = IF @ = h THEN None ELSE @]

-----------------------------------------------------------------------------
Init ==
    /\ auctions = [a \in Auctions |->
                     [status |-> "PENDING", price |-> StartingPrice[a],
                      winner |-> None, finalized |-> FALSE]]
    /\ bids = [a \in Auctions |-> <<>>]
    /\ autobids = [a \in Auctions |-> [u \in Users |-> [status |-> "NONE", max |-> 0, born |-> 0]]]
    /\ wallets = [u \in Users |-> [balance |-> InitialBalance[u], held |-> 0]]
    /\ reserved = [u \in Users |-> [a \in Auctions |-> 0]]
    /\ escrows = [a \in Auctions |-> {}]
    /\ outbox = [a \in Auctions |-> [e \in EventTypes |-> 0]]
    /\ bidLock = [a \in Auctions |-> None]
    /\ cronLock = [j \in Jobs |-> None]
    /\ handler = [h \in Handlers |-> Idle]
    /\ missed = [h \in Handlers |-> {}]
    /\ canceller = [c \in Cancellers |-> Idle]
    /\ cron = [c \in Crons |-> Idle]

-----------------------------------------------------------------------------
(***************************************************************************)
(* placeBid and setAutoBid up to the proxy engine: take the lock, open the *)
(* transaction, check the auction and compute the outcome on the snapshot. *)
(* A check that fails throws, which changes nothing.                       *)
(***************************************************************************)
NeedsPreflight(r) == r.auto /\ r.creates # {}

Opened(h, op, a, u, n, winning, r) ==
    /\ bidLock' = [bidLock EXCEPT ![a] = h]
    /\ missed' = [missed EXCEPT ![h] = {}]
    /\ handler' = [handler EXCEPT ![h] =
          [op |-> op, at |-> IF NeedsPreflight(r) THEN "preflight" ELSE "commit",
           auction |-> a, user |-> u, amount |-> n,
           winning |-> winning, result |-> r, funds |-> 0]]
    /\ UNCHANGED <<auctions, bids, autobids, wallets, reserved, escrows, outbox,
                   cronLock, canceller, cron>>

PlaceBid(h, a, u, n) ==
    /\ handler[h] = Idle
    /\ bidLock[a] = None
    /\ auctions[a].status = "ACTIVE"
    /\ Seller[a] # u
    /\ \E winning \in FoundWinning(a) :
         /\ winning # 0 => bids[a][winning].bidder # u
         /\ n >= MinimumRequired(a, winning)
         /\ Opened(h, "placeBid", a, u, n, winning,
                   AfterManualBid(ActiveAutoBids(a), Increment[a], u, n))

SetAutoBid(h, a, u, n) ==
    /\ handler[h] = Idle
    /\ bidLock[a] = None
    /\ auctions[a].status = "ACTIVE"
    /\ Seller[a] # u
    /\ \E winning \in FoundWinning(a) :
         LET leads     == winning # 0 /\ bids[a][winning].bidder = u
             committed == IF leads THEN bids[a][winning].amount ELSE 0
             \* findActiveByAuctionAndMaxAmount finds one of these
             sameMax   == {v \in ActiveUsers(a) : autobids[a][v].max = n}
             \* findActiveByAuctionId after the upsert, in the same transaction
             active    == {Candidate(a, v) : v \in ActiveUsers(a) \ {u}}
                             \cup {[user |-> u, max |-> n, born |-> Birth(a, u)]}
         IN  /\ n >= MinimumRequired(a, winning)
             /\ sameMax # {} => u \in sameMax
             /\ n - committed > 0 => Available(wallets[u]) >= n - committed
             /\ Opened(h, "setAutoBid", a, u, n, winning,
                       AfterAutoBid(active, StartingPrice[a], Increment[a],
                           IF winning = 0 THEN StartingPrice[a] ELSE auctions[a].price,
                           winning # 0,
                           IF winning = 0 THEN None ELSE bids[a][winning].bidder))

\* The pre-flight check of an auto-bid that is about to win: the wallet is
\* read outside the transaction, and what the transaction is going to
\* release on this auction is added.
Preflight(h) ==
    /\ handler[h] # Idle
    /\ handler[h].at = "preflight"
    /\ LET a       == handler[h].auction
           w       == handler[h].result.winner
           winning == handler[h].winning
           own     == IF winning # 0 /\ bids[a][winning].bidder = w
                      THEN bids[a][winning].amount ELSE 0
       IN  handler' = [handler EXCEPT ![h].funds = Available(wallets[w]) + own,
                                      ![h].at = "commit"]
    /\ UNCHANGED <<auctions, bids, autobids, wallets, reserved, escrows, outbox,
                   bidLock, cronLock, missed, canceller, cron>>

-----------------------------------------------------------------------------
(***************************************************************************)
(* The writes and the commit.                                              *)
(***************************************************************************)
\* Release the previous winner, mark its bid OUTBID, hold n of user w and
\* record w's winning bid and price.  `lost` is the manual bid that an
\* auto-bid beats, recorded OUTBID without a hold.
TakeOver(a, winning, w, n, lost) ==
    LET prev  == bids[a][winning]
        freed == IF winning = 0 THEN wallets
                 ELSE [wallets EXCEPT ![prev.bidder] = Released(@, prev.amount)]
        unreserved == IF winning = 0 THEN reserved
                      ELSE [reserved EXCEPT ![prev.bidder][a] = @ - prev.amount]
        outbid == IF winning = 0 THEN bids[a]
                  ELSE [bids[a] EXCEPT ![winning].status = "OUTBID"]
    IN  /\ winning # 0 => CanRelease(wallets[prev.bidder], prev.amount)
        /\ CanHold(freed[w], n)
        /\ wallets' = [freed EXCEPT ![w] = WithHold(@, n)]
        /\ reserved' = [unreserved EXCEPT ![w][a] = @ + n]
        /\ bids' = [bids EXCEPT ![a] = outbid \o lost \o <<NewBid(w, n, "WINNING")>>]
        /\ auctions' = [auctions EXCEPT ![a].price = n]

TakeOverDocs(a, winning, w) ==
    {AuctionDoc(a), WalletDocOf(w)}
        \cup (IF winning = 0 THEN {} ELSE {WalletDocOf(bids[a][winning].bidder)})

SpendNothing(row, spent) == row

SpendAsOutbid(row, spent) ==
    [u \in Users |-> IF u \in spent THEN [row[u] EXCEPT !.status = "OUTBID"] ELSE row[u]]

Spend(row, spent) ==
    [u \in Users |-> IF u \in spent THEN [row[u] EXCEPT !.status = "EXHAUSTED"] ELSE row[u]]

Upserted(a, u, n) ==
    [autobids[a] EXCEPT ![u] = [status |-> "ACTIVE", max |-> n, born |-> Birth(a, u)]]

AutoBidDocs(a, S) == {AutoBidDoc(a, u) : u \in S}

\* First committer wins.
IgnoresConflicts(h, docs) == TRUE

NoConflict(h, docs) == missed[h] \cap docs = {}

\* The lock is released in the finally block.
Commit(h, docs) ==
    /\ NoConflict(h, docs)
    /\ handler' = [handler EXCEPT ![h] = Idle]
    /\ missed' = [g \in Handlers |-> IF g = h \/ handler[g] = Idle THEN {}
                                     ELSE missed[g] \cup docs]
    /\ UnlockBid(h, handler[h].auction)
    /\ UNCHANGED <<escrows, cronLock, canceller, cron>>

Ready(h, op) == handler[h] # Idle /\ handler[h].op = op /\ handler[h].at = "commit"

Unfunded(h) == NeedsPreflight(handler[h].result) /\ handler[h].funds < handler[h].result.amount

\* The manual bid wins: it beats every auto-bid, or the auto-bid that beats
\* it cannot pay and is exhausted in its place.
ManualBidWins(h) ==
    /\ Ready(h, "placeBid")
    /\ LET t     == handler[h]
           r     == t.result
           spent == r.exhausted \cup (IF r.auto THEN {r.winner} ELSE {})
       IN  /\ r.auto => Unfunded(h)
           /\ TakeOver(t.auction, t.winning, t.user, t.amount, <<>>)
           /\ autobids' = [autobids EXCEPT ![t.auction] = Spend(@, spent)]
           /\ Emit(t.auction, [BidPlaced |-> 1, AutoBidExhausted |-> Cardinality(spent)])
           /\ Commit(h, TakeOverDocs(t.auction, t.winning, t.user)
                           \cup AutoBidDocs(t.auction, spent))

\* An auto-bid answers the manual bid.
AutoBidAnswers(h) ==
    /\ Ready(h, "placeBid")
    /\ LET t == handler[h]
           r == t.result
       IN  /\ r.auto /\ ~Unfunded(h)
           /\ TakeOver(t.auction, t.winning, r.winner, r.amount,
                       <<NewBid(t.user, t.amount, "OUTBID")>>)
           /\ autobids' = [autobids EXCEPT ![t.auction] = Spend(@, r.exhausted)]
           /\ Emit(t.auction, [BidPlaced |-> 1, AutoBidPlaced |-> 1,
                               AutoBidExhausted |-> Cardinality(r.exhausted \ {r.winner})])
           /\ Commit(h, TakeOverDocs(t.auction, t.winning, r.winner)
                           \cup AutoBidDocs(t.auction, r.exhausted))

\* The auto-bid is stored and nobody's bid changes: its user leads already,
\* or the auto-bid that should win cannot pay and is exhausted.
AutoBidStored(h) ==
    /\ Ready(h, "setAutoBid")
    /\ LET t     == handler[h]
           r     == t.result
           spent == r.exhausted \cup (IF Unfunded(h) THEN {r.winner} ELSE {})
           told  == Cardinality(r.exhausted \ {r.winner}) + (IF Unfunded(h) THEN 1 ELSE 0)
       IN  /\ r.creates = {} \/ Unfunded(h)
           /\ autobids' = [autobids EXCEPT ![t.auction] =
                              Spend(Upserted(t.auction, t.user, t.amount), spent)]
           /\ Emit(t.auction, [AutoBidExhausted |-> told])
           /\ Commit(h, AutoBidDocs(t.auction, {t.user} \cup spent))
    /\ UNCHANGED <<auctions, bids, wallets, reserved>>

\* The best auto-bid takes the lead, or raises its own bid.
AutoBidTakesOver(h) ==
    /\ Ready(h, "setAutoBid")
    /\ LET t == handler[h]
           r == t.result
       IN  /\ r.creates # {} /\ ~Unfunded(h)
           /\ TakeOver(t.auction, t.winning, r.winner, r.amount, <<>>)
           /\ autobids' = [autobids EXCEPT ![t.auction] =
                              Spend(Upserted(t.auction, t.user, t.amount), r.exhausted)]
           /\ Emit(t.auction, [BidPlaced |-> 1, AutoBidPlaced |-> 1,
                               AutoBidExhausted |-> Cardinality(r.exhausted \ {r.winner})])
           /\ Commit(h, TakeOverDocs(t.auction, t.winning, r.winner)
                           \cup AutoBidDocs(t.auction, {t.user} \cup r.exhausted))

\* The transaction aborts: a write conflict, a hold or release the wallet
\* refuses, an error of the database.  The lock is released.
AbortBid(h) ==
    /\ handler[h] # Idle
    /\ handler' = [handler EXCEPT ![h] = Idle]
    /\ missed' = [missed EXCEPT ![h] = {}]
    /\ UnlockBid(h, handler[h].auction)
    /\ UNCHANGED <<auctions, bids, autobids, wallets, reserved, escrows, outbox,
                   cronLock, canceller, cron>>

\* The server dies: the transaction is rolled back, the lock stays.
CrashBid(h) ==
    /\ h \in Mortal
    /\ handler[h] # Idle
    /\ handler' = [handler EXCEPT ![h] = Idle]
    /\ missed' = [missed EXCEPT ![h] = {}]
    /\ UNCHANGED <<auctions, bids, autobids, wallets, reserved, escrows, outbox,
                   bidLock, cronLock, canceller, cron>>

\* The 5 s TTL of the lock runs out: its holder is dead, or too slow.
BidLockExpires(a) ==
    /\ bidLock[a] # None
    /\ LET h == bidLock[a]
       IN  (handler[h] # Idle /\ handler[h].auction = a) => "bid" \in Overrun
    /\ bidLock' = [bidLock EXCEPT ![a] = None]
    /\ UNCHANGED <<auctions, bids, autobids, wallets, reserved, escrows, outbox,
                   cronLock, handler, missed, canceller, cron>>

\* cancelAutoBid: no lock and no transaction; the update is conditional on
\* the status being ACTIVE still.
CancelAutoBid(a, u) ==
    /\ autobids[a][u].status = "ACTIVE"
    /\ autobids' = [autobids EXCEPT ![a][u].status = "CANCELLED"]
    /\ Wrote({AutoBidDoc(a, u)})
    /\ UNCHANGED <<auctions, bids, wallets, reserved, escrows, outbox,
                   bidLock, cronLock, handler, canceller, cron>>

-----------------------------------------------------------------------------
(***************************************************************************)
(* cancelAuction and adminCancelAuction: the auction is read and its       *)
(* status checked before the transaction, which then trusts that status.   *)
(***************************************************************************)
RequestCancel(c, a) ==
    /\ canceller[c] = Idle
    /\ auctions[a].status \in {"PENDING", "ACTIVE"}
    /\ canceller' = [canceller EXCEPT ![c] =
                        [op |-> "cancel", auction |-> a, seen |-> auctions[a].status]]
    /\ UNCHANGED <<auctions, bids, autobids, wallets, reserved, escrows, outbox,
                   bidLock, cronLock, handler, missed, cron>>

CommitCancel(c) ==
    /\ canceller[c] # Idle
    /\ LET a == canceller[c].auction
       IN  \E winning \in IF canceller[c].seen = "ACTIVE" THEN FoundWinning(a) ELSE {0} :
             /\ IF winning = 0
                THEN UNCHANGED <<wallets, reserved>> /\ Wrote({AuctionDoc(a)})
                ELSE LET b == bids[a][winning]
                     IN  /\ CanRelease(wallets[b.bidder], b.amount)
                         /\ wallets' = [wallets EXCEPT ![b.bidder] = Released(@, b.amount)]
                         /\ reserved' = [reserved EXCEPT ![b.bidder][a] = @ - b.amount]
                         /\ Wrote({AuctionDoc(a), WalletDocOf(b.bidder)})
             /\ auctions' = [auctions EXCEPT ![a].status = "CANCELLED"]
             /\ Emit(a, [AuctionCancelled |-> 1])
    /\ canceller' = [canceller EXCEPT ![c] = Idle]
    /\ UNCHANGED <<bids, autobids, escrows, bidLock, cronLock, handler, cron>>

\* The transaction aborts, or the server dies.
AbortCancel(c) ==
    /\ canceller[c] # Idle
    /\ canceller' = [canceller EXCEPT ![c] = Idle]
    /\ UNCHANGED <<auctions, bids, autobids, wallets, reserved, escrows, outbox,
                   bidLock, cronLock, handler, missed, cron>>

-----------------------------------------------------------------------------
(***************************************************************************)
(* The cron jobs: take the job's lock, list the auctions, then treat them  *)
(* one at a time on the strength of that list.  Start and end times are    *)
(* abstracted: any auction of the right status may be due.                 *)
(***************************************************************************)
\* findEndedWithoutWinner.
EndedAuctions == {a \in Auctions : auctions[a].status = "ENDED"}

EndedWithoutWinner ==
    {a \in EndedAuctions : auctions[a].winner = None /\ ~auctions[a].finalized}

Listed(job) ==
    CASE job = "activate" -> {a \in Auctions : auctions[a].status = "PENDING"}
      [] job = "end"      -> {a \in Auctions : auctions[a].status = "ACTIVE"}
      [] job = "finalize" -> EndedWithoutWinner

\* The finalizer lists every auction it finds, the others those that are due.
StartJob(c, job) ==
    /\ cron[c] = Idle
    /\ cronLock[job] = None
    /\ \E due \in SUBSET Listed(job) \ {{}} :
         /\ job = "finalize" => due = Listed(job)
         /\ cron' = [cron EXCEPT ![c] = [op |-> job, todo |-> due]]
    /\ cronLock' = [cronLock EXCEPT ![job] = c]
    /\ UNCHANGED <<auctions, bids, autobids, wallets, reserved, escrows, outbox,
                   bidLock, handler, missed, canceller>>

\* The loop goes on to the next auction; after the last the lock is released.
Done(c, a) ==
    LET job == cron[c].op
        rest == cron[c].todo \ {a}
    IN  /\ cron' = [cron EXCEPT ![c] = IF rest = {} THEN Idle ELSE [@ EXCEPT !.todo = rest]]
        /\ cronLock' = [cronLock EXCEPT ![job] = IF rest = {} /\ @ = c THEN None ELSE @]

At(c, job, a) == cron[c] # Idle /\ cron[c].op = job /\ a \in cron[c].todo

\* activatePendingAuctions: the status is set whatever it is by now.
Activate(c, a) ==
    /\ At(c, "activate", a)
    /\ auctions' = [auctions EXCEPT ![a].status = "ACTIVE"]
    /\ Emit(a, [AuctionStarted |-> 1])
    /\ Wrote({AuctionDoc(a)})
    /\ Done(c, a)
    /\ UNCHANGED <<bids, autobids, wallets, reserved, escrows, bidLock, handler, canceller>>

\* endActiveAuctions: updateMany by _id, one document after the other.
End(c, a) ==
    /\ At(c, "end", a)
    /\ auctions' = [auctions EXCEPT ![a].status = "ENDED"]
    /\ Wrote({AuctionDoc(a)})
    /\ Done(c, a)
    /\ UNCHANGED <<bids, autobids, wallets, reserved, escrows, outbox,
                   bidLock, handler, canceller>>

\* finalizeEndedAuctions: the transaction of one auction.  createEscrow
\* returns the escrow the auction has, if it has one.
Finalize(c, a) ==
    /\ At(c, "finalize", a)
    /\ \E winning \in FoundWinning(a) :
         LET b == bids[a][winning]
         IN  /\ IF winning = 0
                THEN /\ auctions' = [auctions EXCEPT ![a].finalized = TRUE]
                     /\ UNCHANGED <<wallets, reserved, escrows>>
                ELSE /\ CanCapture(wallets[b.bidder], b.amount)
                     /\ wallets' = [wallets EXCEPT ![b.bidder] = Captured(@, b.amount)]
                     /\ reserved' = [reserved EXCEPT ![b.bidder][a] = @ - b.amount]
                     /\ escrows' = [escrows EXCEPT ![a] =
                            IF @ # {} THEN @
                            ELSE {[buyer |-> b.bidder, seller |-> Seller[a], amount |-> b.amount]}]
                     /\ auctions' = [auctions EXCEPT ![a].finalized = TRUE, ![a].winner = b.bidder]
             /\ autobids' = [autobids EXCEPT ![a] = Spend(@, ActiveUsers(a))]
             /\ Wrote({AuctionDoc(a)} \cup AutoBidDocs(a, ActiveUsers(a))
                         \cup (IF winning = 0 THEN {} ELSE {WalletDocOf(b.bidder)}))
             /\ Emit(a, [AuctionEnded |-> 1,
                         EscrowCreated |-> IF winning # 0 /\ escrows[a] = {} THEN 1 ELSE 0])
    /\ Done(c, a)
    /\ UNCHANGED <<bids, bidLock, handler, canceller>>

\* The transaction of one auction aborts: the loop logs it and goes on.
Skip(c, a) ==
    /\ cron[c] # Idle
    /\ a \in cron[c].todo
    /\ Done(c, a)
    /\ UNCHANGED <<auctions, bids, autobids, wallets, reserved, escrows, outbox,
                   bidLock, handler, missed, canceller>>

\* The server dies in the middle of the job: the lock stays.
CrashJob(c) ==
    /\ c \in Mortal
    /\ cron[c] # Idle
    /\ cron' = [cron EXCEPT ![c] = Idle]
    /\ UNCHANGED <<auctions, bids, autobids, wallets, reserved, escrows, outbox,
                   bidLock, cronLock, handler, missed, canceller>>

\* The TTL of a job's lock (30 s, 55 s for the finalizer) runs out.
CronLockExpires(job) ==
    /\ cronLock[job] # None
    /\ LET c == cronLock[job]
       IN  (cron[c] # Idle /\ cron[c].op = job) => job \in Overrun
    /\ cronLock' = [cronLock EXCEPT ![job] = None]
    /\ UNCHANGED <<auctions, bids, autobids, wallets, reserved, escrows, outbox,
                   bidLock, handler, missed, canceller, cron>>

-----------------------------------------------------------------------------
BidStep ==
    \/ \E h \in Handlers, a \in Auctions, u \in Users, n \in Offers :
          PlaceBid(h, a, u, n) \/ SetAutoBid(h, a, u, n)
    \/ \E h \in Handlers :
          \/ Preflight(h)
          \/ ManualBidWins(h) \/ AutoBidAnswers(h)
          \/ AutoBidStored(h) \/ AutoBidTakesOver(h)
          \/ AbortBid(h) \/ CrashBid(h)
    \/ \E a \in Auctions : BidLockExpires(a)
    \/ \E a \in Auctions, u \in Users : CancelAutoBid(a, u)

CancelStep ==
    \E c \in Cancellers :
        \/ \E a \in Auctions : RequestCancel(c, a)
        \/ CommitCancel(c)
        \/ AbortCancel(c)

CronStep ==
    \/ \E c \in Crons :
          \/ \E job \in Jobs : StartJob(c, job)
          \/ \E a \in Auctions : Activate(c, a) \/ End(c, a) \/ Finalize(c, a) \/ Skip(c, a)
          \/ CrashJob(c)
    \/ \E job \in Jobs : CronLockExpires(job)

Next == BidStep \/ CancelStep \/ CronStep

Spec == Init /\ [][Next]_vars

-----------------------------------------------------------------------------
(***************************************************************************)
(* Properties.                                                             *)
(***************************************************************************)
AuctionFields ==
    [status : Statuses, price : Nat, winner : Users \cup {None}, finalized : BOOLEAN]

BidFields == [bidder : Users, amount : Nat, status : {"WINNING", "OUTBID"}]

AutoBidFields ==
    [status : {"NONE", "ACTIVE", "EXHAUSTED", "CANCELLED"}, max : Nat, born : Nat]

EscrowFields == [buyer : Users, seller : Users, amount : Nat]

Documents ==
    {AuctionDoc(a) : a \in Auctions} \cup {WalletDocOf(u) : u \in Users}
        \cup {AutoBidDoc(a, u) : a \in Auctions, u \in Users}

EngineResults ==
    [winner : Users, amount : Nat, auto : BOOLEAN, exhausted : SUBSET Users,
     creates : SUBSET BidFields]

Requests ==
    [op : {"placeBid", "setAutoBid"}, at : {"preflight", "commit"},
     auction : Auctions, user : Users, amount : Offers, winning : Nat,
     result : EngineResults, funds : Int]

CancelRequests == [op : {"cancel"}, auction : Auctions, seen : {"PENDING", "ACTIVE"}]

CronRuns == [op : Jobs, todo : SUBSET Auctions]

\* Every variable has its type: the shapes the Mongoose schemas declare.
TypeOK ==
    /\ auctions \in [Auctions -> AuctionFields]
    /\ bids \in [Auctions -> Seq(BidFields)]
    /\ autobids \in [Auctions -> [Users -> AutoBidFields]]
    /\ wallets \in [Users -> [balance : Int, held : Int]]
    /\ reserved \in [Users -> [Auctions -> Int]]
    /\ escrows \in [Auctions -> SUBSET EscrowFields]
    /\ outbox \in [Auctions -> [EventTypes -> Nat]]
    /\ bidLock \in [Auctions -> Handlers \cup {None}]
    /\ cronLock \in [Jobs -> Crons \cup {None}]
    /\ handler \in [Handlers -> Requests \cup {Idle}]
    /\ missed \in [Handlers -> SUBSET Documents]
    /\ canceller \in [Cancellers -> CancelRequests \cup {Idle}]
    /\ cron \in [Crons -> CronRuns \cup {Idle}]

\* A wallet never holds more than it has, nor less than nothing, whatever
\* bids, cancellations and cron runs interleave on it.
WalletsSound == \A u \in Users : SoundWallet(wallets[u])

\* An auction has at most one WINNING bid, it is the last one recorded, and
\* currentPrice is its amount: concurrent bids never both win, with the
\* Redis lock or without it.
LeadIsPrice ==
    \A a \in Auctions : \A i \in WinningBids(a) :
        /\ i = Len(bids[a])
        /\ auctions[a].price = bids[a][i].amount

\* Bids are recorded in ascending order; only an auto-bid that ties the
\* manual bid it answers repeats an amount.
BidsAscend ==
    \A a \in Auctions : \A i, j \in DOMAIN bids[a] :
        i < j => /\ bids[a][i].amount <= bids[a][j].amount
                 /\ bids[a][i].amount = bids[a][j].amount
                       => j = i + 1 /\ bids[a][i].bidder # bids[a][j].bidder

\* What a user's wallet holds for an auction is the amount of the user's
\* winning bid on it, from the bid to the capture: the holds of outbid users
\* are released, and nobody's hold is released or captured twice.
Leads(u, a) == \E i \in WinningBids(a) : bids[a][i].bidder = u

HoldsMatchBids ==
    \A u \in Users, a \in Auctions :
        reserved[u][a] = IF Leads(u, a) /\ ~auctions[a].finalized
                         THEN auctions[a].price ELSE 0

\* The held field of a wallet is the sum of what its wallet transactions hold
\* for the auctions: the wallet's own books agree with its ledger.
HeldIsReserved ==
    \A u \in Users : wallets[u].held = SumFunction(reserved[u])

\* What the escrow of an auction, if it has one, keeps from its buyer.
Escrowed(E) == IF E = {} THEN 0 ELSE (CHOOSE e \in E : TRUE).amount

\* The money of the users and of the escrows is what the users brought.
MoneyConserved ==
    SumFunction([u \in Users |-> wallets[u].balance])
      + SumFunction([a \in Auctions |-> Escrowed(escrows[a])])
      = SumFunction(InitialBalance)

\* The escrow of a finalized auction is the winner's, for the price of the
\* winning bid, and an auction that is not finalized has none, as long as no
\* activation run outlives its lock: activatePendingAuctions sets ACTIVE whatever
\* the auction has become, and a late run reopens an auction that was paid.
EscrowMatchesWinner ==
    \A a \in Auctions :
        escrows[a] = IF auctions[a].winner = None THEN {}
                     ELSE {[buyer |-> auctions[a].winner, seller |-> Seller[a],
                            amount |-> auctions[a].price]}

\* No active auto-bid of a user who is not leading could still place a bid:
\* the proxy war is always fought to its end.
ProxyPromise ==
    \A a \in Auctions : auctions[a].status = "ACTIVE" =>
        \A u \in ActiveUsers(a) :
            Leads(u, a) \/ autobids[a][u].max < auctions[a].price + Increment[a]

\* A proxy never bids above the ceiling its user has declared at that moment.
ProxyBids(a) ==
    \E i \in DOMAIN bids'[a] \ DOMAIN bids[a] :
        /\ bids'[a][i].status = "WINNING"
        /\ outbox'[a]["AutoBidPlaced"] # outbox[a]["AutoBidPlaced"]

ProxyWithinCeiling ==
    [][\A a \in Auctions : ProxyBids(a) =>
          LET b == bids'[a][Len(bids'[a])]
          IN  b.amount <= autobids'[a][b.bidder].max]_vars

\* A cancelled auction holds nobody's money.
CancelledHoldsNothing ==
    \A a \in Auctions : auctions[a].status = "CANCELLED" => \A u \in Users : reserved[u][a] = 0
=============================================================================
