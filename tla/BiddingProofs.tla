---------------------------- MODULE BiddingProofs ---------------------------
(***************************************************************************)
(* Theorems about Bidding, for any finite set of users and any auctions,   *)
(* requests, cron runs and offers, whichever locks may overrun and         *)
(* whichever servers may die.                                              *)
(***************************************************************************)
EXTENDS Bidding, ProxyEngineProofs, SumProofs, FiniteSetTheorems, SequenceTheorems, TLAPS

\* The winning bid a request found is still a bid of its auction.
WinningKnown ==
    \A h \in Handlers : handler[h] # Idle =>
        handler[h].winning \in {0} \cup DOMAIN bids[handler[h].auction]

Typed == TypeOK /\ WinningKnown

-----------------------------------------------------------------------------
(***************************************************************************)
(* The parts the actions are built from keep the types.                    *)
(***************************************************************************)
\* Counting events keeps the counters natural numbers.
LEMMA EmitTyped ==
    ASSUME NEW a \in Auctions, NEW counts, \A e \in DOMAIN counts : counts[e] \in Nat,
           outbox \in [Auctions -> [EventTypes -> Nat]], Emit(a, counts)
    PROVE  outbox' \in [Auctions -> [EventTypes -> Nat]]
<1> DEFINE row == [e \in EventTypes |->
                     outbox[a][e] + (IF e \in DOMAIN counts THEN counts[e] ELSE 0)]
<1>1. row \in [EventTypes -> Nat]
  OBVIOUS
<1>2. outbox' = [outbox EXCEPT ![a] = row]
  BY DEF Emit
<1> HIDE DEF row
<1>3. QED BY <1>1, <1>2

\* Noting a write for the open transactions keeps missed a set of documents.
LEMMA WroteTyped ==
    ASSUME NEW docs \in SUBSET Documents, missed \in [Handlers -> SUBSET Documents],
           Wrote(docs)
    PROVE  missed' \in [Handlers -> SUBSET Documents]
BY DEF Wrote

\* The identity of every document is one of Documents.
LEMMA DocumentsNamed ==
    /\ \A a \in Auctions : AuctionDoc(a) \in Documents
    /\ \A u \in Users : WalletDocOf(u) \in Documents
    /\ \A a \in Auctions, u \in Users : AutoBidDoc(a, u) \in Documents
BY DEF Documents

\* So are the identities of the auto-bids a transaction writes.
LEMMA AutoBidDocsNamed ==
    ASSUME NEW a \in Auctions, NEW S \in SUBSET Users
    PROVE  AutoBidDocs(a, S) \in SUBSET Documents
BY DocumentsNamed DEF AutoBidDocs

\* A bid found among the bids of an auction is a bid document.
LEMMA BidOf ==
    ASSUME bids \in [Auctions -> Seq(BidFields)], NEW a \in Auctions,
           NEW i \in DOMAIN bids[a]
    PROVE  /\ i \in Nat \ {0} /\ DOMAIN bids[a] = 1..Len(bids[a])
           /\ bids[a][i] \in BidFields
           /\ bids[a][i].bidder \in Users /\ bids[a][i].amount \in Nat
<1>1. bids[a] \in Seq(BidFields)
  OBVIOUS
<1>2. DOMAIN bids[a] = 1..Len(bids[a]) /\ Len(bids[a]) \in Nat
  BY <1>1, LenProperties
<1>3. bids[a][i] \in BidFields
  BY <1>1, <1>2, ElementOfSeq
<1>4. QED BY <1>2, <1>3 DEF BidFields

\* The documents TakeOver writes are documents.
LEMMA TakeOverDocsNamed ==
    ASSUME NEW a \in Auctions, NEW w \in Users, NEW winning \in {0} \cup DOMAIN bids[a],
           bids \in [Auctions -> Seq(BidFields)]
    PROVE  TakeOverDocs(a, winning, w) \in SUBSET Documents
<1>1. AuctionDoc(a) \in Documents /\ WalletDocOf(w) \in Documents
  BY DocumentsNamed
<1>2. winning # 0 => bids[a][winning].bidder \in Users
  BY BidOf
<1>3. winning # 0 => WalletDocOf(bids[a][winning].bidder) \in Documents
  BY <1>2, DocumentsNamed
<1>4. QED BY <1>1, <1>3 DEF TakeOverDocs

\* Marking auto-bids exhausted keeps the row of an auction well formed.
LEMMA SpendTyped ==
    ASSUME NEW row \in [Users -> AutoBidFields], NEW spent
    PROVE  Spend(row, spent) \in [Users -> AutoBidFields]
<1>1. ASSUME NEW u \in Users
      PROVE  [row[u] EXCEPT !.status = "EXHAUSTED"] \in AutoBidFields
  <2>1. row[u] \in AutoBidFields
    OBVIOUS
  <2>2. QED BY <2>1 DEF AutoBidFields
<1>2. QED BY <1>1 DEF Spend

\* createdAt, counted, is a natural number: there are finitely many users.
LEMMA BirthTyped ==
    ASSUME autobids \in [Auctions -> [Users -> AutoBidFields]],
           NEW a \in Auctions, NEW u \in Users
    PROVE  Birth(a, u) \in Nat
<1>1. Cardinality({v \in Users : autobids[a][v].status # "NONE"}) \in Nat
  BY ConstantsAssumption, FS_Subset, FS_CardinalityType
<1>2. autobids[a][u].born \in Nat
  BY DEF AutoBidFields
<1>3. QED BY <1>1, <1>2 DEF Birth

\* The upsert of setAutoBid stores auto-bid documents.
LEMMA UpsertedTyped ==
    ASSUME autobids \in [Auctions -> [Users -> AutoBidFields]],
           NEW a \in Auctions, NEW u \in Users, NEW n \in Nat
    PROVE  Upserted(a, u, n) \in [Users -> AutoBidFields]
<1>1. [status |-> "ACTIVE", max |-> n, born |-> Birth(a, u)] \in AutoBidFields
  BY BirthTyped DEF AutoBidFields
<1>2. QED BY <1>1 DEF Upserted

\* findActiveByAuctionId returns finitely many auto-bids.
LEMMA CandidatesTyped ==
    ASSUME autobids \in [Auctions -> [Users -> AutoBidFields]], NEW a \in Auctions
    PROVE  /\ \A v \in Users : Candidate(a, v) \in CandidatesOf(Users)
           /\ \A D \in SUBSET Users :
                 /\ {Candidate(a, v) : v \in D} \in SUBSET CandidatesOf(Users)
                 /\ IsFiniteSet({Candidate(a, v) : v \in D})
<1>1. ASSUME NEW v \in Users PROVE Candidate(a, v) \in CandidatesOf(Users)
  <2>1. autobids[a][v] \in AutoBidFields
    OBVIOUS
  <2>2. QED BY <2>1 DEF Candidate, CandidatesOf, AutoBidFields
<1>2. ASSUME NEW D \in SUBSET Users PROVE IsFiniteSet({Candidate(a, v) : v \in D})
  <2>1. IsFiniteSet(D)
    BY ConstantsAssumption, FS_Subset
  <2> DEFINE f == [v \in D |-> Candidate(a, v)]
             T == {Candidate(a, v) : v \in D}
  <2>2. f \in Surjection(D, T)
    BY DEF Surjection
  <2>3. QED BY <2>1, <2>2, FS_Surjection
<1>3. QED BY <1>1, <1>2

WalletFields == [balance : Int, held : Int]

\* What the updates do to a wallet document.
LEMMA WalletUpdates ==
    ASSUME NEW w \in WalletFields, NEW n \in Int
    PROVE  /\ w.balance \in Int /\ w.held \in Int
           /\ Released(w, n) = [balance |-> w.balance, held |-> w.held - n]
           /\ WithHold(w, n) = [balance |-> w.balance, held |-> w.held + n]
           /\ Captured(w, n) = [balance |-> w.balance - n, held |-> w.held - n]
<1>1. w = [balance |-> w.balance, held |-> w.held] /\ w.balance \in Int /\ w.held \in Int
  BY DEF WalletFields
<1>2. \A b, d : [[balance |-> b, held |-> d] EXCEPT !.held = @ - n]
                   = [balance |-> b, held |-> d - n]
  OBVIOUS
<1>3. \A b, d : [[balance |-> b, held |-> d] EXCEPT !.held = @ + n]
                   = [balance |-> b, held |-> d + n]
  OBVIOUS
<1>4. Captured(w, n) = [balance |-> w.balance - n, held |-> w.held - n]
  <2>1. \A b, d, x : [[balance |-> b, held |-> d] EXCEPT !.balance = x] = [balance |-> x, held |-> d]
    OBVIOUS
  <2>2. \A b, d, y : [[balance |-> b, held |-> d] EXCEPT !.held = y] = [balance |-> b, held |-> y]
    OBVIOUS
  <2> DEFINE part == [w EXCEPT !.balance = w.balance - n]
  <2>3. part = [balance |-> w.balance - n, held |-> w.held]
    BY <1>1, <2>1
  <2>4. Captured(w, n) = [part EXCEPT !.held = w.held - n]
    BY DEF Captured
  <2>5. [part EXCEPT !.held = w.held - n] = [balance |-> w.balance - n, held |-> w.held - n]
    <3> HIDE DEF part
    <3>1. QED BY <2>2, <2>3
  <2>6. QED BY <2>4, <2>5
<1>5. Released(w, n) = [balance |-> w.balance, held |-> w.held - n]
  BY <1>1, <1>2 DEF Released
<1>6. WithHold(w, n) = [balance |-> w.balance, held |-> w.held + n]
  BY <1>1, <1>3 DEF WithHold
<1>7. QED BY <1>1, <1>4, <1>5, <1>6

\* The wallet operations keep a wallet document a pair of integers.
LEMMA WalletTyped ==
    ASSUME NEW w \in WalletFields, NEW n \in Int
    PROVE  /\ Released(w, n) \in WalletFields
           /\ WithHold(w, n) \in WalletFields
           /\ Captured(w, n) \in WalletFields
           /\ Available(w) \in Int
<1>1. \A b, d \in Int : [balance |-> b, held |-> d] \in WalletFields
  BY DEF WalletFields
<1>2. w.balance \in Int /\ w.held \in Int
  BY WalletUpdates
<1>3. /\ Released(w, n) = [balance |-> w.balance, held |-> w.held - n]
      /\ WithHold(w, n) = [balance |-> w.balance, held |-> w.held + n]
      /\ Captured(w, n) = [balance |-> w.balance - n, held |-> w.held - n]
  BY WalletUpdates
<1>4. QED BY <1>1, <1>2, <1>3 DEF Available

\* A conditional wallet update keeps a wallet sound.
LEMMA WalletSound ==
    ASSUME NEW w \in WalletFields, NEW n \in Nat, SoundWallet(w)
    PROVE  /\ CanRelease(w, n) => SoundWallet(Released(w, n))
           /\ CanHold(w, n) => SoundWallet(WithHold(w, n))
           /\ CanCapture(w, n) => SoundWallet(Captured(w, n))
<1>1. /\ w.balance \in Nat /\ w.held \in Nat /\ w.held <= w.balance
      /\ CanRelease(w, n) => w.held >= n
      /\ CanHold(w, n) => w.balance - w.held >= n
      /\ CanCapture(w, n) => w.held >= n
  BY DEF SoundWallet, WalletDoc, CanRelease, CanHold, CanCapture, ValidAmount, Available
<1>2. \A b, d \in Nat : d <= b => SoundWallet([balance |-> b, held |-> d])
  BY DEF SoundWallet, WalletDoc
<1>3. /\ Released(w, n) = [balance |-> w.balance, held |-> w.held - n]
      /\ WithHold(w, n) = [balance |-> w.balance, held |-> w.held + n]
      /\ Captured(w, n) = [balance |-> w.balance - n, held |-> w.held - n]
  BY WalletUpdates
<1>4. QED BY <1>1, <1>2, <1>3

\* Replacing the leader keeps the bids, the price and the books well formed;
\* no bid is lost, and the wallets it touches stay sound.
LEMMA TakeOverTyped ==
    ASSUME TypeOK, NEW a \in Auctions, NEW winning \in {0} \cup DOMAIN bids[a],
           NEW w \in Users, NEW n \in Nat, NEW lost \in Seq(BidFields),
           TakeOver(a, winning, w, n, lost)
    PROVE  /\ auctions' \in [Auctions -> AuctionFields]
           /\ bids' \in [Auctions -> Seq(BidFields)]
           /\ wallets' \in [Users -> WalletFields]
           /\ reserved' \in [Users -> [Auctions -> Int]]
           /\ \A b \in Auctions : DOMAIN bids[b] \subseteq DOMAIN bids'[b]
           /\ WalletsSound => WalletsSound'
<1> DEFINE prev == bids[a][winning]
           freed == IF winning = 0 THEN wallets
                    ELSE [wallets EXCEPT ![prev.bidder] = Released(@, prev.amount)]
           unreserved == IF winning = 0 THEN reserved
                         ELSE [reserved EXCEPT ![prev.bidder][a] = @ - prev.amount]
           outbid == IF winning = 0 THEN bids[a]
                     ELSE [bids[a] EXCEPT ![winning].status = "OUTBID"]
           last == <<NewBid(w, n, "WINNING")>>
<1>1. /\ winning # 0 => CanRelease(wallets[prev.bidder], prev.amount)
      /\ CanHold(freed[w], n)
      /\ wallets' = [freed EXCEPT ![w] = WithHold(@, n)]
      /\ reserved' = [unreserved EXCEPT ![w][a] = @ + n]
      /\ bids' = [bids EXCEPT ![a] = outbid \o lost \o last]
      /\ auctions' = [auctions EXCEPT ![a].price = n]
  BY DEF TakeOver
<1>2. winning # 0 => prev \in BidFields /\ prev.bidder \in Users /\ prev.amount \in Nat
  BY SMTT(20), BidOf DEF TypeOK
<1>3. auctions' \in [Auctions -> AuctionFields]
  <2> DEFINE doc == [auctions[a] EXCEPT !.price = n]
  <2>1. auctions \in [Auctions -> AuctionFields]
    BY DEF TypeOK
  <2>2. auctions' = [auctions EXCEPT ![a] = doc]
    BY <1>1
  <2>3. \A d \in AuctionFields : [d EXCEPT !.price = n] \in AuctionFields
    BY DEF AuctionFields
  <2>4. doc \in AuctionFields
    BY <2>1, <2>3
  <2> HIDE DEF doc
  <2>5. QED BY <2>1, <2>2, <2>4
<1>4. freed \in [Users -> WalletFields]
  <2>1. wallets \in [Users -> WalletFields]
    BY DEF TypeOK, WalletFields
  <2>2. CASE winning = 0
    BY <2>1, <2>2
  <2>3. CASE winning # 0
    <3> HIDE DEF prev
    <3>1. wallets[prev.bidder] \in WalletFields /\ prev.amount \in Int
      BY <1>2, <2>1, <2>3
    <3>2. Released(wallets[prev.bidder], prev.amount) \in WalletFields
      BY <3>1, WalletTyped
    <3>3. QED BY <1>2, <2>1, <2>3, <3>2
  <2>4. QED BY <2>2, <2>3
<1>5. wallets' \in [Users -> WalletFields]
  <2>1. WithHold(freed[w], n) \in WalletFields
    <3> HIDE DEF freed
    <3>1. QED BY <1>4, WalletTyped
  <2> HIDE DEF freed
  <2>2. QED BY <1>1, <1>4, <2>1
<1>6. unreserved \in [Users -> [Auctions -> Int]]
  <2>1. CASE winning = 0
    BY <2>1 DEF TypeOK
  <2>2. CASE winning # 0
    <3> DEFINE row == [reserved[prev.bidder] EXCEPT ![a] = @ - prev.amount]
    <3>1. row \in [Auctions -> Int]
      BY <1>2, <2>2 DEF TypeOK
    <3>2. unreserved = [reserved EXCEPT ![prev.bidder] = row]
      BY <2>2
    <3>3. reserved \in [Users -> [Auctions -> Int]]
      BY DEF TypeOK
    <3> HIDE DEF row, prev, unreserved
    <3>4. QED BY <1>2, <2>2, <3>1, <3>2, <3>3
  <2>3. QED BY <2>1, <2>2
<1>7. reserved' \in [Users -> [Auctions -> Int]]
  <2> HIDE DEF unreserved
  <2> DEFINE row == [unreserved[w] EXCEPT ![a] = @ + n]
  <2>1. row \in [Auctions -> Int]
    BY <1>6
  <2>2. reserved' = [unreserved EXCEPT ![w] = row]
    BY <1>1
  <2> HIDE DEF row
  <2>3. QED BY <1>6, <2>1, <2>2
<1>8. outbid \in Seq(BidFields) /\ DOMAIN outbid = DOMAIN bids[a] /\ Len(outbid) = Len(bids[a])
  <2>1. bids[a] \in Seq(BidFields)
    BY DEF TypeOK
  <2>2. CASE winning = 0
    BY <2>1, <2>2
  <2>3. CASE winning # 0
    <3> DEFINE lostBid == [prev EXCEPT !.status = "OUTBID"]
    <3>1. lostBid \in BidFields
      <4>1. \A b \in BidFields : [b EXCEPT !.status = "OUTBID"] \in BidFields
        BY DEF BidFields
      <4>2. QED BY <1>2, <2>3, <4>1
    <3>2. winning \in 1..Len(bids[a])
      BY <2>1, <2>3, LenProperties
    <3>3. outbid = [bids[a] EXCEPT ![winning] = lostBid]
      BY <2>3
    <3> HIDE DEF lostBid, outbid
    <3>4. outbid \in Seq(BidFields) /\ Len(outbid) = Len(bids[a])
      BY <2>1, <3>1, <3>2, <3>3, ExceptSeq
    <3>5. QED BY <2>1, <3>4, LenProperties
  <2>4. QED BY <2>2, <2>3
<1>9. last \in Seq(BidFields) /\ Len(last) = 1
  BY DEF NewBid, BidFields
<1>10. /\ outbid \o lost \o last \in Seq(BidFields)
       /\ Len(outbid \o lost \o last) = Len(bids[a]) + Len(lost) + 1
  <2> HIDE DEF outbid, last
  <2>1. outbid \o lost \in Seq(BidFields) /\ Len(outbid \o lost) = Len(outbid) + Len(lost)
    BY <1>8, ConcatProperties
  <2>2. /\ (outbid \o lost) \o last \in Seq(BidFields)
        /\ Len((outbid \o lost) \o last) = Len(outbid \o lost) + Len(last)
    BY <1>9, <2>1, ConcatProperties
  <2>3. QED BY <1>8, <1>9, <2>1, <2>2
<1>11. bids' \in [Auctions -> Seq(BidFields)]
  <2> HIDE DEF outbid, last
  <2>1. QED BY <1>1, <1>10 DEF TypeOK
<1>12. \A b \in Auctions : DOMAIN bids[b] \subseteq DOMAIN bids'[b]
  <2> HIDE DEF outbid, last
  <2>1. \A b \in Auctions : b # a => bids'[b] = bids[b]
    BY SMTT(20), <1>1 DEF TypeOK
  <2>2. bids'[a] = outbid \o lost \o last
    BY <1>1 DEF TypeOK
  <2>3. /\ DOMAIN bids[a] = 1..Len(bids[a]) /\ Len(bids[a]) \in Nat
        /\ DOMAIN bids'[a] = 1..Len(bids'[a]) /\ Len(lost) \in Nat
    BY <1>11, LenProperties DEF TypeOK
  <2>4. Len(bids'[a]) = Len(bids[a]) + Len(lost) + 1
    BY <1>10, <2>2
  <2>5. DOMAIN bids[a] \subseteq DOMAIN bids'[a]
    BY <2>3, <2>4
  <2>6. QED BY SMTT(20), <2>1, <2>5
<1>13. ASSUME WalletsSound PROVE WalletsSound'
  <2>1. wallets \in [Users -> WalletFields]
    BY DEF TypeOK, WalletFields
  <2>2. \A u \in Users : SoundWallet(freed[u])
    <3>1. CASE winning = 0
      BY <1>13, <3>1 DEF WalletsSound
    <3>2. CASE winning # 0
      <4> HIDE DEF prev
      <4>1. wallets[prev.bidder] \in WalletFields /\ prev.amount \in Nat
            /\ SoundWallet(wallets[prev.bidder])
        BY <1>2, <1>13, <2>1, <3>2 DEF WalletsSound
      <4>2. CanRelease(wallets[prev.bidder], prev.amount)
        BY <1>1, <3>2
      <4>3. SoundWallet(Released(wallets[prev.bidder], prev.amount))
        BY <4>1, <4>2, WalletSound
      <4>4. QED BY <1>2, <1>13, <2>1, <3>2, <4>3 DEF WalletsSound
    <3>3. QED BY <3>1, <3>2
  <2> HIDE DEF freed
  <2>3. SoundWallet(WithHold(freed[w], n))
    BY <1>1, <1>4, <2>2, WalletSound
  <2>4. \A u \in Users : SoundWallet(wallets'[u])
    BY <1>1, <1>4, <2>2, <2>3
  <2>5. QED BY <2>4 DEF WalletsSound
<1>14. QED BY SMTT(20), <1>3, <1>5, <1>7, <1>11, <1>12, <1>13

-----------------------------------------------------------------------------
(***************************************************************************)
(* Requests: what they carry, how they open and how they commit.           *)
(***************************************************************************)
\* What an open request carries is well formed.
LEMMA RequestCarries ==
    ASSUME Typed, NEW h \in Handlers, handler[h] # Idle
    PROVE  /\ handler[h] \in Requests
           /\ handler[h].auction \in Auctions /\ handler[h].user \in Users
           /\ handler[h].amount \in Offers /\ handler[h].amount \in Nat
           /\ handler[h].winning \in {0} \cup DOMAIN bids[handler[h].auction]
           /\ handler[h].result.winner \in Users /\ handler[h].result.amount \in Nat
           /\ handler[h].result.exhausted \in SUBSET Users
<1>1. handler[h] \in Requests
  BY DEF Typed, TypeOK
<1>2. /\ handler[h].auction \in Auctions /\ handler[h].user \in Users
      /\ handler[h].amount \in Offers /\ handler[h].result \in EngineResults
  BY <1>1 DEF Requests
<1>3. /\ handler[h].result.winner \in Users /\ handler[h].result.amount \in Nat
      /\ handler[h].result.exhausted \in SUBSET Users
  BY <1>2 DEF EngineResults
<1>4. handler[h].amount \in Nat
  BY <1>2, ConstantsAssumption
<1>5. handler[h].winning \in {0} \cup DOMAIN bids[handler[h].auction]
  BY DEF Typed, WinningKnown
<1>6. QED BY <1>1, <1>2, <1>3, <1>4, <1>5

\* What findWinningByAuctionId finds is null or a bid of the auction.
LEMMA FoundIsKnown ==
    ASSUME bids \in [Auctions -> Seq(BidFields)], NEW a \in Auctions,
           NEW winning \in FoundWinning(a)
    PROVE  winning \in {0} \cup DOMAIN bids[a] /\ winning \in Nat
<1>1. winning \in {0} \cup DOMAIN bids[a]
  BY DEF FoundWinning, WinningBids
<1>2. QED BY <1>1, BidOf

\* A request that opens is well formed.
LEMMA OpenedTyped ==
    ASSUME Typed, NEW h \in Handlers, NEW op \in {"placeBid", "setAutoBid"},
           NEW a \in Auctions, NEW u \in Users, NEW n \in Offers,
           NEW winning \in FoundWinning(a), NEW r \in EngineResults,
           Opened(h, op, a, u, n, winning, r)
    PROVE  Typed'
<1> DEFINE at == IF NeedsPreflight(r) THEN "preflight" ELSE "commit"
           req == [op |-> op, at |-> at, auction |-> a, user |-> u, amount |-> n,
                   winning |-> winning, result |-> r, funds |-> 0]
<1>1. /\ bidLock' = [bidLock EXCEPT ![a] = h]
      /\ missed' = [missed EXCEPT ![h] = {}]
      /\ handler' = [handler EXCEPT ![h] = req]
      /\ UNCHANGED <<auctions, bids, autobids, wallets, reserved, escrows, outbox,
                     cronLock, canceller, cron>>
  BY DEF Opened
<1>2. winning \in {0} \cup DOMAIN bids[a] /\ winning \in Nat
  BY FoundIsKnown DEF Typed, TypeOK
<1>3. req \in Requests
  <2>1. at \in {"preflight", "commit"}
    OBVIOUS
  <2> HIDE DEF at
  <2>2. QED BY <1>2, <2>1 DEF Requests
<1>4. req.winning = winning /\ req.auction = a
  OBVIOUS
<1> HIDE DEF req
<1>5. TypeOK'
  BY <1>1, <1>3 DEF Typed, TypeOK
<1>6. WinningKnown'
  <2>1. ASSUME NEW g \in Handlers, handler'[g] # Idle
        PROVE  handler'[g].winning \in {0} \cup DOMAIN bids'[handler'[g].auction]
    <3>1. CASE g = h
      BY <1>1, <1>2, <1>4, <3>1 DEF Typed, TypeOK
    <3>2. CASE g # h
      BY <1>1, <2>1, <3>2 DEF Typed, TypeOK, WinningKnown
    <3>3. QED BY <3>1, <3>2
  <2>2. QED BY <2>1 DEF WinningKnown
<1>7. QED BY <1>5, <1>6 DEF Typed

\* A commit closes its request and keeps the others well formed.
LEMMA CommitTyped ==
    ASSUME Typed, NEW h \in Handlers, handler[h] # Idle, NEW docs \in SUBSET Documents,
           Commit(h, docs), \A b \in Auctions : DOMAIN bids[b] \subseteq DOMAIN bids'[b]
    PROVE  /\ handler' \in [Handlers -> Requests \cup {Idle}]
           /\ missed' \in [Handlers -> SUBSET Documents]
           /\ bidLock' \in [Auctions -> Handlers \cup {None}]
           /\ UNCHANGED <<escrows, cronLock, canceller, cron>>
           /\ WinningKnown'
<1>1. /\ handler' = [handler EXCEPT ![h] = Idle]
      /\ missed' = [g \in Handlers |-> IF g = h \/ handler[g] = Idle THEN {}
                                       ELSE missed[g] \cup docs]
      /\ bidLock' = [bidLock EXCEPT ![handler[h].auction] = IF @ = h THEN None ELSE @]
      /\ UNCHANGED <<escrows, cronLock, canceller, cron>>
  BY DEF Commit, UnlockBid
<1>2. handler' \in [Handlers -> Requests \cup {Idle}]
  BY <1>1 DEF Typed, TypeOK
<1>3. missed' \in [Handlers -> SUBSET Documents]
  BY <1>1 DEF Typed, TypeOK
<1>4. bidLock' \in [Auctions -> Handlers \cup {None}]
  BY <1>1, RequestCarries DEF Typed, TypeOK
<1>5. WinningKnown'
  <2>1. ASSUME NEW g \in Handlers, handler'[g] # Idle
        PROVE  handler'[g].winning \in {0} \cup DOMAIN bids'[handler'[g].auction]
    <3>1. handler'[g] = handler[g]
      BY <1>1, <2>1 DEF Typed, TypeOK
    <3>2. handler[g].auction \in Auctions
          /\ handler[g].winning \in {0} \cup DOMAIN bids[handler[g].auction]
      BY <2>1, <3>1, RequestCarries
    <3>3. QED BY <3>1, <3>2
  <2>2. QED BY <2>1 DEF WinningKnown
<1>6. QED BY <1>1, <1>2, <1>3, <1>4, <1>5

\* The engine's answer, as placeBid and setAutoBid call it.
LEMMA EngineTyped ==
    ASSUME Typed, NEW a \in Auctions, NEW u \in Users, NEW n \in Nat
    PROVE  /\ AfterManualBid(ActiveAutoBids(a), Increment[a], u, n) \in EngineResults
           /\ \A price \in Nat : \A hasBid, leader :
                 LET active == {Candidate(a, v) : v \in ActiveUsers(a) \ {u}}
                                  \cup {[user |-> u, max |-> n, born |-> Birth(a, u)]}
                 IN  AfterAutoBid(active, StartingPrice[a], Increment[a], price, hasBid, leader)
                        \in EngineResults
<1> DEFINE kept == {Candidate(a, v) : v \in ActiveUsers(a) \ {u}}
           own == [user |-> u, max |-> n, born |-> Birth(a, u)]
           active == kept \cup {own}
<1>1. Results(Users) = EngineResults
  BY DEF Results, EngineResults, BidFields
<1>2. autobids \in [Auctions -> [Users -> AutoBidFields]]
  BY DEF Typed, TypeOK
<1>3. Increment[a] \in Nat /\ StartingPrice[a] \in Nat
  BY ConstantsAssumption
<1>4. AfterManualBid(ActiveAutoBids(a), Increment[a], u, n) \in Results(Users)
  <2>1. ActiveUsers(a) \in SUBSET Users
    BY DEF ActiveUsers
  <2>2. ActiveAutoBids(a) \subseteq CandidatesOf(Users) /\ IsFiniteSet(ActiveAutoBids(a))
    BY <1>2, <2>1, CandidatesTyped DEF ActiveAutoBids
  <2>3. QED BY <1>3, <2>2, AfterManualBidTyped
<1>5. active \subseteq CandidatesOf(Users) /\ IsFiniteSet(active) /\ active # {}
  <2>1. ActiveUsers(a) \ {u} \in SUBSET Users
    BY DEF ActiveUsers
  <2>2. kept \in SUBSET CandidatesOf(Users) /\ IsFiniteSet(kept)
    BY <1>2, <2>1, CandidatesTyped
  <2>3. own \in CandidatesOf(Users)
    BY <1>2, BirthTyped DEF CandidatesOf
  <2> HIDE DEF kept, own
  <2>4. QED BY <2>2, <2>3, FS_AddElement
<1>6. ASSUME NEW price \in Nat, NEW hasBid, NEW leader
      PROVE  AfterAutoBid(active, StartingPrice[a], Increment[a], price, hasBid, leader)
                \in Results(Users)
  <2> HIDE DEF active
  <2>1. QED BY <1>3, <1>5, AfterAutoBidTyped
<1>7. QED BY <1>1, <1>4, <1>6

-----------------------------------------------------------------------------
(***************************************************************************)
(* Every action keeps the types and the wallets sound.                     *)
(***************************************************************************)
SafeStep == Typed' /\ (WalletsSound => WalletsSound')

\* placeBid up to the engine, whose answer is typed, writes no document.
LEMMA PlaceBidSafe ==
    ASSUME Typed, NEW h \in Handlers, NEW a \in Auctions, NEW u \in Users, NEW n \in Offers,
           PlaceBid(h, a, u, n)
    PROVE  SafeStep
<1>1. n \in Nat
  BY ConstantsAssumption
<1>2. PICK winning \in FoundWinning(a) :
         Opened(h, "placeBid", a, u, n, winning,
                AfterManualBid(ActiveAutoBids(a), Increment[a], u, n))
  BY DEF PlaceBid
<1>3. AfterManualBid(ActiveAutoBids(a), Increment[a], u, n) \in EngineResults
  BY <1>1, EngineTyped
<1>4. Typed'
  BY <1>2, <1>3, OpenedTyped
<1>5. UNCHANGED wallets
  BY <1>2 DEF Opened
<1>6. QED BY <1>4, <1>5 DEF SafeStep, WalletsSound

\* setAutoBid up to the engine, over the candidates its upsert will leave.
LEMMA SetAutoBidSafe ==
    ASSUME Typed, NEW h \in Handlers, NEW a \in Auctions, NEW u \in Users, NEW n \in Offers,
           SetAutoBid(h, a, u, n)
    PROVE  SafeStep
<1> DEFINE active == {Candidate(a, v) : v \in ActiveUsers(a) \ {u}}
                        \cup {[user |-> u, max |-> n, born |-> Birth(a, u)]}
           Price(winning) == IF winning = 0 THEN StartingPrice[a] ELSE auctions[a].price
           Leader(winning) == IF winning = 0 THEN None ELSE bids[a][winning].bidder
           Answer(winning) == AfterAutoBid(active, StartingPrice[a], Increment[a],
                                           Price(winning), winning # 0, Leader(winning))
<1>1. n \in Nat
  BY ConstantsAssumption
<1>2. PICK winning \in FoundWinning(a) :
         Opened(h, "setAutoBid", a, u, n, winning, Answer(winning))
  BY DEF SetAutoBid
<1>3. Price(winning) \in Nat
  <2>1. StartingPrice[a] \in Nat
    BY ConstantsAssumption
  <2>2. auctions[a].price \in Nat
    BY DEF Typed, TypeOK, AuctionFields
  <2>3. QED BY <2>1, <2>2
<1>4. Answer(winning) \in EngineResults
  <2> HIDE DEF Price, Leader
  <2>1. QED BY <1>1, <1>3, EngineTyped
<1>5. Typed'
  <2> HIDE DEF Answer
  <2>1. QED BY <1>2, <1>4, OpenedTyped
<1>6. UNCHANGED wallets
  <2> HIDE DEF Answer
  <2>1. QED BY <1>2 DEF Opened
<1>7. QED BY <1>5, <1>6 DEF SafeStep, WalletsSound

\* The pre-flight check only adds what the auto-bidder has available.
LEMMA PreflightSafe ==
    ASSUME Typed, NEW h \in Handlers, Preflight(h)
    PROVE  SafeStep
<1> DEFINE a       == handler[h].auction
           w       == handler[h].result.winner
           winning == handler[h].winning
           own     == IF winning # 0 /\ bids[a][winning].bidder = w
                      THEN bids[a][winning].amount ELSE 0
           funds   == Available(wallets[w]) + own
           req     == [handler[h] EXCEPT !.funds = funds, !.at = "commit"]
<1>1. handler[h] # Idle
  BY DEF Preflight
<1>2. funds \in Int
  <2>1. own \in Int
    BY <1>1, RequestCarries, BidOf DEF Typed, TypeOK
  <2>2. Available(wallets[w]) \in Int
    BY <1>1, RequestCarries, WalletTyped DEF Typed, TypeOK, WalletFields
  <2> HIDE DEF own, w
  <2>3. QED BY <2>1, <2>2
<1>3. handler' = [handler EXCEPT ![h] = req]
  BY DEF Preflight
<1>4. req \in Requests /\ req.winning = winning /\ req.auction = a
  <2> HIDE DEF funds
  <2>1. handler[h] \in Requests
    BY <1>1, RequestCarries
  <2>2. \A q \in Requests : [q EXCEPT !.funds = funds] \in Requests
                               /\ [q EXCEPT !.funds = funds].winning = q.winning
                               /\ [q EXCEPT !.funds = funds].auction = q.auction
    BY <1>2 DEF Requests
  <2>3. \A q \in Requests : [q EXCEPT !.at = "commit"] \in Requests
                               /\ [q EXCEPT !.at = "commit"].winning = q.winning
                               /\ [q EXCEPT !.at = "commit"].auction = q.auction
    BY DEF Requests
  <2> DEFINE paid == [handler[h] EXCEPT !.funds = funds]
  <2>4. req = [paid EXCEPT !.at = "commit"]
    OBVIOUS
  <2>5. paid \in Requests /\ paid.winning = winning /\ paid.auction = a
    BY <2>1, <2>2
  <2> HIDE DEF paid, req
  <2>6. QED BY <2>3, <2>4, <2>5
<1>5. UNCHANGED <<auctions, bids, autobids, wallets, reserved, escrows, outbox,
                  bidLock, cronLock, missed, canceller, cron>>
  BY DEF Preflight
<1>6. winning \in {0} \cup DOMAIN bids[a]
  BY <1>1, RequestCarries
<1> HIDE DEF req
<1>7. TypeOK'
  BY <1>3, <1>4, <1>5 DEF Typed, TypeOK
<1>8. WinningKnown'
  BY <1>3, <1>4, <1>5, <1>6 DEF Typed, TypeOK, WinningKnown
<1>9. QED BY <1>5, <1>7, <1>8 DEF SafeStep, Typed, WalletsSound

\* A commit that replaces the leader, marks auto-bids and counts events.
LEMMA TakeOverSafe ==
    ASSUME Typed, NEW h \in Handlers, handler[h] # Idle,
           NEW w \in Users, NEW n \in Nat, NEW lost \in Seq(BidFields),
           TakeOver(handler[h].auction, handler[h].winning, w, n, lost),
           NEW row \in [Users -> AutoBidFields],
           autobids' = [autobids EXCEPT ![handler[h].auction] = row],
           NEW counts, \A e \in DOMAIN counts : counts[e] \in Nat,
           Emit(handler[h].auction, counts),
           NEW docs \in SUBSET Documents, Commit(h, docs)
    PROVE  SafeStep
<1> DEFINE a == handler[h].auction
           winning == handler[h].winning
<1>1. a \in Auctions /\ winning \in {0} \cup DOMAIN bids[a]
  BY RequestCarries
<1>2. /\ auctions' \in [Auctions -> AuctionFields]
      /\ bids' \in [Auctions -> Seq(BidFields)]
      /\ wallets' \in [Users -> WalletFields]
      /\ reserved' \in [Users -> [Auctions -> Int]]
      /\ \A b \in Auctions : DOMAIN bids[b] \subseteq DOMAIN bids'[b]
      /\ WalletsSound => WalletsSound'
  <2> HIDE DEF a, winning
  <2>1. TakeOver(a, winning, w, n, lost)
    BY DEF a, winning
  <2>2. QED BY <1>1, <2>1, TakeOverTyped DEF Typed
<1>3. /\ handler' \in [Handlers -> Requests \cup {Idle}]
      /\ missed' \in [Handlers -> SUBSET Documents]
      /\ bidLock' \in [Auctions -> Handlers \cup {None}]
      /\ UNCHANGED <<escrows, cronLock, canceller, cron>>
      /\ WinningKnown'
  BY <1>2, CommitTyped
<1>4. autobids' \in [Auctions -> [Users -> AutoBidFields]]
  BY <1>1 DEF Typed, TypeOK
<1>5. outbox' \in [Auctions -> [EventTypes -> Nat]]
  <2> HIDE DEF a
  <2>1. Emit(a, counts)
    BY DEF a
  <2>2. QED BY <1>1, <2>1, EmitTyped DEF Typed, TypeOK
<1>6. TypeOK'
  BY <1>2, <1>3, <1>4, <1>5 DEF Typed, TypeOK, WalletFields
<1>7. QED BY <1>2, <1>3, <1>6 DEF SafeStep, Typed

\* placeBid, the manual bidder takes the lead: a release, a hold, a bid.
LEMMA ManualBidWinsSafe ==
    ASSUME Typed, NEW h \in Handlers, ManualBidWins(h)
    PROVE  SafeStep
<1> DEFINE t     == handler[h]
           spent == t.result.exhausted \cup (IF t.result.auto THEN {t.result.winner} ELSE {})
           row   == Spend(autobids[t.auction], spent)
           counts == [BidPlaced |-> 1, AutoBidExhausted |-> Cardinality(spent)]
           docs  == TakeOverDocs(t.auction, t.winning, t.user) \cup AutoBidDocs(t.auction, spent)
<1>1. /\ handler[h] # Idle
      /\ TakeOver(t.auction, t.winning, t.user, t.amount, <<>>)
      /\ autobids' = [autobids EXCEPT ![t.auction] = row]
      /\ Emit(t.auction, counts)
      /\ Commit(h, docs)
  BY DEF ManualBidWins, Ready
<1>2. /\ t.auction \in Auctions /\ t.user \in Users /\ t.amount \in Nat
      /\ t.winning \in {0} \cup DOMAIN bids[t.auction]
      /\ t.result.winner \in Users /\ t.result.exhausted \in SUBSET Users
  BY <1>1, RequestCarries
<1>3. spent \in SUBSET Users
  BY <1>2
<1>4. row \in [Users -> AutoBidFields]
  BY <1>2, SpendTyped DEF Typed, TypeOK
<1>5. \A e \in DOMAIN counts : counts[e] \in Nat
  <2>1. Cardinality(spent) \in Nat
    BY <1>3, ConstantsAssumption, FS_Subset, FS_CardinalityType
  <2> HIDE DEF spent
  <2>2. QED BY <2>1
<1>6. docs \in SUBSET Documents
  BY <1>2, <1>3, TakeOverDocsNamed, AutoBidDocsNamed DEF Typed, TypeOK
<1>7. <<>> \in Seq(BidFields)
  BY EmptySeq
<1> HIDE DEF row, counts, docs
<1>8. QED BY <1>1, <1>2, <1>4, <1>5, <1>6, <1>7, TakeOverSafe

\* placeBid, an auto-bid answers: the manual bid is recorded without a hold.
LEMMA AutoBidAnswersSafe ==
    ASSUME Typed, NEW h \in Handlers, AutoBidAnswers(h)
    PROVE  SafeStep
<1> DEFINE t     == handler[h]
           r     == t.result
           row   == Spend(autobids[t.auction], r.exhausted)
           told  == Cardinality(r.exhausted \ {r.winner})
           counts == [BidPlaced |-> 1, AutoBidPlaced |-> 1, AutoBidExhausted |-> told]
           docs  == TakeOverDocs(t.auction, t.winning, r.winner)
                       \cup AutoBidDocs(t.auction, r.exhausted)
           lost  == <<NewBid(t.user, t.amount, "OUTBID")>>
<1>1. /\ handler[h] # Idle
      /\ TakeOver(t.auction, t.winning, r.winner, r.amount, lost)
      /\ autobids' = [autobids EXCEPT ![t.auction] = row]
      /\ Emit(t.auction, counts)
      /\ Commit(h, docs)
  BY DEF AutoBidAnswers, Ready
<1>2. /\ t.auction \in Auctions /\ t.user \in Users /\ t.amount \in Nat
      /\ t.winning \in {0} \cup DOMAIN bids[t.auction]
      /\ r.winner \in Users /\ r.amount \in Nat /\ r.exhausted \in SUBSET Users
  BY <1>1, RequestCarries
<1>3. row \in [Users -> AutoBidFields]
  BY <1>2, SpendTyped DEF Typed, TypeOK
<1>4. \A e \in DOMAIN counts : counts[e] \in Nat
  <2>1. told \in Nat
    BY <1>2, ConstantsAssumption, FS_Subset, FS_CardinalityType
  <2> HIDE DEF told
  <2>2. QED BY <2>1
<1>5. docs \in SUBSET Documents
  <2>1. TakeOverDocs(t.auction, t.winning, r.winner) \in SUBSET Documents
    BY <1>2, TakeOverDocsNamed DEF Typed, TypeOK
  <2>2. AutoBidDocs(t.auction, r.exhausted) \in SUBSET Documents
    BY <1>2, AutoBidDocsNamed
  <2>3. QED BY <2>1, <2>2
<1>6. lost \in Seq(BidFields)
  BY <1>2 DEF NewBid, BidFields
<1> HIDE DEF row, counts, docs, lost
<1>7. QED BY <1>1, <1>2, <1>3, <1>4, <1>5, <1>6, TakeOverSafe

\* setAutoBid, the best auto-bid takes the lead.
LEMMA AutoBidTakesOverSafe ==
    ASSUME Typed, NEW h \in Handlers, AutoBidTakesOver(h)
    PROVE  SafeStep
<1> DEFINE t     == handler[h]
           r     == t.result
           stored == Upserted(t.auction, t.user, t.amount)
           row   == Spend(stored, r.exhausted)
           told  == Cardinality(r.exhausted \ {r.winner})
           counts == [BidPlaced |-> 1, AutoBidPlaced |-> 1, AutoBidExhausted |-> told]
           docs  == TakeOverDocs(t.auction, t.winning, r.winner)
                       \cup AutoBidDocs(t.auction, {t.user} \cup r.exhausted)
<1>1. /\ handler[h] # Idle
      /\ TakeOver(t.auction, t.winning, r.winner, r.amount, <<>>)
      /\ autobids' = [autobids EXCEPT ![t.auction] = row]
      /\ Emit(t.auction, counts)
      /\ Commit(h, docs)
  BY DEF AutoBidTakesOver, Ready
<1>2. /\ t.auction \in Auctions /\ t.user \in Users /\ t.amount \in Nat
      /\ t.winning \in {0} \cup DOMAIN bids[t.auction]
      /\ r.winner \in Users /\ r.amount \in Nat /\ r.exhausted \in SUBSET Users
  BY <1>1, RequestCarries
<1>3. row \in [Users -> AutoBidFields]
  <2>1. stored \in [Users -> AutoBidFields]
    BY <1>2, UpsertedTyped DEF Typed, TypeOK
  <2> HIDE DEF stored
  <2>2. QED BY <2>1, SpendTyped
<1>4. \A e \in DOMAIN counts : counts[e] \in Nat
  <2>1. told \in Nat
    BY <1>2, ConstantsAssumption, FS_Subset, FS_CardinalityType
  <2> HIDE DEF told
  <2>2. QED BY <2>1
<1>5. docs \in SUBSET Documents
  <2>1. TakeOverDocs(t.auction, t.winning, r.winner) \in SUBSET Documents
    BY <1>2, TakeOverDocsNamed DEF Typed, TypeOK
  <2>2. AutoBidDocs(t.auction, {t.user} \cup r.exhausted) \in SUBSET Documents
    BY <1>2, AutoBidDocsNamed
  <2>3. QED BY <2>1, <2>2
<1>6. <<>> \in Seq(BidFields)
  BY EmptySeq
<1> HIDE DEF row, counts, docs
<1>7. QED BY <1>1, <1>2, <1>3, <1>4, <1>5, <1>6, TakeOverSafe

\* setAutoBid, nobody's bid changes and no wallet is touched.
LEMMA AutoBidStoredSafe ==
    ASSUME Typed, NEW h \in Handlers, AutoBidStored(h)
    PROVE  SafeStep
<1> DEFINE t     == handler[h]
           r     == t.result
           spent == r.exhausted \cup (IF Unfunded(h) THEN {r.winner} ELSE {})
           told  == Cardinality(r.exhausted \ {r.winner}) + (IF Unfunded(h) THEN 1 ELSE 0)
           stored == Upserted(t.auction, t.user, t.amount)
           row   == Spend(stored, spent)
           counts == [AutoBidExhausted |-> told]
           docs  == AutoBidDocs(t.auction, {t.user} \cup spent)
<1>1. /\ handler[h] # Idle
      /\ autobids' = [autobids EXCEPT ![t.auction] = row]
      /\ Emit(t.auction, counts)
      /\ Commit(h, docs)
      /\ UNCHANGED <<auctions, bids, wallets, reserved>>
  BY DEF AutoBidStored, Ready
<1>2. /\ t.auction \in Auctions /\ t.user \in Users /\ t.amount \in Nat
      /\ r.winner \in Users /\ r.exhausted \in SUBSET Users
  BY <1>1, RequestCarries
<1>3. row \in [Users -> AutoBidFields]
  <2>1. stored \in [Users -> AutoBidFields]
    BY <1>2, UpsertedTyped DEF Typed, TypeOK
  <2> HIDE DEF stored
  <2>2. QED BY <2>1, SpendTyped
<1>4. \A e \in DOMAIN counts : counts[e] \in Nat
  <2>1. Cardinality(r.exhausted \ {r.winner}) \in Nat
    BY <1>2, ConstantsAssumption, FS_Subset, FS_CardinalityType
  <2>2. told \in Nat
    BY <2>1
  <2> HIDE DEF told
  <2>3. QED BY <2>2
<1>5. docs \in SUBSET Documents
  BY <1>2, AutoBidDocsNamed
<1> HIDE DEF row, counts, docs
<1>6. /\ handler' \in [Handlers -> Requests \cup {Idle}]
      /\ missed' \in [Handlers -> SUBSET Documents]
      /\ bidLock' \in [Auctions -> Handlers \cup {None}]
      /\ UNCHANGED <<escrows, cronLock, canceller, cron>>
      /\ WinningKnown'
  BY <1>1, <1>5, CommitTyped
<1>7. autobids' \in [Auctions -> [Users -> AutoBidFields]]
  BY <1>1, <1>2, <1>3 DEF Typed, TypeOK
<1>8. outbox' \in [Auctions -> [EventTypes -> Nat]]
  BY <1>1, <1>2, <1>4, EmitTyped DEF Typed, TypeOK
<1>9. TypeOK'
  BY <1>1, <1>6, <1>7, <1>8 DEF Typed, TypeOK
<1>10. QED BY <1>1, <1>6, <1>9 DEF SafeStep, Typed, WalletsSound

\* An aborted or interrupted request leaves nothing behind but, in a crash,
\* its lock.
LEMMA LeaveSafe ==
    ASSUME Typed, NEW h \in Handlers, AbortBid(h) \/ CrashBid(h)
    PROVE  SafeStep
<1>1. /\ handler[h] # Idle
      /\ handler' = [handler EXCEPT ![h] = Idle]
      /\ missed' = [missed EXCEPT ![h] = {}]
      /\ UNCHANGED <<auctions, bids, autobids, wallets, reserved, escrows, outbox,
                     cronLock, canceller, cron>>
  BY DEF AbortBid, CrashBid
<1>2. bidLock' \in [Auctions -> Handlers \cup {None}]
  BY <1>1, RequestCarries DEF AbortBid, CrashBid, UnlockBid, Typed, TypeOK
<1>3. TypeOK'
  BY <1>1, <1>2 DEF Typed, TypeOK
<1>4. WinningKnown'
  BY <1>1 DEF Typed, TypeOK, WinningKnown
<1>5. QED BY <1>1, <1>3, <1>4 DEF SafeStep, Typed, WalletsSound

\* The lock's TTL touches nothing but the lock.
LEMMA BidLockExpiresSafe ==
    ASSUME Typed, NEW a \in Auctions, BidLockExpires(a)
    PROVE  SafeStep
BY DEF BidLockExpires, SafeStep, Typed, TypeOK, WinningKnown, WalletsSound

\* cancelAutoBid changes the status of one auto-bid.
LEMMA CancelAutoBidSafe ==
    ASSUME Typed, NEW a \in Auctions, NEW u \in Users, CancelAutoBid(a, u)
    PROVE  SafeStep
<1> DEFINE doc == [autobids[a][u] EXCEPT !.status = "CANCELLED"]
           row == [autobids[a] EXCEPT ![u] = doc]
<1>1. /\ autobids' = [autobids EXCEPT ![a] = row]
      /\ Wrote({AutoBidDoc(a, u)})
      /\ UNCHANGED <<auctions, bids, wallets, reserved, escrows, outbox,
                     bidLock, cronLock, handler, canceller, cron>>
  BY DEF CancelAutoBid
<1>2. row \in [Users -> AutoBidFields]
  <2>1. \A d \in AutoBidFields : [d EXCEPT !.status = "CANCELLED"] \in AutoBidFields
    BY DEF AutoBidFields
  <2>2. doc \in AutoBidFields
    BY <2>1 DEF Typed, TypeOK
  <2> HIDE DEF doc
  <2>3. QED BY <2>2 DEF Typed, TypeOK
<1>3. missed' \in [Handlers -> SUBSET Documents]
  <2>1. {AutoBidDoc(a, u)} \in SUBSET Documents
    BY DocumentsNamed
  <2>2. QED BY <1>1, <2>1, WroteTyped DEF Typed, TypeOK
<1> HIDE DEF row
<1>4. TypeOK'
  BY <1>1, <1>2, <1>3 DEF Typed, TypeOK
<1>5. QED BY <1>1, <1>4 DEF SafeStep, Typed, WinningKnown, WalletsSound

\* cancelAuction reads the auction and changes nothing.
LEMMA RequestCancelSafe ==
    ASSUME Typed, NEW c \in Cancellers, NEW a \in Auctions, RequestCancel(c, a)
    PROVE  SafeStep
<1> DEFINE req == [op |-> "cancel", auction |-> a, seen |-> auctions[a].status]
<1>1. /\ canceller' = [canceller EXCEPT ![c] = req]
      /\ auctions[a].status \in {"PENDING", "ACTIVE"}
      /\ UNCHANGED <<auctions, bids, autobids, wallets, reserved, escrows, outbox,
                     bidLock, cronLock, handler, missed, cron>>
  BY DEF RequestCancel
<1>2. req \in CancelRequests
  BY <1>1 DEF CancelRequests
<1> HIDE DEF req
<1>3. TypeOK'
  BY <1>1, <1>2 DEF Typed, TypeOK
<1>4. QED BY <1>1, <1>3 DEF SafeStep, Typed, WinningKnown, WalletsSound

\* Setting the status of an auction keeps the auctions well formed.
LEMMA StatusTyped ==
    ASSUME auctions \in [Auctions -> AuctionFields], NEW a \in Auctions, NEW s \in Statuses,
           auctions' = [auctions EXCEPT ![a].status = s]
    PROVE  auctions' \in [Auctions -> AuctionFields]
<1> DEFINE doc == [auctions[a] EXCEPT !.status = s]
<1>1. \A d \in AuctionFields : [d EXCEPT !.status = s] \in AuctionFields
  BY DEF AuctionFields
<1>2. doc \in AuctionFields
  BY <1>1
<1>3. auctions' = [auctions EXCEPT ![a] = doc]
  OBVIOUS
<1> HIDE DEF doc
<1>4. QED BY <1>2, <1>3

\* Taking n out of what a user's wallet transactions reserve for an auction.
LEMMA UnreserveTyped ==
    ASSUME reserved \in [Users -> [Auctions -> Int]], NEW u \in Users, NEW a \in Auctions,
           NEW n \in Int, reserved' = [reserved EXCEPT ![u][a] = @ - n]
    PROVE  reserved' \in [Users -> [Auctions -> Int]]
<1> DEFINE row == [reserved[u] EXCEPT ![a] = @ - n]
<1>1. row \in [Auctions -> Int]
  OBVIOUS
<1>2. reserved' = [reserved EXCEPT ![u] = row]
  OBVIOUS
<1> HIDE DEF row
<1>3. QED BY <1>1, <1>2

\* Replacing one wallet by a well-formed one, or a sound one.
LEMMA OneWallet ==
    ASSUME wallets \in [Users -> WalletFields], NEW u \in Users, NEW w \in WalletFields,
           wallets' = [wallets EXCEPT ![u] = w]
    PROVE  /\ wallets' \in [Users -> WalletFields]
           /\ WalletsSound /\ SoundWallet(w) => WalletsSound'
BY DEF WalletsSound

\* cancelAuction commits: the guard of the release keeps the wallet sound.
LEMMA CommitCancelSafe ==
    ASSUME Typed, NEW c \in Cancellers, CommitCancel(c)
    PROVE  SafeStep
<1> DEFINE a == canceller[c].auction
<1>1. a \in Auctions
  BY SMTT(20) DEF CommitCancel, Typed, TypeOK, CancelRequests
<1>2. PICK winning \in {0} \cup DOMAIN bids[a] :
        /\ IF winning = 0
           THEN UNCHANGED <<wallets, reserved>> /\ Wrote({AuctionDoc(a)})
           ELSE LET b == bids[a][winning]
                IN  /\ CanRelease(wallets[b.bidder], b.amount)
                    /\ wallets' = [wallets EXCEPT ![b.bidder] = Released(@, b.amount)]
                    /\ reserved' = [reserved EXCEPT ![b.bidder][a] = @ - b.amount]
                    /\ Wrote({AuctionDoc(a), WalletDocOf(b.bidder)})
        /\ auctions' = [auctions EXCEPT ![a].status = "CANCELLED"]
        /\ Emit(a, [AuctionCancelled |-> 1])
  BY ZenonT(40), <1>1, FoundIsKnown DEF CommitCancel, Typed, TypeOK
<1>3. UNCHANGED <<bids, autobids, escrows, bidLock, cronLock, handler, cron>>
      /\ canceller' = [canceller EXCEPT ![c] = Idle]
  BY DEF CommitCancel
<1> HIDE DEF a
<1>4. auctions' \in [Auctions -> AuctionFields]
  BY <1>1, <1>2, StatusTyped DEF Typed, TypeOK, Statuses
<1>5. outbox' \in [Auctions -> [EventTypes -> Nat]]
  <2> DEFINE counts == [AuctionCancelled |-> 1]
  <2>1. \A e \in DOMAIN counts : counts[e] \in Nat
    OBVIOUS
  <2>2. Emit(a, counts)
    BY <1>2
  <2> HIDE DEF counts
  <2>3. QED BY <1>1, <2>1, <2>2, EmitTyped DEF Typed, TypeOK
<1>6. /\ wallets' \in [Users -> WalletFields]
      /\ reserved' \in [Users -> [Auctions -> Int]]
      /\ missed' \in [Handlers -> SUBSET Documents]
      /\ WalletsSound => WalletsSound'
  <2>1. wallets \in [Users -> WalletFields] /\ AuctionDoc(a) \in Documents
    BY <1>1, DocumentsNamed DEF Typed, TypeOK, WalletFields
  <2>2. CASE winning = 0
    <3>1. UNCHANGED <<wallets, reserved>> /\ Wrote({AuctionDoc(a)})
      BY <1>2, <2>2
    <3>2. missed' \in [Handlers -> SUBSET Documents]
      BY <2>1, <3>1, WroteTyped DEF Typed, TypeOK
    <3>3. QED BY <2>1, <3>1, <3>2 DEF Typed, TypeOK, WalletsSound
  <2>3. CASE winning # 0
    <3> DEFINE b == bids[a][winning]
    <3>1. /\ CanRelease(wallets[b.bidder], b.amount)
          /\ wallets' = [wallets EXCEPT ![b.bidder] = Released(@, b.amount)]
          /\ reserved' = [reserved EXCEPT ![b.bidder][a] = @ - b.amount]
          /\ Wrote({AuctionDoc(a), WalletDocOf(b.bidder)})
      BY <1>2, <2>3
    <3>2. b.bidder \in Users /\ b.amount \in Nat /\ b.amount \in Int
      BY <1>1, <2>3, BidOf DEF Typed, TypeOK
    <3> HIDE DEF b
    <3>3. wallets[b.bidder] \in WalletFields
      BY <2>1, <3>2
    <3>4. Released(wallets[b.bidder], b.amount) \in WalletFields
      BY <3>2, <3>3, WalletTyped
    <3>5. wallets' \in [Users -> WalletFields]
      BY <2>1, <3>1, <3>2, <3>4, OneWallet
    <3>6. ASSUME WalletsSound PROVE WalletsSound'
      <4>1. SoundWallet(Released(wallets[b.bidder], b.amount))
        BY <3>1, <3>2, <3>3, <3>6, WalletSound DEF WalletsSound
      <4>2. QED BY <2>1, <3>1, <3>2, <3>4, <3>6, <4>1, OneWallet
    <3>7. reserved' \in [Users -> [Auctions -> Int]]
      BY <1>1, <3>1, <3>2, UnreserveTyped DEF Typed, TypeOK
    <3>8. missed' \in [Handlers -> SUBSET Documents]
      <4>1. {AuctionDoc(a), WalletDocOf(b.bidder)} \in SUBSET Documents
        BY <1>1, <3>2, DocumentsNamed
      <4>2. QED BY <3>1, <4>1, WroteTyped DEF Typed, TypeOK
    <3>9. QED BY <3>5, <3>6, <3>7, <3>8
  <2>4. QED BY <2>2, <2>3
<1>7. TypeOK'
  BY <1>3, <1>4, <1>5, <1>6 DEF Typed, TypeOK, WalletFields
<1>8. QED BY SMTT(20), <1>3, <1>6, <1>7 DEF SafeStep, Typed, WinningKnown

\* A cancellation that aborts changes nothing.
LEMMA AbortCancelSafe ==
    ASSUME Typed, NEW c \in Cancellers, AbortCancel(c)
    PROVE  SafeStep
BY DEF AbortCancel, SafeStep, Typed, TypeOK, WinningKnown, WalletsSound

\* A run of a cron job is in that job, with the auctions it has left.
LEMMA RunCarries ==
    ASSUME TypeOK, NEW c \in Crons, cron[c] # Idle
    PROVE  cron[c] \in CronRuns /\ cron[c].op \in Jobs /\ cron[c].todo \in SUBSET Auctions
<1>1. cron[c] \in CronRuns
  BY DEF TypeOK
<1>2. QED BY <1>1 DEF CronRuns

\* Going on to the next auction keeps the run and the lock well formed.
LEMMA DoneTyped ==
    ASSUME TypeOK, NEW c \in Crons, cron[c] # Idle, NEW a, Done(c, a)
    PROVE  /\ cron' \in [Crons -> CronRuns \cup {Idle}]
           /\ cronLock' \in [Jobs -> Crons \cup {None}]
<1> DEFINE job == cron[c].op
           rest == cron[c].todo \ {a}
           run == IF rest = {} THEN Idle ELSE [cron[c] EXCEPT !.todo = rest]
<1>1. /\ cron' = [cron EXCEPT ![c] = run]
      /\ cronLock' = [cronLock EXCEPT ![job] = IF rest = {} /\ @ = c THEN None ELSE @]
  BY DEF Done
<1>2. cron[c] \in CronRuns /\ job \in Jobs /\ rest \in SUBSET Auctions
  BY RunCarries
<1>3. run \in CronRuns \cup {Idle}
  <2>1. \A q \in CronRuns, T \in SUBSET Auctions : [q EXCEPT !.todo = T] \in CronRuns
    BY DEF CronRuns
  <2> HIDE DEF rest
  <2>2. QED BY <1>2, <2>1
<1> HIDE DEF run, rest, job
<1>4. QED BY <1>1, <1>2, <1>3 DEF TypeOK

\* A cron run starts with a list of auctions.
LEMMA StartJobSafe ==
    ASSUME Typed, NEW c \in Crons, NEW job \in Jobs, StartJob(c, job)
    PROVE  SafeStep
<1>1. PICK due \in SUBSET Listed(job) : cron' = [cron EXCEPT ![c] = [op |-> job, todo |-> due]]
  BY DEF StartJob
<1>2. Listed(job) \in SUBSET Auctions
  BY DEF Listed, EndedWithoutWinner, EndedAuctions, Jobs
<1>3. [op |-> job, todo |-> due] \in CronRuns
  BY <1>2 DEF CronRuns
<1>4. /\ cronLock' = [cronLock EXCEPT ![job] = c]
      /\ UNCHANGED <<auctions, bids, autobids, wallets, reserved, escrows, outbox,
                     bidLock, handler, missed, canceller>>
  BY DEF StartJob
<1>5. TypeOK'
  BY <1>1, <1>3, <1>4 DEF Typed, TypeOK
<1>6. QED BY <1>4, <1>5 DEF SafeStep, Typed, WinningKnown, WalletsSound

\* activatePendingAuctions sets one status.
LEMMA ActivateSafe ==
    ASSUME Typed, NEW c \in Crons, NEW a \in Auctions, Activate(c, a)
    PROVE  SafeStep
<1> DEFINE counts == [AuctionStarted |-> 1]
<1>1. /\ cron[c] # Idle /\ Done(c, a)
      /\ auctions' = [auctions EXCEPT ![a].status = "ACTIVE"]
      /\ Emit(a, counts) /\ Wrote({AuctionDoc(a)})
      /\ UNCHANGED <<bids, autobids, wallets, reserved, escrows, bidLock, handler, canceller>>
  BY DEF Activate, At
<1>2. auctions' \in [Auctions -> AuctionFields]
  BY <1>1, StatusTyped DEF Typed, TypeOK, Statuses
<1>3. outbox' \in [Auctions -> [EventTypes -> Nat]]
  <2>1. \A e \in DOMAIN counts : counts[e] \in Nat
    OBVIOUS
  <2> HIDE DEF counts
  <2>2. QED BY <1>1, <2>1, EmitTyped DEF Typed, TypeOK
<1>4. missed' \in [Handlers -> SUBSET Documents]
  <2>1. {AuctionDoc(a)} \in SUBSET Documents
    BY DocumentsNamed
  <2>2. QED BY <1>1, <2>1, WroteTyped DEF Typed, TypeOK
<1>5. /\ cron' \in [Crons -> CronRuns \cup {Idle}]
      /\ cronLock' \in [Jobs -> Crons \cup {None}]
  BY <1>1, DoneTyped DEF Typed
<1>6. TypeOK'
  BY <1>1, <1>2, <1>3, <1>4, <1>5 DEF Typed, TypeOK
<1>7. QED BY <1>1, <1>6 DEF SafeStep, Typed, WinningKnown, WalletsSound

\* endActiveAuctions sets one status.
LEMMA EndSafe ==
    ASSUME Typed, NEW c \in Crons, NEW a \in Auctions, End(c, a)
    PROVE  SafeStep
<1>1. /\ cron[c] # Idle /\ Done(c, a)
      /\ auctions' = [auctions EXCEPT ![a].status = "ENDED"]
      /\ Wrote({AuctionDoc(a)})
      /\ UNCHANGED <<bids, autobids, wallets, reserved, escrows, outbox,
                     bidLock, handler, canceller>>
  BY DEF End, At
<1>2. auctions' \in [Auctions -> AuctionFields]
  BY <1>1, StatusTyped DEF Typed, TypeOK, Statuses
<1>3. missed' \in [Handlers -> SUBSET Documents]
  <2>1. {AuctionDoc(a)} \in SUBSET Documents
    BY DocumentsNamed
  <2>2. QED BY <1>1, <2>1, WroteTyped DEF Typed, TypeOK
<1>4. /\ cron' \in [Crons -> CronRuns \cup {Idle}]
      /\ cronLock' \in [Jobs -> Crons \cup {None}]
  BY <1>1, DoneTyped DEF Typed
<1>5. TypeOK'
  BY <1>1, <1>2, <1>3, <1>4 DEF Typed, TypeOK
<1>6. QED BY <1>1, <1>5 DEF SafeStep, Typed, WinningKnown, WalletsSound

\* A cron run that skips an auction changes nothing.
LEMMA SkipSafe ==
    ASSUME Typed, NEW c \in Crons, NEW a \in Auctions, Skip(c, a)
    PROVE  SafeStep
<1>1. /\ cron[c] # Idle /\ Done(c, a)
      /\ UNCHANGED <<auctions, bids, autobids, wallets, reserved, escrows, outbox,
                     bidLock, handler, missed, canceller>>
  BY DEF Skip
<1>2. /\ cron' \in [Crons -> CronRuns \cup {Idle}]
      /\ cronLock' \in [Jobs -> Crons \cup {None}]
  BY <1>1, DoneTyped DEF Typed
<1>3. TypeOK'
  BY <1>1, <1>2 DEF Typed, TypeOK
<1>4. QED BY <1>1, <1>3 DEF SafeStep, Typed, WinningKnown, WalletsSound

\* A cron run that dies changes nothing.
LEMMA CrashJobSafe ==
    ASSUME Typed, NEW c \in Crons, CrashJob(c)
    PROVE  SafeStep
BY DEF CrashJob, SafeStep, Typed, TypeOK, WinningKnown, WalletsSound

\* The TTL of a job's lock touches nothing but the lock.
LEMMA CronLockExpiresSafe ==
    ASSUME Typed, NEW job \in Jobs, CronLockExpires(job)
    PROVE  SafeStep
BY DEF CronLockExpires, SafeStep, Typed, TypeOK, WinningKnown, WalletsSound

\* finalizeEndedAuctions: the guard of the capture keeps the wallet sound.
LEMMA FinalizeSafe ==
    ASSUME Typed, NEW c \in Crons, NEW a \in Auctions, Finalize(c, a)
    PROVE  SafeStep
<1> DEFINE Winner(i) == bids[a][i]
           row == Spend(autobids[a], ActiveUsers(a))
           Docs(i) == {AuctionDoc(a)} \cup AutoBidDocs(a, ActiveUsers(a))
                         \cup (IF i = 0 THEN {} ELSE {WalletDocOf(Winner(i).bidder)})
           Counts(i) == [AuctionEnded |-> 1,
                         EscrowCreated |-> IF i # 0 /\ escrows[a] = {} THEN 1 ELSE 0]
           Escrow(i) == [buyer |-> Winner(i).bidder, seller |-> Seller[a],
                         amount |-> Winner(i).amount]
<1>1. PICK winning \in FoundWinning(a) :
        /\ IF winning = 0
           THEN /\ auctions' = [auctions EXCEPT ![a].finalized = TRUE]
                /\ UNCHANGED <<wallets, reserved, escrows>>
           ELSE /\ CanCapture(wallets[Winner(winning).bidder], Winner(winning).amount)
                /\ wallets' = [wallets EXCEPT ![Winner(winning).bidder]
                                  = Captured(@, Winner(winning).amount)]
                /\ reserved' = [reserved EXCEPT ![Winner(winning).bidder][a]
                                  = @ - Winner(winning).amount]
                /\ escrows' = [escrows EXCEPT ![a] = IF @ # {} THEN @ ELSE {Escrow(winning)}]
                /\ auctions' = [auctions EXCEPT ![a].finalized = TRUE,
                                                ![a].winner = Winner(winning).bidder]
        /\ autobids' = [autobids EXCEPT ![a] = row]
        /\ Wrote(Docs(winning))
        /\ Emit(a, Counts(winning))
  BY DEF Finalize
<1>2. /\ cron[c] # Idle /\ Done(c, a)
      /\ UNCHANGED <<bids, bidLock, handler, canceller>>
  BY DEF Finalize, At
<1> DEFINE b == Winner(winning)
<1>3. winning # 0 => b.bidder \in Users /\ b.amount \in Nat /\ b.amount \in Int
  BY FoundIsKnown, BidOf DEF Typed, TypeOK
<1>4. auctions \in [Auctions -> AuctionFields] /\ wallets \in [Users -> WalletFields]
  BY DEF Typed, TypeOK, WalletFields
<1>5. /\ auctions' \in [Auctions -> AuctionFields]
      /\ wallets' \in [Users -> WalletFields]
      /\ reserved' \in [Users -> [Auctions -> Int]]
      /\ escrows' \in [Auctions -> SUBSET EscrowFields]
      /\ WalletsSound => WalletsSound'
  <2>1. \A d \in AuctionFields : [d EXCEPT !.finalized = TRUE] \in AuctionFields
    BY DEF AuctionFields
  <2>2. CASE winning = 0
    <3> DEFINE doc == [auctions[a] EXCEPT !.finalized = TRUE]
    <3>1. UNCHANGED <<wallets, reserved, escrows>> /\ auctions' = [auctions EXCEPT ![a] = doc]
      BY <1>1, <2>2
    <3>2. doc \in AuctionFields
      BY <1>4, <2>1
    <3> HIDE DEF doc
    <3>3. QED BY <1>4, <3>1, <3>2 DEF Typed, TypeOK, WalletsSound
  <2>3. CASE winning # 0
    <3> DEFINE done == [auctions[a] EXCEPT !.finalized = TRUE]
               doc  == [done EXCEPT !.winner = b.bidder]
               escrow == IF escrows[a] # {} THEN escrows[a] ELSE {Escrow(winning)}
    <3>1. /\ CanCapture(wallets[b.bidder], b.amount)
          /\ wallets' = [wallets EXCEPT ![b.bidder] = Captured(@, b.amount)]
          /\ reserved' = [reserved EXCEPT ![b.bidder][a] = @ - b.amount]
          /\ escrows' = [escrows EXCEPT ![a] = escrow]
          /\ auctions' = [auctions EXCEPT ![a].finalized = TRUE, ![a].winner = b.bidder]
      BY <1>1, <2>3
    <3>2. b.bidder \in Users /\ b.amount \in Nat /\ b.amount \in Int
      BY <1>3, <2>3
    <3>3. auctions' \in [Auctions -> AuctionFields]
      <4> HIDE DEF b
      <4> DEFINE once == [auctions EXCEPT ![a].finalized = TRUE]
      <4>1. \A d \in AuctionFields, u \in Users : [d EXCEPT !.winner = u] \in AuctionFields
        BY DEF AuctionFields
      <4>2. once \in [Auctions -> AuctionFields] /\ once[a] \in AuctionFields
        <5>1. done \in AuctionFields
          BY <1>4, <2>1
        <5>2. once = [auctions EXCEPT ![a] = done]
          OBVIOUS
        <5> HIDE DEF done, once
        <5>3. QED BY <1>4, <5>1, <5>2
      <4>3. auctions' = [once EXCEPT ![a].winner = b.bidder]
        BY <3>1
      <4> HIDE DEF once
      <4> DEFINE final == [once[a] EXCEPT !.winner = b.bidder]
      <4>4. final \in AuctionFields
        BY <3>2, <4>1, <4>2
      <4>5. auctions' = [once EXCEPT ![a] = final]
        BY <4>3
      <4> HIDE DEF final
      <4>6. QED BY <4>2, <4>4, <4>5
    <3>4. escrows' \in [Auctions -> SUBSET EscrowFields]
      <4>1. Seller[a] \in Users
        BY ConstantsAssumption
      <4>2. Escrow(winning) \in EscrowFields
        BY <3>2, <4>1 DEF EscrowFields
      <4>3. escrow \in SUBSET EscrowFields
        <5> HIDE DEF Escrow
        <5>1. QED BY <4>2 DEF Typed, TypeOK
      <4> HIDE DEF escrow
      <4>4. QED BY <3>1, <4>3 DEF Typed, TypeOK
    <3> HIDE DEF b
    <3>5. wallets[b.bidder] \in WalletFields
      BY <1>4, <3>2
    <3>6. Captured(wallets[b.bidder], b.amount) \in WalletFields
      BY <3>2, <3>5, WalletTyped
    <3>7. wallets' \in [Users -> WalletFields]
      BY <1>4, <3>1, <3>2, <3>6, OneWallet
    <3>8. ASSUME WalletsSound PROVE WalletsSound'
      <4>1. SoundWallet(Captured(wallets[b.bidder], b.amount))
        BY <3>1, <3>2, <3>5, <3>8, WalletSound DEF WalletsSound
      <4>2. QED BY <1>4, <3>1, <3>2, <3>6, <3>8, <4>1, OneWallet
    <3>9. reserved' \in [Users -> [Auctions -> Int]]
      BY <3>1, <3>2, UnreserveTyped DEF Typed, TypeOK
    <3>10. QED BY <3>3, <3>4, <3>7, <3>8, <3>9
  <2>4. QED BY <2>2, <2>3
<1>6. autobids' \in [Auctions -> [Users -> AutoBidFields]]
  <2>1. row \in [Users -> AutoBidFields]
    BY SpendTyped DEF Typed, TypeOK
  <2> HIDE DEF row
  <2>2. QED BY <1>1, <2>1 DEF Typed, TypeOK
<1>7. missed' \in [Handlers -> SUBSET Documents]
  <2>1. AutoBidDocs(a, ActiveUsers(a)) \in SUBSET Documents
    BY AutoBidDocsNamed DEF ActiveUsers
  <2>2. AuctionDoc(a) \in Documents /\ (winning # 0 => WalletDocOf(b.bidder) \in Documents)
    BY <1>3, DocumentsNamed
  <2>3. Docs(winning) \in SUBSET Documents
    BY <2>1, <2>2
  <2> HIDE DEF Docs
  <2>4. QED BY <1>1, <2>3, WroteTyped DEF Typed, TypeOK
<1>8. outbox' \in [Auctions -> [EventTypes -> Nat]]
  <2>1. \A e \in DOMAIN Counts(winning) : Counts(winning)[e] \in Nat
    OBVIOUS
  <2> HIDE DEF Counts
  <2>2. QED BY <1>1, <2>1, EmitTyped DEF Typed, TypeOK
<1>9. /\ cron' \in [Crons -> CronRuns \cup {Idle}]
      /\ cronLock' \in [Jobs -> Crons \cup {None}]
  BY <1>2, DoneTyped DEF Typed
<1>10. TypeOK'
  BY <1>2, <1>5, <1>6, <1>7, <1>8, <1>9 DEF Typed, TypeOK, WalletFields
<1>11. QED BY <1>2, <1>5, <1>10 DEF SafeStep, Typed, WinningKnown

-----------------------------------------------------------------------------
(***************************************************************************)
(* The theorems.                                                           *)
(***************************************************************************)
LEMMA NextSafe == Typed /\ [Next]_vars => SafeStep
<1> SUFFICES ASSUME Typed, [Next]_vars PROVE SafeStep
  OBVIOUS
<1>1. CASE BidStep
  BY <1>1, PlaceBidSafe, SetAutoBidSafe, PreflightSafe, ManualBidWinsSafe, AutoBidAnswersSafe,
     AutoBidStoredSafe, AutoBidTakesOverSafe, LeaveSafe, BidLockExpiresSafe, CancelAutoBidSafe
     DEF BidStep
<1>2. CASE CancelStep
  BY <1>2, RequestCancelSafe, CommitCancelSafe, AbortCancelSafe DEF CancelStep
<1>3. CASE CronStep
  BY <1>3, StartJobSafe, ActivateSafe, EndSafe, FinalizeSafe, SkipSafe, CrashJobSafe,
     CronLockExpiresSafe DEF CronStep
<1>4. CASE UNCHANGED vars
  BY <1>4 DEF vars, SafeStep, Typed, TypeOK, WinningKnown, WalletsSound
<1>5. QED BY <1>1, <1>2, <1>3, <1>4 DEF Next

\* The first state has the types.
LEMMA InitTyped == Init => Typed
<1> SUFFICES ASSUME Init PROVE Typed
  OBVIOUS
<1>1. TypeOK
  <2>1. auctions \in [Auctions -> AuctionFields]
    BY ConstantsAssumption DEF Init, AuctionFields, Statuses
  <2>2. bids \in [Auctions -> Seq(BidFields)]
    BY EmptySeq DEF Init
  <2>3. autobids \in [Auctions -> [Users -> AutoBidFields]]
    BY DEF Init, AutoBidFields
  <2>4. /\ wallets \in [Users -> [balance : Int, held : Int]]
        /\ reserved \in [Users -> [Auctions -> Int]]
    BY ConstantsAssumption DEF Init
  <2>5. /\ escrows \in [Auctions -> SUBSET EscrowFields]
        /\ outbox \in [Auctions -> [EventTypes -> Nat]]
    BY DEF Init
  <2>6. /\ bidLock \in [Auctions -> Handlers \cup {None}]
        /\ cronLock \in [Jobs -> Crons \cup {None}]
        /\ handler \in [Handlers -> Requests \cup {Idle}]
        /\ missed \in [Handlers -> SUBSET Documents]
        /\ canceller \in [Cancellers -> CancelRequests \cup {Idle}]
        /\ cron \in [Crons -> CronRuns \cup {Idle}]
    BY DEF Init
  <2>7. QED BY <2>1, <2>2, <2>3, <2>4, <2>5, <2>6 DEF TypeOK
<1>2. WinningKnown
  BY DEF Init, WinningKnown
<1>3. QED BY <1>1, <1>2 DEF Typed

\* Every variable keeps its type, and the winning bid a request has found
\* stays a bid of its auction, through every interleaving, crash and overrun.
THEOREM TypedAlways == Spec => []Typed
<1>1. Typed /\ [Next]_vars => Typed'
  BY NextSafe DEF SafeStep
<1>2. QED BY InitTyped, <1>1, PTL DEF Spec

\* Every document, lock and request of the bidding services keeps its type.
THEOREM TypeCorrect == Spec => []TypeOK
<1>1. Typed => TypeOK
  BY DEF Typed
<1>2. QED BY TypedAlways, <1>1, PTL

\* No interleaving of bids, auto-bids, cancellations and cron runs, not even
\* one in which the locks overrun, lets a wallet hold more than its balance
\* or less than nothing.
THEOREM WalletsStaySound == Spec => []WalletsSound
<1>1. Init => WalletsSound
  BY ConstantsAssumption DEF Init, WalletsSound, SoundWallet, WalletDoc
<1>2. Typed /\ WalletsSound /\ [Next]_vars => WalletsSound'
  BY NextSafe DEF SafeStep
<1>3. QED BY <1>1, <1>2, TypedAlways, PTL DEF Spec

-----------------------------------------------------------------------------
(***************************************************************************)
(* The held field of a wallet and the ledger of its holds: every step that *)
(* writes one writes the other, by the same amount.                        *)
(***************************************************************************)
Booked(W, R) == \A u \in Users : W[u].held = SumFunction(R[u])

\* One wallet's hold and one entry of its ledger change by as much.
LEMMA OneEntry ==
    ASSUME NEW W \in [Users -> WalletFields], NEW R \in [Users -> [Auctions -> Int]], Booked(W, R),
           NEW u \in Users, NEW a \in Auctions, NEW n \in Int,
           NEW w \in WalletFields, w.held = W[u].held + n
    PROVE  Booked([W EXCEPT ![u] = w], [R EXCEPT ![u] = [R[u] EXCEPT ![a] = R[u][a] + n]])
<1> DEFINE row == [R[u] EXCEPT ![a] = R[u][a] + n]
<1>1. R[u] \in [Auctions -> Int] /\ R[u][a] \in Int
  OBVIOUS
<1>2. /\ row \in [Auctions -> Int] /\ row[a] = R[u][a] + n
      /\ \A b \in Auctions \ {a} : row[b] = R[u][b]
  BY <1>1
<1> HIDE DEF row
<1>3. /\ IsFiniteSet(Auctions) /\ \A b \in Auctions : R[u][b] \in Int
      /\ row[a] \in Int
  BY <1>1, <1>2, ConstantsAssumption
<1>4. SumFunctionOnSet(row, Auctions) = SumFunctionOnSet(R[u], Auctions) - R[u][a] + row[a]
  BY <1>2, <1>3, SumChanges
<1>5. SumFunctionOnSet(R[u], Auctions) \in Int
  BY <1>3, SumTypes
<1>6. W[u].held = SumFunctionOnSet(R[u], Auctions)
  BY <1>1 DEF Booked, SumFunction
<1>7. w.held = SumFunctionOnSet(row, Auctions)
  BY <1>1, <1>2, <1>4, <1>5, <1>6
<1>8. w.held = SumFunction(row)
  BY <1>2, <1>7 DEF SumFunction
<1>9. \A v \in Users \ {u} : W[v].held = SumFunction(R[v])
  BY DEF Booked
<1>10. \A v \in Users : [W EXCEPT ![u] = w][v].held = SumFunction([R EXCEPT ![u] = row][v])
  BY <1>8, <1>9
<1>11. QED BY <1>10 DEF Booked, row

\* What a release, a hold and a capture do to the held field.
LEMMA HeldMoves ==
    ASSUME NEW w \in WalletFields, NEW n \in Int
    PROVE  /\ Released(w, n) \in WalletFields /\ Released(w, n).held = w.held - n
           /\ WithHold(w, n) \in WalletFields /\ WithHold(w, n).held = w.held + n
           /\ Captured(w, n) \in WalletFields /\ Captured(w, n).held = w.held - n
<1>1. /\ Released(w, n) = [balance |-> w.balance, held |-> w.held - n]
      /\ WithHold(w, n) = [balance |-> w.balance, held |-> w.held + n]
      /\ Captured(w, n) = [balance |-> w.balance - n, held |-> w.held - n]
  BY WalletUpdates
<1>2. Released(w, n) \in WalletFields /\ WithHold(w, n) \in WalletFields /\ Captured(w, n) \in WalletFields
  BY WalletTyped
<1>3. \A b, d : [balance |-> b, held |-> d].held = d
  OBVIOUS
<1>4. QED BY <1>1, <1>2, <1>3

LEMMA BooksTyped ==
    ASSUME TypeOK
    PROVE  wallets \in [Users -> WalletFields] /\ reserved \in [Users -> [Auctions -> Int]]
BY DEF TypeOK, WalletFields

\* The previous leader's hold is released, the new one's is taken.
LEMMA TakeOverBooks ==
    ASSUME TypeOK, HeldIsReserved, NEW a \in Auctions, NEW winning \in {0} \cup DOMAIN bids[a],
           NEW w \in Users, NEW n \in Nat, NEW lost, TakeOver(a, winning, w, n, lost)
    PROVE  HeldIsReserved'
<1> DEFINE prev == bids[a][winning]
           freed == IF winning = 0 THEN wallets
                    ELSE [wallets EXCEPT ![prev.bidder] = Released(@, prev.amount)]
           unreserved == IF winning = 0 THEN reserved
                         ELSE [reserved EXCEPT ![prev.bidder][a] = @ - prev.amount]
<1>1. /\ wallets' = [freed EXCEPT ![w] = WithHold(freed[w], n)]
      /\ reserved' = [unreserved EXCEPT ![w] = [unreserved[w] EXCEPT ![a] = unreserved[w][a] + n]]
  <2>1. /\ wallets' = [freed EXCEPT ![w] = WithHold(@, n)]
        /\ reserved' = [unreserved EXCEPT ![w][a] = @ + n]
    BY DEF TakeOver
  <2> HIDE DEF freed, unreserved
  <2>2. QED BY SMTT(20), <2>1
<1>2. /\ freed \in [Users -> WalletFields] /\ unreserved \in [Users -> [Auctions -> Int]]
      /\ Booked(freed, unreserved)
  <2>1. CASE winning = 0
    BY <2>1, BooksTyped DEF HeldIsReserved, Booked
  <2>2. CASE winning # 0
    <3>1. PICK b : b = prev
      OBVIOUS
    <3>2. b.bidder \in Users /\ b.amount \in Int
      BY <2>2, <3>1, BidOf DEF TypeOK
    <3> DEFINE doc == Released(wallets[b.bidder], b.amount)
               row == [reserved[b.bidder] EXCEPT ![a] = reserved[b.bidder][a] + (0 - b.amount)]
    <3>3. wallets[b.bidder] \in WalletFields /\ reserved[b.bidder] \in [Auctions -> Int]
      BY <3>2, BooksTyped
    <3>4. doc \in WalletFields /\ doc.held = wallets[b.bidder].held + (0 - b.amount)
      <4>1. /\ doc = [balance |-> wallets[b.bidder].balance, held |-> wallets[b.bidder].held - b.amount]
            /\ wallets[b.bidder].held \in Int
        BY <3>2, <3>3, WalletUpdates
      <4>2. doc \in WalletFields
        BY <3>2, <3>3, WalletTyped
      <4> HIDE DEF doc
      <4>3. QED BY <3>2, <4>1, <4>2
    <3>5. freed = [wallets EXCEPT ![b.bidder] = doc]
      BY <2>2, <3>1
    <3>6. unreserved = [reserved EXCEPT ![b.bidder] = row] /\ row \in [Auctions -> Int]
      <4>1. unreserved = [reserved EXCEPT ![b.bidder] =
                             [reserved[b.bidder] EXCEPT ![a] = reserved[b.bidder][a] - b.amount]]
        BY <2>2, <3>1
      <4>2. reserved[b.bidder][a] - b.amount = reserved[b.bidder][a] + (0 - b.amount)
            /\ reserved[b.bidder][a] + (0 - b.amount) \in Int
        BY <3>2, <3>3
      <4> HIDE DEF unreserved
      <4>3. QED BY <3>3, <4>1, <4>2
    <3>7. 0 - b.amount \in Int /\ Booked(wallets, reserved)
      BY <3>2 DEF HeldIsReserved, Booked
    <3> HIDE DEF doc, freed, unreserved
    <3>8. Booked([wallets EXCEPT ![b.bidder] = doc], [reserved EXCEPT ![b.bidder] = row])
      BY <3>2, <3>4, <3>7, BooksTyped, OneEntry
    <3> HIDE DEF row
    <3>9. QED BY <3>4, <3>5, <3>6, <3>8, BooksTyped
  <2>3. QED BY <2>1, <2>2
<1> HIDE DEF freed, unreserved
<1>3. WithHold(freed[w], n) \in WalletFields /\ WithHold(freed[w], n).held = freed[w].held + n
  <2>1. freed[w] \in WalletFields /\ n \in Int
    BY <1>2
  <2>2. QED BY <2>1, HeldMoves
<1>4. Booked(wallets', reserved')
  <2>1. PICK W \in [Users -> WalletFields], R \in [Users -> [Auctions -> Int]] : W = freed /\ R = unreserved
    BY <1>2
  <2>2. PICK d \in WalletFields : d = WithHold(freed[w], n)
    BY <1>3
  <2>3. Booked(W, R) /\ d.held = W[w].held + n /\ n \in Int
    BY <1>2, <1>3, <2>1, <2>2
  <2>4. Booked([W EXCEPT ![w] = d], [R EXCEPT ![w] = [R[w] EXCEPT ![a] = R[w][a] + n]])
    BY <2>3, OneEntry
  <2>5. QED BY <1>1, <2>1, <2>2, <2>4
<1>5. QED BY <1>4 DEF Booked, HeldIsReserved

\* A release or a capture of the winning bid takes it out of both books.
LEMMA TakenOutBooks ==
    ASSUME TypeOK, HeldIsReserved, NEW u \in Users, NEW a \in Auctions, NEW n \in Int,
           NEW w \in WalletFields, w.held = wallets[u].held - n,
           wallets' = [wallets EXCEPT ![u] = w],
           reserved' = [reserved EXCEPT ![u][a] = @ - n]
    PROVE  HeldIsReserved'
<1>1. wallets[u].held \in Int /\ reserved[u] \in [Auctions -> Int] /\ 0 - n \in Int
  BY BooksTyped DEF WalletFields
<1>2. w.held = wallets[u].held + (0 - n) /\ reserved[u][a] - n = reserved[u][a] + (0 - n)
  BY <1>1
<1>3. reserved' = [reserved EXCEPT ![u] = [reserved[u] EXCEPT ![a] = reserved[u][a] + (0 - n)]]
  <2>1. reserved' = [reserved EXCEPT ![u] = [reserved[u] EXCEPT ![a] = reserved[u][a] - n]]
    OBVIOUS
  <2>2. QED BY <1>2, <2>1
<1>4. Booked(wallets, reserved)
  BY DEF Booked, HeldIsReserved
<1>5. Booked([wallets EXCEPT ![u] = w],
             [reserved EXCEPT ![u] = [reserved[u] EXCEPT ![a] = reserved[u][a] + (0 - n)]])
  BY <1>1, <1>2, <1>4, BooksTyped, OneEntry
<1>6. Booked(wallets', reserved')
  BY <1>3, <1>5
<1>7. QED BY <1>6 DEF Booked, HeldIsReserved

\* What a wallet holds is what its wallet transactions hold for the auctions,
\* whatever bids, cancellations and runs of the jobs interleave on it, with
\* the locks or without them: the wallet and its ledger never part.
THEOREM WalletsAgreeWithLedger == Spec => []HeldIsReserved
<1>1. ASSUME Init PROVE HeldIsReserved
  <2>1. ASSUME NEW u \in Users PROVE wallets[u].held = SumFunction(reserved[u])
    <3>1. /\ IsFiniteSet(Auctions) /\ DOMAIN reserved[u] = Auctions
          /\ \A a \in Auctions : reserved[u][a] = 0
      BY <1>1, ConstantsAssumption DEF Init
    <3>2. SumFunctionOnSet(reserved[u], Auctions) = 0
      BY <3>1, SumOfZeros
    <3>3. wallets[u].held = 0
      BY <1>1 DEF Init
    <3>4. QED BY <3>1, <3>2, <3>3 DEF SumFunction
  <2>2. QED BY <2>1 DEF HeldIsReserved
<1>2. ASSUME Typed, HeldIsReserved, [Next]_vars PROVE HeldIsReserved'
  <2>0. TypeOK
    BY <1>2 DEF Typed
  <2>a. ASSUME UNCHANGED <<wallets, reserved>> PROVE HeldIsReserved'
    BY <1>2, <2>a DEF HeldIsReserved
  <2>1. ASSUME NEW h \in Handlers, ManualBidWins(h) \/ AutoBidAnswers(h) \/ AutoBidTakesOver(h)
        PROVE  HeldIsReserved'
    <3>1. handler[h] # Idle
      BY <2>1 DEF ManualBidWins, AutoBidAnswers, AutoBidTakesOver, Ready
    <3>2. PICK t : t = handler[h]
      OBVIOUS
    <3>3. /\ t.auction \in Auctions /\ t.user \in Users /\ t.amount \in Nat
          /\ t.winning \in {0} \cup DOMAIN bids[t.auction]
          /\ t.result.winner \in Users /\ t.result.amount \in Nat
      BY <1>2, <3>1, <3>2, RequestCarries
    <3>4. PICK w, n, lost :
            w \in Users /\ n \in Nat /\ TakeOver(t.auction, t.winning, w, n, lost)
      BY <2>1, <3>2, <3>3 DEF ManualBidWins, AutoBidAnswers, AutoBidTakesOver
    <3>5. QED BY <1>2, <2>0, <3>3, <3>4, TakeOverBooks
  <2>2. ASSUME NEW c \in Cancellers, CommitCancel(c) PROVE HeldIsReserved'
    <3>1. PICK a : a = canceller[c].auction
      BY SMTT(20)
    <3>2. a \in Auctions
      BY SMTT(20), <2>0, <2>2, <3>1 DEF CommitCancel, TypeOK, CancelRequests
    <3>3. PICK winning \in {0} \cup DOMAIN bids[a] :
            IF winning = 0 THEN UNCHANGED <<wallets, reserved>>
            ELSE LET b == bids[a][winning]
                 IN  /\ wallets' = [wallets EXCEPT ![b.bidder] = Released(@, b.amount)]
                     /\ reserved' = [reserved EXCEPT ![b.bidder][a] = @ - b.amount]
      BY <2>0, <2>2, <3>1, <3>2, FoundIsKnown DEF CommitCancel, TypeOK
    <3>4. CASE winning = 0
      BY <2>a, <3>3, <3>4
    <3>5. CASE winning # 0
      <4>1. PICK b : b = bids[a][winning]
        OBVIOUS
      <4>2. b.bidder \in Users /\ b.amount \in Int
        BY <2>0, <3>2, <3>5, <4>1, BidOf DEF TypeOK
      <4>3. wallets[b.bidder] \in WalletFields
        BY <2>0, <4>2, BooksTyped
      <4>4. /\ Released(wallets[b.bidder], b.amount) \in WalletFields
            /\ Released(wallets[b.bidder], b.amount).held = wallets[b.bidder].held - b.amount
        BY <4>2, <4>3, HeldMoves
      <4>5. /\ wallets' = [wallets EXCEPT ![b.bidder] = Released(wallets[b.bidder], b.amount)]
            /\ reserved' = [reserved EXCEPT ![b.bidder][a] = @ - b.amount]
        BY <3>3, <3>5, <4>1
      <4>6. QED BY <1>2, <2>0, <3>2, <4>2, <4>4, <4>5, TakenOutBooks
    <3>6. QED BY <3>4, <3>5
  <2>3. ASSUME NEW c \in Crons, NEW a \in Auctions, Finalize(c, a) PROVE HeldIsReserved'
    <3>1. PICK winning \in {0} \cup DOMAIN bids[a] :
            IF winning = 0 THEN UNCHANGED <<wallets, reserved>>
            ELSE LET b == bids[a][winning]
                 IN  /\ wallets' = [wallets EXCEPT ![b.bidder] = Captured(@, b.amount)]
                     /\ reserved' = [reserved EXCEPT ![b.bidder][a] = @ - b.amount]
      BY <2>0, <2>3, FoundIsKnown DEF Finalize, TypeOK
    <3>2. CASE winning = 0
      BY <2>a, <3>1, <3>2
    <3>3. CASE winning # 0
      <4>1. PICK b : b = bids[a][winning]
        OBVIOUS
      <4>2. b.bidder \in Users /\ b.amount \in Int
        BY <2>0, <3>3, <4>1, BidOf DEF TypeOK
      <4>3. wallets[b.bidder] \in WalletFields
        BY <2>0, <4>2, BooksTyped
      <4>4. /\ Captured(wallets[b.bidder], b.amount) \in WalletFields
            /\ Captured(wallets[b.bidder], b.amount).held = wallets[b.bidder].held - b.amount
        BY <4>2, <4>3, HeldMoves
      <4>5. /\ wallets' = [wallets EXCEPT ![b.bidder] = Captured(wallets[b.bidder], b.amount)]
            /\ reserved' = [reserved EXCEPT ![b.bidder][a] = @ - b.amount]
        BY <3>1, <3>3, <4>1
      <4>6. QED BY <1>2, <2>0, <4>2, <4>4, <4>5, TakenOutBooks
    <3>4. QED BY <3>2, <3>3
  <2>4. ASSUME BidStep,
               \A h \in Handlers : ~ (ManualBidWins(h) \/ AutoBidAnswers(h) \/ AutoBidTakesOver(h))
        PROVE  HeldIsReserved'
    <3>1. ASSUME NEW h \in Handlers, NEW a \in Auctions, NEW u \in Users, NEW n \in Offers,
                 PlaceBid(h, a, u, n) \/ SetAutoBid(h, a, u, n)
          PROVE  UNCHANGED <<wallets, reserved>>
      <4>1. CASE PlaceBid(h, a, u, n)
        BY <4>1 DEF PlaceBid, Opened
      <4>2. CASE SetAutoBid(h, a, u, n)
        BY <4>2 DEF SetAutoBid, Opened
      <4>3. QED BY <3>1, <4>1, <4>2
    <3>2. ASSUME NEW h \in Handlers, Preflight(h) \/ AutoBidStored(h) \/ AbortBid(h) \/ CrashBid(h)
          PROVE  UNCHANGED <<wallets, reserved>>
      BY <3>2 DEF Preflight, AutoBidStored, AbortBid, CrashBid
    <3>3. ASSUME NEW a \in Auctions, BidLockExpires(a) \/ \E u \in Users : CancelAutoBid(a, u)
          PROVE  UNCHANGED <<wallets, reserved>>
      BY <3>3 DEF BidLockExpires, CancelAutoBid
    <3>4. UNCHANGED <<wallets, reserved>>
      BY <2>4, <3>1, <3>2, <3>3 DEF BidStep
    <3>5. QED BY <2>a, <3>4
  <2>5. ASSUME \/ \E c \in Cancellers : AbortCancel(c) \/ \E a \in Auctions : RequestCancel(c, a)
               \/ \E c \in Crons : \/ \E job \in Jobs : StartJob(c, job)
                                   \/ \E a \in Auctions : Activate(c, a) \/ End(c, a) \/ Skip(c, a)
                                   \/ CrashJob(c)
               \/ \E job \in Jobs : CronLockExpires(job)
               \/ UNCHANGED vars
        PROVE  HeldIsReserved'
    <3>1. UNCHANGED <<wallets, reserved>>
      BY <2>5 DEF AbortCancel, RequestCancel, StartJob, Activate, End, Skip, CrashJob, CronLockExpires, vars
    <3>2. QED BY <2>a, <3>1
  <2>6. QED BY <1>2, <2>1, <2>2, <2>3, <2>4, <2>5 DEF Next, CancelStep, CronStep
<1>3. QED BY <1>1, <1>2, TypedAlways, PTL DEF Spec

-----------------------------------------------------------------------------
(***************************************************************************)
(* One leader, at the current price.  A request commits a new leader only  *)
(* if nobody has written the auction document since its snapshot, and      *)
(* whoever writes the bids of an auction writes that document: so the      *)
(* leader a request replaces is the leader there is.                       *)
(***************************************************************************)
\* FoundWinning, of any list of bids.
FoundIn(list) ==
    LET winning == {i \in DOMAIN list : list[i].status = "WINNING"}
    IN  IF winning = {} THEN {0} ELSE winning

\* FoundWinning as a function of the list of bids, to write it of the next state.
LEMMA FoundWinningIs == \A a : FoundWinning(a) = FoundIn(bids[a])
BY DEF FoundWinning, WinningBids, FoundIn

\* The winning bid of a request whose auction nobody has written since its
\* snapshot is still the winning bid.
FreshLeader ==
    \A h \in Handlers :
        handler[h] # Idle /\ AuctionDoc(handler[h].auction) \notin missed[h]
            => handler[h].winning \in FoundIn(bids[handler[h].auction])

Led == LeadIsPrice /\ FreshLeader

\* A step that writes no bid and no price, and opens no request.
Quiet ==
    /\ bids' = bids
    /\ \A a \in Auctions : auctions'[a].price = auctions[a].price
    /\ \A g \in Handlers : handler'[g] # Idle =>
          /\ handler[g] # Idle
          /\ handler'[g].auction = handler[g].auction
          /\ handler'[g].winning = handler[g].winning
          /\ missed[g] \subseteq missed'[g]

\* A step that touches no bid and no price keeps the leader at the price.
LEMMA QuietKeepsLead ==
    ASSUME Typed, Led, Quiet
    PROVE  Led'
<1>1. LeadIsPrice'
  BY DEF Led, LeadIsPrice, Quiet, WinningBids
<1>2. FreshLeader'
  BY DEF Led, FreshLeader, Quiet
<1>3. QED BY <1>1, <1>2 DEF Led

\* Writing no bid, no price and no request is quiet if missed only grows.
LEMMA UntouchedIsQuiet ==
    ASSUME UNCHANGED <<bids, handler>>,
           \A a \in Auctions : auctions'[a].price = auctions[a].price,
           \A g \in Handlers : handler[g] # Idle => missed[g] \subseteq missed'[g]
    PROVE  Quiet
BY DEF Quiet

\* Noting a write only adds to what the open transactions have missed.
LEMMA WroteGrows ==
    ASSUME NEW docs, Wrote(docs)
    PROVE  \A g \in Handlers : handler[g] # Idle => missed[g] \subseteq missed'[g]
BY DEF Wrote

\* A request that opens has just found the winning bid.
LEMMA OpenedKeepsLead ==
    ASSUME Typed, Led, NEW h \in Handlers, NEW op, NEW a \in Auctions, NEW u, NEW n,
           NEW winning \in FoundWinning(a), NEW r, Opened(h, op, a, u, n, winning, r)
    PROVE  Led'
<1> DEFINE req == [op |-> op, at |-> IF NeedsPreflight(r) THEN "preflight" ELSE "commit",
                   auction |-> a, user |-> u, amount |-> n,
                   winning |-> winning, result |-> r, funds |-> 0]
<1>1. /\ missed' = [missed EXCEPT ![h] = {}]
      /\ handler' = [handler EXCEPT ![h] = req]
      /\ UNCHANGED <<auctions, bids>>
  BY DEF Opened
<1>2. req.winning = winning /\ req.auction = a
  OBVIOUS
<1>3. winning \in FoundIn(bids[a])
  BY FoundWinningIs
<1>4. LeadIsPrice'
  BY <1>1 DEF Led, LeadIsPrice, WinningBids
<1> HIDE DEF req
<1>5. FreshLeader'
  BY <1>1, <1>2, <1>3 DEF Led, FreshLeader, Typed, TypeOK
<1>6. QED BY <1>4, <1>5 DEF Led

\* The elements of three sequences put together.
LEMMA ThreeParts ==
    ASSUME NEW S, NEW p \in Seq(S), NEW q \in Seq(S), NEW r \in Seq(S), Len(r) = 1
    PROVE  /\ p \o q \o r \in Seq(S) /\ Len(p \o q \o r) = Len(p) + Len(q) + 1
           /\ \A i \in 1..Len(p) : (p \o q \o r)[i] = p[i]
           /\ \A i \in (Len(p) + 1)..(Len(p) + Len(q)) : (p \o q \o r)[i] = q[i - Len(p)]
           /\ (p \o q \o r)[Len(p) + Len(q) + 1] = r[1]
<1>1. PICK k, l : k = Len(p) /\ l = Len(q) /\ k \in Nat /\ l \in Nat
  BY LenProperties
<1>2. PICK pq : pq = p \o q
  OBVIOUS
<1>3. /\ pq \in Seq(S) /\ Len(pq) = k + l
      /\ \A i \in 1..(Len(p) + Len(q)) : pq[i] = IF i <= Len(p) THEN p[i] ELSE q[i - Len(p)]
  BY <1>1, <1>2, ConcatProperties
<1>4. /\ pq \o r \in Seq(S) /\ Len(pq \o r) = Len(pq) + Len(r)
      /\ \A i \in 1..(Len(pq) + Len(r)) :
            (pq \o r)[i] = IF i <= Len(pq) THEN pq[i] ELSE r[i - Len(pq)]
  <2>1. pq \in Seq(S)
    BY <1>3
  <2>2. QED BY <2>1, ConcatProperties
<1>5. p \o q \o r = pq \o r
  BY <1>2
<1>6. \A i \in 1..(k + l) : (pq \o r)[i] = pq[i]
  BY <1>1, <1>3, <1>4
<1>7. (pq \o r)[k + l + 1] = r[1]
  BY <1>1, <1>3, <1>4
<1>8. \A i \in 1..k : (pq \o r)[i] = p[i]
  BY <1>1, <1>3, <1>6
<1>9. \A i \in (k + 1)..(k + l) : (pq \o r)[i] = q[i - k]
  BY <1>1, <1>3, <1>6
<1>10. QED BY <1>1, <1>3, <1>4, <1>5, <1>7, <1>8, <1>9

\* The bids of an auction after a commit, in three parts.
InParts(s, p, q, r) ==
    /\ s \in Seq(BidFields) /\ Len(s) = Len(p) + Len(q) + 1
    /\ \A i \in 1..Len(p) : s[i] = p[i]
    /\ \A i \in (Len(p) + 1)..(Len(p) + Len(q)) : s[i] = q[i - Len(p)]
    /\ s[Len(p) + Len(q) + 1] = r[1]

\* Bids put behind each other come in their three parts.
LEMMA BidsInParts ==
    ASSUME NEW p \in Seq(BidFields), NEW q \in Seq(BidFields), NEW r \in Seq(BidFields),
           Len(r) = 1, NEW s, s = p \o q \o r
    PROVE  InParts(s, p, q, r)
BY SMTT(20), ThreeParts DEF InParts

\* Replacing the leader leaves one winning bid, the last, at the new price.
LEMMA TakeOverLeads ==
    ASSUME TypeOK, LeadIsPrice, NEW a \in Auctions, NEW winning \in FoundWinning(a),
           NEW w \in Users, NEW n \in Nat, NEW lost \in Seq(BidFields),
           \A i \in DOMAIN lost : lost[i].status = "OUTBID",
           TakeOver(a, winning, w, n, lost)
    PROVE  /\ LeadIsPrice'
           /\ \A b \in Auctions : b # a => bids'[b] = bids[b]
<1> DEFINE outbid == IF winning = 0 THEN bids[a]
                     ELSE [bids[a] EXCEPT ![winning].status = "OUTBID"]
           last == <<NewBid(w, n, "WINNING")>>
           all  == outbid \o lost \o last
           L    == Len(bids[a])
           M    == Len(lost)
<1>1. bids' = [bids EXCEPT ![a] = all] /\ auctions' = [auctions EXCEPT ![a].price = n]
  BY DEF TakeOver
<1>2. bids[a] \in Seq(BidFields) /\ L \in Nat /\ DOMAIN bids[a] = 1..L
  BY LenProperties DEF TypeOK
<1>3. M \in Nat /\ DOMAIN lost = 1..M
  BY LenProperties
<1>4. outbid \in Seq(BidFields) /\ Len(outbid) = L
      /\ \A i \in 1..L : outbid[i].status # "WINNING"
  <2>1. \A i \in 1..L : bids[a][i].status = "WINNING" => i = L
    BY <1>2 DEF LeadIsPrice, WinningBids
  <2>2. CASE winning = 0
    <3>1. WinningBids(a) = {}
      BY <1>2, <2>2 DEF FoundWinning, WinningBids
    <3>2. QED BY <1>2, <2>2, <3>1 DEF WinningBids
  <2>3. CASE winning # 0
    <3> DEFINE beaten == [bids[a][winning] EXCEPT !.status = "OUTBID"]
    <3>1. winning \in 1..L /\ winning = L
      BY <1>2, <2>1, <2>3 DEF FoundWinning, WinningBids
    <3>2. \A b \in BidFields : [b EXCEPT !.status = "OUTBID"] \in BidFields
                                 /\ [b EXCEPT !.status = "OUTBID"].status = "OUTBID"
      BY DEF BidFields
    <3>3. bids[a][winning] \in BidFields
      BY <1>2, <3>1, ElementOfSeq
    <3>4. beaten \in BidFields /\ beaten.status = "OUTBID"
      BY <3>2, <3>3
    <3>5. outbid = [bids[a] EXCEPT ![winning] = beaten]
      BY <2>3
    <3> HIDE DEF beaten, outbid
    <3>6. /\ outbid \in Seq(BidFields) /\ Len(outbid) = L
          /\ \A j \in 1..L : outbid[j] = IF j = winning THEN beaten ELSE bids[a][j]
      BY <1>2, <3>1, <3>4, <3>5, ExceptSeq
    <3>7. QED BY <2>1, <3>1, <3>4, <3>6
  <2>4. QED BY <2>2, <2>3
<1>5. last \in Seq(BidFields) /\ Len(last) = 1 /\ last[1] = NewBid(w, n, "WINNING")
  BY DEF NewBid, BidFields
<1> HIDE DEF outbid, last
<1> HIDE DEF L, M
<1>6. /\ all \in Seq(BidFields) /\ Len(all) = L + M + 1
      /\ \A i \in 1..L : all[i] = outbid[i]
      /\ \A i \in (L + 1)..(L + M) : all[i] = lost[i - L]
      /\ all[L + M + 1] = last[1]
  <2>1. M = Len(lost) /\ L = Len(outbid) /\ all = outbid \o lost \o last
    BY <1>4 DEF M
  <2> HIDE DEF all
  <2>2. /\ outbid \in Seq(BidFields) /\ lost \in Seq(BidFields) /\ last \in Seq(BidFields)
        /\ L \in Nat /\ M \in Nat /\ Len(last) = 1
    BY <1>2, <1>3, <1>4, <1>5
  <2>3. InParts(all, outbid, lost, last)
    BY <2>1, <2>2, BidsInParts
  <2>4. QED BY <2>1, <2>3 DEF InParts
<1>7. DOMAIN all = 1..(L + M + 1)
  BY <1>6, LenProperties
<1> HIDE DEF all
<1>8. \A i \in 1..L : all[i].status # "WINNING"
  BY <1>4, <1>6
<1>9. \A i \in (L + 1)..(L + M) : all[i].status # "WINNING"
  <2>1. \A i \in (L + 1)..(L + M) : i - L \in DOMAIN lost
    BY <1>2, <1>3
  <2>2. QED BY <1>6, <2>1
<1>10. \A i \in DOMAIN all : all[i].status = "WINNING" => i = L + M + 1
  BY <1>2, <1>3, <1>7, <1>8, <1>9
<1>11. bids'[a] = all /\ auctions'[a].price = n
  BY <1>1 DEF TypeOK, AuctionFields
<1>12. \A b \in Auctions : b # a => bids'[b] = bids[b] /\ auctions'[b] = auctions[b]
  BY <1>1 DEF TypeOK
<1>13. ASSUME NEW b \in Auctions, NEW i \in DOMAIN bids'[b], bids'[b][i].status = "WINNING"
       PROVE  i = Len(bids'[b]) /\ auctions'[b].price = bids'[b][i].amount
  <2>1. CASE b = a
    <3>1. i = L + M + 1
      BY <1>10, <1>11, <1>13, <2>1
    <3>2. QED BY <1>5, <1>6, <1>11, <2>1, <3>1 DEF NewBid
  <2>2. CASE b # a
    BY <1>12, <1>13, <2>2 DEF LeadIsPrice, WinningBids
  <2>3. QED BY <2>1, <2>2
<1>14. LeadIsPrice'
  BY <1>13 DEF LeadIsPrice, WinningBids
<1>15. QED BY <1>12, <1>14

\* A commit that replaces the leader has found the leader there is, and makes
\* every other open request on that auction miss the auction document.
LEMMA TakeOverKeepsLead ==
    ASSUME Typed, Led, NEW h \in Handlers, handler[h] # Idle,
           NEW w \in Users, NEW n \in Nat, NEW lost \in Seq(BidFields),
           \A i \in DOMAIN lost : lost[i].status = "OUTBID",
           TakeOver(handler[h].auction, handler[h].winning, w, n, lost),
           NEW docs, Commit(h, docs), AuctionDoc(handler[h].auction) \in docs
    PROVE  Led'
<1> DEFINE a == handler[h].auction
           winning == handler[h].winning
<1>1. /\ missed[h] \cap docs = {}
      /\ handler' = [handler EXCEPT ![h] = Idle]
      /\ missed' = [g \in Handlers |-> IF g = h \/ handler[g] = Idle THEN {}
                                       ELSE missed[g] \cup docs]
  BY DEF Commit, NoConflict
<1>2. a \in Auctions
  BY RequestCarries
<1>3. winning \in FoundWinning(a)
  BY <1>1, FoundWinningIs DEF Led, FreshLeader
<1>4. LeadIsPrice' /\ \A b \in Auctions : b # a => bids'[b] = bids[b]
  <2>1. TakeOver(a, winning, w, n, lost)
    OBVIOUS
  <2> HIDE DEF a, winning
  <2>2. TypeOK /\ LeadIsPrice
    BY DEF Typed, Led
  <2>3. QED BY <1>2, <1>3, <2>1, <2>2, TakeOverLeads
<1>5. ASSUME NEW g \in Handlers, handler'[g] # Idle,
             AuctionDoc(handler'[g].auction) \notin missed'[g]
      PROVE  handler'[g].winning \in FoundIn(bids'[handler'[g].auction])
  <2>1. g # h /\ handler'[g] = handler[g] /\ handler[g] # Idle
    BY <1>1, <1>5 DEF Typed, TypeOK
  <2>2. missed'[g] = missed[g] \cup docs
    BY <1>1, <2>1
  <2> DEFINE b == handler[g].auction
  <2>3. b \in Auctions /\ AuctionDoc(b) \notin docs /\ AuctionDoc(b) \notin missed[g]
    BY <1>5, <2>1, <2>2, RequestCarries
  <2>4. b # a
    BY <2>3
  <2>5. bids'[b] = bids[b]
    <3> HIDE DEF a, b
    <3>1. QED BY <1>4, <2>3, <2>4
  <2>6. handler[g].winning \in FoundIn(bids[b])
    BY <2>1, <2>3 DEF Led, FreshLeader
  <2>7. QED BY <2>1, <2>5, <2>6
<1>6. FreshLeader'
  BY <1>5 DEF FreshLeader
<1>7. QED BY <1>4, <1>6 DEF Led

\* A commit that takes the lead found nobody else's write since its snapshot.
LEMMA CommitsKeepLead ==
    ASSUME Typed, Led, NEW h \in Handlers,
           ManualBidWins(h) \/ AutoBidAnswers(h) \/ AutoBidTakesOver(h)
    PROVE  Led'
<1> DEFINE t == handler[h]
           r == t.result
           spent == r.exhausted \cup (IF r.auto THEN {r.winner} ELSE {})
<1>1. handler[h] # Idle
  BY DEF ManualBidWins, AutoBidAnswers, AutoBidTakesOver, Ready
<1>2. /\ t.auction \in Auctions /\ t.user \in Users /\ t.amount \in Nat
      /\ r.winner \in Users /\ r.amount \in Nat
  BY <1>1, RequestCarries
<1>3. <<>> \in Seq(BidFields) /\ \A i \in DOMAIN <<>> : <<>>[i].status = "OUTBID"
  BY EmptySeq
<1>4. \A w \in Users : AuctionDoc(t.auction) \in TakeOverDocs(t.auction, t.winning, w)
  BY DEF TakeOverDocs
<1>5. CASE ManualBidWins(h)
  <2> DEFINE docs == TakeOverDocs(t.auction, t.winning, t.user) \cup AutoBidDocs(t.auction, spent)
  <2>1. TakeOver(t.auction, t.winning, t.user, t.amount, <<>>) /\ Commit(h, docs)
    BY <1>5 DEF ManualBidWins
  <2>2. AuctionDoc(t.auction) \in docs
    BY <1>2, <1>4
  <2> HIDE DEF docs
  <2>3. QED BY <1>1, <1>2, <1>3, <2>1, <2>2, TakeOverKeepsLead
<1>6. CASE AutoBidAnswers(h)
  <2> DEFINE docs == TakeOverDocs(t.auction, t.winning, r.winner)
                        \cup AutoBidDocs(t.auction, r.exhausted)
             lost == <<NewBid(t.user, t.amount, "OUTBID")>>
  <2>1. TakeOver(t.auction, t.winning, r.winner, r.amount, lost) /\ Commit(h, docs)
    BY <1>6 DEF AutoBidAnswers
  <2>2. AuctionDoc(t.auction) \in docs
    BY <1>2, <1>4
  <2>3. lost \in Seq(BidFields) /\ \A i \in DOMAIN lost : lost[i].status = "OUTBID"
    BY <1>2 DEF NewBid, BidFields
  <2> HIDE DEF docs, lost
  <2>4. QED BY <1>1, <1>2, <2>1, <2>2, <2>3, TakeOverKeepsLead
<1>7. CASE AutoBidTakesOver(h)
  <2> DEFINE docs == TakeOverDocs(t.auction, t.winning, r.winner)
                        \cup AutoBidDocs(t.auction, {t.user} \cup r.exhausted)
  <2>1. TakeOver(t.auction, t.winning, r.winner, r.amount, <<>>) /\ Commit(h, docs)
    BY <1>7 DEF AutoBidTakesOver
  <2>2. AuctionDoc(t.auction) \in docs
    BY <1>2, <1>4
  <2> HIDE DEF docs
  <2>3. QED BY <1>1, <1>2, <1>3, <2>1, <2>2, TakeOverKeepsLead
<1>8. QED BY <1>5, <1>6, <1>7

\* A transaction that opens has found the winning bid of this moment.
LEMMA OpensKeepLead ==
    ASSUME Typed, Led, NEW h \in Handlers, NEW a \in Auctions, NEW u \in Users, NEW n \in Offers,
           PlaceBid(h, a, u, n) \/ SetAutoBid(h, a, u, n)
    PROVE  Led'
<1>1. \E op, r : \E winning \in FoundWinning(a) : Opened(h, op, a, u, n, winning, r)
  BY DEF PlaceBid, SetAutoBid
<1>2. QED BY <1>1, OpenedKeepsLead

\* The steps of a request that write no bid are quiet.
LEMMA RequestsQuiet ==
    ASSUME Typed, NEW h \in Handlers,
           Preflight(h) \/ AutoBidStored(h) \/ AbortBid(h) \/ CrashBid(h)
    PROVE  Quiet
<1>1. CASE Preflight(h)
  <2>1. UNCHANGED <<bids, auctions, missed>>
    BY <1>1 DEF Preflight
  <2> DEFINE funds == Available(wallets[handler[h].result.winner])
                        + (IF handler[h].winning # 0
                              /\ bids[handler[h].auction][handler[h].winning].bidder
                                    = handler[h].result.winner
                           THEN bids[handler[h].auction][handler[h].winning].amount ELSE 0)
             paid == [handler[h] EXCEPT !.funds = funds]
             req == [paid EXCEPT !.at = "commit"]
  <2>2. handler[h] # Idle /\ handler' = [handler EXCEPT ![h] = req]
    BY <1>1 DEF Preflight
  <2>3. handler[h] \in Requests
    BY <2>2, RequestCarries
  <2>4. paid.auction = handler[h].auction /\ paid.winning = handler[h].winning
    <3> HIDE DEF funds
    <3>1. QED BY <2>3 DEF Requests
  <2>5. req.auction = paid.auction /\ req.winning = paid.winning
    <3>1. DOMAIN paid = DOMAIN handler[h]
      OBVIOUS
    <3>2. "auction" \in DOMAIN handler[h] /\ "winning" \in DOMAIN handler[h]
      BY <2>3 DEF Requests
    <3> HIDE DEF paid
    <3>3. QED BY <3>1, <3>2
  <2> HIDE DEF paid, req
  <2>6. QED BY <2>1, <2>2, <2>4, <2>5 DEF Quiet, Typed, TypeOK
<1>2. CASE AutoBidStored(h)
  <2>1. \E docs : Commit(h, docs)
    BY <1>2 DEF AutoBidStored
  <2>2. UNCHANGED <<auctions, bids>>
    BY <1>2 DEF AutoBidStored
  <2>3. QED BY <2>1, <2>2 DEF Commit, Quiet, Typed, TypeOK
<1>3. CASE AbortBid(h) \/ CrashBid(h)
  BY <1>3 DEF AbortBid, CrashBid, Quiet, Typed, TypeOK
<1>4. QED BY <1>1, <1>2, <1>3

\* Cancelling an auto-bid, expiring locks, the cancellations and the cron
\* jobs write no bid and no price.
LEMMA OthersQuiet ==
    ASSUME Typed,
           \/ \E a \in Auctions : BidLockExpires(a)
           \/ \E a \in Auctions, u \in Users : CancelAutoBid(a, u)
           \/ CancelStep
           \/ CronStep
           \/ UNCHANGED vars
    PROVE  Quiet
<1>1. \A g \in Handlers : missed' = missed => missed[g] \subseteq missed'[g]
  OBVIOUS
<1>2. CASE \E a \in Auctions : BidLockExpires(a)
  BY <1>2, UntouchedIsQuiet DEF BidLockExpires
<1>3. CASE \E a \in Auctions, u \in Users : CancelAutoBid(a, u)
  BY <1>3, UntouchedIsQuiet, WroteGrows DEF CancelAutoBid
<1>4. CASE UNCHANGED vars
  BY <1>4, UntouchedIsQuiet DEF vars
<1>5. \A b \in Auctions, s \in Statuses :
         auctions' = [auctions EXCEPT ![b].status = s] =>
            \A a \in Auctions : auctions'[a].price = auctions[a].price
  BY DEF Typed, TypeOK, AuctionFields
<1>6. CASE CancelStep
  <2>1. CASE \E c \in Cancellers : AbortCancel(c) \/ \E a \in Auctions : RequestCancel(c, a)
    BY SMTT(20), <2>1, UntouchedIsQuiet DEF AbortCancel, RequestCancel
  <2>2. ASSUME NEW c \in Cancellers, CommitCancel(c) PROVE Quiet
    <3>1. canceller[c].auction \in Auctions
      BY SMTT(20), <2>2 DEF CommitCancel, Typed, TypeOK, CancelRequests
    <3>2. \E docs : Wrote(docs)
      BY ZenonT(40), <2>2 DEF CommitCancel
    <3>3. /\ UNCHANGED <<bids, handler>>
          /\ auctions' = [auctions EXCEPT ![canceller[c].auction].status = "CANCELLED"]
      BY <2>2 DEF CommitCancel
    <3>4. \A a \in Auctions : auctions'[a].price = auctions[a].price
      BY <1>5, <3>1, <3>3 DEF Statuses
    <3>5. QED BY SMTT(20), <3>2, <3>3, <3>4, UntouchedIsQuiet, WroteGrows
  <2>3. QED BY <1>6, <2>1, <2>2 DEF CancelStep
<1>7. CASE CronStep
  <2>1. CASE \/ \E c \in Crons, job \in Jobs : StartJob(c, job)
             \/ \E c \in Crons, a \in Auctions : Skip(c, a)
             \/ \E c \in Crons : CrashJob(c)
             \/ \E job \in Jobs : CronLockExpires(job)
    BY <2>1, UntouchedIsQuiet DEF StartJob, Skip, CrashJob, CronLockExpires
  <2>2. ASSUME NEW c \in Crons, NEW b \in Auctions, Activate(c, b) \/ End(c, b) PROVE Quiet
    <3>1. UNCHANGED <<bids, handler>> /\ Wrote({AuctionDoc(b)})
      BY <2>2 DEF Activate, End
    <3>2. \A a \in Auctions : auctions'[a].price = auctions[a].price
      BY <1>5, <2>2 DEF Activate, End, Statuses
    <3>3. QED BY <3>1, <3>2, UntouchedIsQuiet, WroteGrows
  <2>3. ASSUME NEW c \in Crons, NEW b \in Auctions, Finalize(c, b) PROVE Quiet
    <3>1. UNCHANGED <<bids, handler>> /\ \E docs : Wrote(docs)
      BY <2>3 DEF Finalize
    <3>2. \E u : \/ auctions' = [auctions EXCEPT ![b].finalized = TRUE]
                 \/ auctions' = [auctions EXCEPT ![b].finalized = TRUE, ![b].winner = u]
      BY <2>3 DEF Finalize
    <3>3. \A a \in Auctions : auctions'[a].price = auctions[a].price
      <4> DEFINE once == [auctions EXCEPT ![b].finalized = TRUE]
      <4>1. \A d \in AuctionFields : [d EXCEPT !.finalized = TRUE] \in AuctionFields
                                       /\ [d EXCEPT !.finalized = TRUE].price = d.price
        BY DEF AuctionFields
      <4>2. \A d \in AuctionFields : \A u : [d EXCEPT !.winner = u].price = d.price
        BY DEF AuctionFields
      <4>3. /\ auctions \in [Auctions -> AuctionFields] /\ once \in [Auctions -> AuctionFields]
            /\ \A a \in Auctions : once[a].price = auctions[a].price
        BY <4>1 DEF Typed, TypeOK
      <4>4. PICK u : \/ auctions' = once
                     \/ auctions' = [once EXCEPT ![b].winner = u]
        BY <3>2
      <4> HIDE DEF once
      <4> DEFINE doc == [once[b] EXCEPT !.winner = u]
      <4>5. doc.price = once[b].price
        BY <4>2, <4>3
      <4>6. auctions' = once \/ auctions' = [once EXCEPT ![b] = doc]
        BY <4>4
      <4> HIDE DEF doc
      <4>7. QED BY <4>3, <4>5, <4>6
    <3>4. QED BY <3>1, <3>3, UntouchedIsQuiet, WroteGrows
  <2>4. QED BY <1>7, <2>1, <2>2, <2>3 DEF CronStep
<1>8. QED BY <1>2, <1>3, <1>4, <1>6, <1>7

\* The leader is known to every request that has missed nothing of it.
LEMMA LedAlways == Spec => []Led
<1>1. Init => Led
  BY DEF Init, Led, LeadIsPrice, FreshLeader, WinningBids
<1>2. Typed /\ Led /\ [Next]_vars => Led'
  <2> SUFFICES ASSUME Typed, Led, [Next]_vars PROVE Led'
    OBVIOUS
  <2>1. CASE Quiet
    BY <2>1, QuietKeepsLead
  <2>2. ASSUME NEW h \in Handlers, NEW a \in Auctions, NEW u \in Users, NEW n \in Offers,
               PlaceBid(h, a, u, n) \/ SetAutoBid(h, a, u, n)
        PROVE  Led'
    BY <2>2, OpensKeepLead
  <2>3. ASSUME NEW h \in Handlers,
               ManualBidWins(h) \/ AutoBidAnswers(h) \/ AutoBidTakesOver(h)
        PROVE  Led'
    BY <2>3, CommitsKeepLead
  <2>4. QED BY <2>1, <2>2, <2>3, RequestsQuiet, OthersQuiet DEF Next, BidStep
<1>3. QED BY <1>1, <1>2, TypedAlways, PTL DEF Spec

\* Whatever requests race, with the locks or without them, an auction has at
\* most one WINNING bid: the last one recorded, at the current price.
THEOREM OneLeaderAtThePrice == Spec => []LeadIsPrice
<1>1. Led => LeadIsPrice
  BY DEF Led
<1>2. QED BY <1>1, LedAlways, PTL

-----------------------------------------------------------------------------
(***************************************************************************)
(* What a request may rely on.  Whatever writes the document or the bids   *)
(* of an auction is missed by every open request: a request that has       *)
(* missed nothing of its auction sees the auction as it was when it        *)
(* opened.                                                                 *)
(***************************************************************************)
Opens(h) == \E a \in Auctions, u \in Users, n \in Offers : PlaceBid(h, a, u, n) \/ SetAutoBid(h, a, u, n)

\* The commits that give an auction a new winning bid.
Replaces(h) == ManualBidWins(h) \/ AutoBidAnswers(h) \/ AutoBidTakesOver(h)

\* An open request whose auction nothing has written since it opened.
Fresh(h) == handler[h] # Idle /\ AuctionDoc(handler[h].auction) \notin missed[h]

\* A request goes on with what it carries; only its place and funds change.
SameRequest(h) ==
    /\ handler[h] # Idle
    /\ handler'[h].op = handler[h].op
    /\ handler'[h].auction = handler[h].auction
    /\ handler'[h].user = handler[h].user
    /\ handler'[h].amount = handler[h].amount
    /\ handler'[h].winning = handler[h].winning
    /\ handler'[h].result = handler[h].result

\* The preflight check sets the funds and the place of a request.
LEMMA PreflightGoesOn ==
    ASSUME Typed, NEW h \in Handlers, Preflight(h), NEW g \in Handlers, handler[g] # Idle
    PROVE  SameRequest(g)
<1> DEFINE funds == Available(wallets[handler[h].result.winner])
                      + (IF handler[h].winning # 0
                            /\ bids[handler[h].auction][handler[h].winning].bidder
                                  = handler[h].result.winner
                         THEN bids[handler[h].auction][handler[h].winning].amount ELSE 0)
           paid == [handler[h] EXCEPT !.funds = funds]
           req == [paid EXCEPT !.at = "commit"]
<1>1. handler[h] # Idle /\ handler' = [handler EXCEPT ![h] = req]
  BY DEF Preflight
<1>2. handler[h] \in Requests
  BY <1>1, RequestCarries
<1>3. /\ DOMAIN handler[h] = {"op", "at", "auction", "user", "amount", "winning", "result", "funds"}
      /\ DOMAIN paid = DOMAIN handler[h]
  BY <1>2 DEF Requests
<1>4. \A f \in {"op", "auction", "user", "amount", "winning", "result"} : paid[f] = handler[h][f]
  <2> HIDE DEF funds
  <2>1. QED BY <1>3
<1>5. \A f \in {"op", "auction", "user", "amount", "winning", "result"} : req[f] = paid[f]
  <2> HIDE DEF paid
  <2>1. QED BY <1>3
<1>6. /\ req.op = handler[h].op /\ req.auction = handler[h].auction
      /\ req.user = handler[h].user /\ req.amount = handler[h].amount
      /\ req.winning = handler[h].winning /\ req.result = handler[h].result
  <2> HIDE DEF req, paid
  <2>1. QED BY <1>4, <1>5
<1> HIDE DEF req
<1>7. QED BY <1>1, <1>6 DEF SameRequest, Typed, TypeOK

\* An open request goes on as it is, and what it has missed only grows,
\* unless it ends or is a new one.
LEMMA RequestsGoOn ==
    ASSUME Typed, [Next]_vars, NEW h \in Handlers, handler'[h] # Idle, ~Opens(h)
    PROVE  SameRequest(h) /\ missed[h] \subseteq missed'[h]
<1>1. ASSUME UNCHANGED handler, \A g \in Handlers : handler[g] # Idle => missed[g] \subseteq missed'[g]
      PROVE  SameRequest(h) /\ missed[h] \subseteq missed'[h]
  BY <1>1 DEF SameRequest
<1>2. ASSUME NEW g \in Handlers, NEW a \in Auctions, NEW u \in Users, NEW n \in Offers,
             PlaceBid(g, a, u, n) \/ SetAutoBid(g, a, u, n)
      PROVE  SameRequest(h) /\ missed[h] \subseteq missed'[h]
  <2>1. g # h
    BY <1>2 DEF Opens
  <2>2. handler'[h] = handler[h] /\ missed'[h] = missed[h]
    <3>1. \E op, r, winning : Opened(g, op, a, u, n, winning, r)
      BY <1>2 DEF PlaceBid, SetAutoBid
    <3>2. QED BY <2>1, <3>1 DEF Opened, Typed, TypeOK
  <2>3. QED BY <2>2 DEF SameRequest
<1>3. ASSUME NEW g \in Handlers, Preflight(g)
      PROVE  SameRequest(h) /\ missed[h] \subseteq missed'[h]
  <2>1. handler[h] # Idle
    BY <1>3 DEF Preflight, Typed, TypeOK
  <2>2. SameRequest(h)
    BY <1>3, <2>1, PreflightGoesOn
  <2>3. QED BY <1>3, <2>2 DEF Preflight
<1>4. ASSUME NEW g \in Handlers, NEW docs, Commit(g, docs)
      PROVE  SameRequest(h) /\ missed[h] \subseteq missed'[h]
  <2>1. g # h /\ handler'[h] = handler[h]
    BY <1>4 DEF Commit, Typed, TypeOK
  <2>2. missed[h] \subseteq missed'[h]
    BY <1>4, <2>1 DEF Commit
  <2>3. QED BY <2>1, <2>2 DEF SameRequest
<1>5. ASSUME NEW g \in Handlers, AbortBid(g) \/ CrashBid(g)
      PROVE  SameRequest(h) /\ missed[h] \subseteq missed'[h]
  <2>1. g # h /\ handler'[h] = handler[h] /\ missed'[h] = missed[h]
    BY <1>5 DEF AbortBid, CrashBid, Typed, TypeOK
  <2>2. QED BY <2>1 DEF SameRequest
<1>6. ASSUME NEW g \in Handlers, Replaces(g) \/ AutoBidStored(g)
      PROVE  \E docs : Commit(g, docs)
  BY <1>6 DEF Replaces, ManualBidWins, AutoBidAnswers, AutoBidTakesOver, AutoBidStored
<1>7. ASSUME NEW a \in Auctions, BidLockExpires(a) \/ \E u \in Users : CancelAutoBid(a, u)
      PROVE  SameRequest(h) /\ missed[h] \subseteq missed'[h]
  BY <1>1, <1>7, WroteGrows DEF BidLockExpires, CancelAutoBid
<1>8. CASE CancelStep
  <2>1. UNCHANGED handler /\ (UNCHANGED missed \/ \E docs : Wrote(docs))
    BY <1>8 DEF CancelStep, RequestCancel, CommitCancel, AbortCancel
  <2>2. QED BY <1>1, <2>1, WroteGrows
<1>9. CASE CronStep
  <2>1. ASSUME NEW c \in Crons, NEW a \in Auctions, Activate(c, a) \/ End(c, a) \/ Finalize(c, a)
        PROVE  UNCHANGED handler /\ \E docs : Wrote(docs)
    <3>1. CASE Activate(c, a) \/ End(c, a)
      BY <3>1 DEF Activate, End
    <3>2. CASE Finalize(c, a)
      BY <3>2 DEF Finalize
    <3>3. QED BY <2>1, <3>1, <3>2
  <2>2. UNCHANGED handler /\ (UNCHANGED missed \/ \E docs : Wrote(docs))
    BY <1>9, <2>1 DEF CronStep, StartJob, Skip, CrashJob, CronLockExpires
  <2>3. QED BY <1>1, <2>2, WroteGrows
<1>10. CASE UNCHANGED vars
  BY <1>1, <1>10 DEF vars
<1>11. CASE BidStep
  BY <1>2, <1>3, <1>4, <1>5, <1>6, <1>7, <1>11 DEF BidStep, Replaces
<1>12. QED BY <1>8, <1>9, <1>10, <1>11 DEF Next

\* A commit that places a bid: who takes the lead, for how much, and which
\* manual bid is recorded as beaten.
Placed(t, w, n, lost) ==
    \/ t.op = "placeBid" /\ w = t.user /\ n = t.amount /\ lost = <<>>
    \/ /\ t.op = "placeBid" /\ t.result.auto
       /\ w = t.result.winner /\ n = t.result.amount
       /\ lost = <<NewBid(t.user, t.amount, "OUTBID")>>
    \/ /\ t.op = "setAutoBid" /\ t.result.creates # {}
       /\ w = t.result.winner /\ n = t.result.amount /\ lost = <<>>

\* A new winning bid is committed by a request that has missed nothing: it
\* replaces the winning bid the request found, and nothing else moves.
LEMMA Replacement ==
    ASSUME Typed, NEW h \in Handlers, Replaces(h)
    PROVE  /\ handler[h] # Idle
           /\ \E w, n, lost, docs :
                /\ w \in Users /\ n \in Nat /\ lost \in Seq(BidFields)
                /\ \A i \in DOMAIN lost : lost[i].status = "OUTBID"
                /\ Placed(handler[h], w, n, lost)
                /\ TakeOver(handler[h].auction, handler[h].winning, w, n, lost)
                /\ Commit(h, docs) /\ AuctionDoc(handler[h].auction) \in docs
<1>1. PICK t : t = handler[h]
  OBVIOUS
<1>2. PICK r : r = t.result
  OBVIOUS
<1>3. handler[h] # Idle
  BY DEF Replaces, ManualBidWins, AutoBidAnswers, AutoBidTakesOver, Ready
<1>4. /\ t.auction \in Auctions /\ t.user \in Users /\ t.amount \in Nat
      /\ r.winner \in Users /\ r.amount \in Nat
  BY <1>1, <1>2, <1>3, RequestCarries
<1>5. <<>> \in Seq(BidFields) /\ \A i \in DOMAIN <<>> : <<>>[i].status = "OUTBID"
  BY EmptySeq
<1>6. \A w \in Users : AuctionDoc(t.auction) \in TakeOverDocs(t.auction, t.winning, w)
  BY DEF TakeOverDocs
<1>7. CASE ManualBidWins(h)
  <2>1. \E docs : /\ TakeOver(t.auction, t.winning, t.user, t.amount, <<>>)
                  /\ Commit(h, docs) /\ AuctionDoc(t.auction) \in docs
    BY <1>1, <1>4, <1>6, <1>7 DEF ManualBidWins
  <2>2. Placed(t, t.user, t.amount, <<>>)
    BY <1>1, <1>7 DEF ManualBidWins, Ready, Placed
  <2>3. QED BY <1>1, <1>3, <1>4, <1>5, <2>1, <2>2
<1>8. CASE AutoBidAnswers(h)
  <2>1. PICK lost : lost = <<NewBid(t.user, t.amount, "OUTBID")>>
    OBVIOUS
  <2>2. lost \in Seq(BidFields) /\ \A i \in DOMAIN lost : lost[i].status = "OUTBID"
    BY <1>4, <2>1 DEF NewBid, BidFields
  <2>3. \E docs : /\ TakeOver(t.auction, t.winning, r.winner, r.amount, lost)
                  /\ Commit(h, docs) /\ AuctionDoc(t.auction) \in docs
    BY <1>1, <1>2, <1>4, <1>6, <1>8, <2>1 DEF AutoBidAnswers
  <2>4. Placed(t, r.winner, r.amount, lost)
    BY <1>1, <1>2, <1>8, <2>1 DEF AutoBidAnswers, Ready, Placed
  <2>5. QED BY <1>1, <1>2, <1>3, <1>4, <2>2, <2>3, <2>4
<1>9. CASE AutoBidTakesOver(h)
  <2>1. \E docs : /\ TakeOver(t.auction, t.winning, r.winner, r.amount, <<>>)
                  /\ Commit(h, docs) /\ AuctionDoc(t.auction) \in docs
    BY <1>1, <1>2, <1>4, <1>6, <1>9 DEF AutoBidTakesOver
  <2>2. Placed(t, r.winner, r.amount, <<>>)
    BY <1>1, <1>2, <1>9 DEF AutoBidTakesOver, Ready, Placed
  <2>3. QED BY <1>1, <1>2, <1>3, <1>4, <1>5, <2>1, <2>2
<1>10. QED BY <1>7, <1>8, <1>9 DEF Replaces

\* The document and the bids of an auction stay as they are, or an open
\* request has missed the write.
LEMMA WritesAreMissed ==
    ASSUME Typed, [Next]_vars, NEW a \in Auctions, NEW h \in Handlers, handler'[h] # Idle, ~Opens(h)
    PROVE  (auctions'[a] = auctions[a] /\ bids'[a] = bids[a]) \/ AuctionDoc(a) \in missed'[h]
<1> DEFINE Goal == (auctions'[a] = auctions[a] /\ bids'[a] = bids[a]) \/ AuctionDoc(a) \in missed'[h]
<1>1. handler[h] # Idle
  BY RequestsGoOn DEF SameRequest
<1>2. ASSUME NEW docs, Wrote(docs), NEW b \in Auctions, AuctionDoc(b) \in docs, UNCHANGED bids,
             \A c \in Auctions : c # b => auctions'[c] = auctions[c]
      PROVE  Goal
  BY <1>1, <1>2 DEF Wrote, AuctionDoc
<1>3. ASSUME NEW g \in Handlers, Replaces(g) PROVE Goal
  <2>1. PICK w, n, lost, docs :
          /\ w \in Users /\ n \in Nat /\ lost \in Seq(BidFields)
          /\ TakeOver(handler[g].auction, handler[g].winning, w, n, lost)
          /\ Commit(g, docs) /\ AuctionDoc(handler[g].auction) \in docs
    BY <1>3, Replacement
  <2>2. PICK b : b = handler[g].auction
    BY SMTT(20)
  <2>3. \A c \in Auctions : c # b => auctions'[c] = auctions[c] /\ bids'[c] = bids[c]
    BY <2>1, <2>2 DEF TakeOver, Typed, TypeOK
  <2>4. g # h /\ missed'[h] = missed[h] \cup docs
    BY <1>1, <2>1 DEF Commit, Typed, TypeOK
  <2>5. QED BY <2>1, <2>2, <2>3, <2>4
<1>4. CASE UNCHANGED <<auctions, bids>>
  BY <1>4
<1>5. CASE BidStep
  <2>1. CASE \E g \in Handlers : Replaces(g)
    BY <1>3, <2>1
  <2>2. CASE ~\E g \in Handlers : Replaces(g)
    <3>1. ASSUME NEW g \in Handlers, NEW b \in Auctions, NEW u \in Users, NEW n \in Offers,
                 PlaceBid(g, b, u, n) \/ SetAutoBid(g, b, u, n)
          PROVE  UNCHANGED <<auctions, bids>>
      <4>1. \E op, r, winning : Opened(g, op, b, u, n, winning, r)
        BY <3>1 DEF PlaceBid, SetAutoBid
      <4>2. QED BY <4>1 DEF Opened
    <3>2. ASSUME NEW g \in Handlers, Preflight(g) \/ AutoBidStored(g) \/ AbortBid(g) \/ CrashBid(g)
          PROVE  UNCHANGED <<auctions, bids>>
      BY <3>2 DEF Preflight, AutoBidStored, AbortBid, CrashBid
    <3>3. ASSUME NEW b \in Auctions, BidLockExpires(b) \/ \E u \in Users : CancelAutoBid(b, u)
          PROVE  UNCHANGED <<auctions, bids>>
      BY <3>3 DEF BidLockExpires, CancelAutoBid
    <3>4. QED BY <1>4, <1>5, <2>2, <3>1, <3>2, <3>3 DEF BidStep, Replaces
  <2>3. QED BY <2>1, <2>2
<1>6. CASE CancelStep
  <2>1. CASE UNCHANGED <<auctions, bids>>
    BY <1>4, <2>1
  <2>2. ASSUME NEW c \in Cancellers, CommitCancel(c) PROVE Goal
    <3>1. PICK b : b = canceller[c].auction
      BY SMTT(20)
    <3>2. b \in Auctions
      BY SMTT(20), <2>2, <3>1 DEF CommitCancel, Typed, TypeOK, CancelRequests
    <3>3. \E docs : Wrote(docs) /\ AuctionDoc(b) \in docs
      BY <2>2, <3>1 DEF CommitCancel
    <3>4. UNCHANGED bids /\ \A d \in Auctions : d # b => auctions'[d] = auctions[d]
      BY <2>2, <3>1 DEF CommitCancel, Typed, TypeOK
    <3> HIDE DEF Goal
    <3>5. QED BY <1>2, <3>2, <3>3, <3>4
  <2>3. QED BY <1>6, <2>1, <2>2 DEF CancelStep, RequestCancel, AbortCancel
<1>7. CASE CronStep
  <2>1. CASE UNCHANGED <<auctions, bids>>
    BY <1>4, <2>1
  <2>2. ASSUME NEW c \in Crons, NEW b \in Auctions, Activate(c, b) \/ End(c, b) \/ Finalize(c, b)
        PROVE  Goal
    <3>1. \E docs : Wrote(docs) /\ AuctionDoc(b) \in docs
      <4>1. CASE Activate(c, b) \/ End(c, b)
        BY <4>1 DEF Activate, End
      <4>2. CASE Finalize(c, b)
        <5>1. \E S, T : Wrote({AuctionDoc(b)} \cup S \cup T)
          BY <4>2 DEF Finalize
        <5>2. QED BY <5>1
      <4>3. QED BY <2>2, <4>1, <4>2
    <3>2. UNCHANGED bids /\ \A d \in Auctions : d # b => auctions'[d] = auctions[d]
      <4>1. CASE Activate(c, b) \/ End(c, b)
        BY <4>1 DEF Activate, End, Typed, TypeOK
      <4>2. CASE Finalize(c, b)
        <5>1. UNCHANGED bids /\ \E doc : auctions' = [auctions EXCEPT ![b] = doc]
          BY <4>2 DEF Finalize, Typed, TypeOK
        <5>2. QED BY <5>1 DEF Typed, TypeOK
      <4>3. QED BY <2>2, <4>1, <4>2
    <3> HIDE DEF Goal
    <3>3. QED BY <1>2, <3>1, <3>2
  <2>3. QED BY <1>7, <2>1, <2>2 DEF CronStep, StartJob, Skip, CrashJob, CronLockExpires
<1>8. CASE UNCHANGED vars
  BY <1>4, <1>8 DEF vars
<1>9. QED BY <1>5, <1>6, <1>7, <1>8 DEF Next

\* A fresh request was fresh before, and its auction and bids are as they were.
LEMMA FreshUntouched ==
    ASSUME Typed, [Next]_vars, NEW h \in Handlers, Fresh(h)', ~Opens(h)
    PROVE  /\ SameRequest(h) /\ Fresh(h)
           /\ auctions'[handler[h].auction] = auctions[handler[h].auction]
           /\ bids'[handler[h].auction] = bids[handler[h].auction]
<1>1. SameRequest(h) /\ missed[h] \subseteq missed'[h]
  BY RequestsGoOn DEF Fresh
<1>2. handler'[h].auction = handler[h].auction /\ handler[h] # Idle
  BY <1>1 DEF SameRequest
<1>3. handler[h].auction \in Auctions
  BY <1>2, RequestCarries
<1>4. AuctionDoc(handler[h].auction) \notin missed'[h]
  BY <1>2 DEF Fresh
<1>5. QED BY <1>1, <1>2, <1>3, <1>4, WritesAreMissed DEF Fresh

\* The bids there are keep bidder and amount and none of them wins; the
\* beaten manual bid and the new leader's bid are put behind them.
BidsAppended(a, w, n, lost) ==
    /\ bids'[a] \in Seq(BidFields) /\ Len(bids'[a]) = Len(bids[a]) + Len(lost) + 1
    /\ \A i \in 1..Len(bids[a]) :
          /\ bids'[a][i].bidder = bids[a][i].bidder
          /\ bids'[a][i].amount = bids[a][i].amount
          /\ bids'[a][i].status # "WINNING"
    /\ \A i \in (Len(bids[a]) + 1)..(Len(bids[a]) + Len(lost)) :
          bids'[a][i] = lost[i - Len(bids[a])]
    /\ bids'[a][Len(bids[a]) + Len(lost) + 1] = NewBid(w, n, "WINNING")
    /\ auctions'[a] = [auctions[a] EXCEPT !.price = n] /\ auctions'[a].price = n
    /\ \A b \in Auctions : b # a => bids'[b] = bids[b] /\ auctions'[b] = auctions[b]

\* What a commit that replaces the leader does to the bids.
LEMMA TakeOverBids ==
    ASSUME TypeOK, LeadIsPrice, NEW a \in Auctions, NEW winning \in FoundWinning(a),
           NEW w \in Users, NEW n \in Nat, NEW lost \in Seq(BidFields),
           TakeOver(a, winning, w, n, lost)
    PROVE  BidsAppended(a, w, n, lost)
<1> DEFINE outbid == IF winning = 0 THEN bids[a]
                     ELSE [bids[a] EXCEPT ![winning].status = "OUTBID"]
           last == <<NewBid(w, n, "WINNING")>>
           all  == outbid \o lost \o last
           L    == Len(bids[a])
           M    == Len(lost)
<1>1. bids' = [bids EXCEPT ![a] = all] /\ auctions' = [auctions EXCEPT ![a].price = n]
  BY DEF TakeOver
<1>2. bids[a] \in Seq(BidFields) /\ L \in Nat /\ DOMAIN bids[a] = 1..L
  BY LenProperties DEF TypeOK
<1>3. M \in Nat /\ DOMAIN lost = 1..M
  BY LenProperties
<1>4. outbid \in Seq(BidFields) /\ Len(outbid) = L
      /\ \A i \in 1..L : /\ outbid[i].status # "WINNING"
                         /\ outbid[i].bidder = bids[a][i].bidder
                         /\ outbid[i].amount = bids[a][i].amount
  <2>1. \A i \in 1..L : bids[a][i].status = "WINNING" => i = L
    BY <1>2 DEF LeadIsPrice, WinningBids
  <2>2. CASE winning = 0
    <3>1. WinningBids(a) = {}
      BY <1>2, <2>2 DEF FoundWinning, WinningBids
    <3>2. QED BY <1>2, <2>2, <3>1 DEF WinningBids
  <2>3. CASE winning # 0
    <3> DEFINE beaten == [bids[a][winning] EXCEPT !.status = "OUTBID"]
    <3>1. winning \in 1..L /\ winning = L
      BY <1>2, <2>1, <2>3 DEF FoundWinning, WinningBids
    <3>2. \A b \in BidFields : /\ [b EXCEPT !.status = "OUTBID"] \in BidFields
                               /\ [b EXCEPT !.status = "OUTBID"].status = "OUTBID"
                               /\ [b EXCEPT !.status = "OUTBID"].bidder = b.bidder
                               /\ [b EXCEPT !.status = "OUTBID"].amount = b.amount
      BY DEF BidFields
    <3>3. bids[a][winning] \in BidFields
      BY <1>2, <3>1, ElementOfSeq
    <3>4. /\ beaten \in BidFields /\ beaten.status = "OUTBID"
          /\ beaten.bidder = bids[a][winning].bidder /\ beaten.amount = bids[a][winning].amount
      BY <3>2, <3>3
    <3>5. outbid = [bids[a] EXCEPT ![winning] = beaten]
      BY <2>3
    <3> HIDE DEF beaten, outbid
    <3>6. /\ outbid \in Seq(BidFields) /\ Len(outbid) = L
          /\ \A j \in 1..L : outbid[j] = IF j = winning THEN beaten ELSE bids[a][j]
      BY <1>2, <3>1, <3>4, <3>5, ExceptSeq
    <3>7. QED BY <2>1, <3>1, <3>4, <3>6
  <2>4. QED BY <2>2, <2>3
<1>5. last \in Seq(BidFields) /\ Len(last) = 1 /\ last[1] = NewBid(w, n, "WINNING")
  BY DEF NewBid, BidFields
<1> HIDE DEF outbid, last
<1> HIDE DEF L, M
<1>6. /\ all \in Seq(BidFields) /\ Len(all) = L + M + 1
      /\ \A i \in 1..L : all[i] = outbid[i]
      /\ \A i \in (L + 1)..(L + M) : all[i] = lost[i - L]
      /\ all[L + M + 1] = last[1]
  <2>1. M = Len(lost) /\ L = Len(outbid) /\ all = outbid \o lost \o last
    BY <1>4 DEF M
  <2> HIDE DEF all
  <2>2. /\ outbid \in Seq(BidFields) /\ lost \in Seq(BidFields) /\ last \in Seq(BidFields)
        /\ L \in Nat /\ M \in Nat /\ Len(last) = 1
    BY <1>2, <1>3, <1>4, <1>5
  <2>3. InParts(all, outbid, lost, last)
    BY <2>1, <2>2, BidsInParts
  <2>4. QED BY <2>1, <2>3 DEF InParts
<1> HIDE DEF all
<1>7. bids'[a] = all /\ auctions'[a] = [auctions[a] EXCEPT !.price = n] /\ auctions'[a].price = n
  BY <1>1 DEF TypeOK, AuctionFields
<1>8. \A b \in Auctions : b # a => bids'[b] = bids[b] /\ auctions'[b] = auctions[b]
  BY <1>1 DEF TypeOK
<1>9. QED BY SMTT(20), <1>4, <1>5, <1>6, <1>7, <1>8 DEF L, M, BidsAppended

-----------------------------------------------------------------------------
(***************************************************************************)
(* Bids ascend.  A request has compared its offer with the price when it   *)
(* opened, and replaces that price only if it is still the price.          *)
(***************************************************************************)
\* The last bid of an auction is the winning one.
LastWins == \A a \in Auctions : bids[a] = <<>> \/ Len(bids[a]) \in WinningBids(a)

\* What an open request offers: above the price as long as nobody else has
\* written the auction, and an auto-bid that answers a manual bid is another
\* user's and no lower.
OffersMore ==
    \A h \in Handlers : handler[h] # Idle =>
        LET t == handler[h]
            r == t.result
            price == auctions[t.auction].price
        IN  /\ t.op = "placeBid" /\ r.auto => r.amount >= t.amount /\ r.winner # t.user
            /\ Fresh(h) /\ t.winning # 0 =>
                  /\ t.op = "placeBid" => t.amount > price
                  /\ t.op = "setAutoBid" /\ r.creates # {} => r.amount > price

\* The invariant: the last bid wins, every request offers more than the last
\* bid it has seen, and the bids ascend.
Ascending == LastWins /\ OffersMore /\ BidsAscend

\* The bids of one auction, in the order they were recorded.
Ascends(s) ==
    \A i, j \in DOMAIN s :
        i < j => /\ s[i].amount <= s[j].amount
                 /\ s[i].amount = s[j].amount => j = i + 1 /\ s[i].bidder # s[j].bidder

\* A list stays ascending when a higher bid is put behind it, or two of which
\* the second is another user's and no lower.
LEMMA AscendsOn ==
    ASSUME NEW s \in Seq(BidFields), NEW t \in Seq(BidFields), Ascends(s), NEW M \in {0, 1},
           Len(t) = Len(s) + M + 1,
           \A i \in 1..Len(s) : t[i].bidder = s[i].bidder /\ t[i].amount = s[i].amount,
           Len(s) # 0 => s[Len(s)].amount < t[Len(s) + 1].amount,
           M = 1 => /\ t[Len(s) + 1].amount <= t[Len(s) + 2].amount
                    /\ t[Len(s) + 1].bidder # t[Len(s) + 2].bidder
    PROVE  Ascends(t)
<1>1. PICK L \in Nat : L = Len(s)
  BY LenProperties
<1>2. DOMAIN s = 1..L /\ DOMAIN t = 1..(L + M + 1)
  BY <1>1, LenProperties
<1>3. \A i \in 1..L : s[i].amount \in Nat
  <2>1. \A i \in 1..L : s[i] \in BidFields
    BY <1>1, ElementOfSeq
  <2>2. QED BY <2>1 DEF BidFields
<1>4. \A i \in 1..(L + M + 1) : t[i].amount \in Nat
  <2>1. \A i \in 1..(L + M + 1) : t[i] \in BidFields
    BY <1>1, ElementOfSeq
  <2>2. QED BY <2>1 DEF BidFields
<1>5. \A i \in 1..L : t[i].amount < t[L + 1].amount
  <2>1. ASSUME NEW i \in 1..L PROVE t[i].amount < t[L + 1].amount
    <3>1. s[i].amount <= s[L].amount
      <4>1. CASE i = L
        BY <1>3, <4>1
      <4>2. CASE i # L
        <5>1. i < L /\ i \in DOMAIN s /\ L \in DOMAIN s
          BY <1>1, <1>2, <4>2
        <5>2. QED BY <5>1 DEF Ascends
      <4>3. QED BY <4>1, <4>2
    <3>2. s[L].amount < t[L + 1].amount
      BY <1>1, <2>1
    <3>3. QED BY SMTT(20), <1>1, <1>3, <1>4, <3>1, <3>2
  <2>2. QED BY <2>1
<1>6. ASSUME NEW i \in 1..(L + M + 1), NEW j \in 1..(L + M + 1), i < j
      PROVE  /\ t[i].amount <= t[j].amount
             /\ t[i].amount = t[j].amount => j = i + 1 /\ t[i].bidder # t[j].bidder
  <2>1. CASE j <= L
    BY SMTT(20), <1>1, <1>2, <1>6, <2>1 DEF Ascends
  <2>2. CASE i <= L /\ j > L
    <3>1. t[L + 1].amount <= t[j].amount
      <4>1. j = L + 1 \/ (M = 1 /\ j = L + 2)
        BY <2>2
      <4>2. QED BY <1>1, <1>4, <4>1
    <3>2. t[i].amount < t[L + 1].amount
      BY <1>5, <2>2
    <3>3. QED BY SMTT(20), <1>4, <3>1, <3>2
  <2>3. CASE i > L
    <3>1. M = 1 /\ i = L + 1 /\ j = L + 2
      BY <1>6, <2>3
    <3>2. QED BY <1>1, <3>1
  <2>4. QED BY <1>6, <2>1, <2>2, <2>3
<1>7. QED BY <1>2, <1>6 DEF Ascends

\* A commit that replaces the leader bids more than the price it replaces.
LEMMA ReplacementAscends ==
    ASSUME Typed, Led, Ascending, NEW h \in Handlers, Replaces(h)
    PROVE  /\ LastWins' /\ BidsAscend'
<1>1. PICK t : t = handler[h]
  OBVIOUS
<1>2. PICK w, n, lost, docs :
         /\ w \in Users /\ n \in Nat /\ lost \in Seq(BidFields)
         /\ Placed(t, w, n, lost)
         /\ TakeOver(t.auction, t.winning, w, n, lost)
         /\ Commit(h, docs) /\ AuctionDoc(t.auction) \in docs
  BY <1>1, Replacement
<1>3. handler[h] # Idle /\ Fresh(h)
  BY <1>1, <1>2, Replacement DEF Commit, NoConflict, Fresh
<1>4. PICK a : a = t.auction
  OBVIOUS
<1>5. /\ a \in Auctions /\ t.winning \in FoundWinning(a)
      /\ t.user \in Users /\ t.amount \in Nat /\ t.result.amount \in Nat
  BY <1>1, <1>3, <1>4, RequestCarries, FoundWinningIs DEF Led, FreshLeader, Fresh
<1>6. PICK L \in Nat, M \in Nat : L = Len(bids[a]) /\ M = Len(lost)
  BY <1>2, <1>5, LenProperties DEF Typed, TypeOK
<1>7. /\ bids'[a] \in Seq(BidFields) /\ Len(bids'[a]) = L + M + 1
      /\ \A i \in 1..L : bids'[a][i].bidder = bids[a][i].bidder
                         /\ bids'[a][i].amount = bids[a][i].amount
      /\ \A i \in (L + 1)..(L + M) : bids'[a][i] = lost[i - L]
      /\ bids'[a][L + M + 1] = NewBid(w, n, "WINNING")
      /\ \A b \in Auctions : b # a => bids'[b] = bids[b]
  <2> DEFINE winning == t.winning
  <2>1. TypeOK /\ LeadIsPrice /\ TakeOver(a, winning, w, n, lost) /\ winning \in FoundWinning(a)
    BY <1>2, <1>4, <1>5 DEF Typed, Led
  <2> HIDE DEF winning
  <2>2. BidsAppended(a, w, n, lost)
    BY <1>2, <1>5, <2>1, TakeOverBids
  <2>3. QED BY <1>6, <2>2 DEF BidsAppended
<1>8. bids[a] \in Seq(BidFields) /\ DOMAIN bids[a] = 1..L /\ DOMAIN bids'[a] = 1..(L + M + 1)
  BY <1>5, <1>6, <1>7, LenProperties DEF Typed, TypeOK
<1>9. L # 0 => t.winning = L /\ auctions[a].price = bids[a][L].amount
  <2>1. bids[a] = <<>> => L = 0
    BY <1>6
  <2>2. L # 0 => L \in WinningBids(a)
    BY <1>5, <1>6, <2>1 DEF Ascending, LastWins
  <2>3. QED BY <1>5, <1>6, <2>2 DEF Led, LeadIsPrice, FoundWinning
<1>10. /\ t.op = "placeBid" /\ t.result.auto => t.result.amount >= t.amount /\ t.result.winner # t.user
       /\ L # 0 /\ t.op = "placeBid" => t.amount > bids[a][L].amount
       /\ L # 0 /\ t.op = "setAutoBid" /\ t.result.creates # {} => t.result.amount > bids[a][L].amount
  BY <1>1, <1>3, <1>4, <1>9 DEF Ascending, OffersMore
<1>11. M \in {0, 1} /\ (L # 0 => bids[a][L].amount < bids'[a][L + 1].amount)
       /\ (M = 1 => /\ bids'[a][L + 1].amount <= bids'[a][L + 2].amount
                    /\ bids'[a][L + 1].bidder # bids'[a][L + 2].bidder)
  <2>1. bids'[a][L + M + 1].bidder = w /\ bids'[a][L + M + 1].amount = n
    BY <1>7 DEF NewBid
  <2>2. CASE lost = <<>>
    <3>1. M = 0 /\ L + M + 1 = L + 1
      BY <1>6, <2>2
    <3>2. L # 0 => n > bids[a][L].amount
      BY <1>2, <1>10, <2>2 DEF Placed
    <3>3. QED BY <2>1, <3>1, <3>2
  <2>3. CASE lost # <<>>
    <3>1. lost = <<NewBid(t.user, t.amount, "OUTBID")>> /\ t.op = "placeBid" /\ t.result.auto
          /\ w = t.result.winner /\ n = t.result.amount
      BY <1>2, <2>3 DEF Placed
    <3>2. M = 1 /\ lost[1] = NewBid(t.user, t.amount, "OUTBID")
      BY <1>6, <3>1
    <3>3. bids'[a][L + 1] = NewBid(t.user, t.amount, "OUTBID") /\ L + M + 1 = L + 2
      BY <1>7, <3>2
    <3>4. QED BY <1>10, <2>1, <3>1, <3>2, <3>3 DEF NewBid
  <2>4. QED BY <2>2, <2>3
<1>12. \A b \in Auctions : Ascends(bids[b])
  BY DEF Ascending, BidsAscend, Ascends
<1>13. Ascends(bids'[a])
  BY <1>5, <1>6, <1>7, <1>8, <1>11, <1>12, AscendsOn
<1>14. BidsAscend'
  <2>1. ASSUME NEW b \in Auctions PROVE Ascends(bids'[b])
    <3>1. CASE b = a
      BY <1>13, <3>1
    <3>2. CASE b # a
      BY <1>7, <1>12, <3>2
    <3>3. QED BY <3>1, <3>2
  <2>2. QED BY <2>1 DEF BidsAscend, Ascends
<1>15. LastWins'
  <2>1. L + M + 1 \in DOMAIN bids'[a] /\ bids'[a][L + M + 1].status = "WINNING"
    BY <1>7, <1>8 DEF NewBid
  <2>2. Len(bids'[a]) \in {i \in DOMAIN bids'[a] : bids'[a][i].status = "WINNING"}
    BY <1>7, <2>1
  <2>3. ASSUME NEW b \in Auctions
        PROVE  bids'[b] = <<>> \/ Len(bids'[b]) \in {i \in DOMAIN bids'[b] : bids'[b][i].status = "WINNING"}
    <3>1. CASE b = a
      BY <2>2, <3>1
    <3>2. CASE b # a
      BY <1>7, <3>2 DEF Ascending, LastWins, WinningBids
    <3>3. QED BY <3>1, <3>2
  <2>4. QED BY <2>3 DEF LastWins, WinningBids
<1>16. QED BY <1>14, <1>15

\* A request offers more than the price when it opens.
LEMMA OpensOffersMore ==
    ASSUME Typed, Led, NEW h \in Handlers, Opens(h)
    PROVE  LET t == handler'[h]
               r == t.result
               price == auctions'[t.auction].price
           IN  /\ t.op = "placeBid" /\ r.auto => r.amount >= t.amount /\ r.winner # t.user
               /\ t.winning # 0 =>
                     /\ t.op = "placeBid" => t.amount > price
                     /\ t.op = "setAutoBid" /\ r.creates # {} => r.amount > price
<1>1. PICK a \in Auctions, u \in Users, n \in Offers : PlaceBid(h, a, u, n) \/ SetAutoBid(h, a, u, n)
  BY DEF Opens
<1>2. /\ n \in Nat /\ Increment[a] \in Nat \ {0} /\ StartingPrice[a] \in Nat
      /\ auctions[a].price \in Nat
  BY <1>1, ConstantsAssumption DEF Typed, TypeOK, AuctionFields
<1>3. ASSUME NEW op, NEW winning, NEW r, Opened(h, op, a, u, n, winning, r)
      PROVE  /\ handler'[h].op = op /\ handler'[h].auction = a /\ handler'[h].user = u
             /\ handler'[h].amount = n /\ handler'[h].winning = winning
             /\ handler'[h].result = r /\ auctions' = auctions
  BY <1>3 DEF Opened, Typed, TypeOK
<1>4. CASE PlaceBid(h, a, u, n)
  <2>1. PICK winning \in FoundWinning(a) :
          /\ n >= MinimumRequired(a, winning)
          /\ Opened(h, "placeBid", a, u, n, winning,
                    AfterManualBid(ActiveAutoBids(a), Increment[a], u, n))
    BY <1>4 DEF PlaceBid
  <2>2. PICK r : r = AfterManualBid(ActiveAutoBids(a), Increment[a], u, n)
    OBVIOUS
  <2>3. r.auto => r.amount >= n /\ r.winner # u
    <3>1. ActiveUsers(a) \in SUBSET Users
      BY DEF ActiveUsers
    <3>2. ActiveAutoBids(a) \subseteq CandidatesOf(Users) /\ IsFiniteSet(ActiveAutoBids(a))
      BY <3>1, CandidatesTyped DEF ActiveAutoBids, Typed, TypeOK
    <3>3. u \in Users /\ Increment[a] \in Nat
      BY <1>1, <1>2
    <3>4. QED BY <1>2, <2>2, <3>2, <3>3, ManualBidAnswer
  <2>4. winning # 0 => n > auctions[a].price
    BY <1>2, <2>1 DEF MinimumRequired
  <2>5. /\ handler'[h].op = "placeBid" /\ handler'[h].auction = a /\ handler'[h].user = u
        /\ handler'[h].amount = n /\ handler'[h].winning = winning
        /\ handler'[h].result = r /\ auctions' = auctions
    BY <1>3, <2>1, <2>2
  <2>6. QED BY <2>3, <2>4, <2>5
<1>5. CASE SetAutoBid(h, a, u, n)
  <2> DEFINE kept == {Candidate(a, v) : v \in ActiveUsers(a) \ {u}}
             own == [user |-> u, max |-> n, born |-> Birth(a, u)]
             active == kept \cup {own}
  <2>1. PICK winning \in FoundWinning(a) :
          /\ n >= MinimumRequired(a, winning)
          /\ Opened(h, "setAutoBid", a, u, n, winning,
                    AfterAutoBid(active, StartingPrice[a], Increment[a],
                        IF winning = 0 THEN StartingPrice[a] ELSE auctions[a].price,
                        winning # 0,
                        IF winning = 0 THEN None ELSE bids[a][winning].bidder))
    BY <1>5 DEF SetAutoBid
  <2>2. PICK price, hasBid, leader, r :
          /\ price = IF winning = 0 THEN StartingPrice[a] ELSE auctions[a].price
          /\ hasBid = (winning # 0)
          /\ leader = IF winning = 0 THEN None ELSE bids[a][winning].bidder
          /\ r = AfterAutoBid(active, StartingPrice[a], Increment[a], price, hasBid, leader)
    OBVIOUS
  <2>3. active \subseteq CandidatesOf(Users) /\ IsFiniteSet(active) /\ active # {}
    <3>1. ActiveUsers(a) \ {u} \in SUBSET Users
      BY DEF ActiveUsers
    <3>2. kept \in SUBSET CandidatesOf(Users) /\ IsFiniteSet(kept)
      BY <3>1, CandidatesTyped DEF Typed, TypeOK
    <3>3. own \in CandidatesOf(Users)
      BY <1>1, <1>2, BirthTyped DEF CandidatesOf, Typed, TypeOK
    <3> HIDE DEF kept, own
    <3>4. QED BY <3>2, <3>3, FS_AddElement
  <2>4. own \in active /\ own.max = n
    OBVIOUS
  <2>5. n >= IF hasBid THEN price + Increment[a] ELSE StartingPrice[a]
    BY <2>1, <2>2 DEF MinimumRequired
  <2>6. price \in Nat /\ hasBid \in BOOLEAN
    BY <1>2, <2>2
  <2> HIDE DEF active, own
  <2>7. r.creates # {} => (hasBid => r.amount > price)
    <3>1. \E x \in active : x.max >= IF hasBid THEN price + Increment[a] ELSE StartingPrice[a]
      BY <2>4, <2>5
    <3>2. QED BY ZenonT(40), <1>2, <2>2, <2>3, <2>6, <3>1, AutoBidAnswer
  <2>8. /\ handler'[h].op = "setAutoBid" /\ handler'[h].auction = a /\ handler'[h].user = u
        /\ handler'[h].amount = n /\ handler'[h].winning = winning
        /\ handler'[h].result = r /\ auctions' = auctions
    BY <1>3, <2>1, <2>2
  <2>9. QED BY <2>2, <2>7, <2>8
<1>6. QED BY <1>1, <1>4, <1>5

\* As long as nobody else writes the auction, the offer stays above the price.
LEMMA OffersStayHigher ==
    ASSUME Typed, Led, OffersMore, [Next]_vars
    PROVE  OffersMore'
<1>1. ASSUME NEW h \in Handlers, handler'[h] # Idle
      PROVE  LET t == handler'[h]
                 r == t.result
                 price == auctions'[t.auction].price
             IN  /\ t.op = "placeBid" /\ r.auto => r.amount >= t.amount /\ r.winner # t.user
                 /\ Fresh(h)' /\ t.winning # 0 =>
                       /\ t.op = "placeBid" => t.amount > price
                       /\ t.op = "setAutoBid" /\ r.creates # {} => r.amount > price
  <2>1. CASE Opens(h)
    BY <2>1, OpensOffersMore
  <2>2. CASE ~Opens(h)
    <3>1. SameRequest(h)
      BY <1>1, <2>2, RequestsGoOn
    <3>2. Fresh(h)' => Fresh(h) /\ auctions'[handler[h].auction] = auctions[handler[h].auction]
      BY <2>2, FreshUntouched
    <3>3. QED BY <3>1, <3>2 DEF SameRequest, OffersMore
  <2>3. QED BY <2>1, <2>2
<1>2. QED BY <1>1 DEF OffersMore

\* A step that writes no bid keeps the list of bids as it is.
LEMMA BidsOnlyByCommits ==
    ASSUME Typed, [Next]_vars, \A h \in Handlers : ~Replaces(h)
    PROVE  UNCHANGED bids /\ \A a \in Auctions : auctions'[a].price = auctions[a].price
<1>1. ASSUME NEW h \in Handlers, NEW a \in Auctions, NEW u \in Users, NEW n \in Offers,
             PlaceBid(h, a, u, n) \/ SetAutoBid(h, a, u, n)
      PROVE  UNCHANGED <<bids, auctions>>
  <2>1. \E op, r, winning : Opened(h, op, a, u, n, winning, r)
    BY <1>1 DEF PlaceBid, SetAutoBid
  <2>2. QED BY <2>1 DEF Opened
<1>2. QED BY <1>1, RequestsQuiet, OthersQuiet DEF Next, BidStep, Replaces, Quiet

\* Bids are recorded in ascending order, whatever requests race for the
\* auction, with the locks or without them: the minimum a request was held to
\* is still the minimum when it commits.
THEOREM BidsAreAscending == Spec => []BidsAscend
<1>1. Init => Ascending
  <2> SUFFICES ASSUME Init PROVE Ascending
    OBVIOUS
  <2>1. \A a \in Auctions : bids[a] = <<>> /\ DOMAIN bids[a] = {}
    BY DEF Init
  <2>2. \A h \in Handlers : handler[h] = Idle
    BY DEF Init
  <2>3. QED BY <2>1, <2>2 DEF Ascending, LastWins, OffersMore, BidsAscend
<1>2. ASSUME Typed, Led, Ascending, [Next]_vars PROVE Ascending'
  <2>1. OffersMore'
    BY <1>2, OffersStayHigher DEF Ascending
  <2>2. CASE \E h \in Handlers : Replaces(h)
    BY <1>2, <2>1, <2>2, ReplacementAscends DEF Ascending
  <2>3. CASE \A h \in Handlers : ~Replaces(h)
    <3>1. UNCHANGED bids
      BY <1>2, <2>3, BidsOnlyByCommits
    <3>2. QED BY <1>2, <2>1, <3>1 DEF Ascending, LastWins, WinningBids, BidsAscend
  <2>4. QED BY <2>2, <2>3
<1>3. Ascending => BidsAscend
  BY DEF Ascending
<1>4. QED BY <1>1, <1>2, <1>3, TypedAlways, LedAlways, PTL DEF Spec

-----------------------------------------------------------------------------
(***************************************************************************)
(* Who changes what of an auction, step by step.                           *)
(***************************************************************************)
\* A step that leaves one auction, its bids and its money alone.
Untouched(a) ==
    /\ auctions'[a] = auctions[a] /\ bids'[a] = bids[a] /\ escrows'[a] = escrows[a]
    /\ \A u \in Users : reserved'[u][a] = reserved[u][a]

\* Writing one entry of the ledger leaves the others alone.
Entry(R, u, b, x) == [R EXCEPT ![u][b] = x]

\* ... and the entry itself as it was written.
LEMMA OtherEntries ==
    ASSUME NEW R, R \in [Users -> [Auctions -> Int]], NEW u, NEW b, NEW x
    PROVE  /\ x \in Int => Entry(R, u, b, x) \in [Users -> [Auctions -> Int]]
           /\ u \in Users /\ b \in Auctions => Entry(R, u, b, x)[u][b] = x
           /\ \A v \in Users, a \in Auctions :
                 u # v \/ a # b => Entry(R, u, b, x)[v][a] = R[v][a]
<1> DEFINE row == [R[u] EXCEPT ![b] = x]
<1>1. Entry(R, u, b, x) = [R EXCEPT ![u] = row]
  BY DEF Entry
<1>2. u \in Users => /\ x \in Int => row \in [Auctions -> Int]
                     /\ b \in Auctions => row[b] = x
                     /\ \A a \in Auctions : a # b => row[a] = R[u][a]
  OBVIOUS
<1> HIDE DEF row
<1>3. QED BY <1>1, <1>2

\* A commit that takes over the lead of auction a from a bid of that auction.
TakesOver(a, winning, w, n, lost) ==
    /\ TypeOK /\ a \in Auctions /\ winning \in {0} \cup DOMAIN bids[a]
    /\ w \in Users /\ n \in Nat /\ TakeOver(a, winning, w, n, lost)

\* A replacement gives back the old leader's hold and takes the new one's.
LEMMA TakeOverReserves ==
    ASSUME NEW a, NEW winning, NEW w, NEW n, NEW lost, TakesOver(a, winning, w, n, lost)
    PROVE  \A u \in Users :
              /\ reserved'[u][a] = reserved[u][a]
                    - (IF winning # 0 /\ bids[a][winning].bidder = u THEN bids[a][winning].amount ELSE 0)
                    + (IF u = w THEN n ELSE 0)
              /\ \A b \in Auctions : b # a => reserved'[u][b] = reserved[u][b]
<1> DEFINE prev == bids[a][winning]
           gone == reserved[prev.bidder][a] - prev.amount
<1>0. /\ TypeOK /\ a \in Auctions /\ winning \in {0} \cup DOMAIN bids[a]
      /\ w \in Users /\ n \in Nat /\ TakeOver(a, winning, w, n, lost)
  BY DEF TakesOver
<1> USE <1>0
<1>1. reserved \in [Users -> [Auctions -> Int]]
  BY DEF TypeOK
<1>2. winning # 0 => prev.bidder \in Users /\ prev.amount \in Nat
  BY SMTT(20), BidOf DEF TypeOK
<1>3. winning # 0 => gone \in Int
  BY SMTT(20), <1>1, <1>2
<1>4. PICK unreserved :
        /\ unreserved = IF winning = 0 THEN reserved ELSE Entry(reserved, prev.bidder, a, gone)
        /\ reserved' = Entry(unreserved, w, a, unreserved[w][a] + n)
  BY DEF TakeOver, Entry
<1>5. PICK bidder, amount : bidder = prev.bidder /\ amount = prev.amount
  OBVIOUS
<1> HIDE DEF prev, gone
<1>6. /\ unreserved \in [Users -> [Auctions -> Int]]
      /\ \A u \in Users :
           /\ unreserved[u][a] = IF winning # 0 /\ u = bidder THEN gone ELSE reserved[u][a]
           /\ \A b \in Auctions : b # a => unreserved[u][b] = reserved[u][b]
  <2>1. CASE winning = 0
    BY <1>1, <1>4, <2>1
  <2>2. CASE winning # 0
    <3>1. unreserved = Entry(reserved, bidder, a, gone) /\ bidder \in Users /\ gone \in Int
      BY <1>2, <1>3, <1>4, <1>5, <2>2
    <3>2. QED BY <1>1, <2>2, <3>1, OtherEntries
  <2>3. QED BY <2>1, <2>2
<1>7. \A u \in Users :
         /\ reserved'[u][a] = unreserved[u][a] + (IF u = w THEN n ELSE 0)
         /\ \A b \in Auctions : b # a => reserved'[u][b] = unreserved[u][b]
  <2>1. unreserved[w][a] \in Int /\ \A u \in Users : unreserved[u][a] \in Int
    BY <1>6
  <2>2. PICK x \in Int : x = unreserved[w][a] + n
    BY <2>1
  <2>3. reserved' = Entry(unreserved, w, a, x)
    BY <1>4, <2>2
  <2>4. /\ reserved'[w][a] = x
        /\ \A v \in Users, b \in Auctions : w # v \/ b # a => reserved'[v][b] = unreserved[v][b]
    BY <1>6, <2>3, OtherEntries
  <2>5. QED BY <2>1, <2>2, <2>4
<1>8. winning # 0 => gone = reserved[bidder][a] - amount /\ bidder \in Users /\ amount \in Nat
  BY <1>2, <1>5 DEF gone
<1>9. ASSUME NEW u \in Users
      PROVE  /\ reserved'[u][a] = reserved[u][a] - (IF winning # 0 /\ bidder = u THEN amount ELSE 0)
                                     + (IF u = w THEN n ELSE 0)
             /\ \A b \in Auctions : b # a => reserved'[u][b] = reserved[u][b]
  <2>1. reserved[u][a] \in Int
    BY <1>1
  <2>2. unreserved[u][a] = reserved[u][a] - (IF winning # 0 /\ bidder = u THEN amount ELSE 0)
    BY <1>6, <1>8, <2>1
  <2>3. QED BY <1>6, <1>7, <2>2
<1>10. QED BY <1>5, <1>9 DEF prev

\* A step touches one auction at most, and then it is a replacement of the
\* leader, a cancellation or a cron job's.
LEMMA AuctionMoves ==
    ASSUME Typed, [Next]_vars, NEW a \in Auctions
    PROVE  \/ \E h \in Handlers : Replaces(h) /\ handler[h].auction = a
           \/ \E c \in Cancellers : CommitCancel(c) /\ canceller[c].auction = a
           \/ \E c \in Crons : Activate(c, a) \/ End(c, a) \/ Finalize(c, a)
           \/ Untouched(a)
<1>1. CASE UNCHANGED <<auctions, bids, escrows, reserved>>
  BY <1>1 DEF Untouched
<1>2. CASE BidStep
  <2>1. ASSUME NEW h \in Handlers, Replaces(h), handler[h].auction # a PROVE Untouched(a)
    <3>1. PICK w, n, lost, docs :
            /\ w \in Users /\ n \in Nat /\ lost \in Seq(BidFields)
            /\ TakeOver(handler[h].auction, handler[h].winning, w, n, lost)
            /\ Commit(h, docs)
      BY <2>1, Replacement
    <3>2. PICK b : b = handler[h].auction /\ b # a
      BY <2>1
    <3>3. handler[h].auction \in Auctions /\ handler[h].winning \in {0} \cup DOMAIN bids[handler[h].auction]
      BY <2>1, Replacement, RequestCarries
    <3>4. \A u \in Users : reserved'[u][a] = reserved[u][a]
      <4>1. PICK winning : winning = handler[h].winning
        OBVIOUS
      <4>2. TakesOver(b, winning, w, n, lost)
        BY SMTT(20), <3>1, <3>2, <3>3, <4>1 DEF TakesOver, Typed
      <4>3. QED BY <3>2, <4>2, TakeOverReserves
    <3>5. bids'[a] = bids[a] /\ auctions'[a] = auctions[a]
      BY <3>1, <3>2 DEF TakeOver, Typed, TypeOK
    <3>6. UNCHANGED escrows
      BY <3>1 DEF Commit
    <3>7. QED BY <3>4, <3>5, <3>6 DEF Untouched
  <2>2. ASSUME NEW h \in Handlers, NEW b \in Auctions, NEW u \in Users, NEW n \in Offers,
               PlaceBid(h, b, u, n) \/ SetAutoBid(h, b, u, n)
        PROVE  UNCHANGED <<auctions, bids, escrows, reserved>>
    <3>1. \E op, r, winning : Opened(h, op, b, u, n, winning, r)
      BY <2>2 DEF PlaceBid, SetAutoBid
    <3>2. QED BY <3>1 DEF Opened
  <2>3. ASSUME NEW h \in Handlers, Preflight(h) \/ AbortBid(h) \/ CrashBid(h)
        PROVE  UNCHANGED <<auctions, bids, escrows, reserved>>
    BY <2>3 DEF Preflight, AbortBid, CrashBid
  <2>4. ASSUME NEW h \in Handlers, AutoBidStored(h)
        PROVE  UNCHANGED <<auctions, bids, escrows, reserved>>
    BY <2>4 DEF AutoBidStored, Commit
  <2>5. ASSUME NEW b \in Auctions, BidLockExpires(b) \/ \E u \in Users : CancelAutoBid(b, u)
        PROVE  UNCHANGED <<auctions, bids, escrows, reserved>>
    BY <2>5 DEF BidLockExpires, CancelAutoBid
  <2>6. QED BY <1>1, <1>2, <2>1, <2>2, <2>3, <2>4, <2>5 DEF BidStep, Replaces
<1>3. CASE CancelStep
  <2>1. ASSUME NEW c \in Cancellers, CommitCancel(c), canceller[c].auction # a PROVE Untouched(a)
    <3>1. PICK b : b = canceller[c].auction /\ b # a
      BY SMTT(20), <2>1
    <3>2. UNCHANGED <<bids, escrows>> /\ auctions' = [auctions EXCEPT ![b].status = "CANCELLED"]
      <4>1. UNCHANGED <<bids, escrows>>
        BY Zenon, <2>1 DEF CommitCancel
      <4>2. auctions' = [auctions EXCEPT ![canceller[c].auction].status = "CANCELLED"]
        BY ZenonT(40), <2>1 DEF CommitCancel
      <4>3. QED BY <3>1, <4>1, <4>2
    <3>3. UNCHANGED reserved \/ \E u, x : reserved' = Entry(reserved, u, b, x)
      BY <2>1, <3>1 DEF CommitCancel, Entry
    <3>4. \A u \in Users : reserved'[u][a] = reserved[u][a]
      <4>1. reserved \in [Users -> [Auctions -> Int]]
        BY DEF Typed, TypeOK
      <4>2. QED BY <3>1, <3>3, <4>1, OtherEntries
    <3>5. QED BY <3>1, <3>2, <3>4 DEF Untouched, Typed, TypeOK
  <2>2. ASSUME NEW c \in Cancellers, AbortCancel(c) \/ \E b \in Auctions : RequestCancel(c, b)
        PROVE  UNCHANGED <<auctions, bids, escrows, reserved>>
    BY <2>2 DEF AbortCancel, RequestCancel
  <2>3. QED BY <1>1, <1>3, <2>1, <2>2 DEF CancelStep
<1>4. CASE CronStep
  <2>1. ASSUME NEW c \in Crons, NEW b \in Auctions, Activate(c, b) \/ End(c, b), b # a
        PROVE  Untouched(a)
    BY <2>1 DEF Activate, End, Untouched, Typed, TypeOK
  <2>2. ASSUME NEW c \in Crons, NEW b \in Auctions, Finalize(c, b), b # a
        PROVE  Untouched(a)
    <3>1. UNCHANGED bids
      BY <2>2 DEF Finalize
    <3>2. \E doc : auctions' = [auctions EXCEPT ![b] = doc]
      BY <2>2 DEF Finalize, Typed, TypeOK
    <3>3. UNCHANGED reserved \/ \E u, x : reserved' = Entry(reserved, u, b, x)
      <4>1. PICK i \in FoundWinning(b) :
              \/ UNCHANGED reserved
              \/ reserved' = [reserved EXCEPT ![bids[b][i].bidder][b] = @ - bids[b][i].amount]
        BY <2>2 DEF Finalize
      <4>2. QED BY <4>1 DEF Entry
    <3>4. UNCHANGED escrows \/ \E E : escrows' = [escrows EXCEPT ![b] = E]
      BY <2>2 DEF Finalize, Typed, TypeOK
    <3>5. \A u \in Users : reserved'[u][a] = reserved[u][a]
      <4>1. reserved \in [Users -> [Auctions -> Int]]
        BY DEF Typed, TypeOK
      <4>2. QED BY <2>2, <3>3, <4>1, OtherEntries
    <3>6. QED BY <2>2, <3>1, <3>2, <3>4, <3>5 DEF Untouched, Typed, TypeOK
  <2>3. ASSUME NEW c \in Crons, \/ \E job \in Jobs : StartJob(c, job)
                                \/ \E b \in Auctions : Skip(c, b)
                                \/ CrashJob(c)
        PROVE  UNCHANGED <<auctions, bids, escrows, reserved>>
    BY <2>3 DEF StartJob, Skip, CrashJob
  <2>4. ASSUME NEW job \in Jobs, CronLockExpires(job)
        PROVE  UNCHANGED <<auctions, bids, escrows, reserved>>
    BY <2>4 DEF CronLockExpires
  <2>5. QED BY <1>1, <1>4, <2>1, <2>2, <2>3, <2>4 DEF CronStep
<1>5. CASE UNCHANGED vars
  BY <1>1, <1>5 DEF vars
<1>6. QED BY <1>2, <1>3, <1>4, <1>5 DEF Next

\* What each of them does to the document of its auction.
LEMMA StatusSet ==
    ASSUME Typed, NEW a \in Auctions, NEW s \in Statuses,
           auctions' = [auctions EXCEPT ![a].status = s]
    PROVE  /\ auctions'[a].status = s /\ auctions'[a].price = auctions[a].price
           /\ auctions'[a].winner = auctions[a].winner
           /\ auctions'[a].finalized = auctions[a].finalized
           /\ \A b \in Auctions : b # a => auctions'[b] = auctions[b]
<1>1. \A d \in AuctionFields : /\ [d EXCEPT !.status = s].status = s
                               /\ [d EXCEPT !.status = s].price = d.price
                               /\ [d EXCEPT !.status = s].winner = d.winner
                               /\ [d EXCEPT !.status = s].finalized = d.finalized
  BY DEF AuctionFields
<1> DEFINE doc == [auctions[a] EXCEPT !.status = s]
<1>2. /\ doc.status = s /\ doc.price = auctions[a].price /\ doc.winner = auctions[a].winner
      /\ doc.finalized = auctions[a].finalized
  BY <1>1 DEF Typed, TypeOK
<1>3. auctions' = [auctions EXCEPT ![a] = doc]
  OBVIOUS
<1> HIDE DEF doc
<1>4. QED BY <1>2, <1>3 DEF Typed, TypeOK

\* A finalized auction keeps its status and its price.
LEMMA Settles ==
    ASSUME Typed, NEW c \in Crons, NEW a \in Auctions, Finalize(c, a)
    PROVE  /\ auctions'[a].status = auctions[a].status /\ auctions'[a].price = auctions[a].price
           /\ auctions'[a].finalized
           /\ \E winning \in FoundWinning(a) :
                IF winning = 0
                THEN /\ auctions'[a].winner = auctions[a].winner
                     /\ UNCHANGED <<wallets, reserved, escrows>>
                ELSE /\ auctions'[a].winner = bids[a][winning].bidder
                     /\ escrows' = [escrows EXCEPT ![a] =
                           IF @ # {} THEN @
                           ELSE {[buyer |-> bids[a][winning].bidder, seller |-> Seller[a],
                                  amount |-> bids[a][winning].amount]}]
                     /\ CanCapture(wallets[bids[a][winning].bidder], bids[a][winning].amount)
                     /\ wallets' = [wallets EXCEPT ![bids[a][winning].bidder] =
                                       Captured(@, bids[a][winning].amount)]
                     /\ reserved' = [reserved EXCEPT ![bids[a][winning].bidder][a] =
                                        @ - bids[a][winning].amount]
<1> DEFINE once == [auctions EXCEPT ![a].finalized = TRUE]
<1>1. PICK winning \in FoundWinning(a) :
        IF winning = 0
        THEN /\ auctions' = once
             /\ UNCHANGED <<wallets, reserved, escrows>>
        ELSE /\ CanCapture(wallets[bids[a][winning].bidder], bids[a][winning].amount)
             /\ wallets' = [wallets EXCEPT ![bids[a][winning].bidder] =
                                       Captured(@, bids[a][winning].amount)]
             /\ reserved' = [reserved EXCEPT ![bids[a][winning].bidder][a] =
                                        @ - bids[a][winning].amount]
             /\ escrows' = [escrows EXCEPT ![a] =
                   IF @ # {} THEN @
                   ELSE {[buyer |-> bids[a][winning].bidder, seller |-> Seller[a],
                          amount |-> bids[a][winning].amount]}]
             /\ auctions' = [once EXCEPT ![a].winner = bids[a][winning].bidder]
  BY DEF Finalize
<1>2. \A d \in AuctionFields : LET e == [d EXCEPT !.finalized = TRUE]
         IN  /\ e \in AuctionFields /\ e.status = d.status /\ e.price = d.price
             /\ e.winner = d.winner /\ e.finalized
  BY DEF AuctionFields
<1>3. /\ once \in [Auctions -> AuctionFields]
      /\ once[a].status = auctions[a].status /\ once[a].price = auctions[a].price
      /\ once[a].winner = auctions[a].winner /\ once[a].finalized
  BY <1>2 DEF Typed, TypeOK
<1> HIDE DEF once
<1>4. \A d \in AuctionFields : \A u : LET e == [d EXCEPT !.winner = u]
         IN  /\ e.status = d.status /\ e.price = d.price
             /\ e.winner = u /\ e.finalized = d.finalized
  BY DEF AuctionFields
<1>5. ASSUME NEW u, auctions' = [once EXCEPT ![a].winner = u]
      PROVE  /\ auctions'[a].status = auctions[a].status /\ auctions'[a].price = auctions[a].price
             /\ auctions'[a].finalized /\ auctions'[a].winner = u
  <2> DEFINE doc == [once[a] EXCEPT !.winner = u]
  <2>1. doc.status = once[a].status /\ doc.price = once[a].price /\ doc.winner = u
        /\ doc.finalized = once[a].finalized
    <3>1. once[a] \in AuctionFields
      BY <1>3
    <3>2. QED BY <3>1, <1>4
  <2>2. auctions' = [once EXCEPT ![a] = doc]
    BY <1>5
  <2> HIDE DEF doc
  <2>3. QED BY <1>3, <2>1, <2>2
<1>6. CASE winning = 0
  BY <1>1, <1>3, <1>6
<1>7. CASE winning # 0
  <2>1. auctions' = [once EXCEPT ![a].winner = bids[a][winning].bidder]
    BY <1>1, <1>7
  <2>2. /\ auctions'[a].status = auctions[a].status /\ auctions'[a].price = auctions[a].price
        /\ auctions'[a].finalized /\ auctions'[a].winner = bids[a][winning].bidder
    BY <1>5, <2>1
  <2>3. QED BY <1>1, <1>7, <2>2
<1>8. QED BY <1>6, <1>7

-----------------------------------------------------------------------------
(***************************************************************************)
(* The cron jobs: the runs of a job, the auctions they have left, and what *)
(* the lock of a job is worth while its TTL does not run out.              *)
(***************************************************************************)
\* The instances that are running a job.
On(job) == {c \in Crons : cron[c] # Idle /\ cron[c].op = job}

\* The auctions that some run of a job has still to visit.
Due(job) == {a \in Auctions : \E c \in On(job) : a \in cron[c].todo}

\* Whoever runs a job holds its lock.
Alone(job) == \A c \in On(job) : cronLock[job] = c

\* Going on to the next auction leaves every job with what it had, or less;
\* an auction that the only run of a job is done with is not due any more.
LEMMA DoneShrinks ==
    ASSUME TypeOK, NEW c \in Crons, NEW job \in Jobs, NEW a \in Auctions, At(c, job, a), Done(c, a)
    PROVE  /\ \A j \in Jobs : On(j)' \subseteq On(j) /\ Due(j)' \subseteq Due(j)
           /\ \A j \in Jobs : Alone(j) => Alone(j)'
           /\ Alone(job) => a \notin Due(job)'
<1> DEFINE rest == cron[c].todo \ {a}
           run == IF rest = {} THEN Idle ELSE [cron[c] EXCEPT !.todo = rest]
<1>1. cron[c] # Idle /\ cron[c].op = job /\ a \in cron[c].todo
  BY DEF At
<1>2. cron[c] \in CronRuns
  BY <1>1, RunCarries
<1>3. run # Idle => run.op = job /\ run.todo = rest
  <2>1. \A q \in CronRuns : \A T : [q EXCEPT !.todo = T].op = q.op /\ [q EXCEPT !.todo = T].todo = T
    BY DEF CronRuns
  <2>2. QED BY <1>1, <1>2, <2>1
<1>4. /\ cron' = [cron EXCEPT ![c] = run]
      /\ cronLock' = [cronLock EXCEPT ![job] = IF rest = {} /\ @ = c THEN None ELSE @]
  BY <1>1 DEF Done
<1>5. rest = {} => run = Idle
  OBVIOUS
<1>6. rest \subseteq cron[c].todo /\ a \notin rest
  OBVIOUS
<1> HIDE DEF run, rest
<1>7. /\ cron'[c] = run /\ \A d \in Crons : d # c => cron'[d] = cron[d]
      /\ \A j \in Jobs : j # job => cronLock'[j] = cronLock[j]
      /\ cronLock'[job] = IF rest = {} /\ cronLock[job] = c THEN None ELSE cronLock[job]
  BY <1>4 DEF TypeOK
<1>8. \A j \in Jobs : On(j)' \subseteq On(j)
  BY <1>1, <1>3, <1>7 DEF On
<1>9. \A d \in Crons : cron'[d] # Idle => cron'[d].todo \subseteq cron[d].todo
  BY <1>3, <1>6, <1>7
<1>10. \A j \in Jobs : Due(j)' \subseteq Due(j)
  BY <1>8, <1>9 DEF Due, On
<1>11. ASSUME NEW j \in Jobs, Alone(j) PROVE Alone(j)'
  <2>1. ASSUME NEW d \in Crons, d \in On(j)' PROVE cronLock'[j] = d
    <3>1. d \in On(j) /\ cronLock[j] = d
      BY <1>8, <1>11, <2>1 DEF Alone
    <3>2. CASE j = job /\ rest = {} /\ d = c
      BY <1>5, <1>7, <2>1, <3>2 DEF On
    <3>3. QED BY <1>7, <3>1, <3>2
  <2>2. QED BY <2>1 DEF Alone, On
<1>12. ASSUME Alone(job), a \in Due(job)' PROVE FALSE
  <2>1. PICK d \in Crons : d \in On(job)' /\ a \in cron'[d].todo
    BY <1>12 DEF Due, On
  <2>2. c \in On(job) /\ d \in On(job)
    BY <1>1, <1>8, <2>1 DEF On
  <2>3. d = c
    BY <1>12, <2>2 DEF Alone
  <2>4. run # Idle
    BY <1>7, <2>1, <2>3 DEF On
  <2>5. QED BY <1>3, <1>6, <1>7, <2>1, <2>3, <2>4
<1>13. QED BY <1>8, <1>10, <1>11, <1>12

\* The three ways the runs move: not at all or less, one starts, or one is
\* done with an auction.
LEMMA RunsMove ==
    ASSUME Typed, [Next]_vars
    PROVE  \/ UNCHANGED <<cron, cronLock>>
           \/ \E c \in Crons, job \in Jobs : StartJob(c, job)
           \/ /\ \E c \in Crons, job \in Jobs, a \in Auctions : At(c, job, a) /\ Done(c, a)
           \/ \E c \in Crons : CrashJob(c)
           \/ \E job \in Jobs : CronLockExpires(job)
<1>1. ASSUME NEW h \in Handlers, NEW a \in Auctions, NEW u \in Users, NEW n \in Offers,
             PlaceBid(h, a, u, n) \/ SetAutoBid(h, a, u, n)
      PROVE  UNCHANGED <<cron, cronLock>>
  <2>1. \E op, r, winning : Opened(h, op, a, u, n, winning, r)
    BY <1>1 DEF PlaceBid, SetAutoBid
  <2>2. QED BY <2>1 DEF Opened
<1>2. ASSUME NEW h \in Handlers, Replaces(h) \/ AutoBidStored(h)
      PROVE  UNCHANGED <<cron, cronLock>>
  <2>1. \E docs : Commit(h, docs)
    BY <1>2 DEF Replaces, ManualBidWins, AutoBidAnswers, AutoBidTakesOver, AutoBidStored
  <2>2. QED BY <2>1 DEF Commit
<1>3. ASSUME NEW h \in Handlers, Preflight(h) \/ AbortBid(h) \/ CrashBid(h)
      PROVE  UNCHANGED <<cron, cronLock>>
  BY <1>3 DEF Preflight, AbortBid, CrashBid
<1>4. ASSUME NEW a \in Auctions, BidLockExpires(a) \/ \E u \in Users : CancelAutoBid(a, u)
      PROVE  UNCHANGED <<cron, cronLock>>
  BY <1>4 DEF BidLockExpires, CancelAutoBid
<1>5. CASE BidStep
  BY <1>1, <1>2, <1>3, <1>4, <1>5 DEF BidStep, Replaces
<1>6. CASE CancelStep
  BY ZenonT(40), <1>6 DEF CancelStep, RequestCancel, CommitCancel, AbortCancel
<1>7. ASSUME NEW c \in Crons, NEW a \in Auctions, Activate(c, a) \/ End(c, a) \/ Finalize(c, a) \/ Skip(c, a)
      PROVE  \E job \in Jobs : At(c, job, a) /\ Done(c, a)
  <2>1. CASE Activate(c, a) \/ End(c, a) \/ Finalize(c, a)
    BY <2>1 DEF Activate, End, Finalize, Jobs
  <2>2. CASE Skip(c, a)
    <3>1. cron[c] # Idle /\ a \in cron[c].todo /\ Done(c, a)
      BY <2>2 DEF Skip
    <3>2. QED BY <3>1, RunCarries DEF At, Typed
  <2>3. QED BY SMTT(20), <1>7, <2>1, <2>2
<1>8. CASE CronStep
  BY <1>7, <1>8 DEF CronStep
<1>9. QED BY <1>5, <1>6, <1>8 DEF Next, vars

\* A run that starts is alone with what it listed.
LEMMA StartsAlone ==
    ASSUME Typed, NEW c \in Crons, NEW job \in Jobs, StartJob(c, job)
    PROVE  /\ \A j \in Jobs : Alone(j) => Alone(j)'
           /\ \A j \in Jobs : j # job => Due(j)' \subseteq Due(j)
           /\ Due(job)' \subseteq Due(job) \cup Listed(job)
           /\ UNCHANGED <<auctions, bids, escrows>>
<1>1. PICK due \in SUBSET Listed(job) : cron' = [cron EXCEPT ![c] = [op |-> job, todo |-> due]]
  BY DEF StartJob
<1>2. /\ cron[c] = Idle /\ cronLock[job] = None /\ cronLock' = [cronLock EXCEPT ![job] = c]
      /\ UNCHANGED <<auctions, bids, escrows>>
  BY DEF StartJob
<1>3. /\ cron'[c].op = job /\ cron'[c].todo = due /\ \A d \in Crons : d # c => cron'[d] = cron[d]
      /\ cronLock'[job] = c /\ \A j \in Jobs : j # job => cronLock'[j] = cronLock[j]
  BY <1>1, <1>2 DEF Typed, TypeOK
<1>4. \A j \in Jobs : j # job => On(j)' \subseteq On(j)
  BY <1>3 DEF On
<1>5. ASSUME NEW j \in Jobs, NEW d \in Crons, d \in On(j)' PROVE (d = c /\ j = job) \/ (d \in On(j) /\ d # c)
  BY <1>3, <1>5 DEF On
<1>6. ASSUME NEW j \in Jobs, Alone(j) PROVE Alone(j)'
  <2>1. ASSUME NEW d \in Crons, d \in On(j)' PROVE cronLock'[j] = d
    <3>1. j # job => d \in On(j)
      BY <1>4, <2>1
    <3>2. j = job => d = c
      <4>1. ASSUME j = job, d # c PROVE FALSE
        <5>1. d \in On(job) /\ cronLock[job] = d
          BY <1>5, <1>6, <2>1, <4>1 DEF Alone
        <5>2. QED BY <1>2, <5>1, ConstantsAssumption
      <4>2. QED BY <4>1
    <3>3. QED BY <1>3, <1>6, <3>1, <3>2 DEF Alone
  <2>2. QED BY <2>1 DEF Alone, On
<1>7. ASSUME NEW j \in Jobs, NEW a \in Due(j)', j # job PROVE a \in Due(j)
  <2>1. PICK d \in Crons : d \in On(j)' /\ a \in cron'[d].todo /\ a \in Auctions
    BY <1>7 DEF Due, On
  <2>2. QED BY <1>3, <1>5, <1>7, <2>1 DEF Due
<1>8. ASSUME NEW a \in Due(job)' PROVE a \in Due(job) \cup Listed(job)
  <2>1. PICK d \in Crons : d \in On(job)' /\ a \in cron'[d].todo /\ a \in Auctions
    BY <1>8 DEF Due, On
  <2>2. CASE d = c
    BY <1>3, <2>1, <2>2
  <2>3. CASE d # c
    BY <1>3, <1>5, <2>1, <2>3 DEF Due
  <2>4. QED BY <2>2, <2>3
<1>9. QED BY <1>2, <1>6, <1>7, <1>8

\* As long as the lock of a job is not lost under a live run, there is one
\* run of the job at a time.
LEMMA AloneStays ==
    ASSUME Typed, [Next]_vars, NEW job \in Jobs, job \notin Overrun, Alone(job)
    PROVE  Alone(job)'
<1>1. CASE UNCHANGED <<cron, cronLock>>
  BY <1>1 DEF Alone, On
<1>2. ASSUME NEW c \in Crons, NEW j \in Jobs, StartJob(c, j) PROVE Alone(job)'
  BY <1>2, StartsAlone
<1>3. ASSUME NEW c \in Crons, NEW j \in Jobs, NEW a \in Auctions, At(c, j, a), Done(c, a)
      PROVE  Alone(job)'
  BY <1>3, DoneShrinks DEF Typed
<1>4. ASSUME NEW c \in Crons, CrashJob(c) PROVE Alone(job)'
  <2>1. On(job)' \subseteq On(job) /\ UNCHANGED cronLock
    BY <1>4 DEF CrashJob, On, Typed, TypeOK
  <2>2. QED BY <2>1 DEF Alone
<1>5. ASSUME NEW j \in Jobs, CronLockExpires(j) PROVE Alone(job)'
  <2>1. CASE j = job
    <3>1. On(job)' = On(job) /\ cronLock[job] \notin On(job)
      BY <1>5, <2>1 DEF CronLockExpires, On
    <3>2. QED BY <3>1 DEF Alone
  <2>2. CASE j # job
    BY <1>5, <2>2 DEF CronLockExpires, On, Alone, Typed, TypeOK
  <2>3. QED BY <2>1, <2>2
<1>6. QED BY <1>1, <1>2, <1>3, <1>4, <1>5, RunsMove

\* An auction that becomes due for a job has just been listed for it.
LEMMA DueWasListed ==
    ASSUME Typed, [Next]_vars, NEW job \in Jobs, NEW a \in Auctions, a \in Due(job)', a \notin Due(job)
    PROVE  a \in Listed(job) /\ UNCHANGED <<auctions, bids, escrows>>
           /\ \A j \in Jobs : j # job => Due(j)' \subseteq Due(j)
<1>1. CASE UNCHANGED <<cron, cronLock>>
  BY <1>1 DEF Due, On
<1>2. ASSUME NEW c \in Crons, NEW j \in Jobs, StartJob(c, j)
      PROVE  a \in Listed(job) /\ UNCHANGED <<auctions, bids, escrows>>
             /\ \A i \in Jobs : i # job => Due(i)' \subseteq Due(i)
  <2>1. j = job
    BY <1>2, StartsAlone
  <2>2. QED BY <1>2, <2>1, StartsAlone
<1>3. ASSUME NEW c \in Crons, NEW j \in Jobs, NEW b \in Auctions, At(c, j, b), Done(c, b)
      PROVE  FALSE
  BY <1>3, DoneShrinks DEF Typed
<1>4. ASSUME NEW c \in Crons, CrashJob(c) PROVE FALSE
  <2>1. \A d \in On(job)' : d \in On(job) /\ cron'[d] = cron[d]
    BY <1>4 DEF CrashJob, On, Typed, TypeOK
  <2>2. QED BY <2>1 DEF Due
<1>5. ASSUME NEW j \in Jobs, CronLockExpires(j) PROVE FALSE
  BY <1>5 DEF CronLockExpires, Due, On
<1>6. QED BY <1>1, <1>2, <1>3, <1>4, <1>5, RunsMove

\* A commit that replaces the leader, and what it does to its auction.
LEMMA Replaced ==
    ASSUME Typed, Led, NEW h \in Handlers, Replaces(h)
    PROVE  \E a \in Auctions, winning \in FoundWinning(handler[h].auction), w \in Users, n \in Nat :
              \E lost \in Seq(BidFields) :
                /\ a = handler[h].auction /\ winning = handler[h].winning /\ Fresh(h)
                /\ Placed(handler[h], w, n, lost)
                /\ TakeOver(a, winning, w, n, lost)
                /\ BidsAppended(a, w, n, lost)
                /\ \A i \in DOMAIN lost : lost[i].status = "OUTBID"
                /\ auctions'[a].status = auctions[a].status
                /\ auctions'[a].winner = auctions[a].winner
                /\ auctions'[a].finalized = auctions[a].finalized
                /\ UNCHANGED escrows
<1>1. PICK t : t = handler[h]
  OBVIOUS
<1>2. PICK w, n, lost, docs :
         /\ w \in Users /\ n \in Nat /\ lost \in Seq(BidFields)
         /\ \A i \in DOMAIN lost : lost[i].status = "OUTBID"
         /\ Placed(t, w, n, lost)
         /\ TakeOver(t.auction, t.winning, w, n, lost)
         /\ Commit(h, docs) /\ AuctionDoc(t.auction) \in docs
  BY <1>1, Replacement
<1>3. handler[h] # Idle /\ Fresh(h)
  BY <1>1, <1>2, Replacement DEF Commit, NoConflict, Fresh
<1>4. PICK a, winning : a = t.auction /\ winning = t.winning
  OBVIOUS
<1>5. a \in Auctions /\ winning \in FoundWinning(a)
  BY <1>1, <1>3, <1>4, RequestCarries, FoundWinningIs DEF Led, FreshLeader, Fresh
<1>6. TypeOK /\ LeadIsPrice /\ TakeOver(a, winning, w, n, lost)
  BY <1>2, <1>4 DEF Typed, Led
<1>7. BidsAppended(a, w, n, lost)
  BY <1>2, <1>5, <1>6, TakeOverBids
<1>8. /\ auctions'[a].status = auctions[a].status
      /\ auctions'[a].winner = auctions[a].winner
      /\ auctions'[a].finalized = auctions[a].finalized
  <2>1. auctions'[a] = [auctions[a] EXCEPT !.price = n] /\ auctions[a] \in AuctionFields
    BY <1>5, <1>7 DEF BidsAppended, Typed, TypeOK
  <2>2. QED BY <2>1 DEF AuctionFields
<1>9. UNCHANGED escrows
  BY <1>2 DEF Commit
<1>10. QED BY <1>1, <1>2, <1>3, <1>4, <1>5, <1>6, <1>7, <1>8, <1>9

\* A request that has missed nothing of its auction finds it active.
FreshOpen == \A h \in Handlers : Fresh(h) => auctions[handler[h].auction].status = "ACTIVE"

\* Only a status write closes an auction, and it is missed by its requests.
LEMMA StaysOpen ==
    ASSUME Typed, FreshOpen, [Next]_vars
    PROVE  FreshOpen'
<1>1. ASSUME NEW h \in Handlers, Fresh(h)' PROVE auctions'[handler'[h].auction].status = "ACTIVE"
  <2>1. CASE Opens(h)
    <3>1. PICK a \in Auctions : /\ auctions[a].status = "ACTIVE"
                                /\ \E u, n, op, r, winning : Opened(h, op, a, u, n, winning, r)
      <4>1. PICK a \in Auctions, u \in Users, n \in Offers : PlaceBid(h, a, u, n) \/ SetAutoBid(h, a, u, n)
        BY <2>1 DEF Opens
      <4>2. auctions[a].status = "ACTIVE" /\ \E op, r, winning : Opened(h, op, a, u, n, winning, r)
        BY <4>1 DEF PlaceBid, SetAutoBid
      <4>3. QED BY <4>2
    <3>2. handler'[h].auction = a /\ auctions' = auctions
      BY <3>1 DEF Opened, Typed, TypeOK
    <3>3. QED BY <3>1, <3>2
  <2>2. CASE ~Opens(h)
    BY <1>1, <2>2, FreshUntouched DEF FreshOpen, SameRequest
  <2>3. QED BY <2>1, <2>2
<1>2. QED BY <1>1 DEF FreshOpen, Fresh

-----------------------------------------------------------------------------
(***************************************************************************)
(* The settlement of an auction, while the activation job is not run twice *)
(* at a time: no auction is activated after it ended, so nothing is bid    *)
(* after the winner is drawn.                                              *)
(***************************************************************************)
\* Which jobs an auction can be due for, by its status.
LifeOf(a) ==
    /\ auctions[a].status = "PENDING" => a \notin Due("end") \cup Due("finalize")
    /\ a \in Due("activate") => /\ auctions[a].status \in {"PENDING", "CANCELLED"}
                                /\ ~auctions[a].finalized
                                /\ a \notin Due("end") \cup Due("finalize")
    /\ a \in Due("finalize") => auctions[a].status \in {"ENDED", "CANCELLED"}
    /\ auctions[a].status \in {"PENDING", "ACTIVE"} => ~auctions[a].finalized

\* What is drawn and paid when the auction is finalized, and not before.
SettledOf(a) ==
    IF auctions[a].finalized /\ WinningBids(a) # {}
    THEN \A i \in WinningBids(a) :
            /\ auctions[a].winner = bids[a][i].bidder
            /\ escrows[a] = {[buyer |-> bids[a][i].bidder, seller |-> Seller[a],
                              amount |-> bids[a][i].amount]}
    ELSE auctions[a].winner = None /\ escrows[a] = {}

\* The invariant behind the captured holds.
Settlement ==
    /\ FreshOpen
    /\ Alone("activate")
    /\ \A a \in Auctions : LifeOf(a) /\ SettledOf(a)

\* The statuses only move forward, and each is due for the job that follows it.
LEMMA LifeGoesOn ==
    ASSUME Typed, Led, [Next]_vars, Alone("activate"), NEW a \in Auctions, LifeOf(a)
    PROVE  LifeOf(a)'
<1> DEFINE joins(job) == a \in Due(job)' /\ a \notin Due(job)
<1>1. Jobs = {"activate", "end", "finalize"}
  BY DEF Jobs
<1>2. ASSUME NEW job \in Jobs, joins(job) PROVE LifeOf(a)'
  <2>1. /\ a \in Listed(job) /\ auctions' = auctions
        /\ \A j \in Jobs : j # job => Due(j)' \subseteq Due(j)
    BY <1>2, DueWasListed
  <2>2. /\ job = "activate" => auctions[a].status = "PENDING"
        /\ job = "end" => auctions[a].status = "ACTIVE"
        /\ job = "finalize" => auctions[a].status = "ENDED"
    BY <1>1, <2>1 DEF Listed, EndedWithoutWinner, EndedAuctions
  <2>3. CASE job = "activate"
    BY <1>1, <2>1, <2>2, <2>3 DEF LifeOf
  <2>4. CASE job = "end"
    BY <1>1, <2>1, <2>2, <2>4 DEF LifeOf
  <2>5. CASE job = "finalize"
    BY <1>1, <2>1, <2>2, <2>5 DEF LifeOf
  <2>6. QED BY <1>1, <2>3, <2>4, <2>5
<1>3. CASE \A job \in Jobs : ~joins(job)
  <2>1. \A job \in Jobs : a \in Due(job)' => a \in Due(job)
    BY <1>3
  <2>2. ASSUME auctions'[a].status = auctions[a].status, auctions'[a].finalized = auctions[a].finalized
        PROVE  LifeOf(a)'
    BY <1>1, <2>1, <2>2 DEF LifeOf
  <2>3. ASSUME NEW h \in Handlers, Replaces(h), handler[h].auction = a PROVE LifeOf(a)'
    <3>1. /\ auctions'[a].status = auctions[a].status
          /\ auctions'[a].finalized = auctions[a].finalized
      BY <2>3, Replaced
    <3>2. QED BY <2>2, <3>1
  <2>4. ASSUME NEW c \in Cancellers, CommitCancel(c), canceller[c].auction = a PROVE LifeOf(a)'
    <3>1. auctions' = [auctions EXCEPT ![a].status = "CANCELLED"]
      BY <2>4 DEF CommitCancel
    <3>2. auctions'[a].status = "CANCELLED" /\ auctions'[a].finalized = auctions[a].finalized
      BY <3>1, StatusSet DEF Statuses
    <3>3. QED BY <1>1, <2>1, <3>2 DEF LifeOf
  <2>5. ASSUME NEW c \in Crons, Activate(c, a) PROVE LifeOf(a)'
    <3>1. /\ At(c, "activate", a) /\ Done(c, a)
          /\ auctions' = [auctions EXCEPT ![a].status = "ACTIVE"]
      BY <2>5 DEF Activate
    <3>2. auctions'[a].status = "ACTIVE" /\ auctions'[a].finalized = auctions[a].finalized
      BY <3>1, StatusSet DEF Statuses
    <3>3. a \in Due("activate") /\ a \notin Due("activate")'
      BY <1>1, <3>1, DoneShrinks DEF At, Due, On, Typed
    <3>4. QED BY <1>1, <2>1, <3>2, <3>3 DEF LifeOf
  <2>6. ASSUME NEW c \in Crons, End(c, a) PROVE LifeOf(a)'
    <3>1. /\ At(c, "end", a) /\ auctions' = [auctions EXCEPT ![a].status = "ENDED"]
      BY <2>6 DEF End
    <3>2. auctions'[a].status = "ENDED" /\ auctions'[a].finalized = auctions[a].finalized
      BY <3>1, StatusSet DEF Statuses
    <3>3. a \in Due("end")
      BY <3>1 DEF At, Due, On
    <3>4. QED BY <1>1, <2>1, <3>2, <3>3 DEF LifeOf
  <2>7. ASSUME NEW c \in Crons, Finalize(c, a) PROVE LifeOf(a)'
    <3>1. a \in Due("finalize")
      BY <2>7 DEF Finalize, At, Due, On
    <3>2. auctions'[a].status = auctions[a].status
      BY <2>7, Settles
    <3>3. QED BY <1>1, <2>1, <3>1, <3>2 DEF LifeOf
  <2>8. CASE Untouched(a)
    BY <2>2, <2>8 DEF Untouched
  <2>9. QED BY <2>3, <2>4, <2>5, <2>6, <2>7, <2>8, AuctionMoves
<1>4. QED BY <1>2, <1>3

\* What was settled for the winning bid stays settled: no step touches the
\* bids, the hold or the flag of an auction that has ended, but the finalizer.
LEMMA SettledStays ==
    ASSUME Typed, Led, FreshOpen, [Next]_vars, NEW a \in Auctions, LifeOf(a), SettledOf(a)
    PROVE  SettledOf(a)'
<1>1. ASSUME bids'[a] = bids[a], escrows'[a] = escrows[a],
             auctions'[a].winner = auctions[a].winner,
             auctions'[a].finalized = auctions[a].finalized
      PROVE  SettledOf(a)'
  BY <1>1 DEF SettledOf, WinningBids
<1>2. ASSUME NEW h \in Handlers, Replaces(h), handler[h].auction = a PROVE SettledOf(a)'
  <2>1. /\ Fresh(h) /\ UNCHANGED escrows
        /\ auctions'[a].winner = auctions[a].winner
        /\ auctions'[a].finalized = auctions[a].finalized
    BY <1>2, Replaced
  <2>2. ~auctions[a].finalized
    BY <1>2, <2>1 DEF FreshOpen, LifeOf
  <2>3. QED BY <2>1, <2>2 DEF SettledOf
<1>3. ASSUME NEW c \in Cancellers, CommitCancel(c), canceller[c].auction = a PROVE SettledOf(a)'
  <2>1. auctions' = [auctions EXCEPT ![a].status = "CANCELLED"] /\ UNCHANGED <<bids, escrows>>
    BY <1>3 DEF CommitCancel
  <2>2. QED BY <1>1, <2>1, StatusSet DEF Statuses
<1>4. ASSUME NEW c \in Crons, Activate(c, a) \/ End(c, a) PROVE SettledOf(a)'
  <2>1. PICK s \in Statuses : auctions' = [auctions EXCEPT ![a].status = s] /\ UNCHANGED <<bids, escrows>>
    BY <1>4 DEF Activate, End, Statuses
  <2>2. QED BY <1>1, <2>1, StatusSet
<1>5. ASSUME NEW c \in Crons, Finalize(c, a) PROVE SettledOf(a)'
  <2>1. UNCHANGED bids /\ auctions'[a].finalized
    BY <1>5, Settles DEF Finalize
  <2>2. PICK winning \in FoundWinning(a) :
          IF winning = 0
          THEN auctions'[a].winner = auctions[a].winner /\ UNCHANGED escrows
          ELSE /\ auctions'[a].winner = bids[a][winning].bidder
               /\ escrows' = [escrows EXCEPT ![a] =
                     IF @ # {} THEN @
                     ELSE {[buyer |-> bids[a][winning].bidder, seller |-> Seller[a],
                            amount |-> bids[a][winning].amount]}]
    BY <1>5, Settles
  <2>3. CASE winning = 0
    <3>1. WinningBids(a) = {}
      BY <2>3 DEF FoundWinning, WinningBids, Typed, TypeOK
    <3>2. QED BY <2>1, <2>2, <2>3, <3>1 DEF SettledOf, WinningBids
  <2>4. CASE winning # 0
    <3>1. winning \in WinningBids(a)
      BY <2>4 DEF FoundWinning
    <3>2. \A i \in WinningBids(a) : i = winning
      BY <3>1 DEF Led, LeadIsPrice
    <3>3. escrows'[a] = {[buyer |-> bids[a][winning].bidder, seller |-> Seller[a],
                          amount |-> bids[a][winning].amount]}
      BY <2>2, <2>4, <3>1 DEF SettledOf, Typed, TypeOK
    <3>4. auctions'[a].winner = bids[a][winning].bidder
      BY <2>2, <2>4
    <3>5. \A i \in WinningBids(a)' : i = winning
      BY <2>1, <3>2 DEF WinningBids
    <3>6. \A i \in WinningBids(a)' :
             /\ auctions'[a].winner = bids'[a][i].bidder
             /\ escrows'[a] = {[buyer |-> bids'[a][i].bidder, seller |-> Seller[a],
                                amount |-> bids'[a][i].amount]}
      BY <2>1, <3>3, <3>4, <3>5
    <3>7. auctions'[a].finalized /\ WinningBids(a)' # {}
      BY <2>1, <3>1 DEF WinningBids
    <3>8. QED BY <3>6, <3>7 DEF SettledOf
  <2>5. QED BY SMTT(20), <2>3, <2>4
<1>6. CASE Untouched(a)
  BY <1>1, <1>6 DEF Untouched
<1>7. QED BY <1>2, <1>3, <1>4, <1>5, <1>6, AuctionMoves

\* The settlement is the one the winning bid calls for, at every step.
LEMMA SettlementAlways ==
    ASSUME "activate" \notin Overrun
    PROVE  Spec => []Settlement
<1>1. Init => Settlement
  <2> SUFFICES ASSUME Init PROVE Settlement
    OBVIOUS
  <2>1. \A c \in Crons : cron[c] = Idle
    BY DEF Init
  <2>2. \A job : On(job) = {} /\ Due(job) = {}
    BY <2>1 DEF On, Due
  <2>3. \A h \in Handlers : handler[h] = Idle
    BY DEF Init
  <2>4. \A a \in Auctions : /\ ~auctions[a].finalized /\ auctions[a].winner = None
                            /\ escrows[a] = {}
    BY DEF Init
  <2>5. QED BY <2>2, <2>3, <2>4 DEF Settlement, FreshOpen, Fresh, Alone, LifeOf, SettledOf
<1>2. Typed /\ Led /\ Settlement /\ [Next]_vars => Settlement'
  <2> SUFFICES ASSUME Typed, Led, Settlement, [Next]_vars PROVE Settlement'
    OBVIOUS
  <2>1. FreshOpen'
    BY StaysOpen DEF Settlement
  <2>2. Alone("activate")'
    BY AloneStays DEF Settlement, Jobs
  <2>3. ASSUME NEW a \in Auctions PROVE LifeOf(a)' /\ SettledOf(a)'
    BY LifeGoesOn, SettledStays DEF Settlement
  <2>4. QED BY <2>1, <2>2, <2>3 DEF Settlement
<1>3. QED BY <1>1, <1>2, TypedAlways, LedAlways, PTL DEF Spec

\* The escrow of a finalized auction is the winner's, for the price of the
\* winning bid, and no other auction has one: as long as the activation job
\* does not outlive its lock, whatever other lock is lost and whoever dies.
THEOREM EscrowIsTheWinners ==
    ASSUME "activate" \notin Overrun
    PROVE  Spec => []EscrowMatchesWinner
<1>1. Typed /\ Led /\ Settlement => EscrowMatchesWinner
  <2> SUFFICES ASSUME Typed, Led, Settlement, NEW a \in Auctions
               PROVE  escrows[a] = IF auctions[a].winner = None THEN {}
                                   ELSE {[buyer |-> auctions[a].winner, seller |-> Seller[a],
                                          amount |-> auctions[a].price]}
    BY DEF EscrowMatchesWinner
  <2>1. SettledOf(a)
    BY DEF Settlement
  <2>2. CASE auctions[a].finalized /\ WinningBids(a) # {}
    <3>1. PICK i \in WinningBids(a) : TRUE
      BY <2>2
    <3>2. bids[a][i].bidder \in Users
      BY BidOf DEF WinningBids, Typed, TypeOK
    <3>3. auctions[a].price = bids[a][i].amount
      BY DEF Led, LeadIsPrice
    <3>4. QED BY <2>1, <2>2, <3>2, <3>3, ConstantsAssumption DEF SettledOf
  <2>3. CASE ~(auctions[a].finalized /\ WinningBids(a) # {})
    BY <2>1, <2>3 DEF SettledOf
  <2>4. QED BY <2>2, <2>3
<1>2. QED BY <1>1, SettlementAlways, TypedAlways, LedAlways, PTL

-----------------------------------------------------------------------------
(***************************************************************************)
(* Money.  Holds and releases leave the balances alone; only the           *)
(* finalizer takes money out of a wallet, and puts it into an escrow.      *)
(***************************************************************************)
\* What the three updates do to a balance.
LEMMA BalanceMoves ==
    ASSUME NEW w \in WalletFields, NEW n \in Int
    PROVE  /\ Released(w, n) \in WalletFields /\ Released(w, n).balance = w.balance
           /\ WithHold(w, n) \in WalletFields /\ WithHold(w, n).balance = w.balance
           /\ Captured(w, n) \in WalletFields /\ Captured(w, n).balance = w.balance - n
<1>1. /\ Released(w, n) = [balance |-> w.balance, held |-> w.held - n]
      /\ WithHold(w, n) = [balance |-> w.balance, held |-> w.held + n]
      /\ Captured(w, n) = [balance |-> w.balance - n, held |-> w.held - n]
  BY WalletUpdates
<1>2. Released(w, n) \in WalletFields /\ WithHold(w, n) \in WalletFields /\ Captured(w, n) \in WalletFields
  BY WalletTyped
<1>3. \A b, d : [balance |-> b, held |-> d].balance = b
  OBVIOUS
<1>4. QED BY <1>1, <1>2, <1>3

\* A replacement moves no money.
LEMMA TakeOverMovesNoMoney ==
    ASSUME TypeOK, NEW a \in Auctions, NEW winning \in {0} \cup DOMAIN bids[a],
           NEW w \in Users, NEW n \in Nat, NEW lost, TakeOver(a, winning, w, n, lost)
    PROVE  \A u \in Users : wallets'[u].balance = wallets[u].balance
<1> DEFINE prev == bids[a][winning]
           freed == IF winning = 0 THEN wallets
                    ELSE [wallets EXCEPT ![prev.bidder] = Released(@, prev.amount)]
<1>1. wallets' = [freed EXCEPT ![w] = WithHold(@, n)]
  BY DEF TakeOver
<1>2. winning # 0 => prev.bidder \in Users /\ prev.amount \in Int
  BY BidOf DEF TypeOK
<1>3. wallets \in [Users -> WalletFields]
  BY BooksTyped
<1>4. /\ freed \in [Users -> WalletFields]
      /\ \A u \in Users : freed[u].balance = wallets[u].balance
  <2>1. CASE winning = 0
    BY <1>3, <2>1
  <2>2. CASE winning # 0
    <3> HIDE DEF prev
    <3>1. PICK one : one = Released(wallets[prev.bidder], prev.amount)
      OBVIOUS
    <3>2. wallets[prev.bidder] \in WalletFields
      BY <1>2, <1>3, <2>2
    <3>3. one \in WalletFields /\ one.balance = wallets[prev.bidder].balance
      BY <1>2, <2>2, <3>1, <3>2, BalanceMoves
    <3>4. freed = [wallets EXCEPT ![prev.bidder] = one]
      BY <2>2, <3>1
    <3> HIDE DEF freed
    <3>5. QED BY <1>2, <1>3, <2>2, <3>3, <3>4
  <2>3. QED BY <2>1, <2>2
<1> HIDE DEF freed
<1>5. PICK one : one = WithHold(freed[w], n)
  OBVIOUS
<1>6. freed[w] \in WalletFields
  BY <1>4
<1>7. one.balance = freed[w].balance
  BY <1>5, <1>6, n \in Int, BalanceMoves
<1>8. wallets' = [freed EXCEPT ![w] = one]
  BY <1>1, <1>5
<1>9. QED BY SMTT(20), <1>4, <1>7, <1>8

\* No step but the finalizer's moves money.
LEMMA OnlyFinalizerPays ==
    ASSUME Typed, Led, [Next]_vars, \A c \in Crons, a \in Auctions : ~Finalize(c, a)
    PROVE  UNCHANGED escrows /\ \A u \in Users : wallets'[u].balance = wallets[u].balance
<1>1. CASE UNCHANGED <<escrows, wallets>>
  BY <1>1
<1>2. ASSUME NEW h \in Handlers, Replaces(h)
      PROVE  UNCHANGED escrows /\ \A u \in Users : wallets'[u].balance = wallets[u].balance
  <2>1. PICK a \in Auctions, winning \in FoundWinning(handler[h].auction), w \in Users, n \in Nat :
           \E lost : a = handler[h].auction /\ TakeOver(a, winning, w, n, lost) /\ UNCHANGED escrows
    BY <1>2, Replaced
  <2>2. winning \in {0} \cup DOMAIN bids[a]
    BY <2>1 DEF FoundWinning, WinningBids
  <2>3. QED BY <2>1, <2>2, TakeOverMovesNoMoney DEF Typed
<1>3. CASE BidStep
  <2>1. ASSUME NEW h \in Handlers, NEW b \in Auctions, NEW u \in Users, NEW n \in Offers,
               PlaceBid(h, b, u, n) \/ SetAutoBid(h, b, u, n)
        PROVE  UNCHANGED <<escrows, wallets>>
    <3>1. \E op, r, winning : Opened(h, op, b, u, n, winning, r)
      BY <2>1 DEF PlaceBid, SetAutoBid
    <3>2. QED BY <3>1 DEF Opened
  <2>2. ASSUME NEW h \in Handlers, Preflight(h) \/ AbortBid(h) \/ CrashBid(h)
        PROVE  UNCHANGED <<escrows, wallets>>
    BY <2>2 DEF Preflight, AbortBid, CrashBid
  <2>3. ASSUME NEW h \in Handlers, AutoBidStored(h)
        PROVE  UNCHANGED <<escrows, wallets>>
    BY <2>3 DEF AutoBidStored, Commit
  <2>4. ASSUME NEW b \in Auctions, BidLockExpires(b) \/ \E u \in Users : CancelAutoBid(b, u)
        PROVE  UNCHANGED <<escrows, wallets>>
    BY <2>4 DEF BidLockExpires, CancelAutoBid
  <2>5. QED BY <1>1, <1>2, <1>3, <2>1, <2>2, <2>3, <2>4 DEF BidStep, Replaces
<1>4. CASE CancelStep
  <2>1. ASSUME NEW c \in Cancellers, CommitCancel(c)
        PROVE  UNCHANGED escrows /\ \A u \in Users : wallets'[u].balance = wallets[u].balance
    <3>1. PICK a : a = canceller[c].auction
      BY SMTT(20)
    <3>2. a \in Auctions /\ UNCHANGED escrows
      BY SMTT(20), <2>1, <3>1 DEF CommitCancel, Typed, TypeOK, CancelRequests
    <3>3. PICK winning \in {0} \cup WinningBids(a) :
            IF winning = 0 THEN UNCHANGED wallets
            ELSE wallets' = [wallets EXCEPT ![bids[a][winning].bidder] =
                                Released(@, bids[a][winning].amount)]
      BY <2>1, <3>1 DEF CommitCancel, FoundWinning
    <3>4. CASE winning = 0
      BY <3>2, <3>3, <3>4
    <3>5. CASE winning # 0
      <4>1. PICK v \in Users, n \in Nat : v = bids[a][winning].bidder /\ n = bids[a][winning].amount
        BY <3>2, <3>5, BidOf DEF WinningBids, Typed, TypeOK
      <4>2. PICK w, one : w = wallets[v] /\ one = Released(w, n)
        OBVIOUS
      <4>3. wallets \in [Users -> WalletFields] /\ w \in WalletFields /\ n \in Int
        BY <4>1, <4>2, BooksTyped DEF Typed
      <4>4. wallets' = [wallets EXCEPT ![v] = one]
        BY <3>3, <3>5, <4>1, <4>2
      <4>5. one.balance = wallets[v].balance
        <5>1. Released(w, n).balance = w.balance
          BY <4>3, BalanceMoves
        <5>2. QED BY <4>2, <5>1
      <4>6. \A x \in Users : wallets'[x] = IF x = v THEN one ELSE wallets[x]
        BY <4>3, <4>4
      <4>7. \A x \in Users : wallets'[x].balance = wallets[x].balance
        BY <4>5, <4>6
      <4>8. QED BY <3>2, <4>7
    <3>6. QED BY <3>4, <3>5
  <2>2. QED BY <1>1, <1>4, <2>1 DEF CancelStep, RequestCancel, AbortCancel
<1>5. CASE CronStep
  BY <1>1, <1>5 DEF CronStep, StartJob, Activate, End, Skip, CrashJob, CronLockExpires
<1>6. CASE UNCHANGED vars
  BY <1>1, <1>6 DEF vars
<1>7. QED BY <1>3, <1>4, <1>5, <1>6 DEF Next

\* While there is one finalizer at a time, what it has left to do is not done
\* yet, and what is not done has no escrow.
FinalOnce ==
    /\ Alone("finalize")
    /\ \A a \in Auctions : /\ a \in Due("finalize") => ~auctions[a].finalized
                           /\ ~auctions[a].finalized => escrows[a] = {}

\* No step finalizes an auction a second time.
LEMMA FinalOnceStays ==
    ASSUME Typed, Led, FinalOnce, [Next]_vars, "finalize" \notin Overrun
    PROVE  FinalOnce'
<1>1. Alone("finalize")'
  BY AloneStays DEF FinalOnce, Jobs
<1>2. ASSUME NEW a \in Auctions
      PROVE  /\ (a \in Due("finalize"))' => ~auctions'[a].finalized
             /\ ~auctions'[a].finalized => escrows'[a] = {}
  <2>1. CASE a \in Due("finalize")' /\ a \notin Due("finalize")
    <3>1. a \in Listed("finalize") /\ UNCHANGED <<auctions, escrows>>
      BY <2>1, DueWasListed DEF Jobs
    <3>2. ~auctions[a].finalized
      BY <3>1 DEF Listed, EndedWithoutWinner
    <3>3. QED BY <3>1, <3>2 DEF FinalOnce
  <2>2. CASE a \in Due("finalize")' => a \in Due("finalize")
    <3>1. ASSUME auctions'[a].finalized = auctions[a].finalized, escrows'[a] = escrows[a]
          PROVE  /\ (a \in Due("finalize"))' => ~auctions'[a].finalized
                 /\ ~auctions'[a].finalized => escrows'[a] = {}
      BY <2>2, <3>1 DEF FinalOnce
    <3>2. ASSUME NEW h \in Handlers, Replaces(h), handler[h].auction = a
          PROVE  auctions'[a].finalized = auctions[a].finalized /\ escrows'[a] = escrows[a]
      BY <3>2, Replaced
    <3>3. ASSUME NEW c \in Cancellers, CommitCancel(c), canceller[c].auction = a
          PROVE  auctions'[a].finalized = auctions[a].finalized /\ escrows'[a] = escrows[a]
      <4>1. auctions' = [auctions EXCEPT ![a].status = "CANCELLED"] /\ UNCHANGED escrows
        BY <3>3 DEF CommitCancel
      <4>2. QED BY <4>1, StatusSet DEF Statuses
    <3>4. ASSUME NEW c \in Crons, Activate(c, a) \/ End(c, a)
          PROVE  auctions'[a].finalized = auctions[a].finalized /\ escrows'[a] = escrows[a]
      <4>1. PICK s \in Statuses : auctions' = [auctions EXCEPT ![a].status = s] /\ UNCHANGED escrows
        BY <3>4 DEF Activate, End, Statuses
      <4>2. QED BY <4>1, StatusSet
    <3>5. ASSUME NEW c \in Crons, Finalize(c, a)
          PROVE  a \notin Due("finalize")' /\ auctions'[a].finalized
      <4>1. At(c, "finalize", a) /\ Done(c, a)
        BY <3>5 DEF Finalize
      <4>2. a \notin Due("finalize")'
        BY <4>1, DoneShrinks DEF FinalOnce, Jobs, Typed
      <4>3. QED BY <3>5, <4>2, Settles
    <3>6. CASE Untouched(a)
      BY <3>1, <3>6 DEF Untouched
    <3>7. QED BY <3>1, <3>2, <3>3, <3>4, <3>5, <3>6, AuctionMoves
  <2>3. QED BY <2>1, <2>2
<1>3. QED BY <1>1, <1>2 DEF FinalOnce

\* What a settlement takes from the winner's wallet it puts in the escrow.
LEMMA SettlementConserves ==
    ASSUME Typed, FinalOnce, MoneyConserved, NEW c \in Crons, NEW a \in Auctions, Finalize(c, a)
    PROVE  MoneyConserved'
<1> DEFINE B == [u \in Users |-> wallets[u].balance]
           E == [b \in Auctions |-> Escrowed(escrows[b])]
<1>1. wallets \in [Users -> WalletFields] /\ IsFiniteSet(Users) /\ IsFiniteSet(Auctions)
  BY BooksTyped, ConstantsAssumption DEF Typed
<1>2. /\ \A u \in Users : B[u] \in Int
      /\ \A b \in Auctions : E[b] \in Int
  <2>1. \A u \in Users : wallets[u].balance \in Int
    BY <1>1 DEF WalletFields
  <2>2. ASSUME NEW b \in Auctions PROVE Escrowed(escrows[b]) \in Int
    <3>1. escrows[b] \in SUBSET EscrowFields
      BY DEF Typed, TypeOK
    <3>2. \A e \in escrows[b] : e.amount \in Int
      BY <3>1 DEF EscrowFields
    <3>3. QED BY <3>2 DEF Escrowed
  <2>3. QED BY <2>1, <2>2
<1>3. PICK winning \in FoundWinning(a) :
        IF winning = 0
        THEN UNCHANGED <<wallets, escrows>>
        ELSE /\ wallets' = [wallets EXCEPT ![bids[a][winning].bidder] =
                               Captured(@, bids[a][winning].amount)]
             /\ escrows' = [escrows EXCEPT ![a] =
                   IF @ # {} THEN @
                   ELSE {[buyer |-> bids[a][winning].bidder, seller |-> Seller[a],
                          amount |-> bids[a][winning].amount]}]
  BY ZenonT(40), Settles
<1>4. CASE winning = 0
  BY <1>3, <1>4 DEF MoneyConserved
<1>5. CASE winning # 0
  <2>1. PICK v \in Users, n \in Nat : v = bids[a][winning].bidder /\ n = bids[a][winning].amount
    BY <1>5, BidOf DEF FoundWinning, WinningBids, Typed, TypeOK
  <2>2. PICK one : one = Captured(wallets[v], n)
    OBVIOUS
  <2>3. one \in WalletFields /\ one.balance = wallets[v].balance - n /\ wallets[v].balance \in Int
    <3>1. wallets[v] \in WalletFields /\ n \in Int
      BY <1>1, <2>1
    <3>2. QED BY <2>2, <3>1, BalanceMoves DEF WalletFields
  <2>4. wallets' = [wallets EXCEPT ![v] = one]
    BY <1>3, <1>5, <2>1, <2>2
  <2>5. escrows[a] = {}
    <3>1. a \in Due("finalize")
      BY DEF Finalize, At, Due, On
    <3>2. QED BY <3>1 DEF FinalOnce
  <2>6. escrows' = [escrows EXCEPT ![a] = {[buyer |-> v, seller |-> Seller[a], amount |-> n]}]
    BY <1>3, <1>5, <2>1, <2>5 DEF Typed, TypeOK
  <2>7. PICK B2, E2 : /\ B2 = [u \in Users |-> wallets'[u].balance]
                      /\ E2 = [b \in Auctions |-> Escrowed(escrows'[b])]
    OBVIOUS
  <2>8. /\ B2[v] = B[v] - n /\ \A u \in Users \ {v} : B2[u] = B[u]
    BY <1>1, <2>3, <2>4, <2>7
  <2>9. /\ E[a] = 0 /\ E2[a] = n /\ \A b \in Auctions \ {a} : E2[b] = E[b]
    <3>1. E[a] = 0
      BY <2>5 DEF Escrowed
    <3>2. Escrowed(escrows'[a]) = n
      <4>1. escrows'[a] = {[buyer |-> v, seller |-> Seller[a], amount |-> n]}
        BY <2>6 DEF Typed, TypeOK
      <4>2. PICK e : e = [buyer |-> v, seller |-> Seller[a], amount |-> n]
        OBVIOUS
      <4>3. Escrowed({e}) = e.amount
        BY DEF Escrowed
      <4>4. QED BY <4>1, <4>2, <4>3
    <3>3. \A b \in Auctions \ {a} : escrows'[b] = escrows[b]
      BY <2>6 DEF Typed, TypeOK
    <3>4. \A b \in Auctions \ {a} : Escrowed(escrows'[b]) = Escrowed(escrows[b])
      BY <3>3
    <3>5. QED BY <2>7, <3>1, <3>2, <3>4
  <2>10. /\ DOMAIN B = Users /\ DOMAIN E = Auctions /\ DOMAIN B2 = Users /\ DOMAIN E2 = Auctions
         /\ SumFunction(B) + SumFunction(E) = SumFunction(InitialBalance)
    BY <2>7 DEF MoneyConserved
  <2>11. B[v] \in Int /\ B2[v] \in Int /\ E2[a] \in Int
    BY <1>2, <2>1, <2>8, <2>9
  <2> HIDE DEF B, E
  <2>12. SumFunctionOnSet(B2, Users) = SumFunctionOnSet(B, Users) - B[v] + B2[v]
    BY <1>1, <1>2, <2>1, <2>8, <2>11, SumChanges
  <2>13. SumFunctionOnSet(E2, Auctions) = SumFunctionOnSet(E, Auctions) - E[a] + E2[a]
    BY <1>1, <1>2, <2>9, <2>11, SumChanges
  <2>14. SumFunctionOnSet(B, Users) \in Int /\ SumFunctionOnSet(E, Auctions) \in Int
    BY <1>1, <1>2, SumTypes
  <2>15. SumFunctionOnSet(B2, Users) + SumFunctionOnSet(E2, Auctions)
           = SumFunctionOnSet(B, Users) + SumFunctionOnSet(E, Auctions)
    BY <2>1, <2>8, <2>9, <2>11, <2>12, <2>13, <2>14
  <2>16. SumFunction(B2) + SumFunction(E2) = SumFunction(InitialBalance)
    BY <2>10, <2>15 DEF SumFunction
  <2>17. QED BY <2>7, <2>16 DEF MoneyConserved
<1>6. QED BY <1>4, <1>5

\* An auction is due for the finalizer only until it is finalized.
LEMMA FinalOnceAlways ==
    ASSUME "finalize" \notin Overrun
    PROVE  Spec => []FinalOnce
<1>1. Init => FinalOnce
  BY DEF Init, FinalOnce, Alone, On, Due
<1>2. Typed /\ Led /\ FinalOnce /\ [Next]_vars => FinalOnce'
  BY FinalOnceStays
<1>3. QED BY <1>1, <1>2, TypedAlways, LedAlways, PTL DEF Spec

\* The users and the escrows together always have what the users brought, as
\* long as the finalizer does not outlive its lock: two finalizers would
\* capture the winning bid twice, for one escrow.
THEOREM MoneyIsConserved ==
    ASSUME "finalize" \notin Overrun
    PROVE  Spec => []MoneyConserved
<1>1. Init => MoneyConserved
  <2> SUFFICES ASSUME Init PROVE MoneyConserved
    OBVIOUS
  <2>1. InitialBalance = [u \in Users |-> wallets[u].balance]
    BY ConstantsAssumption DEF Init
  <2>2. PICK E : E = [a \in Auctions |-> Escrowed(escrows[a])]
    OBVIOUS
  <2>3. DOMAIN E = Auctions /\ \A a \in Auctions : E[a] = 0
    BY <2>2 DEF Init, Escrowed
  <2>4. SumFunctionOnSet(E, Auctions) = 0
    BY <2>3, ConstantsAssumption, SumOfZeros
  <2>5. SumFunctionOnSet(InitialBalance, Users) \in Int /\ DOMAIN InitialBalance = Users
    BY ConstantsAssumption, SumTypes
  <2>6. QED BY <2>1, <2>2, <2>3, <2>4, <2>5 DEF MoneyConserved, SumFunction
<1>2. Typed /\ Led /\ FinalOnce /\ MoneyConserved /\ [Next]_vars => MoneyConserved'
  <2> SUFFICES ASSUME Typed, Led, FinalOnce, MoneyConserved, [Next]_vars PROVE MoneyConserved'
    OBVIOUS
  <2>1. CASE \E c \in Crons, a \in Auctions : Finalize(c, a)
    BY <2>1, SettlementConserves
  <2>2. CASE \A c \in Crons, a \in Auctions : ~Finalize(c, a)
    <3>1. UNCHANGED escrows /\ \A u \in Users : wallets'[u].balance = wallets[u].balance
      BY <2>2, OnlyFinalizerPays
    <3>2. [u \in Users |-> wallets'[u].balance] = [u \in Users |-> wallets[u].balance]
      BY <3>1
    <3>3. [a \in Auctions |-> Escrowed(escrows'[a])] = [a \in Auctions |-> Escrowed(escrows[a])]
      BY <3>1
    <3>4. QED BY <3>2, <3>3 DEF MoneyConserved
  <2>3. QED BY <2>1, <2>2
<1>3. QED BY <1>1, <1>2, TypedAlways, LedAlways, FinalOnceAlways, PTL DEF Spec

-----------------------------------------------------------------------------
(***************************************************************************)
(* Holds.  Without cancellations, what a user's wallet holds for an        *)
(* auction is the user's winning bid on it, until it is captured.          *)
(***************************************************************************)
\* After a replacement the new leader leads, and nobody else.
LEMMA NewLeader ==
    ASSUME Typed, NEW a \in Auctions, NEW w \in Users, NEW n \in Nat, NEW lost \in Seq(BidFields),
           \A i \in DOMAIN lost : lost[i].status = "OUTBID", BidsAppended(a, w, n, lost)
    PROVE  /\ \A u \in Users : Leads(u, a)' <=> u = w
           /\ auctions'[a].price = n
<1>1. PICK L \in Nat, M \in Nat : L = Len(bids[a]) /\ M = Len(lost)
  BY LenProperties DEF Typed, TypeOK
<1>2. /\ bids'[a] \in Seq(BidFields) /\ Len(bids'[a]) = L + M + 1
      /\ \A i \in 1..L : bids'[a][i].status # "WINNING"
      /\ \A i \in (L + 1)..(L + M) : bids'[a][i] = lost[i - L]
      /\ bids'[a][L + M + 1] = NewBid(w, n, "WINNING")
      /\ auctions'[a].price = n
  BY <1>1 DEF BidsAppended
<1>3. DOMAIN bids'[a] = 1..(L + M + 1) /\ DOMAIN lost = 1..M
  BY <1>1, <1>2, LenProperties
<1>4. \A i \in (L + 1)..(L + M) : bids'[a][i].status # "WINNING"
  <2>1. \A i \in (L + 1)..(L + M) : i - L \in DOMAIN lost
    BY <1>3
  <2>2. QED BY <1>2, <2>1
<1>5. \A i \in DOMAIN bids'[a] : bids'[a][i].status = "WINNING" <=> i = L + M + 1
  BY <1>2, <1>3, <1>4 DEF NewBid
<1>6. bids'[a][L + M + 1].bidder = w /\ L + M + 1 \in DOMAIN bids'[a]
  BY <1>2, <1>3 DEF NewBid
<1>7. QED BY <1>2, <1>5, <1>6 DEF Leads, WinningBids

\* The holds on one auction: the leader's, at the price, until it is settled.
HoldsOf(a) ==
    \A u \in Users : reserved[u][a] = IF Leads(u, a) /\ ~auctions[a].finalized
                                      THEN auctions[a].price ELSE 0

\* Who leads an auction is who has the winning bid the request found.
LEMMA LeaderFound ==
    ASSUME Typed, Led, NEW a \in Auctions, NEW winning \in FoundWinning(a)
    PROVE  /\ winning = 0 => \A u \in Users : ~Leads(u, a)
           /\ winning # 0 => /\ \A u \in Users : Leads(u, a) <=> u = bids[a][winning].bidder
                             /\ auctions[a].price = bids[a][winning].amount
                             /\ bids[a][winning].bidder \in Users
                             /\ bids[a][winning].amount \in Nat
<1>1. CASE winning = 0
  <2>1. WinningBids(a) = {}
    BY <1>1 DEF FoundWinning, WinningBids, Typed, TypeOK
  <2>2. QED BY <1>1, <2>1 DEF Leads
<1>2. CASE winning # 0
  <2>1. winning \in WinningBids(a)
    BY <1>2 DEF FoundWinning
  <2>2. \A i \in WinningBids(a) : i = winning
    BY <2>1 DEF Led, LeadIsPrice
  <2>3. auctions[a].price = bids[a][winning].amount
    BY <2>1 DEF Led, LeadIsPrice
  <2>4. bids[a][winning].bidder \in Users /\ bids[a][winning].amount \in Nat
    BY <2>1, BidOf DEF WinningBids, Typed, TypeOK
  <2>5. QED BY <1>2, <2>1, <2>2, <2>3, <2>4 DEF Leads
<1>3. QED BY <1>1, <1>2

\* Every step moves the hold together with the lead.
LEMMA HoldsFollow ==
    ASSUME Typed, Led, Settlement, FinalOnce, Cancellers = {}, [Next]_vars,
           NEW a \in Auctions, HoldsOf(a)
    PROVE  HoldsOf(a)'
<1>1. ASSUME bids'[a] = bids[a], auctions'[a].price = auctions[a].price,
             auctions'[a].finalized = auctions[a].finalized,
             \A u \in Users : reserved'[u][a] = reserved[u][a]
      PROVE  HoldsOf(a)'
  BY <1>1 DEF HoldsOf, Leads, WinningBids
<1>2. ASSUME NEW h \in Handlers, Replaces(h), handler[h].auction = a PROVE HoldsOf(a)'
  <2>1. PICK b \in Auctions, winning \in FoundWinning(handler[h].auction), w \in Users, n \in Nat :
          \E lost \in Seq(BidFields) :
             /\ b = handler[h].auction /\ winning = handler[h].winning /\ Fresh(h)
             /\ Placed(handler[h], w, n, lost)
             /\ TakeOver(b, winning, w, n, lost)
             /\ BidsAppended(b, w, n, lost)
             /\ \A i \in DOMAIN lost : lost[i].status = "OUTBID"
             /\ auctions'[b].status = auctions[b].status
             /\ auctions'[b].winner = auctions[b].winner
             /\ auctions'[b].finalized = auctions[b].finalized
             /\ UNCHANGED escrows
    BY Zenon, <1>2, Replaced
  <2> b = a /\ winning \in FoundWinning(a)
    BY <1>2, <2>1
  <2>2. ~auctions[a].finalized /\ ~auctions'[a].finalized
    BY <1>2, <2>1 DEF Settlement, FreshOpen, LifeOf
  <2>3. /\ \A u \in Users : Leads(u, a)' <=> u = w
        /\ auctions'[a].price = n
    BY <2>1, NewLeader
  <2>4. winning \in {0} \cup DOMAIN bids[a]
    BY DEF FoundWinning, WinningBids
  <2>5. PICK prev, amount : prev = bids[a][winning].bidder /\ amount = bids[a][winning].amount
    OBVIOUS
  <2>6. \A u \in Users : reserved'[u][a] = reserved[u][a]
                             - (IF winning # 0 /\ prev = u THEN amount ELSE 0)
                             + (IF u = w THEN n ELSE 0)
    <3>1. PICK lost : TakeOver(a, winning, w, n, lost)
      BY <2>1
    <3>2. \A u \in Users :
             reserved'[u][a] = reserved[u][a]
                - (IF winning # 0 /\ bids[a][winning].bidder = u THEN bids[a][winning].amount ELSE 0)
                + (IF u = w THEN n ELSE 0)
      BY <2>4, <3>1, TakeOverReserves DEF TakesOver, Typed
    <3>3. QED BY <2>5, <3>2
  <2>7. /\ winning = 0 => \A u \in Users : ~Leads(u, a)
        /\ winning # 0 => /\ \A u \in Users : Leads(u, a) <=> u = prev
                          /\ auctions[a].price = amount /\ amount \in Nat
    BY <2>5, LeaderFound
  <2>8. \A u \in Users : reserved[u][a] = IF winning # 0 /\ prev = u THEN amount ELSE 0
    BY <2>2, <2>7 DEF HoldsOf
  <2>9. \A u \in Users : reserved'[u][a] = IF u = w THEN n ELSE 0
    BY <2>6, <2>7, <2>8
  <2>10. QED BY <2>2, <2>3, <2>9 DEF HoldsOf
<1>3. ASSUME NEW c \in Crons, Activate(c, a) \/ End(c, a) PROVE HoldsOf(a)'
  <2>1. PICK s \in Statuses : auctions' = [auctions EXCEPT ![a].status = s] /\ UNCHANGED <<bids, reserved>>
    BY <1>3 DEF Activate, End, Statuses
  <2>2. QED BY <1>1, <2>1, StatusSet
<1>4. ASSUME NEW c \in Crons, Finalize(c, a) PROVE HoldsOf(a)'
  <2>1. ~auctions[a].finalized
    <3>1. a \in Due("finalize")
      BY <1>4 DEF Finalize, At, Due, On
    <3>2. QED BY <3>1 DEF FinalOnce
  <2>2. auctions'[a].finalized
    BY <1>4, Settles
  <2>3. PICK winning \in FoundWinning(a) :
          IF winning = 0 THEN UNCHANGED reserved
          ELSE reserved' = [reserved EXCEPT ![bids[a][winning].bidder][a] = @ - bids[a][winning].amount]
    BY <1>4, Settles
  <2>4. PICK prev, amount : prev = bids[a][winning].bidder /\ amount = bids[a][winning].amount
    OBVIOUS
  <2>5. /\ winning = 0 => \A u \in Users : ~Leads(u, a)
        /\ winning # 0 => /\ \A u \in Users : Leads(u, a) <=> u = prev
                          /\ auctions[a].price = amount /\ amount \in Nat
    BY <2>4, LeaderFound
  <2>6. \A u \in Users : reserved[u][a] = IF winning # 0 /\ prev = u THEN amount ELSE 0
    BY <2>1, <2>5 DEF HoldsOf
  <2>7. \A u \in Users : reserved'[u][a] = 0
    <3>1. CASE winning = 0
      BY <2>3, <2>6, <3>1
    <3>2. CASE winning # 0
      <4>1. reserved \in [Users -> [Auctions -> Int]] /\ prev \in Users
        BY <2>4, <3>2, LeaderFound DEF Typed, TypeOK
      <4>2. reserved[prev][a] = amount /\ amount \in Nat
        BY <2>5, <2>6, <3>2, <4>1
      <4>3. reserved' = Entry(reserved, prev, a, 0)
        <5>1. reserved' = Entry(reserved, prev, a, reserved[prev][a] - amount)
          BY <2>3, <2>4, <3>2 DEF Entry
        <5>2. reserved[prev][a] - amount = 0
          BY <4>2
        <5>3. QED BY <5>1, <5>2
      <4>4. /\ reserved'[prev][a] = 0
            /\ \A u \in Users : u # prev => reserved'[u][a] = reserved[u][a]
        BY <4>1, <4>3, OtherEntries
      <4>5. QED BY <2>6, <4>4
    <3>3. QED BY <3>1, <3>2
  <2>8. QED BY <2>2, <2>7 DEF HoldsOf
<1>5. CASE Untouched(a)
  BY <1>1, <1>5 DEF Untouched
<1>6. QED BY <1>2, <1>3, <1>4, <1>5, AuctionMoves

\* Without cancellations every hold is the winning bid's it was taken for:
\* the holds of outbid users are released, and no hold is released or
\* captured twice, while activation and finalization do not outlive their
\* locks; the bid locks may be lost, and every server may die.
THEOREM HoldsAreTheLeaders ==
    ASSUME Cancellers = {}, "activate" \notin Overrun, "finalize" \notin Overrun
    PROVE  Spec => []HoldsMatchBids
<1>1. HoldsMatchBids <=> \A a \in Auctions : HoldsOf(a)
  BY DEF HoldsMatchBids, HoldsOf
<1>2. Init => HoldsMatchBids
  BY DEF Init, HoldsMatchBids, Leads, WinningBids
<1>3. Typed /\ Led /\ Settlement /\ FinalOnce /\ HoldsMatchBids /\ [Next]_vars => HoldsMatchBids'
  <2>1. HoldsMatchBids' <=> \A a \in Auctions : HoldsOf(a)'
    BY DEF HoldsMatchBids, HoldsOf
  <2>2. QED BY <1>1, <2>1, HoldsFollow
<1>4. QED BY <1>2, <1>3, TypedAlways, LedAlways, SettlementAlways, FinalOnceAlways, PTL DEF Spec

-----------------------------------------------------------------------------
(***************************************************************************)
(* The proxy promise, while no request outlives its bid lock: what the     *)
(* engine has answered a request is still true of the auction when the     *)
(* request commits, except for auto-bids that were cancelled meanwhile.    *)
(***************************************************************************)
\* An open request holds the lock of its auction.
LockHeld == \A h \in Handlers : handler[h] # Idle => bidLock[handler[h].auction] = h

\* A lock passes on only when its holder leaves, and a request that opens has
\* found the lock free.
LEMMA LockStaysHeld ==
    ASSUME Typed, "bid" \notin Overrun, LockHeld, [Next]_vars
    PROVE  LockHeld'
<1>1. ASSUME \A h \in Handlers : handler'[h] = handler[h] \/ handler'[h] = Idle,
             \A h \in Handlers : handler'[h] # Idle =>
                 bidLock'[handler[h].auction] = bidLock[handler[h].auction]
      PROVE  LockHeld'
  BY <1>1 DEF LockHeld
<1>2. ASSUME NEW g \in Handlers, handler' = [handler EXCEPT ![g] = Idle], handler[g] # Idle,
             UnlockBid(g, handler[g].auction)
      PROVE  LockHeld'
  <2>1. \A h \in Handlers : h # g => handler'[h] = handler[h]
    BY <1>2 DEF Typed, TypeOK
  <2>2. handler'[g] = Idle
    BY <1>2 DEF Typed, TypeOK
  <2>3. \A h \in Handlers : handler[h] # Idle => handler[h].auction \in Auctions
    BY RequestCarries
  <2>4. PICK b : b = handler[g].auction
    OBVIOUS
  <2>5. \A a \in Auctions : bidLock[a] # g => bidLock'[a] = bidLock[a]
    BY <1>2, <2>4 DEF UnlockBid, Typed, TypeOK
  <2>6. QED BY <2>1, <2>2, <2>3, <2>5 DEF LockHeld
<1>3. ASSUME NEW g \in Handlers, NEW a \in Auctions, NEW u \in Users, NEW n \in Offers,
             PlaceBid(g, a, u, n) \/ SetAutoBid(g, a, u, n)
      PROVE  LockHeld'
  <2>1. bidLock[a] = None /\ \E op, r, winning : Opened(g, op, a, u, n, winning, r)
    BY <1>3 DEF PlaceBid, SetAutoBid
  <2>2. /\ \A h \in Handlers : h # g => handler'[h] = handler[h]
        /\ handler'[g].auction = a /\ bidLock'[a] = g
        /\ \A b \in Auctions : b # a => bidLock'[b] = bidLock[b]
    BY <2>1 DEF Opened, Typed, TypeOK
  <2>3. \A h \in Handlers : handler[h] # Idle => handler[h].auction \in Auctions \ {a}
    BY <2>1, RequestCarries, ConstantsAssumption DEF LockHeld
  <2>4. QED BY <2>2, <2>3 DEF LockHeld
<1>4. ASSUME NEW g \in Handlers, Preflight(g) PROVE LockHeld'
  <2>1. \A h \in Handlers : handler[h] # Idle => handler'[h].auction = handler[h].auction
    BY <1>4, PreflightGoesOn DEF SameRequest
  <2>2. \A h \in Handlers : handler[h] = Idle => handler'[h] = Idle
    BY <1>4 DEF Preflight, Typed, TypeOK
  <2>3. UNCHANGED bidLock
    BY <1>4 DEF Preflight
  <2>4. QED BY <2>1, <2>2, <2>3 DEF LockHeld
<1>5. ASSUME NEW g \in Handlers,
             Replaces(g) \/ AutoBidStored(g) \/ AbortBid(g)
      PROVE  LockHeld'
  <2>1. handler[g] # Idle
    BY <1>5 DEF Replaces, ManualBidWins, AutoBidAnswers, AutoBidTakesOver, AutoBidStored,
                AbortBid, Ready
  <2>2. AbortBid(g) \/ \E docs : Commit(g, docs)
    BY <1>5 DEF Replaces, ManualBidWins, AutoBidAnswers, AutoBidTakesOver, AutoBidStored
  <2>3. handler' = [handler EXCEPT ![g] = Idle] /\ UnlockBid(g, handler[g].auction)
    BY <2>2 DEF Commit, AbortBid
  <2>4. QED BY <1>2, <2>1, <2>3
<1>6. ASSUME NEW g \in Handlers, CrashBid(g) PROVE LockHeld'
  <2>1. UNCHANGED bidLock /\ \A h \in Handlers : handler'[h] = handler[h] \/ handler'[h] = Idle
    BY <1>6 DEF CrashBid, Typed, TypeOK
  <2>2. QED BY <1>1, <2>1
<1>7. ASSUME NEW a \in Auctions, BidLockExpires(a) PROVE LockHeld'
  <2>1. /\ UNCHANGED handler /\ bidLock' = [bidLock EXCEPT ![a] = None]
        /\ bidLock[a] # None
        /\ ~(handler[bidLock[a]] # Idle /\ handler[bidLock[a]].auction = a)
    BY <1>7 DEF BidLockExpires
  <2>2. \A h \in Handlers : handler[h] # Idle => handler[h].auction \in Auctions \ {a}
    BY <2>1, RequestCarries DEF LockHeld
  <2>3. \A b \in Auctions : b # a => bidLock'[b] = bidLock[b]
    BY <2>1 DEF Typed, TypeOK
  <2>4. QED BY <2>1, <2>2, <2>3 DEF LockHeld
<1>8. ASSUME UNCHANGED <<handler, bidLock>> PROVE LockHeld'
  BY <1>8 DEF LockHeld
<1>9. CASE BidStep
  <2>1. ASSUME NEW a \in Auctions, NEW u \in Users, CancelAutoBid(a, u)
        PROVE  UNCHANGED <<handler, bidLock>>
    BY SMTT(20), <2>1 DEF CancelAutoBid
  <2>2. QED BY <1>3, <1>4, <1>5, <1>6, <1>7, <1>8, <1>9, <2>1 DEF BidStep, Replaces
<1>10. CASE CancelStep
  BY <1>8, <1>10 DEF CancelStep, RequestCancel, CommitCancel, AbortCancel
<1>11. CASE CronStep
  <2>1. ASSUME NEW c \in Crons, NEW a \in Auctions, Activate(c, a) \/ End(c, a) \/ Finalize(c, a)
        PROVE  UNCHANGED <<handler, bidLock>>
    <3>1. CASE Activate(c, a) \/ End(c, a)
      BY <3>1 DEF Activate, End
    <3>2. CASE Finalize(c, a)
      BY <3>2 DEF Finalize
    <3>3. QED BY <2>1, <3>1, <3>2
  <2>2. QED BY <1>8, <1>11, <2>1 DEF CronStep, StartJob, Skip, CrashJob, CronLockExpires
<1>12. CASE UNCHANGED vars
  BY <1>8, <1>12 DEF vars
<1>13. QED BY <1>9, <1>10, <1>11, <1>12 DEF Next

\* Spending auto-bids leaves their ceilings, and the active ones are the
\* others.
LEMMA SpendKeeps ==
    ASSUME NEW row \in [Users -> AutoBidFields], NEW spent, NEW u \in Users
    PROVE  /\ Spend(row, spent)[u].max = row[u].max
           /\ Spend(row, spent)[u].status = "ACTIVE" <=> u \notin spent /\ row[u].status = "ACTIVE"
<1>1. row[u] \in AutoBidFields
  OBVIOUS
<1>2. /\ [row[u] EXCEPT !.status = "EXHAUSTED"].max = row[u].max
      /\ [row[u] EXCEPT !.status = "EXHAUSTED"].status = "EXHAUSTED"
  BY <1>1 DEF AutoBidFields
<1>3. QED BY <1>2 DEF Spend

\* Nobody bids on the auction and no auto-bid of it is set.
Calm(a) ==
    /\ bids'[a] = bids[a] /\ auctions'[a].price = auctions[a].price
    /\ \A u \in Users : /\ autobids'[a][u].max = autobids[a][u].max
                        /\ autobids'[a][u].status = "ACTIVE" => autobids[a][u].status = "ACTIVE"

\* Only the commit of a request of the auction disturbs it.
LEMMA CalmUnless ==
    ASSUME Typed, Led, [Next]_vars, NEW a \in Auctions,
           \A h \in Handlers : handler[h].auction = a => ~Replaces(h) /\ ~AutoBidStored(h)
    PROVE  Calm(a)
<1> DEFINE Kept == \A u \in Users :
                      /\ autobids'[a][u].max = autobids[a][u].max
                      /\ autobids'[a][u].status = "ACTIVE" => autobids[a][u].status = "ACTIVE"
<1>1. bids'[a] = bids[a] /\ auctions'[a].price = auctions[a].price
  <2>1. ASSUME NEW h \in Handlers, Replaces(h) PROVE bids'[a] = bids[a] /\ auctions'[a] = auctions[a]
    <3>1. PICK b \in Auctions, winning \in FoundWinning(handler[h].auction), w \in Users, n \in Nat :
             \E lost \in Seq(BidFields) : b = handler[h].auction /\ BidsAppended(b, w, n, lost)
      BY <2>1, Replaced
    <3>2. a # b
      BY <2>1, <3>1
    <3>3. QED BY <3>1, <3>2 DEF BidsAppended
  <2>2. QED BY <2>1, BidsOnlyByCommits
<1>2. ASSUME UNCHANGED autobids PROVE Kept
  BY <1>2
<1>3. ASSUME NEW h \in Handlers, Replaces(h) \/ AutoBidStored(h) PROVE Kept
  <2>1. PICK b : b = handler[h].auction
    BY SMTT(20)
  <2>2. \E row : autobids' = [autobids EXCEPT ![b] = row]
    BY <1>3, <2>1 DEF Replaces, ManualBidWins, AutoBidAnswers, AutoBidTakesOver, AutoBidStored
  <2>3. autobids'[a] = autobids[a]
    BY <1>3, <2>1, <2>2 DEF Typed, TypeOK
  <2>4. QED BY <2>3
<1>4. ASSUME NEW c \in Crons, NEW b \in Auctions, Finalize(c, b) PROVE Kept
  <2>1. autobids' = [autobids EXCEPT ![b] = Spend(@, ActiveUsers(b))]
    BY <1>4 DEF Finalize
  <2>2. autobids[a] \in [Users -> AutoBidFields]
    BY DEF Typed, TypeOK
  <2>3. autobids'[a] = autobids[a] \/ autobids'[a] = Spend(autobids[a], ActiveUsers(b))
    BY <2>1 DEF Typed, TypeOK
  <2>4. QED BY <2>2, <2>3, SpendKeeps
<1>5. ASSUME NEW b \in Auctions, NEW u \in Users, CancelAutoBid(b, u) PROVE Kept
  <2> DEFINE off == [autobids[b][u] EXCEPT !.status = "CANCELLED"]
  <2>1. autobids[b][u] \in AutoBidFields
    BY DEF Typed, TypeOK
  <2>2. off.max = autobids[b][u].max /\ off.status = "CANCELLED"
    BY <2>1 DEF AutoBidFields
  <2>3. autobids' = [autobids EXCEPT ![b] = [@ EXCEPT ![u] = off]]
    BY <1>5 DEF CancelAutoBid
  <2> HIDE DEF off
  <2>4. \A v \in Users : autobids'[a][v] = IF a = b /\ v = u THEN off ELSE autobids[a][v]
    BY <2>3 DEF Typed, TypeOK
  <2>5. QED BY <2>2, <2>4
<1>6. CASE BidStep
  <2>1. ASSUME NEW g \in Handlers, NEW b \in Auctions, NEW u \in Users, NEW n \in Offers,
               PlaceBid(g, b, u, n) \/ SetAutoBid(g, b, u, n)
        PROVE  UNCHANGED autobids
    <3>1. \E op, r, winning : Opened(g, op, b, u, n, winning, r)
      BY <2>1 DEF PlaceBid, SetAutoBid
    <3>2. QED BY <3>1 DEF Opened
  <2>2. ASSUME NEW g \in Handlers, Preflight(g) \/ AbortBid(g) \/ CrashBid(g)
        PROVE  UNCHANGED autobids
    BY <2>2 DEF Preflight, AbortBid, CrashBid
  <2>3. ASSUME NEW b \in Auctions, BidLockExpires(b) PROVE UNCHANGED autobids
    BY <2>3 DEF BidLockExpires
  <2> HIDE DEF Kept
  <2>4. Kept
    BY <1>2, <1>3, <1>5, <1>6, <2>1, <2>2, <2>3 DEF BidStep, Replaces
  <2>5. QED BY <1>1, <2>4 DEF Kept, Calm
<1>7. CASE CancelStep
  <2>1. UNCHANGED autobids
    BY <1>7 DEF CancelStep, RequestCancel, CommitCancel, AbortCancel
  <2>2. QED BY SMTT(20), <1>1, <1>2, <2>1 DEF Calm
<1>8. CASE CronStep
  <2>1. UNCHANGED autobids \/ \E c \in Crons, b \in Auctions : Finalize(c, b)
    BY <1>8 DEF CronStep, StartJob, Activate, End, Skip, CrashJob, CronLockExpires
  <2>2. QED BY <1>1, <1>2, <1>4, <2>1 DEF Calm
<1>9. CASE UNCHANGED vars
  BY <1>1, <1>2, <1>9 DEF vars, Calm
<1>10. QED BY <1>6, <1>7, <1>8, <1>9 DEF Next

\* Nobody is left who could still place a bid, on one auction.
PromiseOf(a) ==
    \A u \in ActiveUsers(a) :
        Leads(u, a) \/ autobids[a][u].max < auctions[a].price + Increment[a]

\* An auction nobody has bid on is at its starting price.
StartsAt == \A a \in Auctions : WinningBids(a) = {} => auctions[a].price = StartingPrice[a]

\* What a manual bid has been answered is still so: it is no lower than the
\* price, only the answering auto-bid can be the leader's and reach it, and
\* that auto-bid can pay.
BidAnswered(a, n, r) ==
    /\ n >= auctions[a].price
    /\ \A u \in ActiveUsers(a) : Leads(u, a) => \/ autobids[a][u].max < n
                                                \/ r.auto /\ r.winner = u
    /\ r.auto => r.amount >= n /\ r.amount <= autobids[a][r.winner].max

\* What a new auto-bid has been answered is still so: its user leads, or every
\* active auto-bid is spent but the winner's, which can pay.
AutoBidAnswered(a, u, n, r) ==
    /\ r.creates = {} => Leads(u, a)
    /\ r.creates # {} => /\ ActiveUsers(a) \cup {u} \subseteq r.exhausted \cup {r.winner}
                         /\ r.amount <= IF r.winner = u THEN n ELSE autobids[a][r.winner].max

\* The plan of an open request answers the auto-bids that are active.
Answered(h) ==
    /\ handler[h].op = "placeBid" =>
          BidAnswered(handler[h].auction, handler[h].amount, handler[h].result)
    /\ handler[h].op = "setAutoBid" =>
          AutoBidAnswered(handler[h].auction, handler[h].user, handler[h].amount, handler[h].result)

\* The invariant behind the promise of an auto-bid.
Promise ==
    /\ LockHeld /\ StartsAt
    /\ \A a \in Auctions : PromiseOf(a)
    /\ \A h \in Handlers : handler[h] # Idle => Answered(h)

\* While nobody bids on an auction and no auto-bid of it is set, the promise
\* and the answers stay true.
LEMMA CalmKeeps ==
    ASSUME NEW a, Calm(a), Typed, a \in Auctions
    PROVE  /\ PromiseOf(a) => PromiseOf(a)'
           /\ \A n, r : r.winner \in Users /\ BidAnswered(a, n, r) => BidAnswered(a, n, r)'
           /\ \A u, n, r : r.winner \in Users /\ AutoBidAnswered(a, u, n, r) => AutoBidAnswered(a, u, n, r)'
<1>1. ActiveUsers(a)' \subseteq ActiveUsers(a) /\ ActiveUsers(a) \subseteq Users
  BY DEF Calm, ActiveUsers
<1>2. \A u : Leads(u, a)' <=> Leads(u, a)
  BY DEF Calm, Leads, WinningBids
<1>3. /\ \A u \in Users : autobids'[a][u].max = autobids[a][u].max
      /\ auctions'[a].price = auctions[a].price
  BY DEF Calm
<1>4. PromiseOf(a) => PromiseOf(a)'
  BY <1>1, <1>2, <1>3 DEF PromiseOf
<1>5. ASSUME NEW n, NEW r, r.winner \in Users, BidAnswered(a, n, r) PROVE BidAnswered(a, n, r)'
  BY <1>1, <1>2, <1>3, <1>5 DEF BidAnswered
<1>6. ASSUME NEW u, NEW n, NEW r, r.winner \in Users, AutoBidAnswered(a, u, n, r)
      PROVE  AutoBidAnswered(a, u, n, r)'
  <2>1. r.creates = {} => Leads(u, a)'
    BY <1>2, <1>6 DEF AutoBidAnswered
  <2>2. r.creates # {} => /\ ActiveUsers(a)' \cup {u} \subseteq r.exhausted \cup {r.winner}
                          /\ r.amount <= IF r.winner = u THEN n ELSE autobids'[a][r.winner].max
    BY <1>1, <1>3, <1>6 DEF AutoBidAnswered
  <2>3. QED BY <2>1, <2>2 DEF AutoBidAnswered
<1>7. QED BY <1>4, <1>5, <1>6

\* A step that opens a request.
LEMMA Opening ==
    ASSUME Typed, NEW h \in Handlers, NEW op, NEW a \in Auctions, NEW u, NEW n, NEW winning, NEW r,
           Opened(h, op, a, u, n, winning, r)
    PROVE  /\ handler'[h].op = op /\ handler'[h].auction = a /\ handler'[h].user = u
           /\ handler'[h].amount = n /\ handler'[h].winning = winning /\ handler'[h].result = r
           /\ \A g \in Handlers : g # h => handler'[g] = handler[g]
           /\ UNCHANGED <<auctions, bids, autobids>>
           /\ \A b : Calm(b)
BY DEF Opened, Typed, TypeOK, Calm

\* The engine's answer to a manual bid, given that the promise held before:
\* an auto-bid that reaches the bid is the leader's.
LEMMA BidOpensAnswered ==
    ASSUME Typed, Led, StartsAt, NEW h \in Handlers, NEW a \in Auctions, NEW u \in Users, NEW n \in Offers,
           PlaceBid(h, a, u, n), PromiseOf(a)
    PROVE  Answered(h)'
<1>1. PICK winning \in FoundWinning(a) :
        /\ winning # 0 => bids[a][winning].bidder # u
        /\ n >= MinimumRequired(a, winning)
        /\ Opened(h, "placeBid", a, u, n, winning,
                  AfterManualBid(ActiveAutoBids(a), Increment[a], u, n))
  BY DEF PlaceBid
<1>2. PICK r, S : S = ActiveAutoBids(a) /\ r = AfterManualBid(S, Increment[a], u, n)
  OBVIOUS
<1>3. /\ n \in Nat /\ Increment[a] \in Nat \ {0} /\ StartingPrice[a] \in Nat /\ auctions[a].price \in Nat
      /\ \A v \in Users : autobids[a][v].max \in Nat
  <2>1. \A v \in Users : autobids[a][v] \in AutoBidFields
    BY DEF Typed, TypeOK
  <2>2. QED BY <2>1, ConstantsAssumption DEF Typed, TypeOK, AuctionFields, AutoBidFields
<1>4. S \subseteq CandidatesOf(Users) /\ IsFiniteSet(S)
  <2>1. ActiveUsers(a) \in SUBSET Users
    BY DEF ActiveUsers
  <2>2. QED BY <1>2, <2>1, CandidatesTyped DEF ActiveAutoBids, Typed, TypeOK
<1>5. /\ \A v \in ActiveUsers(a) : \E x \in S : x.user = v /\ x.max = autobids[a][v].max
      /\ \A x \in S : x.user \in ActiveUsers(a) /\ x.max = autobids[a][x.user].max
  <2>1. \A v : Candidate(a, v).user = v /\ Candidate(a, v).max = autobids[a][v].max
    BY DEF Candidate
  <2>2. S = {Candidate(a, v) : v \in ActiveUsers(a)}
    BY <1>2 DEF ActiveAutoBids
  <2>3. QED BY <2>1, <2>2
<1>6. /\ ~r.auto => \A x \in S : x.user # u => x.max < n
      /\ r.auto => \E x \in S : x.user = r.winner /\ x.user # u /\ n <= x.max /\ r.amount <= x.max
      /\ r.amount >= n
  <2>1. Increment[a] \in Nat
    BY <1>3
  <2>2. r.amount >= n
    BY <1>2, <1>3, <1>4, <2>1, ManualBidAnswer
  <2>3. /\ ~r.auto => \A x \in S : x.user # u => x.max < n
        /\ r.auto => \E x \in S : /\ x.user = r.winner /\ x.user # u
                                  /\ n <= x.max /\ r.amount <= x.max
                                  /\ \A y \in S : y.user # u => Precedes(x, y)
    BY <1>2, <1>3, <1>4, <2>1, ManualBidLeaves
  <2>4. QED BY <2>2, <2>3
<1>7. /\ winning = 0 => n >= StartingPrice[a] /\ WinningBids(a) = {}
      /\ winning # 0 => n >= auctions[a].price + Increment[a]
  <2>1. winning = 0 => WinningBids(a) = {}
    BY DEF FoundWinning, WinningBids, Typed, TypeOK
  <2>2. QED BY <1>1, <2>1 DEF MinimumRequired
<1>8. n >= auctions[a].price
  BY <1>3, <1>7 DEF StartsAt
<1>9. r.auto => r.winner \in ActiveUsers(a) /\ n <= autobids[a][r.winner].max
                /\ r.amount <= autobids[a][r.winner].max
  BY <1>5, <1>6
<1>10. ASSUME NEW v \in ActiveUsers(a), Leads(v, a), autobids[a][v].max >= n
       PROVE  r.auto /\ r.winner = v
  <2>1. winning # 0 /\ v # u
    <3>1. winning # 0
      BY <1>7, <1>10 DEF Leads
    <3>2. v = bids[a][winning].bidder
      BY <1>10, <3>1, LeaderFound DEF ActiveUsers
    <3>3. QED BY <1>1, <3>1, <3>2
  <2>2. r.auto
    BY <1>3, <1>5, <1>6, <1>10, <2>1 DEF ActiveUsers
  <2>3. Leads(r.winner, a)
    <3>1. r.winner \in Users
      BY <1>9, <2>2 DEF ActiveUsers
    <3>2. autobids[a][r.winner].max >= auctions[a].price + Increment[a]
      BY <1>3, <1>7, <1>9, <2>1, <2>2, <3>1
    <3>3. QED BY <1>3, <1>9, <2>2, <3>1, <3>2 DEF PromiseOf
  <2>4. r.winner = v
    <3>1. r.winner \in Users /\ v \in Users
      BY <1>9, <2>2 DEF ActiveUsers
    <3>2. r.winner = bids[a][winning].bidder /\ v = bids[a][winning].bidder
      BY <1>10, <2>1, <2>3, <3>1, LeaderFound
    <3>3. QED BY <3>2
  <2>5. QED BY <2>2, <2>4
<1>11. BidAnswered(a, n, r)
  <2>1. \A v \in ActiveUsers(a) : autobids[a][v].max \in Nat
    BY <1>3 DEF ActiveUsers
  <2>2. QED BY <1>3, <1>6, <1>8, <1>9, <1>10, <2>1 DEF BidAnswered
<1>12. BidAnswered(a, n, r)'
  <2>1. UNCHANGED <<auctions, bids, autobids>>
    BY <1>1, Opening
  <2>2. QED BY <1>11, <2>1 DEF BidAnswered, ActiveUsers, Leads, WinningBids
<1>13. handler'[h].op = "placeBid" /\ handler'[h].auction = a /\ handler'[h].amount = n /\ handler'[h].result = r
  <2>1. Opened(h, "placeBid", a, u, n, winning, r)
    BY <1>1, <1>2
  <2>2. QED BY <2>1, Opening
<1>14. QED BY <1>12, <1>13 DEF Answered, BidAnswered, ActiveUsers, Leads, WinningBids

\* The engine's answer to a new auto-bid: its user leads, or all active
\* auto-bids are spent but the winner's, which can pay.
LEMMA AutoBidOpensAnswered ==
    ASSUME Typed, Led, NEW h \in Handlers, NEW a \in Auctions, NEW u \in Users, NEW n \in Offers,
           SetAutoBid(h, a, u, n)
    PROVE  Answered(h)'
<1> DEFINE kept == {Candidate(a, v) : v \in ActiveUsers(a) \ {u}}
           own == [user |-> u, max |-> n, born |-> Birth(a, u)]
           active == kept \cup {own}
<1>1. PICK winning \in FoundWinning(a) :
        /\ n >= MinimumRequired(a, winning)
        /\ Opened(h, "setAutoBid", a, u, n, winning,
                  AfterAutoBid(active, StartingPrice[a], Increment[a],
                      IF winning = 0 THEN StartingPrice[a] ELSE auctions[a].price,
                      winning # 0,
                      IF winning = 0 THEN None ELSE bids[a][winning].bidder))
  BY DEF SetAutoBid
<1>2. PICK price, hasBid, leader, r :
        /\ price = IF winning = 0 THEN StartingPrice[a] ELSE auctions[a].price
        /\ hasBid = (winning # 0)
        /\ leader = IF winning = 0 THEN None ELSE bids[a][winning].bidder
        /\ r = AfterAutoBid(active, StartingPrice[a], Increment[a], price, hasBid, leader)
  OBVIOUS
<1>3. /\ n \in Nat /\ Increment[a] \in Nat \ {0} /\ StartingPrice[a] \in Nat
      /\ auctions[a].price \in Nat /\ price \in Nat /\ hasBid \in BOOLEAN
  BY <1>2, ConstantsAssumption DEF Typed, TypeOK, AuctionFields
<1>4. active \subseteq CandidatesOf(Users) /\ IsFiniteSet(active) /\ active # {}
  <2>1. ActiveUsers(a) \ {u} \in SUBSET Users
    BY DEF ActiveUsers
  <2>2. kept \in SUBSET CandidatesOf(Users) /\ IsFiniteSet(kept)
    BY <2>1, CandidatesTyped DEF Typed, TypeOK
  <2>3. own \in CandidatesOf(Users)
    BY <1>3, BirthTyped DEF CandidatesOf, Typed, TypeOK
  <2> HIDE DEF kept, own
  <2>4. QED BY <2>2, <2>3, FS_AddElement
<1>5. /\ own \in active /\ own.max = n /\ own.user = u
      /\ \A v \in ActiveUsers(a) \ {u} : \E x \in active : x.user = v
      /\ \A x \in active : x = own \/ (x.user # u /\ x.max = autobids[a][x.user].max)
  <2>1. \A v : Candidate(a, v).user = v /\ Candidate(a, v).max = autobids[a][v].max
    BY DEF Candidate
  <2>2. QED BY <2>1
<1>6. n >= IF hasBid THEN price + Increment[a] ELSE StartingPrice[a]
  BY <1>1, <1>2 DEF MinimumRequired
<1>7. Opened(h, "setAutoBid", a, u, n, winning, r)
  BY <1>1, <1>2
<1> HIDE DEF active, own, kept
<1>8. PICK start \in Nat, inc \in Nat \ {0} : start = StartingPrice[a] /\ inc = Increment[a]
  BY <1>3
<1>9. /\ r = AfterAutoBid(active, start, inc, price, hasBid, leader)
      /\ inc \in Nat /\ \E x \in active : x.max >= IF hasBid THEN price + inc ELSE start
  BY <1>2, <1>5, <1>6, <1>8
<1>10. /\ r.creates # {} => UsersOf(active) \subseteq r.exhausted \cup {r.winner}
       /\ r.creates = {} => /\ hasBid /\ r.winner = leader
                            /\ \A x \in active : x.user = leader \/ x.max < price
  <2>1. /\ active \subseteq CandidatesOf(Users) /\ IsFiniteSet(active) /\ active # {}
        /\ start \in Nat /\ inc \in Nat /\ price \in Nat /\ hasBid \in BOOLEAN
        /\ r = AfterAutoBid(active, start, inc, price, hasBid, leader)
    BY <1>3, <1>4, <1>8, <1>9
  <2>2. QED BY <2>1, AutoBidLeaves
<1>11. /\ r.creates # {} => /\ \E x \in active : x.user = r.winner /\ r.amount <= x.max
                            /\ hasBid => r.amount > price
       /\ \A v \in r.exhausted : \E x \in active : x.user = v /\ x.max <= r.amount
       /\ \A x \in active : \/ x.user = r.winner
                            \/ x.user \in r.exhausted
                            \/ x.max < r.amount + inc
  <2>1. /\ active \subseteq CandidatesOf(Users) /\ IsFiniteSet(active) /\ active # {}
        /\ start \in Nat /\ inc \in Nat \ {0} /\ price \in Nat /\ hasBid \in BOOLEAN
        /\ \E x \in active : x.max >= IF hasBid THEN price + inc ELSE start
        /\ r = AfterAutoBid(active, start, inc, price, hasBid, leader)
    BY <1>3, <1>4, <1>8, <1>9
  <2>2. QED BY <2>1, AutoBidAnswer
<1>12. r.creates = {} => Leads(u, a)
  <2>1. SUFFICES ASSUME r.creates = {} PROVE Leads(u, a)
    OBVIOUS
  <2>2. winning # 0 /\ (own.user = leader \/ own.max < price)
    BY <1>2, <1>5, <1>10, <2>1
  <2>3. u = bids[a][winning].bidder
    <3>1. ~(own.max < price)
      BY <1>3, <1>5, <1>6, <1>10, <2>1
    <3>2. QED BY <1>2, <1>5, <2>2, <3>1
  <2>4. QED BY <2>2, <2>3, LeaderFound
<1>13. r.creates # {} => /\ ActiveUsers(a) \cup {u} \subseteq r.exhausted \cup {r.winner}
                         /\ r.amount <= IF r.winner = u THEN n ELSE autobids[a][r.winner].max
  <2>1. ActiveUsers(a) \cup {u} \subseteq UsersOf(active)
    BY <1>5 DEF UsersOf
  <2>2. QED BY <1>5, <1>10, <1>11, <2>1
<1>14. AutoBidAnswered(a, u, n, r)'
  <2>1. UNCHANGED <<auctions, bids, autobids>>
    BY <1>7, Opening
  <2>2. QED BY <1>12, <1>13, <2>1 DEF AutoBidAnswered, ActiveUsers, Leads, WinningBids
<1>15. /\ handler'[h].op = "setAutoBid" /\ handler'[h].auction = a /\ handler'[h].user = u
       /\ handler'[h].amount = n /\ handler'[h].result = r
  BY <1>7, Opening
<1>16. QED BY <1>14, <1>15 DEF Answered, AutoBidAnswered, ActiveUsers, Leads, WinningBids

\* Who leads after a commit that replaces the leader, for what price and by
\* which bid.
LEMMA NewLead ==
    ASSUME Typed, Led, NEW h \in Handlers, Replaces(h),
           NEW a \in Auctions, a = handler[h].auction, NEW found, found = handler[h].winning,
           NEW w \in Users, NEW n \in Nat, NEW lost \in Seq(BidFields),
           \A i \in DOMAIN lost : lost[i].status = "OUTBID",
           TakeOver(a, found, w, n, lost)
    PROVE  /\ \A u \in Users : Leads(u, a)' <=> u = w
           /\ auctions'[a].price = n
           /\ WinningBids(a)' # {}
           /\ bids'[a][Len(bids'[a])] = NewBid(w, n, "WINNING")
<1>1. PICK winning \in FoundWinning(a) : winning = handler[h].winning
  BY Replaced
<1>2. BidsAppended(a, w, n, lost)
  BY <1>1, TakeOverBids DEF Typed, Led
<1>3. (\A u \in Users : Leads(u, a)' <=> u = w) /\ auctions'[a].price = n
  BY <1>2, NewLeader
<1>4. WinningBids(a)' # {}
  <2>1. Leads(w, a)'
    BY <1>3
  <2>2. QED BY <2>1 DEF Leads
<1>5. Len(bids[a]) \in Nat /\ Len(lost) \in Nat
  BY LenProperties DEF Typed, TypeOK
<1>6. bids'[a][Len(bids'[a])] = NewBid(w, n, "WINNING")
  BY <1>2, <1>5 DEF BidsAppended
<1>7. QED BY <1>3, <1>4, <1>6

\* What the request that commits leaves behind, in each of the four ways it
\* can commit.
LEMMA CommitKeepsPromise ==
    ASSUME Typed, Led, NEW h \in Handlers, Replaces(h) \/ AutoBidStored(h),
           NEW a \in Auctions, a = handler[h].auction, PromiseOf(a), Answered(h)
    PROVE  /\ PromiseOf(a)'
           /\ Replaces(h) => WinningBids(a)' # {}
<1>1. PICK t, r : t = handler[h] /\ r = t.result
  OBVIOUS
<1>2. handler[h] # Idle
  BY DEF Replaces, ManualBidWins, AutoBidAnswers, AutoBidTakesOver, AutoBidStored, Ready
<1>3. /\ a = t.auction /\ t.user \in Users /\ t.amount \in Nat
      /\ r.winner \in Users /\ r.amount \in Nat
  BY <1>1, <1>2, RequestCarries
<1>4. PICK none : none = <<>>
  OBVIOUS
<1>4a. none \in Seq(BidFields) /\ \A i \in DOMAIN none : none[i].status = "OUTBID"
  BY <1>4, EmptySeq
<1>5. /\ auctions[a].price \in Nat /\ Increment[a] \in Nat
      /\ autobids[a] \in [Users -> AutoBidFields]
      /\ \A v \in Users : autobids[a][v].max \in Nat
  <2>1. \A v \in Users : autobids[a][v] \in AutoBidFields
    BY DEF Typed, TypeOK
  <2>2. QED BY <2>1, ConstantsAssumption DEF Typed, TypeOK, AuctionFields, AutoBidFields
<1>6. ASSUME NEW row \in [Users -> AutoBidFields], NEW spent, autobids' = [autobids EXCEPT ![a] = Spend(row, spent)]
      PROVE  /\ ActiveUsers(a)' = {v \in Users : v \notin spent /\ row[v].status = "ACTIVE"}
             /\ \A v \in Users : autobids'[a][v].max = row[v].max
  <2>1. autobids'[a] = Spend(row, spent)
    BY <1>6 DEF Typed, TypeOK
  <2>2. QED BY <2>1, SpendKeeps DEF ActiveUsers
<1>7. CASE ManualBidWins(h)
  <2>1. PICK spent : /\ spent = r.exhausted \cup (IF r.auto THEN {r.winner} ELSE {})
                     /\ autobids' = [autobids EXCEPT ![a] = Spend(autobids[a], spent)]
    BY <1>1, <1>3, <1>7 DEF ManualBidWins
  <2>2. /\ ActiveUsers(a)' = {v \in Users : v \notin spent /\ autobids[a][v].status = "ACTIVE"}
        /\ \A v \in Users : autobids'[a][v].max = autobids[a][v].max
    <3>1. PICK row \in [Users -> AutoBidFields] :
             row = autobids[a] /\ autobids' = [autobids EXCEPT ![a] = Spend(row, spent)]
      BY <1>5, <2>1
    <3>2. /\ ActiveUsers(a)' = {v \in Users : v \notin spent /\ row[v].status = "ACTIVE"}
          /\ \A v \in Users : autobids'[a][v].max = row[v].max
      BY <1>6, <3>1
    <3>3. QED BY <3>1, <3>2
  <2>3. PICK w, n, found :
           /\ w = t.user /\ n = t.amount /\ found = handler[h].winning
           /\ TakeOver(a, found, w, n, none) /\ Replaces(h)
    BY <1>1, <1>3, <1>4, <1>7 DEF ManualBidWins, Replaces
  <2>4. auctions'[a].price = t.amount /\ WinningBids(a)' # {}
    <3>1. w \in Users /\ n \in Nat
      BY <1>3, <2>3
    <3>2. QED BY <1>4a, <2>3, <3>1, NewLead
  <2>5. BidAnswered(a, t.amount, r)
    BY <1>1, <1>3, <1>7 DEF ManualBidWins, Ready, Answered
  <2>6. ASSUME NEW v \in ActiveUsers(a)' PROVE autobids'[a][v].max < auctions'[a].price + Increment[a]
    <3>1. v \in Users /\ v \in ActiveUsers(a) /\ v \notin spent
      BY <2>2, <2>6 DEF ActiveUsers
    <3>2. autobids[a][v].max < t.amount \/ autobids[a][v].max < auctions[a].price + Increment[a]
      BY <2>1, <2>5, <3>1 DEF BidAnswered, PromiseOf
    <3>3. auctions[a].price <= t.amount
      BY <1>3, <1>5, <2>5 DEF BidAnswered
    <3>4. autobids'[a][v].max = autobids[a][v].max /\ auctions'[a].price = t.amount
      BY <2>2, <2>4, <3>1
    <3>5. autobids[a][v].max \in Nat
      BY <1>5, <3>1
    <3>6. QED BY <1>3, <1>5, <3>2, <3>3, <3>4, <3>5
  <2>7. QED BY <2>4, <2>6 DEF PromiseOf
<1>8. CASE AutoBidAnswers(h)
  <2>1. PICK lost : lost = <<NewBid(t.user, t.amount, "OUTBID")>>
    OBVIOUS
  <2>2. lost \in Seq(BidFields) /\ \A i \in DOMAIN lost : lost[i].status = "OUTBID"
    BY <1>3, <2>1 DEF NewBid, BidFields
  <2>3. /\ r.auto /\ autobids' = [autobids EXCEPT ![a] = Spend(autobids[a], r.exhausted)]
    BY <1>1, <1>3, <1>8 DEF AutoBidAnswers
  <2>4. /\ ActiveUsers(a)' = {v \in Users : v \notin r.exhausted /\ autobids[a][v].status = "ACTIVE"}
        /\ \A v \in Users : autobids'[a][v].max = autobids[a][v].max
    BY <1>5, <1>6, <2>3
  <2>5. PICK w, n, found :
           /\ w = r.winner /\ n = r.amount /\ found = handler[h].winning
           /\ TakeOver(a, found, w, n, lost) /\ Replaces(h)
    BY <1>1, <1>3, <1>8, <2>1 DEF AutoBidAnswers, Replaces
  <2>6. /\ auctions'[a].price = r.amount /\ WinningBids(a)' # {}
        /\ \A u \in Users : Leads(u, a)' <=> u = r.winner
    <3>1. w \in Users /\ n \in Nat
      BY <1>3, <2>5
    <3>2. QED BY <2>2, <2>5, <3>1, NewLead
  <2>7. BidAnswered(a, t.amount, r)
    BY <1>1, <1>3, <1>8 DEF AutoBidAnswers, Ready, Answered
  <2>8. ASSUME NEW v \in ActiveUsers(a)', ~Leads(v, a)'
        PROVE  autobids'[a][v].max < auctions'[a].price + Increment[a]
    <3>1. v \in Users /\ v \in ActiveUsers(a)
      BY <2>4, <2>8 DEF ActiveUsers
    <3>2. v # r.winner
      BY <2>6, <2>8, <3>1
    <3>3. autobids[a][v].max < t.amount \/ autobids[a][v].max < auctions[a].price + Increment[a]
      BY <2>7, <3>1, <3>2 DEF BidAnswered, PromiseOf
    <3>4. auctions[a].price <= t.amount /\ t.amount <= r.amount
      BY <1>3, <1>5, <2>3, <2>7 DEF BidAnswered
    <3>5. autobids'[a][v].max = autobids[a][v].max /\ auctions'[a].price = r.amount
      BY <2>4, <2>6, <3>1
    <3>6. autobids[a][v].max \in Nat
      BY <1>5, <3>1
    <3>7. QED BY <1>3, <1>5, <3>3, <3>4, <3>5, <3>6
  <2>9. QED BY <2>6, <2>8 DEF PromiseOf
<1>9. ASSUME t.op = "setAutoBid"
      PROVE  /\ AutoBidAnswered(a, t.user, t.amount, r)
             /\ Upserted(a, t.user, t.amount) \in [Users -> AutoBidFields]
             /\ \A v \in Users : /\ v # t.user => Upserted(a, t.user, t.amount)[v] = autobids[a][v]
                                 /\ v = t.user => Upserted(a, t.user, t.amount)[v].max = t.amount
  <2>1. AutoBidAnswered(a, t.user, t.amount, r)
    BY <1>1, <1>3, <1>9 DEF Answered
  <2>2. Upserted(a, t.user, t.amount) \in [Users -> AutoBidFields]
    BY <1>3, UpsertedTyped DEF Typed, TypeOK
  <2>3. \A v \in Users : /\ v # t.user => Upserted(a, t.user, t.amount)[v] = autobids[a][v]
                         /\ v = t.user => Upserted(a, t.user, t.amount)[v].max = t.amount
    BY <1>3, <1>5 DEF Upserted
  <2>4. QED BY <2>1, <2>2, <2>3
<1>10. CASE AutoBidTakesOver(h)
  <2>1. t.op = "setAutoBid"
    BY <1>1, <1>10 DEF AutoBidTakesOver, Ready
  <2>2. PICK row : row = Upserted(a, t.user, t.amount)
    OBVIOUS
  <2>3. r.creates # {} /\ autobids' = [autobids EXCEPT ![a] = Spend(row, r.exhausted)]
    BY <1>1, <1>3, <1>10, <2>2 DEF AutoBidTakesOver
  <2>4. row \in [Users -> AutoBidFields] /\ \A v \in Users : v # t.user => row[v] = autobids[a][v]
    BY <1>9, <2>1, <2>2
  <2>5. ActiveUsers(a)' = {v \in Users : v \notin r.exhausted /\ row[v].status = "ACTIVE"}
    BY <1>6, <2>3, <2>4
  <2>6. ActiveUsers(a) \cup {t.user} \subseteq r.exhausted \cup {r.winner}
    BY <1>9, <2>1, <2>3 DEF AutoBidAnswered
  <2>7. ActiveUsers(a)' \subseteq {r.winner}
    BY <2>4, <2>5, <2>6 DEF ActiveUsers
  <2>8. PICK w, n, found :
           /\ w = r.winner /\ n = r.amount /\ found = handler[h].winning
           /\ TakeOver(a, found, w, n, none) /\ Replaces(h)
    BY <1>1, <1>3, <1>4, <1>10 DEF AutoBidTakesOver, Replaces
  <2>9. WinningBids(a)' # {} /\ \A u \in Users : Leads(u, a)' <=> u = r.winner
    <3>1. w \in Users /\ n \in Nat
      BY <1>3, <2>8
    <3>2. QED BY <1>4a, <2>8, <3>1, NewLead
  <2>10. QED BY <1>3, <2>7, <2>9 DEF PromiseOf
<1>11. CASE AutoBidStored(h)
  <2>1. t.op = "setAutoBid"
    BY <1>1, <1>11 DEF AutoBidStored, Ready
  <2>2. PICK row, spent : /\ row = Upserted(a, t.user, t.amount)
                          /\ spent = r.exhausted \cup (IF Unfunded(h) THEN {r.winner} ELSE {})
    OBVIOUS
  <2>3. /\ r.creates = {} \/ Unfunded(h)
        /\ autobids' = [autobids EXCEPT ![a] = Spend(row, spent)]
        /\ UNCHANGED <<auctions, bids>>
    BY <1>1, <1>3, <1>11, <2>2 DEF AutoBidStored
  <2>4. row \in [Users -> AutoBidFields] /\ \A v \in Users : v # t.user => row[v] = autobids[a][v]
    BY <1>9, <2>1, <2>2
  <2>5. /\ ActiveUsers(a)' = {v \in Users : v \notin spent /\ row[v].status = "ACTIVE"}
        /\ \A v \in Users : autobids'[a][v].max = row[v].max
    BY <1>6, <2>3, <2>4
  <2>6. \A v : Leads(v, a)' <=> Leads(v, a)
    BY <2>3 DEF Leads, WinningBids
  <2>7. PromiseOf(a)'
    <3>1. CASE r.creates = {}
      <4>1. Leads(t.user, a)
        BY <1>9, <2>1, <3>1 DEF AutoBidAnswered
      <4>2. ASSUME NEW v \in ActiveUsers(a)', v # t.user
            PROVE  Leads(v, a) \/ autobids'[a][v].max < auctions'[a].price + Increment[a]
        <5>1. v \in ActiveUsers(a) /\ autobids'[a][v].max = autobids[a][v].max
          BY <2>4, <2>5, <4>2 DEF ActiveUsers
        <5>2. QED BY <2>3, <5>1 DEF PromiseOf
      <4>3. QED BY <2>6, <4>1, <4>2 DEF PromiseOf
    <3>2. CASE r.creates # {}
      <4>1. Unfunded(h) /\ ActiveUsers(a) \cup {t.user} \subseteq spent
        BY <1>9, <2>1, <2>2, <2>3, <3>2 DEF AutoBidAnswered
      <4>2. ActiveUsers(a)' = {}
        BY <2>4, <2>5, <4>1 DEF ActiveUsers
      <4>3. QED BY <4>2 DEF PromiseOf
    <3>3. QED BY <3>1, <3>2
  <2>8. ~Replaces(h)
    BY <1>1, <1>11, <2>1, <2>3 DEF Replaces, ManualBidWins, AutoBidAnswers, AutoBidTakesOver, Ready
  <2>9. QED BY <2>7, <2>8
<1>12. QED BY <1>7, <1>8, <1>10, <1>11 DEF Replaces

\* A step of Next leaves an auction calm, or a request of it commits.
Commits(h) == Replaces(h) \/ AutoBidStored(h)

\* No two requests of one auction are open at a time.
LEMMA OneRequest ==
    ASSUME LockHeld, NEW g \in Handlers, NEW h \in Handlers, handler[g] # Idle, handler[h] # Idle,
           handler[g].auction = handler[h].auction
    PROVE  g = h
BY DEF LockHeld

\* A request that commits is gone.
LEMMA CommitLeaves ==
    ASSUME Typed, NEW h \in Handlers, Commits(h)
    PROVE  handler[h] # Idle /\ handler'[h] = Idle
<1>1. handler[h] # Idle
  BY DEF Commits, Replaces, ManualBidWins, AutoBidAnswers, AutoBidTakesOver, AutoBidStored, Ready
<1>2. \E docs : Commit(h, docs)
  BY DEF Commits, Replaces, ManualBidWins, AutoBidAnswers, AutoBidTakesOver, AutoBidStored
<1>3. QED BY <1>1, <1>2 DEF Commit, Typed, TypeOK

\* The auction of a request that goes on is calm.
LEMMA OpenIsCalm ==
    ASSUME Typed, Led, LockHeld, [Next]_vars, NEW h \in Handlers, SameRequest(h), handler'[h] # Idle
    PROVE  Calm(handler[h].auction)
<1>1. handler[h] # Idle /\ handler[h].auction \in Auctions
  BY RequestCarries DEF SameRequest
<1>2. ASSUME NEW g \in Handlers, handler[g].auction = handler[h].auction PROVE ~Commits(g)
  BY <1>1, <1>2, CommitLeaves, OneRequest
<1>3. QED BY <1>1, <1>2, CalmUnless DEF Commits

\* The promise and the answers outlive every step.
LEMMA PromiseKept ==
    ASSUME Typed, Led, "bid" \notin Overrun, Promise, [Next]_vars
    PROVE  Promise'
<1>1. LockHeld'
  BY LockStaysHeld DEF Promise
<1>2. ASSUME NEW a \in Auctions
      PROVE  PromiseOf(a)' /\ (WinningBids(a)' = {} => auctions'[a].price = StartingPrice[a])
  <2>1. CASE Calm(a)
    <3>1. PromiseOf(a)'
      BY <2>1, CalmKeeps DEF Promise
    <3>2. QED BY <2>1, <3>1 DEF Promise, StartsAt, Calm, WinningBids
  <2>2. CASE \E h \in Handlers : Commits(h) /\ handler[h].auction = a
    <3>1. PICK h \in Handlers : Commits(h) /\ a = handler[h].auction
      BY <2>2
    <3>2. PromiseOf(a) /\ Answered(h)
      BY <3>1, CommitLeaves DEF Promise
    <3>3. PromiseOf(a)' /\ (Replaces(h) => WinningBids(a)' # {})
      BY <3>1, <3>2, CommitKeepsPromise DEF Commits
    <3>4. AutoBidStored(h) => UNCHANGED <<auctions, bids>>
      BY DEF AutoBidStored
    <3>5. QED BY <3>1, <3>3, <3>4 DEF Commits, Promise, StartsAt, WinningBids
  <2>3. QED BY <2>1, <2>2, CalmUnless DEF Commits
<1>3. ASSUME NEW h \in Handlers, handler'[h] # Idle
      PROVE  Answered(h)'
  <2>1. CASE Opens(h)
    <3>1. PICK a \in Auctions, u \in Users, n \in Offers : PlaceBid(h, a, u, n) \/ SetAutoBid(h, a, u, n)
      BY <2>1 DEF Opens
    <3>2. PromiseOf(a) /\ StartsAt
      BY DEF Promise
    <3>3. QED BY <3>1, <3>2, BidOpensAnswered, AutoBidOpensAnswered
  <2>2. CASE ~Opens(h)
    <3>1. SameRequest(h)
      BY <1>3, <2>2, RequestsGoOn
    <3>2. PICK a : a = handler[h].auction
      OBVIOUS
    <3>3. Calm(a) /\ a \in Auctions /\ handler[h] # Idle
      BY <1>3, <3>1, <3>2, OpenIsCalm, RequestCarries DEF Promise, SameRequest
    <3>4. PICK u, n, r : u = handler[h].user /\ n = handler[h].amount /\ r = handler[h].result
      OBVIOUS
    <3>5. r.winner \in Users
      BY <3>3, <3>4, RequestCarries
    <3>6. /\ handler[h].op = "placeBid" => BidAnswered(a, n, r)
          /\ handler[h].op = "setAutoBid" => AutoBidAnswered(a, u, n, r)
      BY <3>2, <3>3, <3>4 DEF Promise, Answered
    <3>7. /\ handler[h].op = "placeBid" => BidAnswered(a, n, r)'
          /\ handler[h].op = "setAutoBid" => AutoBidAnswered(a, u, n, r)'
      BY <3>3, <3>5, <3>6, CalmKeeps
    <3>8. /\ handler'[h].op = handler[h].op /\ handler'[h].auction = a
          /\ handler'[h].user = u /\ handler'[h].amount = n /\ handler'[h].result = r
      BY <3>1, <3>2, <3>4 DEF SameRequest
    <3>9. QED BY <3>7, <3>8 DEF Answered, BidAnswered, AutoBidAnswered, ActiveUsers, Leads, WinningBids
  <2>3. QED BY <2>1, <2>2
<1>4. QED BY <1>1, <1>2, <1>3 DEF Promise, StartsAt

\* The promise holds as long as no bid outlives its lock.
LEMMA PromiseAlways == ASSUME "bid" \notin Overrun PROVE Spec => []Promise
<1>1. Init => Promise
  <2> SUFFICES ASSUME Init PROVE Promise
    OBVIOUS
  <2>1. /\ \A h \in Handlers : handler[h] = Idle
        /\ \A a \in Auctions : ActiveUsers(a) = {} /\ auctions[a].price = StartingPrice[a]
    BY DEF Init, ActiveUsers
  <2>2. QED BY <2>1 DEF Promise, LockHeld, StartsAt, PromiseOf
<1>2. Typed /\ Led /\ Promise /\ [Next]_vars => Promise'
  BY PromiseKept
<1>3. QED BY <1>1, <1>2, TypedAlways, LedAlways, PTL DEF Spec

\* The proxy war is always fought to its end, as long as no request outlives
\* the lock of its auction: no active auto-bid of a user who does not lead
\* could still place a bid.
THEOREM ProxyPromiseKept == ASSUME "bid" \notin Overrun PROVE Spec => []ProxyPromise
<1>1. Promise => ProxyPromise
  BY SMTT(20) DEF Promise, PromiseOf, ProxyPromise
<1>2. QED BY <1>1, PromiseAlways, PTL

\* A bid that is placed by a proxy is within the ceiling stored with it.
LEMMA ProxyCanPay ==
    ASSUME Typed, Led, Promise, [Next]_vars, NEW a \in Auctions, ProxyBids(a)
    PROVE  LET b == bids'[a][Len(bids'[a])] IN b.amount <= autobids'[a][b.bidder].max
<1>1. PICK h \in Handlers : Commits(h) /\ a = handler[h].auction
  BY CalmUnless DEF ProxyBids, Calm, Commits
<1>2. PICK t, r, found : t = handler[h] /\ r = t.result /\ found = t.winning
  OBVIOUS
<1>3. /\ handler[h] # Idle /\ Answered(h)
      /\ a = t.auction /\ t.user \in Users /\ t.amount \in Nat
      /\ r.winner \in Users /\ r.amount \in Nat
  BY <1>1, <1>2, CommitLeaves, RequestCarries DEF Promise
<1>4. autobids[a] \in [Users -> AutoBidFields]
  BY DEF Typed, TypeOK
<1>5. ASSUME NEW row \in [Users -> AutoBidFields], NEW spent,
             autobids' = [autobids EXCEPT ![a] = Spend(row, spent)]
      PROVE  \A v \in Users : autobids'[a][v].max = row[v].max
  <2>1. autobids'[a] = Spend(row, spent)
    BY <1>5 DEF Typed, TypeOK
  <2>2. QED BY <2>1, SpendKeeps
<1>6. CASE ManualBidWins(h)
  <2>1. PICK n : Emit(a, [BidPlaced |-> 1, AutoBidExhausted |-> n])
    BY <1>2, <1>3, <1>6 DEF ManualBidWins
  <2>2. outbox'[a]["AutoBidPlaced"] = outbox[a]["AutoBidPlaced"]
    BY <2>1 DEF Emit, EventTypes, Typed, TypeOK
  <2>3. QED BY <2>2 DEF ProxyBids
<1>7. CASE AutoBidAnswers(h)
  <2>1. PICK w, n, lost :
           /\ w = r.winner /\ n = r.amount /\ lost = <<NewBid(t.user, t.amount, "OUTBID")>>
           /\ TakeOver(a, found, w, n, lost) /\ Replaces(h) /\ r.auto
           /\ autobids' = [autobids EXCEPT ![a] = Spend(autobids[a], r.exhausted)]
    BY <1>2, <1>3, <1>7 DEF AutoBidAnswers, Replaces
  <2>2. lost \in Seq(BidFields) /\ \A i \in DOMAIN lost : lost[i].status = "OUTBID"
    BY <1>3, <2>1 DEF NewBid, BidFields
  <2>3. bids'[a][Len(bids'[a])] = NewBid(w, n, "WINNING")
    <3>1. w \in Users /\ n \in Nat /\ found = handler[h].winning /\ TakeOver(a, found, w, n, lost) /\ Replaces(h)
      BY SMTT(20), <1>2, <1>3, <2>1
    <3>2. QED BY <1>1, <2>2, <3>1, NewLead
  <2>4. n <= autobids[a][w].max
    BY <1>2, <1>3, <1>7, <2>1 DEF AutoBidAnswers, Ready, Answered, BidAnswered
  <2>5. autobids'[a][w].max = autobids[a][w].max
    BY <1>3, <1>4, <1>5, <2>1
  <2>6. QED BY <2>3, <2>4, <2>5 DEF NewBid
<1>8. CASE AutoBidTakesOver(h)
  <2>1. PICK w, n, lost, row :
           /\ w = r.winner /\ n = r.amount /\ lost = <<>> /\ row = Upserted(a, t.user, t.amount)
           /\ TakeOver(a, found, w, n, lost) /\ Replaces(h) /\ r.creates # {}
           /\ autobids' = [autobids EXCEPT ![a] = Spend(row, r.exhausted)]
    BY <1>2, <1>3, <1>8 DEF AutoBidTakesOver, Replaces
  <2>2. lost \in Seq(BidFields) /\ \A i \in DOMAIN lost : lost[i].status = "OUTBID"
    BY <2>1, EmptySeq
  <2>3. bids'[a][Len(bids'[a])] = NewBid(w, n, "WINNING")
    <3>1. w \in Users /\ n \in Nat /\ found = handler[h].winning /\ TakeOver(a, found, w, n, lost) /\ Replaces(h)
      BY SMTT(20), <1>2, <1>3, <2>1
    <3>2. QED BY <1>1, <2>2, <3>1, NewLead
  <2>4. n <= IF w = t.user THEN t.amount ELSE autobids[a][w].max
    BY <1>2, <1>3, <1>8, <2>1 DEF AutoBidTakesOver, Ready, Answered, AutoBidAnswered
  <2>5. /\ row \in [Users -> AutoBidFields]
        /\ row[w].max = IF w = t.user THEN t.amount ELSE autobids[a][w].max
    <3>1. row \in [Users -> AutoBidFields]
      BY <1>3, <2>1, UpsertedTyped DEF Typed, TypeOK
    <3>2. QED BY <1>3, <1>4, <2>1, <3>1 DEF Upserted
  <2>6. autobids'[a][w].max = row[w].max
    BY ZenonT(40), <1>3, <1>5, <2>1, <2>5
  <2>7. QED BY <2>3, <2>4, <2>5, <2>6 DEF NewBid
<1>9. CASE AutoBidStored(h)
  BY <1>9 DEF AutoBidStored, ProxyBids
<1>10. QED BY <1>1, <1>6, <1>7, <1>8, <1>9 DEF Commits, Replaces

\* A proxy never bids above the ceiling its user has declared at that moment,
\* as long as no request outlives the lock of its auction.
THEOREM ProxiesKeepCeilings == ASSUME "bid" \notin Overrun PROVE Spec => ProxyWithinCeiling
<1>1. Typed /\ Led /\ Promise /\ [Next]_vars =>
        [\A a \in Auctions : ProxyBids(a) =>
            LET b == bids'[a][Len(bids'[a])] IN b.amount <= autobids'[a][b.bidder].max]_vars
  BY ProxyCanPay
<1>2. QED BY <1>1, PromiseAlways, TypedAlways, LedAlways, PTL DEF Spec, ProxyWithinCeiling
=============================================================================
