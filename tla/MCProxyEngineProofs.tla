------------------------- MODULE MCProxyEngineProofs ------------------------
(***************************************************************************)
(* Theorems about every call of the proxy engine: for any number of users, *)
(* any ceilings, start prices and increments, the five properties that the *)
(* bounded run checks.                                                     *)
(***************************************************************************)
EXTENDS MCProxyEngine, ProxyEngineProofs

\* The answer of the engine to the call.
Answer ==
    LET s == call.state
    IN  IF call.kind = "manual"
        THEN AfterManualBid(call.autos, s.inc, call.user, call.amount)
        ELSE AfterAutoBid(call.autos, s.start, s.inc, s.price, s.leader # Nobody, s.leader)

\* The invariant: the call is one its callers can make, and what has been
\* answered is the engine's answer to it.
Answered == (ManualCall \/ AutoCall) /\ result \subseteq {Answer}

\* The active auto-bids of a call: finitely many, one of a user, numbered by
\* age, and none below the start price.
ActiveAutoBids(S, start) ==
    /\ S \subseteq CandidatesOf(Users) /\ IsFiniteSet(S)
    /\ \A x \in S : x.born = x.user /\ x.max >= start
    /\ \A x, y \in S : x.user = y.user => x = y

\* So are the auto-bids of every call.
LEMMA CandidatesAreActive ==
    ASSUME NEW D \in SUBSET Users, NEW s \in AuctionStates, NEW limits \in Limits(s, D)
    PROVE  ActiveAutoBids(Candidates(limits), s.start)
<1> DEFINE entry(u) == [user |-> u, max |-> limits[u], born |-> u]
<1>1. /\ MaxAmount \in Nat /\ NumUsers \in Nat /\ s.start \in Nat
      /\ DOMAIN limits = D /\ \A u \in D : limits[u] \in Nat /\ limits[u] >= s.start
  BY BoundsAssumption DEF AuctionStates, Limits
<1>2. Candidates(limits) = {entry(u) : u \in D}
  BY <1>1 DEF Candidates
<1>3. IsFiniteSet(D)
  <2>1. IsFiniteSet(Users)
    BY <1>1, FS_Interval DEF Users
  <2>2. QED BY <2>1, FS_Subset
<1>4. IsFiniteSet({entry(u) : u \in D})
  <2> DEFINE T == {entry(u) : u \in D}
             f == [u \in D |-> entry(u)]
  <2>1. f \in Surjection(D, T)
    BY DEF Surjection
  <2> HIDE DEF f, T
  <2>2. IsFiniteSet(T)
    BY <1>3, <2>1, FS_Surjection
  <2>3. QED BY <2>2 DEF T
<1>5. \A u \in D : entry(u) \in CandidatesOf(Users)
  BY <1>1 DEF CandidatesOf, Users
<1>6. QED BY <1>1, <1>2, <1>4, <1>5 DEF ActiveAutoBids

-----------------------------------------------------------------------------
\* A manual call: its bidder does not lead and offers the minimum required.
LEMMA ManualCallOf ==
    ASSUME ManualCall
    PROVE  /\ call.kind = "manual" /\ call.state \in AuctionStates
           /\ call.user \in Users /\ call.amount \in Amounts
           /\ call.amount >= Required(call.state)
           /\ ActiveAutoBids(call.autos, call.state.start)
<1>1. PICK s \in AuctionStates, D \in SUBSET Users, u \in Users, n \in Amounts :
        \E limits \in Limits(s, D) :
           /\ n >= Required(s)
           /\ call = [kind |-> "manual", state |-> s, autos |-> Candidates(limits),
                      user |-> u, amount |-> n]
  BY DEF ManualCall
<1>2. PICK limits \in Limits(s, D) :
           /\ n >= Required(s)
           /\ call = [kind |-> "manual", state |-> s, autos |-> Candidates(limits),
                      user |-> u, amount |-> n]
  BY <1>1
<1>3. ActiveAutoBids(Candidates(limits), s.start)
  BY CandidatesAreActive
<1>4. QED BY <1>2, <1>3

\* A call for an auto-bid: one of the active ones reaches the minimum required.
LEMMA AutoCallOf ==
    ASSUME AutoCall
    PROVE  /\ call.kind = "auto" /\ call.state \in AuctionStates
           /\ ActiveAutoBids(call.autos, call.state.start)
           /\ \E x \in call.autos : x.max >= Required(call.state)
<1>1. PICK s \in AuctionStates, D \in SUBSET Users :
        \E limits \in Limits(s, D), u \in D :
           /\ limits[u] >= Required(s)
           /\ call = [kind |-> "auto", state |-> s, autos |-> Candidates(limits),
                      user |-> u, amount |-> limits[u]]
  BY DEF AutoCall
<1>2. PICK limits \in Limits(s, D), u \in D :
           /\ limits[u] >= Required(s)
           /\ call = [kind |-> "auto", state |-> s, autos |-> Candidates(limits),
                      user |-> u, amount |-> limits[u]]
  BY <1>1
<1>3. ActiveAutoBids(Candidates(limits), s.start)
  BY CandidatesAreActive
<1>4. [user |-> u, max |-> limits[u], born |-> u] \in Candidates(limits)
  BY DEF Candidates, Limits
<1>5. QED BY <1>2, <1>3, <1>4

\* The numbers of an auction.
LEMMA StateOf ==
    ASSUME NEW s \in AuctionStates
    PROVE  /\ s.start \in Nat \ {0} /\ s.inc \in Nat \ {0} /\ s.price \in Nat
           /\ Required(s) = IF s.leader # Nobody THEN s.price + s.inc ELSE s.start
           /\ (s.leader # Nobody) \in BOOLEAN
BY BoundsAssumption DEF AuctionStates, Amounts, Required

\* The limit of a user is the ceiling of the one auto-bid he has, unless the
\* call is his manual bid.
LEMMA LimitOf ==
    ASSUME NEW start, ActiveAutoBids(call.autos, start), NEW x \in call.autos,
           call.kind = "manual" => x.user # call.user
    PROVE  Limit(x.user) = x.max
<1>1. PICK y : y = CHOOSE z \in call.autos : z.user = x.user
  OBVIOUS
<1>2. y \in call.autos /\ y.user = x.user
  BY <1>1
<1>3. y = x
  BY <1>2 DEF ActiveAutoBids
<1>4. QED BY <1>1, <1>3 DEF Limit

\* What the five properties ask of one answer.
Right(r) ==
    /\ Wins(r) => /\ r.winner \in Bidders
                  /\ r.amount <= Limit(r.winner)
                  /\ NewBid(r.winner, r.amount, "WINNING") \in r.creates
    /\ Wins(r) => /\ r.amount >= Required(call.state) \/ r.amount = Limit(r.winner)
                  /\ call.state.leader # Nobody => r.amount > call.state.price
    /\ \A u \in r.exhausted : Limit(u) <= r.amount
    /\ Wins(r) => /\ \A x \in Rivals(r) :
                        \/ x.max < Limit(r.winner)
                        \/ x.max = Limit(r.winner) /\ r.auto /\ r.winner < x.user
                  /\ (call.kind = "manual" /\ r.auto) => call.amount <= Limit(r.winner)
    /\ call.kind = "auto" =>
          \A x \in Rivals(r) : x.user \in r.exhausted \/ x.max < r.amount + call.state.inc

\* Two auto-bids of different users are never equally old.
LEMMA OrderedByAge ==
    ASSUME NEW start, NEW S, ActiveAutoBids(S, start), NEW x \in S, NEW y \in S,
           x.user # y.user, Precedes(x, y)
    PROVE  y.max < x.max \/ (y.max = x.max /\ x.user < y.user)
<1>1. /\ x.max \in Nat /\ x.user \in Int /\ x.born = x.user
      /\ y.max \in Nat /\ y.user \in Int /\ y.born = y.user
  BY BoundsAssumption DEF ActiveAutoBids, CandidatesOf, Users
<1>2. x.max > y.max \/ (x.max = y.max /\ x.born <= y.born)
  BY DEF Precedes
<1>3. QED BY <1>1, <1>2

\* The answer to a manual bid is right.
LEMMA ManualAnswerIsRight ==
    ASSUME ManualCall, NEW r, r = Answer
    PROVE  Right(r)
<1>1. PICK S, u, n, s : /\ S = call.autos /\ u = call.user
                        /\ n = call.amount /\ s = call.state
  OBVIOUS
<1>2. /\ call.kind = "manual" /\ s \in AuctionStates /\ u \in Users /\ n \in Nat
      /\ n >= Required(s) /\ ActiveAutoBids(S, s.start)
  BY <1>1, ManualCallOf, BoundsAssumption DEF Amounts
<1>3. PICK inc \in Nat \ {0} : inc = s.inc
  BY <1>2, StateOf
<1>4. /\ S \subseteq CandidatesOf(Users) /\ IsFiniteSet(S)
      /\ \A x \in S : x.max \in Nat
  BY <1>2 DEF ActiveAutoBids, CandidatesOf
<1>5. r = AfterManualBid(S, inc, u, n) /\ inc \in Nat
  BY <1>1, <1>2, <1>3 DEF Answer
<1>6. r.amount \in Nat
  BY <1>2, <1>4, <1>5, AfterManualBidTyped DEF Results
<1>7. /\ r.amount >= n
      /\ \A v \in r.exhausted : \E x \in S : x.user = v /\ x.max <= r.amount
  <2>1. /\ r.amount >= n
        /\ r.auto => \E x \in S : /\ x.user = r.winner
                                  /\ x.user # u
                                  /\ r.amount <= x.max
        /\ \A v \in r.exhausted : \E x \in S : x.user = v /\ x.max <= r.amount
    BY <1>2, <1>4, <1>5, ManualBidAnswer
  <2>2. QED BY <2>1
<1>8. /\ ~r.auto => \A x \in S : x.user # u => x.max < n
      /\ r.auto => \E x \in S : /\ x.user = r.winner /\ x.user # u
                                /\ n <= x.max /\ r.amount <= x.max
                                /\ \A y \in S : y.user # u => Precedes(x, y)
  BY <1>2, <1>4, <1>5, ManualBidLeaves
<1>9. /\ NewBid(r.winner, r.amount, "WINNING") \in r.creates
      /\ ~r.auto => r.winner = u /\ r.amount = n
  BY <1>5, ManualBidRecords
<1>10. /\ Limit(u) = n
       /\ \A x \in S : x.user # u => Limit(x.user) = x.max
  BY <1>1, <1>2, LimitOf DEF Limit
<1>11. /\ Bidders = UsersOf(S) \cup {u}
       /\ Rivals(r) = {x \in S : x.user # r.winner /\ x.user # u}
  BY <1>1, <1>2 DEF Bidders, Rivals
<1>12. \A v \in r.exhausted : Limit(v) <= r.amount
  <2>1. TAKE v \in r.exhausted
  <2>2. PICK x \in S : x.user = v /\ x.max <= r.amount
    BY <1>7
  <2>3. QED BY <1>7, <1>10, <2>2
<1>13. /\ s.leader # Nobody => r.amount > s.price
       /\ r.amount >= Required(s)
  BY <1>2, <1>6, <1>7, StateOf
<1>14. CASE ~r.auto
  <2>1. r.winner \in Bidders /\ r.amount <= Limit(r.winner)
    BY <1>2, <1>9, <1>10, <1>11, <1>14
  <2>2. \A x \in Rivals(r) : x.max < Limit(r.winner)
    BY <1>8, <1>9, <1>10, <1>11, <1>14
  <2>3. QED BY <1>1, <1>2, <1>9, <1>12, <1>13, <1>14, <2>1, <2>2 DEF Right
<1>15. CASE r.auto
  <2>1. PICK x \in S : /\ x.user = r.winner /\ x.user # u
                       /\ n <= x.max /\ r.amount <= x.max
                       /\ \A y \in S : y.user # u => Precedes(x, y)
    BY <1>8, <1>15
  <2>2. Limit(r.winner) = x.max /\ r.winner \in Bidders
    BY <1>10, <1>11, <2>1 DEF UsersOf
  <2>3. \A y \in Rivals(r) : \/ y.max < Limit(r.winner)
                             \/ y.max = Limit(r.winner) /\ r.winner < y.user
    BY <1>2, <1>11, <2>1, <2>2, OrderedByAge
  <2>4. QED BY <1>1, <1>2, <1>9, <1>12, <1>13, <1>15, <2>1, <2>2, <2>3 DEF Right
<1>16. r.auto \in BOOLEAN
  BY <1>2, <1>4, <1>5, AfterManualBidTyped DEF Results
<1>17. QED BY <1>14, <1>15, <1>16

\* The answer to a new auto-bid is right.
LEMMA AutoAnswerIsRight ==
    ASSUME AutoCall, NEW r, r = Answer
    PROVE  Right(r)
<1>1. PICK S, s : S = call.autos /\ s = call.state
  OBVIOUS
<1>2. /\ call.kind = "auto" /\ s \in AuctionStates
      /\ ActiveAutoBids(S, s.start) /\ \E x \in S : x.max >= Required(s)
  BY <1>1, AutoCallOf
<1>3. PICK start, inc, price, hasBid, leader :
         /\ start = s.start /\ inc = s.inc /\ price = s.price
         /\ leader = s.leader /\ hasBid = (s.leader # Nobody)
  OBVIOUS
<1>4. /\ start \in Nat /\ inc \in Nat \ {0} /\ inc \in Nat /\ price \in Nat
      /\ hasBid \in BOOLEAN /\ Required(s) = IF hasBid THEN price + inc ELSE start
  BY <1>2, <1>3, StateOf
<1>5. /\ S \subseteq CandidatesOf(Users) /\ IsFiniteSet(S) /\ S # {}
      /\ \A x \in S : x.max \in Nat /\ x.max >= start
  BY <1>2, <1>3 DEF ActiveAutoBids, CandidatesOf
<1>6. r = AfterAutoBid(S, start, inc, price, hasBid, leader)
  BY <1>1, <1>2, <1>3 DEF Answer
<1>7. \E x \in S : x.max >= IF hasBid THEN price + inc ELSE start
  BY <1>2, <1>4
<1>8. /\ r.creates # {} => /\ \E x \in S : x.user = r.winner /\ r.amount <= x.max
                           /\ hasBid => r.amount > price
      /\ \A v \in r.exhausted : \E x \in S : x.user = v /\ x.max <= r.amount
      /\ \A x \in S : \/ x.user = r.winner
                      \/ x.user \in r.exhausted
                      \/ x.max < r.amount + inc
  BY <1>4, <1>5, <1>6, <1>7, AutoBidAnswer
<1>9. /\ r.winner = Top(S).user /\ r.auto
      /\ r.creates # {} => NewBid(r.winner, r.amount, "WINNING") \in r.creates
      /\ r.creates # {} /\ (\A x \in S : x.max >= start) =>
            \/ r.amount >= IF hasBid THEN price + inc ELSE start
            \/ r.amount = Top(S).max
  BY <1>4, <1>5, <1>6, AutoBidRecords
<1>10. PICK top \in S : top = Top(S) /\ \A x \in S : Precedes(top, x)
  BY <1>5, TopIsFirst
<1>11. \A x \in S : Limit(x.user) = x.max
  BY <1>1, <1>2, LimitOf
<1>12. Bidders = UsersOf(S) /\ Rivals(r) = {x \in S : x.user # r.winner}
  BY <1>1, <1>2 DEF Bidders, Rivals
<1>13. Limit(r.winner) = top.max /\ r.winner = top.user /\ r.winner \in Bidders
  BY <1>9, <1>10, <1>11, <1>12 DEF UsersOf
<1>14. \A v \in r.exhausted : Limit(v) <= r.amount
  BY <1>8, <1>11
<1>15. \A y \in Rivals(r) : \/ y.max < Limit(r.winner)
                            \/ y.max = Limit(r.winner) /\ r.winner < y.user
  BY <1>2, <1>10, <1>12, <1>13, OrderedByAge
<1>16. \A x \in Rivals(r) : x.user \in r.exhausted \/ x.max < r.amount + inc
  BY <1>8, <1>12
<1>17. ASSUME Wins(r)
       PROVE  /\ r.amount <= Limit(r.winner)
              /\ NewBid(r.winner, r.amount, "WINNING") \in r.creates
              /\ r.amount >= Required(s) \/ r.amount = Limit(r.winner)
              /\ s.leader # Nobody => r.amount > s.price
  <2>1. r.creates # {}
    BY <1>17 DEF Wins
  <2>2. r.amount <= Limit(r.winner)
    BY <1>8, <1>11, <2>1
  <2>3. r.amount >= Required(s) \/ r.amount = Limit(r.winner)
    BY <1>4, <1>5, <1>9, <1>10, <1>13, <2>1
  <2>4. s.leader # Nobody => r.amount > s.price
    BY <1>3, <1>8, <2>1
  <2>5. QED BY <1>9, <2>1, <2>2, <2>3, <2>4
<1>18. QED BY <1>1, <1>2, <1>3, <1>9, <1>13, <1>14, <1>15, <1>16, <1>17 DEF Right

-----------------------------------------------------------------------------
\* Whatever is answered is the engine's answer to a call that can be made.
LEMMA AnsweredAlways == Spec => []Answered
<1>1. Init => Answered
  BY DEF Init, Answered
<1>2. Answered /\ [Next]_vars => Answered'
  <2> SUFFICES ASSUME Answered, [Next]_vars PROVE Answered'
    OBVIOUS
  <2>1. UNCHANGED call
    BY DEF Next, vars
  <2>2. Answer' = Answer /\ (ManualCall \/ AutoCall)'
    BY <2>1 DEF Answer, Answered, ManualCall, AutoCall
  <2>3. result' \subseteq {Answer}
    <3>1. CASE UNCHANGED result
      BY <3>1 DEF Answered
    <3>2. CASE EvaluateManual
      BY <3>2 DEF EvaluateManual, Answer
    <3>3. CASE EvaluateAuto
      <4>1. call.kind # "manual"
        BY <3>3 DEF EvaluateAuto
      <4>2. QED BY <3>3, <4>1 DEF EvaluateAuto, Answer
    <3>4. QED BY <3>1, <3>2, <3>3 DEF Next, vars
  <2>4. QED BY <2>2, <2>3 DEF Answered
<1>3. QED BY <1>1, <1>2, PTL DEF Spec

\* Every answer is right.
LEMMA AnswersAreRight == Answered => \A r \in result : Right(r)
BY ManualAnswerIsRight, AutoAnswerIsRight DEF Answered

\* The winner is one of the bidders and pays no more than the ceiling it set
\* or the bid it placed.
THEOREM WinnersPayWithinLimit == Spec => []WinnerPaysWithinLimit
<1>1. Answered => WinnerPaysWithinLimit
  BY AnswersAreRight DEF Right, WinnerPaysWithinLimit
<1>2. QED BY <1>1, AnsweredAlways, PTL

\* A new winning bid raises the price by a full increment, or as far as the
\* ceiling of the winner goes, and always above the price it replaces.
THEOREM WinningBidsRaisePrice == Spec => []WinningBidRaisesPrice
<1>1. Answered => WinningBidRaisesPrice
  BY AnswersAreRight DEF Right, WinningBidRaisesPrice
<1>2. QED BY <1>1, AnsweredAlways, PTL

\* The price has reached the ceiling of whatever is declared exhausted.
THEOREM ExhaustedWereReached == Spec => []ExhaustedMeansReached
<1>1. Answered => ExhaustedMeansReached
  BY AnswersAreRight DEF Right, ExhaustedMeansReached
<1>2. QED BY <1>1, AnsweredAlways, PTL

\* The best limit wins; on equal limits an auto-bid beats the manual bid and
\* the older auto-bid the younger one.
THEOREM BestLimitsWin == Spec => []BestLimitWins
<1>1. Answered => BestLimitWins
  BY AnswersAreRight DEF Right, BestLimitWins
<1>2. QED BY <1>1, AnsweredAlways, PTL

\* No rival auto-bid is left both active and able to place another bid.
THEOREM WarsAreOver == Spec => []WarIsOver
<1>1. Answered => WarIsOver
  BY AnswersAreRight DEF Right, WarIsOver
<1>2. QED BY <1>1, AnsweredAlways, PTL
=============================================================================
