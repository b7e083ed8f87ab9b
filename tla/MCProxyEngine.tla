---------------------------- MODULE MCProxyEngine ---------------------------
(***************************************************************************)
(* calculateNextState over every bounded input that its two callers,       *)
(* placeBid and setAutoBid, can give it: one initial state per input and   *)
(* one step that evaluates the engine.  Users are numbered by the age of   *)
(* their auto-bids; every other role is taken by every user.               *)
(***************************************************************************)
EXTENDS ProxyEngine, FiniteSets

CONSTANTS NumUsers,     \* bidders
          MaxAmount,    \* bound on prices, manual bids and auto-bid ceilings
          MaxStart,     \* bound on the start price
          MaxIncrement  \* bound on the minimum increment

ASSUME BoundsAssumption == {NumUsers, MaxAmount, MaxStart, MaxIncrement} \subseteq Nat

VARIABLES call,         \* what the caller passes
          result        \* a set: empty, then the engine's result

vars == <<call, result>>

Users == 1..NumUsers
Nobody == 0
Amounts == 1..MaxAmount

Candidates(limits) ==
    {[user |-> u, max |-> limits[u], born |-> u] : u \in DOMAIN limits}

\* What the caller has read of the auction.  updateCurrentPrice follows
\* every winning bid, so the price matters only when somebody leads.
AuctionStates ==
    {s \in [start : 1..MaxStart, inc : 1..MaxIncrement, price : Amounts,
            leader : Users \cup {Nobody}] :
        /\ s.price >= s.start
        /\ s.leader = Nobody => s.price = s.start}

Required(s) == IF s.leader = Nobody THEN s.start ELSE s.price + s.inc

\* No ceiling was ever stored below the start price, the least that
\* setAutoBid requires.
Limits(s, D) == [D -> s.start .. MaxAmount]

\* placeBid calls the engine once it knows that the bidder is not leading
\* and offers at least the minimum required.
ManualCall ==
    \E s \in AuctionStates, D \in SUBSET Users, u \in Users, n \in Amounts :
      \E limits \in Limits(s, D) :
        /\ s.leader # u
        /\ n >= Required(s)
        /\ call = [kind |-> "manual", state |-> s, autos |-> Candidates(limits),
                   user |-> u, amount |-> n]

\* setAutoBid calls it once it has stored a ceiling that is at least the
\* minimum required and that no other active auto-bid has.
AutoCall ==
    \E s \in AuctionStates, D \in SUBSET Users :
      \E limits \in Limits(s, D), u \in D :
        /\ limits[u] >= Required(s)
        /\ \A v \in D \ {u} : limits[v] # limits[u]
        /\ call = [kind |-> "auto", state |-> s, autos |-> Candidates(limits),
                   user |-> u, amount |-> limits[u]]

Init == (ManualCall \/ AutoCall) /\ result = {}

EvaluateManual ==
    /\ call.kind = "manual"
    /\ result' = {AfterManualBid(call.autos, call.state.inc, call.user, call.amount)}

EvaluateAuto ==
    /\ call.kind = "auto"
    /\ LET s == call.state
       IN  result' = {AfterAutoBid(call.autos, s.start, s.inc, s.price,
                                   s.leader # Nobody, s.leader)}

Next == result = {} /\ (EvaluateManual \/ EvaluateAuto) /\ UNCHANGED call

Spec == Init /\ [][Next]_vars

-----------------------------------------------------------------------------
Wins(r) == \E b \in r.creates : b.status = "WINNING"

\* The ceiling of user u: of the auto-bid, or the manual bid itself.
Limit(u) ==
    IF call.kind = "manual" /\ u = call.user THEN call.amount
    ELSE (CHOOSE x \in call.autos : x.user = u).max

Bidders == UsersOf(call.autos) \cup (IF call.kind = "manual" THEN {call.user} ELSE {})

\* The auto-bids the winner is up against: not its own, and not the one the
\* manual bidder may have left active.
Rivals(r) ==
    {x \in call.autos : /\ x.user # r.winner
                        /\ call.kind = "manual" => x.user # call.user}

\* The winner never pays above the ceiling it set or the bid it placed,
\* and the auto-bid the engine names as the winner's is an active one.
WinnerPaysWithinLimit ==
    \A r \in result :
        Wins(r) => /\ r.winner \in Bidders
                   /\ r.amount <= Limit(r.winner)
                   /\ NewBid(r.winner, r.amount, "WINNING") \in r.creates

\* A new winning bid raises the price by a full increment, or as far as the
\* ceiling of the winner goes, and always above the price it replaces.
WinningBidRaisesPrice ==
    \A r \in result :
        Wins(r) => /\ r.amount >= Required(call.state) \/ r.amount = Limit(r.winner)
                   /\ call.state.leader # Nobody => r.amount > call.state.price

\* An auto-bid is declared exhausted only when the price has reached its
\* ceiling, so that it could not raise the bid any more.
ExhaustedMeansReached ==
    \A r \in result : \A u \in r.exhausted : Limit(u) <= r.amount

\* The best ceiling wins: nobody with a higher limit is left behind, and on
\* equal limits an auto-bid beats the manual bid and the older auto-bid wins.
BestLimitWins ==
    \A r \in result : Wins(r) =>
        /\ \A x \in Rivals(r) :
              \/ x.max < Limit(r.winner)
              \/ x.max = Limit(r.winner) /\ r.auto /\ r.winner < x.user
        /\ (call.kind = "manual" /\ r.auto) => call.amount <= Limit(r.winner)

\* After an auto-bid is set no rival auto-bid is left both active and able to
\* place another valid bid: the war between auto-bids is fought to its end.
WarIsOver ==
    \A r \in result : call.kind = "auto" =>
        \A x \in Rivals(r) : x.user \in r.exhausted \/ x.max < r.amount + call.state.inc

\* README "placing the minimum incremental bid necessary to maintain the
\* winning position": a challenger pays the minimum required, or one
\* increment over the best rival ceiling when that is more.
MinimumNecessaryBid ==
    \A r \in result : Wins(r) /\ r.auto =>
        \/ r.amount <= Required(call.state)
        \/ call.kind = "manual" /\ r.amount <= call.amount + call.state.inc
        \/ \E x \in Rivals(r) : r.amount <= x.max + call.state.inc
=============================================================================
