----------------------------- MODULE ProxyEngine ----------------------------
(***************************************************************************)
(* ProxyBiddingEngineService.calculateNextState: the pure function that,   *)
(* given the auction, the active auto-bids and possibly a manual bid, says *)
(* who wins, at what price, and which auto-bids are spent.                 *)
(*                                                                         *)
(* A candidate is a record [user, max, born]: born orders the createdAt    *)
(* stamps.  An auto-bid is named by its user, since the unique index       *)
(* {auctionId, userId} gives a user one auto-bid per auction.              *)
(***************************************************************************)
EXTENDS Integers

Smaller(x, y) == IF x <= y THEN x ELSE y
Larger(x, y) == IF x >= y THEN x ELSE y

\* The order of the defensive sort: maxAmount descending, then createdAt.
PrecedesIfYounger(x, y) == \/ x.max > y.max
                           \/ x.max = y.max /\ x.born >= y.born

Precedes(x, y) == \/ x.max > y.max
                  \/ x.max = y.max /\ x.born <= y.born

\* The first candidate of the sorted list.
Top(S) == CHOOSE t \in S : \A x \in S : Precedes(t, x)

UsersOf(S) == {x.user : x \in S}

\* A bid of bidsToCreate.
NewBid(u, n, s) == [bidder |-> u, amount |-> n, status |-> s]

\* ProxyEngineResult; auto says whether winningAutoBidId is set, and
\* creates is bidsToCreate.
Result(u, n, auto, exhausted, creates) ==
    [winner |-> u, amount |-> n, auto |-> auto,
     exhausted |-> exhausted, creates |-> creates]

\* A proxy raises to n, or as far as its ceiling goes.
Uncapped(top, n) == n

Capped(top, n) == Smaller(top.max, n)

\* The auto-bids spent when `top` wins at `price`: all it has outbid, and
\* itself when it has reached its ceiling.
SpentAll(top, rest, price) == UsersOf(rest) \cup {top.user}

Spent(top, rest, price) ==
    UsersOf(rest) \cup (IF top.max <= price THEN {top.user} ELSE {})

(***************************************************************************)
(* Scenario A: a manual bid of `amount` by user u meets the auto-bids of   *)
(* the other users.  inc is the auction's minimumBidIncrement.             *)
(***************************************************************************)
AfterManualBid(S, inc, u, amount) ==
    LET competing == {x \in S : x.user # u}
        top       == Top(competing)
        price     == Capped(top, amount + inc)
        beaten    == {x.user : x \in {y \in competing : y.max <= amount}}
    IN  IF competing = {} \/ top.max < amount
        THEN Result(u, amount, FALSE, beaten, {NewBid(u, amount, "WINNING")})
        ELSE Result(top.user, price, TRUE,
                    beaten \cup (IF top.max < amount + inc THEN {top.user} ELSE {}),
                    {NewBid(u, amount, "OUTBID"), NewBid(top.user, price, "WINNING")})

(***************************************************************************)
(* Scenario B: an auto-bid was set and no manual bid is submitted.  The    *)
(* engine throws NoActiveAutoBidsException on an empty S; its caller has   *)
(* just upserted an active auto-bid.                                       *)
(***************************************************************************)
\* No bid yet: one auto-bid enters at the start price, several fight it out.
FirstAutoBid(S, start, inc) ==
    LET top    == Top(S)
        rest   == S \ {top}
        second == Top(rest)
        price  == Capped(top, second.max + inc)
    IN  IF rest = {}
        THEN Result(top.user, start, TRUE, {}, {NewBid(top.user, start, "WINNING")})
        ELSE Result(top.user, price, TRUE, Spent(top, rest, price),
                    {NewBid(second.user, second.max, "OUTBID"),
                     NewBid(top.user, price, "WINNING")})

\* The best auto-bid belongs to the user who is winning already, and raises
\* its own bid when another one reaches the price.
AnyRival(rest, price) == rest # {}

LeaderStays(rest, price) == FALSE

Threatened(rest, price) == rest # {} /\ Top(rest).max >= price

DefendAutoBid(S, price, inc) ==
    LET top    == Top(S)
        rest   == S \ {top}
        target == Capped(top, Top(rest).max + inc)
    IN  IF Threatened(rest, price)
        THEN Result(top.user, target, TRUE, Spent(top, rest, target),
                    {NewBid(top.user, target, "WINNING")})
        ELSE Result(top.user, price, TRUE, {}, {})

\* The best auto-bid challenges another user who is winning at `price`.
ChallengeAutoBid(S, price, inc) ==
    LET top      == Top(S)
        rest     == S \ {top}
        second   == IF rest = {} THEN price ELSE Top(rest).max
        required == price + inc
        raise    == IF rest # {} /\ second > price THEN inc ELSE 0
        final    == Larger(required, Capped(top, Larger(required, second) + raise))
    IN  Result(top.user, final, TRUE, Spent(top, rest, final),
               {NewBid(top.user, final, "WINNING")})

\* hasBid says whether some bid is winning; leader is who placed it.
AfterAutoBid(S, start, inc, price, hasBid, leader) ==
    IF ~hasBid THEN FirstAutoBid(S, start, inc)
    ELSE IF leader = Top(S).user THEN DefendAutoBid(S, price, inc)
    ELSE ChallengeAutoBid(S, price, inc)
=============================================================================
