------------------------------ MODULE MCBidding -----------------------------
(***************************************************************************)
(* Small instances of Bidding for TLC: a seller, two bidders, and one or   *)
(* two auctions that start at 1 and rise by 1.                             *)
(***************************************************************************)
EXTENDS Bidding, TLC

CONSTANTS seller, alice, bob, a1, a2,
          h1, h2     \* requests, named so that Mortal can name them

OneAuction == {a1}
TwoAuctions == {a1, a2}
ThreeUsers == {seller, alice, bob}
SellsAll == [a \in Auctions |-> seller]
StartAtOne == [a \in Auctions |-> 1]
RaiseByOne == [a \in Auctions |-> 1]

\* Rich bidders can outbid each other to the highest offer, poor ones cannot
\* lead both auctions at it.
Rich == [u \in Users |-> IF u = seller THEN 0 ELSE 3]
Poor == [u \in Users |-> IF u = seller THEN 0 ELSE 2]

\* Bidders, requests, cron runs, and auctions with the same seller, starting
\* price and increment, differ only by name.
Interchangeable ==
    Permutations({alice, bob}) \cup Permutations(Handlers)
        \cup Permutations(Auctions) \cup Permutations(Crons)
=============================================================================
