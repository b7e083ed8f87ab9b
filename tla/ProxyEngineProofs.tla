-------------------------- MODULE ProxyEngineProofs -------------------------
(***************************************************************************)
(* Lemmas about the proxy engine, for any finite set of auto-bids.         *)
(***************************************************************************)
EXTENDS ProxyEngine, FiniteSets, FiniteSetTheorems, WellFoundedInduction, TLAPS

CandidatesOf(U) == [user : U, max : Nat, born : Nat]

\* A finite list has a first element under the engine's sort: the smallest
\* set without one would lose it with any of its elements.
LEMMA FiniteHasTop ==
    ASSUME NEW U, NEW S, S \subseteq CandidatesOf(U), IsFiniteSet(S), S # {}
    PROVE  \E t \in S : \A x \in S : Precedes(t, x)
<1> DEFINE HasTop(X) == \E t \in X : \A x \in X : Precedes(t, x)
           Bad == {X \in SUBSET S : X # {} /\ ~HasTop(X)}
<1>1. SUFFICES ASSUME S \in Bad PROVE FALSE
  OBVIOUS
<1>2. PICK X \in Bad : \A Y \in Bad : <<Y, X>> \notin StrictSubsetOrdering(S)
  <2>1. Bad \subseteq FiniteSubsetsOf(S)
    BY FS_FiniteSubsetsOfFinite
  <2> HIDE DEF Bad
  <2>2. QED BY <1>1, <2>1, FS_StrictSubsetOrderingWellFounded, WFMin
<1>3. \A Y \in SUBSET X : Y # {} /\ Y # X => HasTop(Y)
  BY <1>2 DEF StrictSubsetOrdering
<1>4. PICK x \in X : TRUE
  BY <1>2
<1>5. \A y, z \in S : Precedes(y, z) \/ Precedes(z, y)
  BY DEF Precedes, CandidatesOf
<1>6. \A y, z, v \in S : Precedes(y, z) /\ Precedes(z, v) => Precedes(y, v)
  BY DEF Precedes, CandidatesOf
<1>7. X \subseteq S /\ ~HasTop(X)
  BY <1>2
<1>8. CASE X \ {x} = {}
  BY <1>4, <1>5, <1>7, <1>8
<1>9. CASE X \ {x} # {}
  <2>1. PICK t \in X \ {x} : \A y \in X \ {x} : Precedes(t, y)
    BY <1>3, <1>4, <1>9
  <2>2. CASE Precedes(t, x)
    BY <1>7, <2>1, <2>2
  <2>3. CASE Precedes(x, t)
    <3>1. \A y \in X \ {x} : Precedes(x, y)
      BY <1>4, <1>6, <1>7, <2>1, <2>3
    <3>2. Precedes(x, x)
      BY <1>4, <1>5, <1>7
    <3>3. QED BY <1>4, <1>7, <3>1, <3>2
  <2>4. QED BY <1>4, <1>5, <1>7, <2>1, <2>2, <2>3
<1>10. QED BY <1>8, <1>9

\* sortedAutoBids[0] is one of the auto-bids, and none has a higher ceiling.
LEMMA TopIsFirst ==
    ASSUME NEW U, NEW S, S \subseteq CandidatesOf(U), IsFiniteSet(S), S # {}
    PROVE  /\ Top(S) \in S
           /\ \A x \in S : Precedes(Top(S), x)
BY FiniteHasTop DEF Top

\* A capped price is an amount, within the ceiling and the target.
LEMMA CappedIsNat ==
    ASSUME NEW U, NEW top \in CandidatesOf(U), NEW n \in Nat
    PROVE  Capped(top, n) \in Nat /\ Capped(top, n) <= top.max /\ Capped(top, n) <= n
BY DEF Capped, Smaller, CandidatesOf

Results(U) ==
    [winner : U, amount : Nat, auto : BOOLEAN, exhausted : SUBSET U,
     creates : SUBSET [bidder : U, amount : Nat, status : {"WINNING", "OUTBID"}]]

\* The engine's answer to a manual bid is well formed.
LEMMA AfterManualBidTyped ==
    ASSUME NEW U, NEW S, S \subseteq CandidatesOf(U), IsFiniteSet(S),
           NEW inc \in Nat, NEW u \in U, NEW amount \in Nat
    PROVE  AfterManualBid(S, inc, u, amount) \in Results(U)
<1> DEFINE competing == {x \in S : x.user # u}
           top == Top(competing)
           price == Capped(top, amount + inc)
           beaten == {x.user : x \in {y \in competing : y.max <= amount}}
<1>1. beaten \in SUBSET U
  BY DEF CandidatesOf
<1>2. CASE competing = {} \/ top.max < amount
  <2>1. AfterManualBid(S, inc, u, amount)
           = Result(u, amount, FALSE, beaten, {NewBid(u, amount, "WINNING")})
    BY <1>2 DEF AfterManualBid
  <2> HIDE DEF beaten
  <2>2. QED BY <1>1, <2>1 DEF Result, NewBid, Results
<1>3. CASE ~(competing = {} \/ top.max < amount)
  <2>1. competing \subseteq CandidatesOf(U) /\ IsFiniteSet(competing)
    BY FS_Subset
  <2>2. top \in CandidatesOf(U)
    BY <1>3, <2>1, TopIsFirst
  <2>3. top.user \in U /\ price \in Nat
    BY <2>2, CappedIsNat DEF CandidatesOf
  <2>4. AfterManualBid(S, inc, u, amount)
           = Result(top.user, price, TRUE,
                    beaten \cup (IF top.max < amount + inc THEN {top.user} ELSE {}),
                    {NewBid(u, amount, "OUTBID"), NewBid(top.user, price, "WINNING")})
    BY <1>3 DEF AfterManualBid
  <2> HIDE DEF beaten, top, price
  <2>5. QED BY <1>1, <2>3, <2>4 DEF Result, NewBid, Results
<1>4. QED BY <1>2, <1>3

\* The spent auto-bids are named by their users.
LEMMA SpentTyped ==
    ASSUME NEW U, NEW top \in CandidatesOf(U), NEW rest, rest \subseteq CandidatesOf(U), NEW price
    PROVE  Spent(top, rest, price) \in SUBSET U
BY DEF Spent, UsersOf, CandidatesOf

\* The engine's answer to a new auto-bid is well formed.
LEMMA AfterAutoBidTyped ==
    ASSUME NEW U, NEW S, S \subseteq CandidatesOf(U), IsFiniteSet(S), S # {},
           NEW start \in Nat, NEW inc \in Nat, NEW price \in Nat, NEW hasBid, NEW leader
    PROVE  AfterAutoBid(S, start, inc, price, hasBid, leader) \in Results(U)
<1> DEFINE top == Top(S)
           rest == S \ {top}
           second == Top(rest)
<1>1. top \in CandidatesOf(U) /\ rest \subseteq CandidatesOf(U)
  BY TopIsFirst
<1>2. rest # {} => second \in CandidatesOf(U)
  <2>1. IsFiniteSet(rest)
    BY FS_Subset
  <2>2. QED BY <1>1, <2>1, TopIsFirst
<1>3. top.user \in U /\ top.max \in Nat
  BY <1>1 DEF CandidatesOf
<1>4. rest # {} => second.user \in U /\ second.max \in Nat
  BY <1>2 DEF CandidatesOf
<1>5. \A p : Spent(top, rest, p) \in SUBSET U
  BY <1>1, SpentTyped
<1>8. FirstAutoBid(S, start, inc) \in Results(U)
  <2>1. CASE rest = {}
    <3>1. FirstAutoBid(S, start, inc)
             = Result(top.user, start, TRUE, {}, {NewBid(top.user, start, "WINNING")})
      BY <2>1 DEF FirstAutoBid
    <3> HIDE DEF top
    <3>2. QED BY <1>3, <3>1 DEF Result, NewBid, Results
  <2>2. CASE rest # {}
    <3> DEFINE p == Capped(top, second.max + inc)
    <3>1. p \in Nat
      BY <1>1, <1>4, <2>2, CappedIsNat
    <3>2. FirstAutoBid(S, start, inc)
             = Result(top.user, p, TRUE, Spent(top, rest, p),
                      {NewBid(second.user, second.max, "OUTBID"), NewBid(top.user, p, "WINNING")})
      BY <2>2 DEF FirstAutoBid
    <3> HIDE DEF p, top, rest, second
    <3>3. Spent(top, rest, p) \in SUBSET U
      BY <1>5
    <3>4. QED BY <1>3, <1>4, <2>2, <3>1, <3>2, <3>3 DEF Result, NewBid, Results
  <2>3. QED BY <2>1, <2>2
<1>9. DefendAutoBid(S, price, inc) \in Results(U)
  <2>1. CASE Threatened(rest, price)
    <3> DEFINE p == Capped(top, second.max + inc)
    <3>1. p \in Nat
      BY <1>1, <1>4, <2>1, CappedIsNat DEF Threatened
    <3>2. DefendAutoBid(S, price, inc)
             = Result(top.user, p, TRUE, Spent(top, rest, p), {NewBid(top.user, p, "WINNING")})
      BY <2>1 DEF DefendAutoBid
    <3> HIDE DEF p, top, rest, second
    <3>3. Spent(top, rest, p) \in SUBSET U
      BY <1>5
    <3>4. QED BY <1>3, <3>1, <3>2, <3>3 DEF Result, NewBid, Results
  <2>2. CASE ~Threatened(rest, price)
    <3>1. DefendAutoBid(S, price, inc) = Result(top.user, price, TRUE, {}, {})
      BY <2>2 DEF DefendAutoBid
    <3> HIDE DEF top
    <3>2. QED BY <1>3, <3>1 DEF Result, Results
  <2>3. QED BY <2>1, <2>2
<1>10. ChallengeAutoBid(S, price, inc) \in Results(U)
  <2> DEFINE s == IF rest = {} THEN price ELSE second.max
             raise == IF rest # {} /\ s > price THEN inc ELSE 0
             p == Larger(price + inc, Capped(top, Larger(price + inc, s) + raise))
  <2>1. s \in Nat /\ raise \in Nat
    BY <1>4
  <2>2. Larger(price + inc, s) + raise \in Nat
    <3> HIDE DEF s, raise
    <3> QED BY <2>1 DEF Larger
  <2>3. p \in Nat
    <3>1. Capped(top, Larger(price + inc, s) + raise) \in Nat
      BY <1>1, <2>2, CappedIsNat
    <3> HIDE DEF s, raise
    <3>2. QED BY <3>1 DEF Larger
  <2>4. ChallengeAutoBid(S, price, inc)
           = Result(top.user, p, TRUE, Spent(top, rest, p), {NewBid(top.user, p, "WINNING")})
    BY DEF ChallengeAutoBid
  <2> HIDE DEF p, top, rest
  <2>5. Spent(top, rest, p) \in SUBSET U
    BY <1>5
  <2>6. QED BY <1>3, <2>3, <2>4, <2>5 DEF Result, NewBid, Results
<1>11. QED BY <1>8, <1>9, <1>10 DEF AfterAutoBid

-----------------------------------------------------------------------------
\* A manual bid is answered within the rules, whatever the auto-bids: the
\* price is at least the bid; an auto-bid that wins belongs to another user
\* and pays no more than its ceiling; an auto-bid that is declared exhausted
\* has reached its ceiling.
THEOREM ManualBidAnswer ==
    ASSUME NEW U, NEW S, S \subseteq CandidatesOf(U), IsFiniteSet(S),
           NEW inc \in Nat, NEW u \in U, NEW amount \in Nat, NEW r,
           r = AfterManualBid(S, inc, u, amount)
    PROVE  /\ r.amount >= amount
           /\ r.auto => \E x \in S : /\ x.user = r.winner
                                     /\ x.user # u
                                     /\ r.amount <= x.max
           /\ \A v \in r.exhausted : \E x \in S : x.user = v /\ x.max <= r.amount
<1> DEFINE competing == {x \in S : x.user # u}
           top == Top(competing)
           price == Capped(top, amount + inc)
           beaten == {x.user : x \in {y \in competing : y.max <= amount}}
           last == IF top.max < amount + inc THEN {top.user} ELSE {}
<1>1. \A v \in beaten : \E x \in S : x.user = v /\ x.max <= amount
  OBVIOUS
<1>2. CASE competing = {} \/ top.max < amount
  <2>1. r = Result(u, amount, FALSE, beaten, {NewBid(u, amount, "WINNING")})
    BY <1>2 DEF AfterManualBid
  <2> HIDE DEF beaten
  <2>2. QED BY <1>1, <2>1 DEF Result
<1>3. CASE ~(competing = {} \/ top.max < amount)
  <2>1. competing \subseteq CandidatesOf(U) /\ IsFiniteSet(competing)
    BY FS_Subset
  <2>2. top \in competing
    BY <1>3, <2>1, TopIsFirst
  <2>3. top \in S /\ top.user # u /\ top.max \in Nat /\ amount <= top.max
    BY <1>3, <2>1, <2>2 DEF CandidatesOf
  <2>4. price \in Nat /\ amount <= price /\ price <= top.max
    BY <2>3 DEF Capped, Smaller
  <2>5. top.max < amount + inc => top.max <= price
    BY <2>3 DEF Capped, Smaller
  <2>6. r = Result(top.user, price, TRUE, beaten \cup last,
                   {NewBid(u, amount, "OUTBID"), NewBid(top.user, price, "WINNING")})
    BY <1>3 DEF AfterManualBid
  <2>7. \A v \in last : v = top.user /\ top.max <= price
    BY <2>5
  <2>8. \A v \in beaten : \E x \in S : x.user = v /\ x.max <= price
    <3> HIDE DEF beaten, price
    <3>1. \A x \in S : x.max \in Nat
      BY DEF CandidatesOf
    <3>2. QED BY <1>1, <2>4, <3>1
  <2> HIDE DEF beaten, last, top, price
  <2>9. QED BY <2>3, <2>4, <2>6, <2>7, <2>8 DEF Result
<1>4. QED BY <1>2, <1>3

\* An auto-bid is answered within the rules, provided that some ceiling
\* reaches the minimum required, as setAutoBid has checked: the winner pays
\* more than the price it replaces and no more than its ceiling; what is
\* declared exhausted has reached its ceiling; and no rival auto-bid is left
\* that is both active and able to bid again.
THEOREM AutoBidAnswer ==
    ASSUME NEW U, NEW S, S \subseteq CandidatesOf(U), IsFiniteSet(S), S # {},
           NEW start \in Nat, NEW inc \in Nat \ {0}, NEW price \in Nat,
           NEW hasBid \in BOOLEAN, NEW leader, NEW r,
           \E x \in S : x.max >= IF hasBid THEN price + inc ELSE start,
           r = AfterAutoBid(S, start, inc, price, hasBid, leader)
    PROVE  /\ r.creates # {} => /\ \E x \in S : x.user = r.winner /\ r.amount <= x.max
                                /\ hasBid => r.amount > price
           /\ \A v \in r.exhausted : \E x \in S : x.user = v /\ x.max <= r.amount
           /\ \A x \in S : \/ x.user = r.winner
                           \/ x.user \in r.exhausted
                           \/ x.max < r.amount + inc
<1> DEFINE top == Top(S)
           rest == S \ {top}
           second == Top(rest)
           Sound(p, e, w) ==
               /\ p \in Nat /\ p <= top.max
               /\ w \in S /\ w = top
               /\ \A v \in e : \E x \in S : x.user = v /\ x.max <= p
               /\ \A x \in S : x.user = w.user \/ x.user \in e \/ x.max < p + inc
<1>1. top \in S /\ \A x \in S : x.max \in Nat /\ x.max <= top.max
  <2>1. top \in S /\ \A x \in S : Precedes(top, x)
    BY TopIsFirst
  <2>2. \A x \in S : x.max \in Nat
    BY DEF CandidatesOf
  <2> HIDE DEF top
  <2>3. QED BY <2>1, <2>2 DEF Precedes
<1>2. ASSUME rest # {}
      PROVE  /\ second \in S /\ second.max \in Nat
             /\ \A x \in rest : x.max \in Nat /\ x.max <= second.max
  <2>1. IsFiniteSet(rest) /\ rest \subseteq CandidatesOf(U)
    BY FS_Subset
  <2> HIDE DEF rest
  <2>2. second \in rest /\ \A x \in rest : Precedes(second, x)
    BY <1>2, <2>1, TopIsFirst
  <2>3. \A x \in rest : x.max \in Nat
    BY <2>1 DEF CandidatesOf
  <2>4. second \in S
    BY <2>2 DEF rest
  <2>5. QED BY <2>2, <2>3, <2>4 DEF Precedes
<1>3. top.max \in Nat /\ top.max >= IF hasBid THEN price + inc ELSE start
  BY <1>1
<1>4. ASSUME NEW p \in Nat, p <= top.max, \A x \in rest : x.max <= p
      PROVE  Sound(p, Spent(top, rest, p), top)
  <2>1. \A v \in Spent(top, rest, p) : \E x \in S : x.user = v /\ x.max <= p
    BY <1>1, <1>4 DEF Spent, UsersOf
  <2>2. \A x \in S : x.user = top.user \/ x.user \in Spent(top, rest, p)
    BY <1>1 DEF Spent, UsersOf
  <2>3. QED BY <1>1, <1>4, <2>1, <2>2
<1>5. CASE ~hasBid
  <2>1. r = FirstAutoBid(S, start, inc)
    BY <1>5 DEF AfterAutoBid
  <2>2. CASE rest = {}
    <3>1. r = Result(top.user, start, TRUE, {}, {NewBid(top.user, start, "WINNING")})
      BY <2>1, <2>2 DEF FirstAutoBid
    <3>2. \A x \in S : x = top
      BY <2>2
    <3> HIDE DEF top
    <3>3. QED BY <1>1, <1>3, <1>5, <3>1, <3>2 DEF Result
  <2>3. CASE rest # {}
    <3> DEFINE p == Capped(top, second.max + inc)
    <3>1. r = Result(top.user, p, TRUE, Spent(top, rest, p),
                     {NewBid(second.user, second.max, "OUTBID"), NewBid(top.user, p, "WINNING")})
      BY <2>1, <2>3 DEF FirstAutoBid
    <3>2. second.max \in Nat /\ second.max <= top.max
      BY <1>1, <1>2, <2>3
    <3>3. p \in Nat /\ p <= top.max /\ second.max <= p
      BY <1>3, <3>2 DEF Capped, Smaller
    <3>4. \A x \in rest : x.max <= p
      <4> HIDE DEF p, rest, second, top
      <4>1. QED BY <1>2, <2>3, <3>3
    <3>5. Sound(p, Spent(top, rest, p), top)
      <4> HIDE DEF p, Sound, rest, top
      <4>1. QED BY <1>4, <3>3, <3>4
    <3> HIDE DEF p, rest, second, top
    <3>6. QED BY <1>5, <3>1, <3>5 DEF Result
  <2>4. QED BY <2>2, <2>3
<1>6. CASE hasBid /\ leader = top.user
  <2>1. r = DefendAutoBid(S, price, inc)
    BY <1>6 DEF AfterAutoBid
  <2>2. CASE Threatened(rest, price)
    <3> DEFINE p == Capped(top, second.max + inc)
    <3>1. r = Result(top.user, p, TRUE, Spent(top, rest, p), {NewBid(top.user, p, "WINNING")})
      BY <2>1, <2>2 DEF DefendAutoBid
    <3>2. rest # {} /\ second.max >= price
      BY <2>2 DEF Threatened
    <3>3. second.max \in Nat /\ second.max <= top.max
      BY <1>1, <1>2, <3>2
    <3>4. p \in Nat /\ p <= top.max /\ second.max <= p /\ p > price
      BY <1>3, <1>6, <3>2, <3>3 DEF Capped, Smaller
    <3>5. \A x \in rest : x.max <= p
      <4> HIDE DEF p, rest, second, top
      <4>1. QED BY <1>2, <3>2, <3>4
    <3>6. Sound(p, Spent(top, rest, p), top)
      <4> HIDE DEF p, Sound, rest, top
      <4>1. QED BY <1>4, <3>4, <3>5
    <3> HIDE DEF p, rest, second, top
    <3>7. QED BY <3>1, <3>4, <3>6 DEF Result
  <2>3. CASE ~Threatened(rest, price)
    <3>1. r = Result(top.user, price, TRUE, {}, {})
      BY <2>1, <2>3 DEF DefendAutoBid
    <3>2. \A x \in rest : x.max \in Nat /\ x.max < price
      <4>1. CASE rest = {}
        BY <4>1
      <4>2. CASE rest # {}
        <5>1. second.max \in Nat /\ ~(second.max >= price)
          BY <1>2, <2>3, <4>2 DEF Threatened
        <5> HIDE DEF rest, second
        <5>2. QED BY <1>2, <4>2, <5>1
      <4>3. QED BY <4>1, <4>2
    <3>3. \A x \in S : x = top \/ x \in rest
      OBVIOUS
    <3> HIDE DEF rest, top
    <3>4. QED BY <3>1, <3>2, <3>3 DEF Result
  <2>4. QED BY <2>2, <2>3
<1>7. CASE hasBid /\ leader # top.user
  <2> DEFINE s == IF rest = {} THEN price ELSE second.max
             raise == IF rest # {} /\ s > price THEN inc ELSE 0
             p == Larger(price + inc, Capped(top, Larger(price + inc, s) + raise))
  <2>1. r = ChallengeAutoBid(S, price, inc)
    BY <1>7 DEF AfterAutoBid
  <2>2. r = Result(top.user, p, TRUE, Spent(top, rest, p), {NewBid(top.user, p, "WINNING")})
    BY <2>1 DEF ChallengeAutoBid
  <2>3. s \in Nat /\ raise \in Nat /\ (rest # {} => s = second.max /\ s <= top.max)
    BY <1>1, <1>2
  <2>4. p \in Nat /\ p <= top.max /\ p > price /\ (rest # {} => s <= p)
    <3> HIDE DEF s, raise, rest
    <3>1. QED BY <1>3, <1>7, <2>3 DEF Larger, Capped, Smaller
  <2>5. \A x \in rest : x.max <= p
    <3> HIDE DEF p, s, raise, rest, second, top
    <3>1. QED BY <1>2, <2>3, <2>4
  <2>6. Sound(p, Spent(top, rest, p), top)
    <3> HIDE DEF p, Sound, rest, top
    <3>1. QED BY <1>4, <2>4, <2>5
  <2> HIDE DEF p, s, raise, rest, second, top
  <2>7. QED BY <2>2, <2>4, <2>6 DEF Result
<1>8. QED BY <1>5, <1>6, <1>7

\* What a manual bid leaves behind: it wins only over lower ceilings, and the
\* auto-bid that answers it is one with the highest ceiling of the others.
LEMMA ManualBidLeaves ==
    ASSUME NEW U, NEW S, S \subseteq CandidatesOf(U), IsFiniteSet(S),
           NEW inc \in Nat, NEW u \in U, NEW amount \in Nat, NEW r,
           r = AfterManualBid(S, inc, u, amount)
    PROVE  /\ ~r.auto => \A x \in S : x.user # u => x.max < amount
           /\ r.auto => \E x \in S : /\ x.user = r.winner /\ x.user # u
                                     /\ amount <= x.max /\ r.amount <= x.max
                                     /\ \A y \in S : y.user # u => Precedes(x, y)
<1> DEFINE competing == {x \in S : x.user # u}
           top == Top(competing)
           price == Capped(top, amount + inc)
           beaten == {x.user : x \in {y \in competing : y.max <= amount}}
           last == IF top.max < amount + inc THEN {top.user} ELSE {}
<1>1. competing \subseteq CandidatesOf(U) /\ IsFiniteSet(competing)
  BY FS_Subset
<1>2. competing # {} => /\ top \in competing /\ top.max \in Nat
                        /\ \A x \in competing : Precedes(top, x) /\ x.max \in Nat
  <2>1. \A x \in competing : x.max \in Nat
    BY <1>1 DEF CandidatesOf
  <2> HIDE DEF competing
  <2>2. QED BY <1>1, <2>1, TopIsFirst
<1>3. CASE competing = {} \/ top.max < amount
  <2>1. r = Result(u, amount, FALSE, beaten, {NewBid(u, amount, "WINNING")})
    BY <1>3 DEF AfterManualBid
  <2>2. \A x \in competing : x.max < amount
    <3> HIDE DEF competing, top
    <3>1. QED BY <1>2, <1>3 DEF Precedes
  <2> HIDE DEF beaten
  <2>3. QED BY <2>1, <2>2 DEF Result
<1>4. CASE ~(competing = {} \/ top.max < amount)
  <2>1. r = Result(top.user, price, TRUE, beaten \cup last,
                   {NewBid(u, amount, "OUTBID"), NewBid(top.user, price, "WINNING")})
    BY <1>4 DEF AfterManualBid
  <2>2. top \in S /\ top.user # u /\ amount <= top.max
    BY <1>2, <1>4
  <2>3. price <= top.max
    <3> HIDE DEF top
    <3>1. QED BY <1>2, <1>4 DEF Capped, Smaller
  <2>4. \A y \in S : y.user # u => Precedes(top, y)
    BY <1>2, <1>4
  <2> HIDE DEF beaten, last, top, price
  <2>5. QED BY <2>1, <2>2, <2>3, <2>4 DEF Result
<1>5. QED BY <1>3, <1>4

\* What an auto-bid leaves behind: a new winning bid spends every auto-bid but
\* the winner's; and none is placed only where the leader's ceiling is the
\* best and no other reaches the price.
LEMMA AutoBidLeaves ==
    ASSUME NEW U, NEW S, S \subseteq CandidatesOf(U), IsFiniteSet(S), S # {},
           NEW start \in Nat, NEW inc \in Nat, NEW price \in Nat,
           NEW hasBid \in BOOLEAN, NEW leader, NEW r,
           r = AfterAutoBid(S, start, inc, price, hasBid, leader)
    PROVE  /\ r.creates # {} => UsersOf(S) \subseteq r.exhausted \cup {r.winner}
           /\ r.creates = {} => /\ hasBid /\ r.winner = leader
                                /\ \A x \in S : x.user = leader \/ x.max < price
<1> DEFINE top == Top(S)
           rest == S \ {top}
           second == Top(rest)
<1>1. top \in S
  BY TopIsFirst
<1>2. \A p : UsersOf(S) \subseteq Spent(top, rest, p) \cup {top.user}
  BY DEF Spent, UsersOf
<1>3. \A w, p, e, b, c : /\ Result(w, p, TRUE, e, {b}).creates # {}
                         /\ Result(w, p, TRUE, e, {b, c}).creates # {}
  BY DEF Result
<1>4. CASE ~hasBid
  <2>1. r = FirstAutoBid(S, start, inc)
    BY <1>4 DEF AfterAutoBid
  <2>2. CASE rest = {}
    <3>1. r = Result(top.user, start, TRUE, {}, {NewBid(top.user, start, "WINNING")})
      BY <2>1, <2>2 DEF FirstAutoBid
    <3>2. S = {top}
      BY <1>1, <2>2
    <3> HIDE DEF top
    <3>3. QED BY <3>1, <3>2 DEF Result, UsersOf
  <2>3. CASE rest # {}
    <3> DEFINE p == Capped(top, second.max + inc)
    <3>1. r = Result(top.user, p, TRUE, Spent(top, rest, p),
                     {NewBid(second.user, second.max, "OUTBID"), NewBid(top.user, p, "WINNING")})
      BY <2>1, <2>3 DEF FirstAutoBid
    <3> HIDE DEF p, rest, second, top
    <3>2. QED BY <1>2, <1>3, <3>1 DEF Result
  <2>4. QED BY <2>2, <2>3
<1>5. CASE hasBid /\ leader = top.user
  <2>1. r = DefendAutoBid(S, price, inc)
    BY <1>5 DEF AfterAutoBid
  <2>2. CASE Threatened(rest, price)
    <3> DEFINE p == Capped(top, second.max + inc)
    <3>1. r = Result(top.user, p, TRUE, Spent(top, rest, p), {NewBid(top.user, p, "WINNING")})
      BY <2>1, <2>2 DEF DefendAutoBid
    <3> HIDE DEF p, rest, second, top
    <3>2. QED BY <1>2, <1>3, <3>1 DEF Result
  <2>3. CASE ~Threatened(rest, price)
    <3>1. r = Result(top.user, price, TRUE, {}, {})
      BY <2>1, <2>3 DEF DefendAutoBid
    <3>2. \A x \in rest : x.max < price
      <4>1. CASE rest = {}
        BY <4>1
      <4>2. CASE rest # {}
        <5>1. rest \subseteq CandidatesOf(U) /\ IsFiniteSet(rest)
          BY FS_Subset
        <5>2. ~(second.max >= price)
          BY <2>3, <4>2 DEF Threatened
        <5>3. \A x \in rest : x.max \in Nat
          BY <5>1 DEF CandidatesOf
        <5> HIDE DEF rest
        <5>4. second \in rest /\ \A x \in rest : Precedes(second, x)
          BY <4>2, <5>1, TopIsFirst
        <5> HIDE DEF second
        <5>5. QED BY <5>2, <5>3, <5>4 DEF Precedes
      <4>3. QED BY <4>1, <4>2
    <3>3. \A x \in S : x.user = top.user \/ x \in rest
      OBVIOUS
    <3> HIDE DEF rest, top
    <3>4. r.creates = {} /\ r.winner = top.user
      BY <3>1 DEF Result
    <3>5. \A x \in S : x.user = leader \/ x.max < price
      BY <1>5, <3>2, <3>3
    <3>6. QED BY <1>5, <3>4, <3>5
  <2>4. QED BY <2>2, <2>3
<1>6. CASE hasBid /\ leader # top.user
  <2> DEFINE s == IF rest = {} THEN price ELSE second.max
             raise == IF rest # {} /\ s > price THEN inc ELSE 0
             p == Larger(price + inc, Capped(top, Larger(price + inc, s) + raise))
  <2>1. r = ChallengeAutoBid(S, price, inc)
    BY <1>6 DEF AfterAutoBid
  <2>2. r = Result(top.user, p, TRUE, Spent(top, rest, p), {NewBid(top.user, p, "WINNING")})
    BY <2>1 DEF ChallengeAutoBid
  <2> HIDE DEF p, s, raise, rest, second, top
  <2>3. QED BY <1>2, <1>3, <2>2 DEF Result
<1>7. QED BY <1>4, <1>5, <1>6

\* The winning bid that answers a manual bid is among the bids to create, and
\* without an auto-bid to answer it, it is the manual bid itself.
LEMMA ManualBidRecords ==
    ASSUME NEW S, NEW inc, NEW u, NEW amount, NEW r, r = AfterManualBid(S, inc, u, amount)
    PROVE  /\ NewBid(r.winner, r.amount, "WINNING") \in r.creates
           /\ ~r.auto => r.winner = u /\ r.amount = amount
<1>1. PICK spent, top, price :
        \/ r = Result(u, amount, FALSE, spent, {NewBid(u, amount, "WINNING")})
        \/ r = Result(top, price, TRUE, spent,
                      {NewBid(u, amount, "OUTBID"), NewBid(top, price, "WINNING")})
  BY Zenon DEF AfterManualBid
<1>2. QED BY <1>1 DEF Result

\* An auto-bid is answered for the auto-bid with the best ceiling; what it
\* bids is among the bids to create, and at least the minimum required or all
\* that its ceiling allows.
LEMMA AutoBidRecords ==
    ASSUME NEW U, NEW S, S \subseteq CandidatesOf(U), IsFiniteSet(S), S # {},
           NEW start \in Nat, NEW inc \in Nat, NEW price \in Nat,
           NEW hasBid \in BOOLEAN, NEW leader, NEW r,
           r = AfterAutoBid(S, start, inc, price, hasBid, leader)
    PROVE  /\ r.winner = Top(S).user /\ r.auto
           /\ r.creates # {} => NewBid(r.winner, r.amount, "WINNING") \in r.creates
           /\ r.creates # {} /\ (\A x \in S : x.max >= start) =>
                 \/ r.amount >= IF hasBid THEN price + inc ELSE start
                 \/ r.amount = Top(S).max
<1> DEFINE top == Top(S)
           rest == S \ {top}
           second == Top(rest)
<1>1. top \in S /\ top.max \in Nat
  <2>1. top \in S
    BY TopIsFirst
  <2> HIDE DEF top
  <2>2. QED BY <2>1 DEF CandidatesOf
<1>2. rest # {} => second \in S /\ second.max \in Nat
  <2>1. IsFiniteSet(rest) /\ rest \subseteq CandidatesOf(U) /\ rest \subseteq S
    BY FS_Subset
  <2> HIDE DEF rest
  <2>2. rest # {} => second \in rest
    BY <2>1, TopIsFirst
  <2> HIDE DEF second
  <2>3. QED BY <2>1, <2>2 DEF CandidatesOf
<1>3. CASE ~hasBid
  <2>1. r = FirstAutoBid(S, start, inc)
    BY <1>3 DEF AfterAutoBid
  <2>2. CASE rest = {}
    <3>1. r = Result(top.user, start, TRUE, {}, {NewBid(top.user, start, "WINNING")})
      BY <2>1, <2>2 DEF FirstAutoBid
    <3> HIDE DEF rest, second, top
    <3>2. QED BY <1>3, <3>1 DEF Result, top
  <2>3. CASE rest # {}
    <3> DEFINE p == Capped(top, second.max + inc)
    <3>1. r = Result(top.user, p, TRUE, Spent(top, rest, p),
                     {NewBid(second.user, second.max, "OUTBID"), NewBid(top.user, p, "WINNING")})
      BY <2>1, <2>3 DEF FirstAutoBid
    <3>2. (\A x \in S : x.max >= start) => p >= start \/ p = top.max
      <4> HIDE DEF rest, second, top
      <4>1. QED BY <1>1, <1>2, <2>3 DEF Capped, Smaller
    <3> HIDE DEF p, rest, second, top
    <3>3. /\ r.winner = top.user /\ r.auto /\ r.amount = p
          /\ NewBid(top.user, p, "WINNING") \in r.creates
      BY <3>1 DEF Result
    <3>4. QED BY <1>3, <3>2, <3>3 DEF top
  <2>4. QED BY <2>2, <2>3
<1>4. CASE hasBid /\ leader = top.user
  <2>1. r = DefendAutoBid(S, price, inc)
    BY <1>4 DEF AfterAutoBid
  <2>2. CASE Threatened(rest, price)
    <3> DEFINE p == Capped(top, second.max + inc)
    <3>1. r = Result(top.user, p, TRUE, Spent(top, rest, p), {NewBid(top.user, p, "WINNING")})
      BY <2>1, <2>2 DEF DefendAutoBid
    <3>2. p >= price + inc \/ p = top.max
      <4>1. rest # {} /\ second.max >= price
        BY <2>2 DEF Threatened
      <4> HIDE DEF rest, second, top
      <4>2. QED BY <1>1, <1>2, <4>1 DEF Capped, Smaller
    <3> HIDE DEF p, rest, second, top
    <3>3. /\ r.winner = top.user /\ r.auto /\ r.amount = p
          /\ NewBid(top.user, p, "WINNING") \in r.creates
      BY <3>1 DEF Result
    <3>4. QED BY <1>4, <3>2, <3>3 DEF top
  <2>3. CASE ~Threatened(rest, price)
    <3>1. r = Result(top.user, price, TRUE, {}, {})
      BY <2>1, <2>3 DEF DefendAutoBid
    <3> HIDE DEF rest, second, top
    <3>2. QED BY <3>1 DEF Result, top
  <2>4. QED BY <2>2, <2>3
<1>5. CASE hasBid /\ leader # top.user
  <2> DEFINE s == IF rest = {} THEN price ELSE second.max
             raise == IF rest # {} /\ s > price THEN inc ELSE 0
             p == Larger(price + inc, Capped(top, Larger(price + inc, s) + raise))
  <2>1. r = ChallengeAutoBid(S, price, inc)
    BY <1>5 DEF AfterAutoBid
  <2>2. r = Result(top.user, p, TRUE, Spent(top, rest, p), {NewBid(top.user, p, "WINNING")})
    BY <2>1 DEF ChallengeAutoBid
  <2>3. p >= price + inc
    <3>1. s \in Nat /\ raise \in Nat
      <4> HIDE DEF rest, second, top
      <4>1. QED BY <1>2
    <3> HIDE DEF s, raise, top
    <3>2. QED BY <1>1, <3>1 DEF Larger, Capped, Smaller
  <2> HIDE DEF p, s, raise, rest, second, top
  <2>4. /\ r.winner = top.user /\ r.auto /\ r.amount = p
        /\ NewBid(top.user, p, "WINNING") \in r.creates
    BY <2>2 DEF Result
  <2>5. QED BY <1>5, <2>3, <2>4 DEF top
<1>6. QED BY <1>3, <1>4, <1>5
=============================================================================
