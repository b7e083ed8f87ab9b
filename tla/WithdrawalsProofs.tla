------------------------- MODULE WithdrawalsProofs -------------------------
(***************************************************************************)
(* Theorems about Withdrawals: for any holders, any finite set of requests *)
(* and of admin credits, any amounts, limits, fee and calendar, the books  *)
(* of every wallet agree.                                                  *)
(***************************************************************************)
EXTENDS Withdrawals, SumProofs

\* What a request counts for in AmountsOf, and an admin credit in Unrecorded.
Counts(r, u, S) == IF r.status \in S /\ r.user = u THEN r.amount ELSE 0
Owes(j, u) == IF j.at \in {"credited", "lost"} /\ j.user = u THEN j.amount ELSE 0

AdjustmentRecord ==
    [at : {"idle", "recorded"}] \cup [at : {"credited", "lost"}, user : Holders, amount : Amounts]

-----------------------------------------------------------------------------
(***************************************************************************)
(* The sums of the books.                                                  *)
(***************************************************************************)
\* What a request counts for is a number.
LEMMA CountsTyped ==
    ASSUME NEW r \in {NoRequest} \cup RequestRecord, NEW u, NEW S, S \subseteq WithdrawalStatuses
    PROVE  Counts(r, u, S) \in Int
<1>0. \A n \in Amounts : n \in Int
  BY WithdrawalAssumption
<1>1. CASE r = NoRequest
  <2>1. r.status \notin S
    BY <1>1 DEF NoRequest, WithdrawalStatuses, Occupying
  <2>2. QED BY <2>1 DEF Counts
<1>2. CASE r \in RequestRecord
  <2>1. r.amount \in Amounts
    BY <1>2 DEF RequestRecord
  <2>2. r.amount \in Int
    BY <1>0, <2>1
  <2>3. QED BY <2>2 DEF Counts
<1>3. QED BY <1>1, <1>2

LEMMA OwesTyped ==
    ASSUME NEW j \in AdjustmentRecord, NEW u PROVE Owes(j, u) \in Int
<1>0. \A n \in Amounts : n \in Int
  BY WithdrawalAssumption
<1>1. CASE j \in [at : {"idle", "recorded"}]
  <2>1. j.at \notin {"credited", "lost"}
    BY <1>1
  <2>2. QED BY <2>1 DEF Owes
<1>2. CASE j \in [at : {"credited", "lost"}, user : Holders, amount : Amounts]
  <2>1. j.amount \in Amounts
    BY <1>2
  <2>2. j.amount \in Int
    BY <1>0, <2>1
  <2>3. QED BY <2>2 DEF Owes
<1>3. QED BY <1>1, <1>2 DEF AdjustmentRecord

\* When one request changes, the sums change by what it counts for.
LEMMA AmountsChange ==
    ASSUME withdrawals \in [Withdrawals -> {NoRequest} \cup RequestRecord], NEW w \in Withdrawals,
           NEW r \in {NoRequest} \cup RequestRecord, withdrawals' = [withdrawals EXCEPT ![w] = r],
           NEW u, NEW S, S \subseteq WithdrawalStatuses
    PROVE  /\ AmountsOf(u, S) \in Int
           /\ AmountsOf(u, S)' = AmountsOf(u, S) - Counts(withdrawals[w], u, S) + Counts(r, u, S)
<1> DEFINE f == [v \in Withdrawals |-> Counts(withdrawals[v], u, S)]
           h == [v \in Withdrawals |-> Counts(withdrawals'[v], u, S)]
<1>1. AmountsOf(u, S) = SumFunctionOnSet(f, Withdrawals)
  BY DEF AmountsOf, SumFunction, Counts
<1>2. AmountsOf(u, S)' = SumFunctionOnSet(h, Withdrawals)
  BY DEF AmountsOf, SumFunction, Counts
<1>3. \A v \in Withdrawals : f[v] \in Int
  BY CountsTyped
<1>4. f[w] = Counts(withdrawals[w], u, S) /\ h[w] = Counts(r, u, S)
  BY DEF Counts
<1>5. h[w] \in Int
  BY <1>4, CountsTyped
<1>6. \A v \in Withdrawals \ {w} : h[v] = f[v]
  OBVIOUS
<1>7. IsFiniteSet(Withdrawals)
  BY WithdrawalAssumption
<1> HIDE DEF f, h
<1>8. SumFunctionOnSet(h, Withdrawals) = SumFunctionOnSet(f, Withdrawals) - f[w] + h[w]
  BY <1>3, <1>5, <1>6, <1>7, SumChanges
<1>9. SumFunctionOnSet(f, Withdrawals) \in Int
  BY <1>3, <1>7, SumTypes
<1>10. QED BY <1>1, <1>2, <1>4, <1>8, <1>9

LEMMA UnrecordedChanges ==
    ASSUME adjusting \in [Adjustments -> AdjustmentRecord], NEW a \in Adjustments,
           NEW j \in AdjustmentRecord, adjusting' = [adjusting EXCEPT ![a] = j], NEW u
    PROVE  /\ Unrecorded(u) \in Int
           /\ Unrecorded(u)' = Unrecorded(u) - Owes(adjusting[a], u) + Owes(j, u)
<1> DEFINE f == [b \in Adjustments |-> Owes(adjusting[b], u)]
           h == [b \in Adjustments |-> Owes(adjusting'[b], u)]
<1>1. Unrecorded(u) = SumFunctionOnSet(f, Adjustments)
  BY DEF Unrecorded, SumFunction, Owes
<1>2. Unrecorded(u)' = SumFunctionOnSet(h, Adjustments)
  BY DEF Unrecorded, SumFunction, Owes
<1>3. \A b \in Adjustments : f[b] \in Int
  BY OwesTyped
<1>4. f[a] = Owes(adjusting[a], u) /\ h[a] = Owes(j, u)
  BY DEF Owes
<1>5. h[a] \in Int
  BY <1>4, OwesTyped
<1>6. \A b \in Adjustments \ {a} : h[b] = f[b]
  OBVIOUS
<1>7. IsFiniteSet(Adjustments)
  BY WithdrawalAssumption
<1> HIDE DEF f, h
<1>8. SumFunctionOnSet(h, Adjustments) = SumFunctionOnSet(f, Adjustments) - f[a] + h[a]
  BY <1>3, <1>5, <1>6, <1>7, SumChanges
<1>9. SumFunctionOnSet(f, Adjustments) \in Int
  BY <1>3, <1>7, SumTypes
<1>10. QED BY <1>1, <1>2, <1>4, <1>8, <1>9

\* The sums are numbers, and zero when there is nothing to add up.
LEMMA SumsTyped ==
    ASSUME WithdrawalTypeOK, NEW u, NEW S, S \subseteq WithdrawalStatuses
    PROVE  AmountsOf(u, S) \in Int /\ Unrecorded(u) \in Int
<1> DEFINE f == [v \in Withdrawals |-> Counts(withdrawals[v], u, S)]
           h == [b \in Adjustments |-> Owes(adjusting[b], u)]
<1>1. AmountsOf(u, S) = SumFunctionOnSet(f, Withdrawals)
  BY DEF AmountsOf, SumFunction, Counts
<1>2. Unrecorded(u) = SumFunctionOnSet(h, Adjustments)
  BY DEF Unrecorded, SumFunction, Owes
<1>3. (\A v \in Withdrawals : f[v] \in Int) /\ (\A b \in Adjustments : h[b] \in Int)
  BY CountsTyped, OwesTyped DEF WithdrawalTypeOK, AdjustmentRecord
<1>4. IsFiniteSet(Withdrawals) /\ IsFiniteSet(Adjustments)
  BY WithdrawalAssumption
<1> HIDE DEF f, h
<1>5. QED BY <1>1, <1>2, <1>3, <1>4, SumTypes

-----------------------------------------------------------------------------
(***************************************************************************)
(* What an operation does to the wallet of its user and to nobody else's.  *)
(***************************************************************************)
\* The wallet and the rows of u after executeWalletOp; those of others stay.
LEMMA MovesEffect ==
    ASSUME WithdrawalTypeOK, NEW u \in Holders, NEW can, NEW after, NEW rows, NEW n \in Nat,
           after \in WalletDoc, Moves(u, can, after, rows, n)
    PROVE  /\ can
           /\ wallets' \in [Holders -> WalletDoc] /\ ledger' \in [Holders -> [Rows -> Nat]]
           /\ wallets'[u] = after
           /\ \A t \in Rows : ledger'[u][t] = ledger[u][t] + (IF t \in rows THEN n ELSE 0)
           /\ \A v \in Holders \ {u} : wallets'[v] = wallets[v] /\ ledger'[v] = ledger[v]
<1> DEFINE row == [t \in Rows |-> ledger[u][t] + (IF t \in rows THEN n ELSE 0)]
<1>1. row \in [Rows -> Nat] /\ \A t \in Rows : row[t] = ledger[u][t] + (IF t \in rows THEN n ELSE 0)
  BY DEF WithdrawalTypeOK
<1>2. ledger' = [ledger EXCEPT ![u] = row]
  BY DEF Moves
<1>3. can /\ wallets' = [wallets EXCEPT ![u] = after]
  BY DEF Moves
<1> HIDE DEF row
<1>4. QED BY <1>1, <1>2, <1>3 DEF WithdrawalTypeOK

\* The four movements on a sound wallet.
LEMMA HoldsEffect ==
    ASSUME WithdrawalTypeOK, NEW u \in Holders, NEW n \in Nat, SoundWallet(wallets[u]), HoldsFor(u, n)
    PROVE  /\ wallets' \in [Holders -> WalletDoc] /\ ledger' \in [Holders -> [Rows -> Nat]]
           /\ SoundWallet(wallets'[u])
           /\ wallets'[u].held = wallets[u].held + n /\ wallets'[u].balance = wallets[u].balance
           /\ \A t \in Rows : ledger'[u][t] = ledger[u][t] + (IF t = "HOLD" THEN n ELSE 0)
           /\ \A v \in Holders \ {u} : wallets'[v] = wallets[v] /\ ledger'[v] = ledger[v]
<1> DEFINE w == wallets[u]
<1>1. w \in WalletDoc /\ w.held <= w.balance
  BY DEF SoundWallet
<1>2. CanHold(w, n)
  BY DEF HoldsFor, Moves
<1>3. WithHold(w, n) \in WalletDoc /\ SoundWallet(WithHold(w, n))
      /\ WithHold(w, n).held = w.held + n /\ WithHold(w, n).balance = w.balance
  BY <1>1, <1>2 DEF WithHold, WalletDoc, SoundWallet, CanHold, ValidAmount, Available
<1>4. Moves(u, CanHold(w, n), WithHold(w, n), {"HOLD"}, n)
  BY DEF HoldsFor
<1>5. QED BY <1>3, <1>4, MovesEffect

LEMMA ReleasesEffect ==
    ASSUME WithdrawalTypeOK, NEW u \in Holders, NEW n \in Nat, SoundWallet(wallets[u]), ReleasesTo(u, n)
    PROVE  /\ wallets' \in [Holders -> WalletDoc] /\ ledger' \in [Holders -> [Rows -> Nat]]
           /\ SoundWallet(wallets'[u])
           /\ wallets'[u].held = wallets[u].held - n /\ wallets'[u].balance = wallets[u].balance
           /\ \A t \in Rows : ledger'[u][t] = ledger[u][t] + (IF t = "RELEASE" THEN n ELSE 0)
           /\ \A v \in Holders \ {u} : wallets'[v] = wallets[v] /\ ledger'[v] = ledger[v]
<1> DEFINE w == wallets[u]
<1>1. w \in WalletDoc /\ w.held <= w.balance
  BY DEF SoundWallet
<1>2. CanRelease(w, n)
  BY DEF ReleasesTo, Moves
<1>3. Released(w, n) \in WalletDoc /\ SoundWallet(Released(w, n))
      /\ Released(w, n).held = w.held - n /\ Released(w, n).balance = w.balance
  BY <1>1, <1>2 DEF Released, WalletDoc, SoundWallet, CanRelease, ValidAmount
<1>4. Moves(u, CanRelease(w, n), Released(w, n), {"RELEASE"}, n)
  BY DEF ReleasesTo
<1>5. QED BY <1>3, <1>4, MovesEffect

LEMMA CapturesEffect ==
    ASSUME WithdrawalTypeOK, NEW u \in Holders, NEW n \in Nat, SoundWallet(wallets[u]), CapturesFrom(u, n)
    PROVE  /\ wallets' \in [Holders -> WalletDoc] /\ ledger' \in [Holders -> [Rows -> Nat]]
           /\ SoundWallet(wallets'[u])
           /\ wallets'[u].held = wallets[u].held - n /\ wallets'[u].balance = wallets[u].balance - n
           /\ \A t \in Rows : ledger'[u][t] = ledger[u][t] + (IF t = "CAPTURE" THEN n ELSE 0)
           /\ \A v \in Holders \ {u} : wallets'[v] = wallets[v] /\ ledger'[v] = ledger[v]
<1> DEFINE w == wallets[u]
<1>1. w \in WalletDoc /\ w.held <= w.balance
  BY DEF SoundWallet
<1>2. CanCapture(w, n)
  BY DEF CapturesFrom, Moves
<1>3. Captured(w, n) = [balance |-> w.balance - n, held |-> w.held - n]
  <2>1. /\ \A b, d, x : [[balance |-> b, held |-> d] EXCEPT !.balance = x] = [balance |-> x, held |-> d]
        /\ \A b, d, y : [[balance |-> b, held |-> d] EXCEPT !.held = y] = [balance |-> b, held |-> y]
    OBVIOUS
  <2> DEFINE part == [w EXCEPT !.balance = w.balance - n]
  <2>2. w = [balance |-> w.balance, held |-> w.held]
    BY <1>1 DEF WalletDoc
  <2>3. part = [balance |-> w.balance - n, held |-> w.held]
    BY <2>1, <2>2
  <2>4. Captured(w, n) = [part EXCEPT !.held = w.held - n]
    BY DEF Captured
  <2> HIDE DEF part
  <2>5. QED BY <2>1, <2>3, <2>4
<1>4. Captured(w, n) \in WalletDoc /\ SoundWallet(Captured(w, n))
      /\ Captured(w, n).held = w.held - n /\ Captured(w, n).balance = w.balance - n
  BY <1>1, <1>2, <1>3 DEF WalletDoc, SoundWallet, CanCapture, ValidAmount
<1>5. Moves(u, CanCapture(w, n), Captured(w, n), {"CAPTURE"}, n)
  BY DEF CapturesFrom
<1>6. QED BY <1>4, <1>5, MovesEffect

LEMMA DebitsEffect ==
    ASSUME WithdrawalTypeOK, NEW u \in Holders, NEW n \in Nat, SoundWallet(wallets[u]), DebitsFrom(u, n)
    PROVE  /\ wallets' \in [Holders -> WalletDoc] /\ ledger' \in [Holders -> [Rows -> Nat]]
           /\ SoundWallet(wallets'[u])
           /\ wallets'[u].held = wallets[u].held /\ wallets'[u].balance = wallets[u].balance - n
           /\ \A t \in Rows : ledger'[u][t] = ledger[u][t] + (IF t = "WITHDRAW" THEN n ELSE 0)
           /\ \A v \in Holders \ {u} : wallets'[v] = wallets[v] /\ ledger'[v] = ledger[v]
<1> DEFINE w == wallets[u]
<1>1. w \in WalletDoc /\ w.held <= w.balance
  BY DEF SoundWallet
<1>2. CanDebit(w, n)
  BY DEF DebitsFrom, Moves
<1>3. Debited(w, n) \in WalletDoc /\ SoundWallet(Debited(w, n))
      /\ Debited(w, n).held = w.held /\ Debited(w, n).balance = w.balance - n
  BY <1>1, <1>2 DEF Debited, WalletDoc, SoundWallet, CanDebit, ValidAmount, Available
<1>4. Moves(u, CanDebit(w, n), Debited(w, n), {"WITHDRAW"}, n)
  BY DEF DebitsFrom
<1>5. QED BY <1>3, <1>4, MovesEffect

-----------------------------------------------------------------------------
(***************************************************************************)
(* What an operation does to the request it is about.                      *)
(***************************************************************************)
\* calculateFee is a number, and no more than the amount.
LEMMA FeeTyped == ASSUME NEW n \in Amounts PROVE Fee(n) \in Nat /\ NetAmount(n) \in Nat
<1>1. n \in Nat /\ FeePercentage \in Nat /\ FeePercentage <= 100
  BY WithdrawalAssumption
<1> DEFINE x == n * FeePercentage
<1>2. x \in Nat /\ x <= n * 100
  BY <1>1
<1> HIDE DEF x
<1>3. x \div 100 \in Nat /\ x \div 100 <= n
  BY <1>1, <1>2
<1>4. QED BY <1>1, <1>3 DEF Fee, NetAmount, x

\* A conditional update of the status changes nothing else of the request.
LEMMA TransitionEffect ==
    ASSUME WithdrawalTypeOK, NEW w \in Withdrawals, NEW from, from \subseteq WithdrawalStatuses,
           NEW to \in WithdrawalStatuses, Transition(w, from, to)
    PROVE  /\ withdrawals[w] \in RequestRecord /\ withdrawals[w].status \in from
           /\ \E r \in RequestRecord :
                  /\ withdrawals' = [withdrawals EXCEPT ![w] = r]
                  /\ r.status = to /\ r.user = withdrawals[w].user
                  /\ r.amount = withdrawals[w].amount /\ r.day = withdrawals[w].day
<1> DEFINE q == withdrawals[w]
           r == [q EXCEPT !.status = to]
<1>1. q.status \in from /\ withdrawals' = [withdrawals EXCEPT ![w] = r]
  BY DEF Transition
<1>2. q \in {NoRequest} \cup RequestRecord
  BY DEF WithdrawalTypeOK
<1>3. q # NoRequest
  BY <1>1 DEF NoRequest, WithdrawalStatuses, Occupying
<1>4. q \in RequestRecord
  BY <1>2, <1>3
<1> HIDE DEF q
<1>5. /\ r \in RequestRecord /\ r.status = to /\ r.user = q.user
      /\ r.amount = q.amount /\ r.day = q.day
  BY <1>4 DEF RequestRecord
<1> HIDE DEF r
<1>6. QED BY <1>1, <1>4, <1>5 DEF q

\* The insert gives the request its day.
LEMMA CreateEffect ==
    ASSUME WithdrawalTypeOK, NEW w \in Withdrawals, CreateWithdrawal(w)
    PROVE  /\ withdrawals[w] \in RequestRecord /\ withdrawals[w].status = "ASKED"
           /\ \E r \in RequestRecord :
                  /\ withdrawals' = [withdrawals EXCEPT ![w] = r]
                  /\ r.status = "PENDING" /\ r.user = withdrawals[w].user
                  /\ r.amount = withdrawals[w].amount /\ r.day = today
<1> DEFINE q == withdrawals[w]
           p == [q EXCEPT !.status = "PENDING"]
           r == [p EXCEPT !.day = today]
<1>1. q.status = "ASKED" /\ withdrawals' = [withdrawals EXCEPT ![w] = r]
  <2>1. withdrawals' = [withdrawals EXCEPT ![w].status = "PENDING", ![w].day = today]
    BY DEF CreateWithdrawal
  <2> DEFINE half == [withdrawals EXCEPT ![w] = p]
  <2>2. withdrawals' = [half EXCEPT ![w].day = today]
    BY <2>1
  <2>3. half[w] = p
    BY DEF WithdrawalTypeOK
  <2>4. [half EXCEPT ![w] = r] = [withdrawals EXCEPT ![w] = r]
    BY DEF WithdrawalTypeOK
  <2>5. q.status = "ASKED"
    BY DEF CreateWithdrawal
  <2> HIDE DEF half, p
  <2>6. QED BY <2>2, <2>3, <2>4, <2>5
<1>2. q \in {NoRequest} \cup RequestRecord /\ today \in 0 .. LastDay
  BY DEF WithdrawalTypeOK
<1>3. q # NoRequest
  BY <1>1 DEF NoRequest
<1>4. q \in RequestRecord
  BY <1>2, <1>3
<1> HIDE DEF q
<1>5. p \in RequestRecord /\ p.status = "PENDING" /\ p.user = q.user /\ p.amount = q.amount
  BY <1>4 DEF RequestRecord, WithdrawalStatuses, Occupying
<1> HIDE DEF p
<1>6. /\ r \in RequestRecord /\ r.status = "PENDING" /\ r.user = q.user
      /\ r.amount = q.amount /\ r.day = today
  BY <1>2, <1>5 DEF RequestRecord
<1> HIDE DEF r
<1>7. QED BY <1>1, <1>4, <1>6 DEF q

\* A call that passes the checks writes no more than what it asks for.
LEMMA AskEffect ==
    ASSUME WithdrawalTypeOK, NEW w \in Withdrawals, NEW u \in Holders, NEW n \in Amounts,
           NEW method, AskForWithdrawal(w, u, n, method)
    PROVE  /\ withdrawals[w] = NoRequest
           /\ \E r \in RequestRecord :
                  withdrawals' = [withdrawals EXCEPT ![w] = r] /\ r.status = "ASKED"
<1> DEFINE r == [status |-> "ASKED", user |-> u, amount |-> n, fee |-> Fee(n),
                 net |-> NetAmount(n), day |-> today]
<1>1. r \in RequestRecord
  BY FeeTyped DEF RequestRecord, WithdrawalTypeOK
<1>2. withdrawals[w] = NoRequest /\ withdrawals' = [withdrawals EXCEPT ![w] = r]
  BY DEF AskForWithdrawal
<1>3. r.status = "ASKED"
  OBVIOUS
<1> HIDE DEF r
<1>4. QED BY <1>1, <1>2, <1>3

\* An outbox row about the request.
LEMMA AnnounceTyped ==
    ASSUME WithdrawalTypeOK, NEW w \in Withdrawals, NEW e \in WithdrawalEvents, Announce(w, e)
    PROVE  announced' \in [Withdrawals -> [WithdrawalEvents -> Nat]]
<1> DEFINE row == [announced[w] EXCEPT ![e] = announced[w][e] + 1]
<1>1. row \in [WithdrawalEvents -> Nat]
  BY DEF WithdrawalTypeOK
<1>2. announced' = [announced EXCEPT ![w] = row]
  BY DEF Announce
<1> HIDE DEF row
<1>3. QED BY <1>1, <1>2 DEF WithdrawalTypeOK

-----------------------------------------------------------------------------
(***************************************************************************)
(* The invariant, and its types.                                           *)
(***************************************************************************)
\* The wallet of v agrees with what is held from it, and with its rows.
HeldFor(v) == wallets[v].held = bidHeld[v] + SumPending(v) /\ SoundWallet(wallets[v])

Explained(v) ==
    /\ wallets[v].balance = ledger[v]["DEPOSIT"] - ledger[v]["WITHDRAW"] - ledger[v]["CAPTURE"]
                              + Unrecorded(v)
    /\ wallets[v].held = ledger[v]["HOLD"] - ledger[v]["RELEASE"] - ledger[v]["CAPTURE"]
    /\ ledger[v]["CAPTURE"] = SumCompleted(v)

Books == \A v \in Holders : HeldFor(v) /\ Explained(v)

WithdrawalInv == WithdrawalTypeOK /\ OneRequestPerDay /\ Books

LEMMA AmountOfRequest ==
    ASSUME NEW r \in RequestRecord PROVE r.amount \in Nat /\ r.user \in Holders
<1>1. r.amount \in Amounts /\ r.user \in Holders
  BY DEF RequestRecord
<1>2. \A n \in Amounts : n \in Nat
  BY WithdrawalAssumption
<1>3. QED BY <1>1, <1>2

\* Every step keeps the types.
LEMMA WithdrawalTypesStep ==
    ASSUME WithdrawalTypeOK, Books, [WithdrawalNext]_withdrawalVars PROVE WithdrawalTypeOK'
<1>0. WithdrawalTypeOK /\ \A v \in Holders : SoundWallet(wallets[v])
  BY DEF Books, HeldFor
<1>00. \A n \in Amounts : n \in Nat
  BY WithdrawalAssumption
<1>1. ASSUME NEW w \in Withdrawals, NEW u \in Holders, NEW n \in Amounts, NEW method,
             AskForWithdrawal(w, u, n, method)
      PROVE  WithdrawalTypeOK'
  <2>1. \E r \in RequestRecord : withdrawals' = [withdrawals EXCEPT ![w] = r]
    BY <1>0, <1>1, AskEffect
  <2>2. UNCHANGED <<wallets, ledger, bidHeld, announced, mailed, adjusting, today>>
    BY <1>1 DEF AskForWithdrawal
  <2>3. QED BY <1>0, <2>1, <2>2 DEF WithdrawalTypeOK
<1>2. ASSUME NEW w \in Withdrawals, CreateWithdrawal(w) PROVE WithdrawalTypeOK'
  <2>1. /\ withdrawals[w] \in RequestRecord
        /\ \E r \in RequestRecord : withdrawals' = [withdrawals EXCEPT ![w] = r]
    BY <1>0, <1>2, CreateEffect
  <2>2. HoldsFor(withdrawals[w].user, withdrawals[w].amount) /\ Announce(w, "WithdrawalRequested")
    BY <1>2 DEF CreateWithdrawal
  <2>3. wallets' \in [Holders -> WalletDoc] /\ ledger' \in [Holders -> [Rows -> Nat]]
    BY <1>0, <2>1, <2>2, AmountOfRequest, HoldsEffect
  <2>4. announced' \in [Withdrawals -> [WithdrawalEvents -> Nat]]
    BY <1>0, <2>2, AnnounceTyped DEF WithdrawalEvents
  <2>5. withdrawals' \in [Withdrawals -> {NoRequest} \cup RequestRecord]
    BY <1>0, <2>1 DEF WithdrawalTypeOK
  <2>6. UNCHANGED <<bidHeld, mailed, adjusting, today>>
    BY <1>2 DEF CreateWithdrawal
  <2>7. QED BY <1>0, <2>3, <2>4, <2>5, <2>6 DEF WithdrawalTypeOK
<1>3. ASSUME NEW w \in Withdrawals, AbortWithdrawal(w) PROVE WithdrawalTypeOK'
  BY <1>0, <1>3 DEF AbortWithdrawal, WithdrawalTypeOK
<1>4. ASSUME NEW w \in Withdrawals, NEW u \in Holders, CancelWithdrawal(w, u) PROVE WithdrawalTypeOK'
  <2>1. Transition(w, {"PENDING"}, "CANCELLED") /\ u = withdrawals[w].user
    BY <1>4 DEF CancelWithdrawal
  <2>2. /\ withdrawals[w] \in RequestRecord
        /\ \E r \in RequestRecord : withdrawals' = [withdrawals EXCEPT ![w] = r]
    BY <1>0, <2>1, TransitionEffect DEF WithdrawalStatuses, Occupying
  <2>3. ReleasesTo(u, withdrawals[w].amount)
    BY <1>4 DEF CancelWithdrawal
  <2>4. wallets' \in [Holders -> WalletDoc] /\ ledger' \in [Holders -> [Rows -> Nat]]
    BY <1>0, <2>2, <2>3, AmountOfRequest, ReleasesEffect
  <2>5. withdrawals' \in [Withdrawals -> {NoRequest} \cup RequestRecord]
    BY <1>0, <2>2 DEF WithdrawalTypeOK
  <2>6. UNCHANGED <<bidHeld, announced, mailed, adjusting, today>>
    BY <1>4 DEF CancelWithdrawal
  <2>7. QED BY <1>0, <2>4, <2>5, <2>6 DEF WithdrawalTypeOK
<1>5. ASSUME NEW w \in Withdrawals, StartProcessing(w) PROVE WithdrawalTypeOK'
  <2>1. \E r \in RequestRecord : withdrawals' = [withdrawals EXCEPT ![w] = r]
    BY <1>0, <1>5, TransitionEffect DEF StartProcessing, WithdrawalStatuses, Occupying
  <2>2. UNCHANGED <<wallets, ledger, bidHeld, announced, mailed, adjusting, today>>
    BY <1>5 DEF StartProcessing
  <2>3. QED BY <1>0, <2>1, <2>2 DEF WithdrawalTypeOK
<1>6. ASSUME NEW w \in Withdrawals, CompleteWithdrawal(w) PROVE WithdrawalTypeOK'
  <2>1. Transition(w, {"PROCESSING", "PENDING"}, "COMPLETED") /\ Announce(w, "WithdrawalCompleted")
    BY <1>6 DEF CompleteWithdrawal
  <2>2. /\ withdrawals[w] \in RequestRecord
        /\ \E r \in RequestRecord : withdrawals' = [withdrawals EXCEPT ![w] = r]
    BY <1>0, <2>1, TransitionEffect DEF WithdrawalStatuses, Occupying
  <2>3. CapturesFrom(withdrawals[w].user, withdrawals[w].amount)
    BY <1>6 DEF CompleteWithdrawal
  <2>4. wallets' \in [Holders -> WalletDoc] /\ ledger' \in [Holders -> [Rows -> Nat]]
    BY <1>0, <2>2, <2>3, AmountOfRequest, CapturesEffect
  <2>5. announced' \in [Withdrawals -> [WithdrawalEvents -> Nat]]
    BY <1>0, <2>1, AnnounceTyped DEF WithdrawalEvents
  <2>6. withdrawals' \in [Withdrawals -> {NoRequest} \cup RequestRecord]
    BY <1>0, <2>2 DEF WithdrawalTypeOK
  <2>7. UNCHANGED <<bidHeld, mailed, adjusting, today>>
    BY <1>6 DEF CompleteWithdrawal
  <2>8. QED BY <1>0, <2>4, <2>5, <2>6, <2>7 DEF WithdrawalTypeOK
<1>7. ASSUME NEW w \in Withdrawals, RejectWithdrawal(w) PROVE WithdrawalTypeOK'
  <2>1. Transition(w, {"PENDING", "PROCESSING"}, "REJECTED") /\ Announce(w, "WithdrawalRejected")
    BY <1>7 DEF RejectWithdrawal
  <2>2. /\ withdrawals[w] \in RequestRecord
        /\ \E r \in RequestRecord : withdrawals' = [withdrawals EXCEPT ![w] = r]
    BY <1>0, <2>1, TransitionEffect DEF WithdrawalStatuses, Occupying
  <2>3. ReleasesTo(withdrawals[w].user, withdrawals[w].amount)
    BY <1>7 DEF RejectWithdrawal
  <2>4. wallets' \in [Holders -> WalletDoc] /\ ledger' \in [Holders -> [Rows -> Nat]]
    BY <1>0, <2>2, <2>3, AmountOfRequest, ReleasesEffect
  <2>5. announced' \in [Withdrawals -> [WithdrawalEvents -> Nat]]
    BY <1>0, <2>1, AnnounceTyped DEF WithdrawalEvents
  <2>6. withdrawals' \in [Withdrawals -> {NoRequest} \cup RequestRecord]
    BY <1>0, <2>2 DEF WithdrawalTypeOK
  <2>7. UNCHANGED <<bidHeld, mailed, adjusting, today>>
    BY <1>7 DEF RejectWithdrawal
  <2>8. QED BY <1>0, <2>4, <2>5, <2>6, <2>7 DEF WithdrawalTypeOK
<1>8. ASSUME NEW u \in Holders, NEW n \in Amounts, Withdraw(u, n) PROVE WithdrawalTypeOK'
  <2>1. DebitsFrom(u, n) /\ mailed' \in {mailed, [mailed EXCEPT ![u] = mailed[u] + 1]}
        /\ UNCHANGED <<withdrawals, bidHeld, announced, adjusting, today>>
    BY <1>8 DEF Withdraw
  <2>2. wallets' \in [Holders -> WalletDoc] /\ ledger' \in [Holders -> [Rows -> Nat]]
    BY <1>0, <1>00, <2>1, DebitsEffect
  <2>3. mailed' \in [Holders -> Nat]
    BY <1>0, <2>1 DEF WithdrawalTypeOK
  <2>4. QED BY <1>0, <2>1, <2>2, <2>3 DEF WithdrawalTypeOK
<1>9. ASSUME NEW u \in Holders, NEW n \in Amounts, WithdrawRefused(u, n) PROVE WithdrawalTypeOK'
  <2> DEFINE row == [ledger[u] EXCEPT !["FAILED"] = ledger[u]["FAILED"] + n]
  <2>1. row \in [Rows -> Nat]
    <3>1. ledger[u] \in [Rows -> Nat] /\ n \in Nat
      BY <1>0, <1>00 DEF WithdrawalTypeOK
    <3>2. ledger[u]["FAILED"] + n \in Nat
      BY <3>1 DEF Rows
    <3>3. QED BY <3>1, <3>2
  <2>2. ledger' = [ledger EXCEPT ![u] = row]
        /\ UNCHANGED <<wallets, withdrawals, bidHeld, announced, mailed, adjusting, today>>
    BY <1>9 DEF WithdrawRefused
  <2> HIDE DEF row
  <2>3. QED BY <1>0, <2>1, <2>2 DEF WithdrawalTypeOK
<1>10. ASSUME NEW a \in Adjustments, NEW u \in Holders, NEW n \in Amounts, AdminCredit(a, u, n)
       PROVE  WithdrawalTypeOK'
  <2> DEFINE doc == Credited(wallets[u], n)
             j == [at |-> "credited", user |-> u, amount |-> n]
  <2>1. wallets' = [wallets EXCEPT ![u] = doc] /\ adjusting' = [adjusting EXCEPT ![a] = j]
        /\ UNCHANGED <<withdrawals, ledger, bidHeld, announced, mailed, today>>
    BY <1>10 DEF AdminCredit
  <2>2. doc \in WalletDoc
    BY <1>0, <1>00 DEF Credited, WalletDoc, WithdrawalTypeOK
  <2>3. j \in AdjustmentRecord
    BY DEF AdjustmentRecord
  <2> HIDE DEF doc, j
  <2>4. QED BY <1>0, <2>1, <2>2, <2>3 DEF WithdrawalTypeOK, AdjustmentRecord
<1>11. ASSUME NEW a \in Adjustments, RecordCredit(a) PROVE WithdrawalTypeOK'
  <2> DEFINE u == adjusting[a].user
             n == adjusting[a].amount
             row == [ledger[u] EXCEPT !["DEPOSIT"] = ledger[u]["DEPOSIT"] + n]
             j == [at |-> "recorded"]
  <2>1. u \in Holders /\ n \in Amounts
    BY <1>0, <1>11 DEF RecordCredit, WithdrawalTypeOK
  <2>2. ledger' = [ledger EXCEPT ![u] = row] /\ adjusting' = [adjusting EXCEPT ![a] = j]
        /\ UNCHANGED <<wallets, withdrawals, bidHeld, announced, mailed, today>>
    BY <1>11 DEF RecordCredit
  <2>3. j \in AdjustmentRecord
    BY DEF AdjustmentRecord
  <2> HIDE DEF u, n, j
  <2>4. row \in [Rows -> Nat]
    <3>1. ledger[u] \in [Rows -> Nat] /\ n \in Nat
      BY <1>0, <1>00, <2>1 DEF WithdrawalTypeOK
    <3>2. ledger[u]["DEPOSIT"] + n \in Nat
      BY <3>1 DEF Rows
    <3>3. QED BY <3>1, <3>2
  <2> HIDE DEF row
  <2>5. QED BY <1>0, <2>1, <2>2, <2>3, <2>4 DEF WithdrawalTypeOK, AdjustmentRecord
<1>12. ASSUME NEW a \in Adjustments, CrashCredit(a) PROVE WithdrawalTypeOK'
  <2> DEFINE j == [adjusting[a] EXCEPT !.at = "lost"]
  <2>1. j \in AdjustmentRecord
    BY <1>0, <1>12 DEF CrashCredit, WithdrawalTypeOK, AdjustmentRecord
  <2>2. adjusting' = [adjusting EXCEPT ![a] = j]
        /\ UNCHANGED <<wallets, withdrawals, ledger, bidHeld, announced, mailed, today>>
    BY <1>12 DEF CrashCredit
  <2> HIDE DEF j
  <2>3. QED BY <1>0, <2>1, <2>2 DEF WithdrawalTypeOK, AdjustmentRecord
<1>13. ASSUME NEW u \in Holders, NEW n \in Amounts, HoldForBid(u, n) PROVE WithdrawalTypeOK'
  <2>1. HoldsFor(u, n) /\ bidHeld' = [bidHeld EXCEPT ![u] = bidHeld[u] + n]
        /\ UNCHANGED <<withdrawals, announced, mailed, adjusting, today>>
    BY <1>13 DEF HoldForBid
  <2>2. wallets' \in [Holders -> WalletDoc] /\ ledger' \in [Holders -> [Rows -> Nat]]
    BY <1>0, <1>00, <2>1, HoldsEffect
  <2>3. bidHeld' \in [Holders -> Nat]
    BY <1>0, <1>00, <2>1 DEF WithdrawalTypeOK
  <2>4. QED BY <1>0, <2>1, <2>2, <2>3 DEF WithdrawalTypeOK
<1>14. ASSUME NEW u \in Holders, ReleaseBid(u) PROVE WithdrawalTypeOK'
  <2>1. ReleasesTo(u, bidHeld[u]) /\ bidHeld' = [bidHeld EXCEPT ![u] = 0]
        /\ UNCHANGED <<withdrawals, announced, mailed, adjusting, today>> /\ bidHeld[u] \in Nat
    BY <1>0, <1>14 DEF ReleaseBid, WithdrawalTypeOK
  <2>2. wallets' \in [Holders -> WalletDoc] /\ ledger' \in [Holders -> [Rows -> Nat]]
    BY <1>0, <2>1, ReleasesEffect
  <2>3. QED BY <1>0, <2>1, <2>2 DEF WithdrawalTypeOK
<1>15. CASE NextDay
  BY <1>0, <1>15, WithdrawalAssumption DEF NextDay, WithdrawalTypeOK
<1>16. CASE UNCHANGED withdrawalVars
  BY <1>0, <1>16 DEF withdrawalVars, WithdrawalTypeOK
<1>17. QED
  BY <1>1, <1>2, <1>3, <1>4, <1>5, <1>6, <1>7, <1>8, <1>9, <1>10, <1>11, <1>12, <1>13, <1>14,
     <1>15, <1>16 DEF WithdrawalNext

-----------------------------------------------------------------------------
(***************************************************************************)
(* One request of the day.                                                 *)
(***************************************************************************)
\* A request that stays as it is, or no longer occupies its day, hurts no other.
LEMMA DayKept ==
    ASSUME WithdrawalTypeOK, OneRequestPerDay, NEW w \in Withdrawals, NEW r,
           withdrawals' = [withdrawals EXCEPT ![w] = r],
           \/ r.status \notin Occupying
           \/ /\ withdrawals[w].status \in Occupying
              /\ r.user = withdrawals[w].user /\ r.day = withdrawals[w].day
    PROVE  OneRequestPerDay'
<1>1. withdrawals'[w] = r /\ \A v \in Withdrawals \ {w} : withdrawals'[v] = withdrawals[v]
  BY DEF WithdrawalTypeOK
<1>2. QED BY <1>1 DEF OneRequestPerDay

\* No step gives a user a second one.
LEMMA OneRequestStep ==
    ASSUME WithdrawalTypeOK, OneRequestPerDay, [WithdrawalNext]_withdrawalVars
    PROVE  OneRequestPerDay'
<1>0. WithdrawalTypeOK /\ OneRequestPerDay
  OBVIOUS
<1>1. ASSUME NEW w \in Withdrawals, NEW u \in Holders, NEW n \in Amounts, NEW method,
             AskForWithdrawal(w, u, n, method)
      PROVE  OneRequestPerDay'
  <2>1. PICK r \in RequestRecord : withdrawals' = [withdrawals EXCEPT ![w] = r] /\ r.status = "ASKED"
    BY <1>0, <1>1, AskEffect
  <2>2. r.status \notin Occupying
    BY <2>1 DEF Occupying
  <2>3. QED BY <1>0, <2>1, <2>2, DayKept
<1>2. ASSUME NEW w \in Withdrawals, CreateWithdrawal(w) PROVE OneRequestPerDay'
  <2>1. PICK r \in RequestRecord :
            /\ withdrawals' = [withdrawals EXCEPT ![w] = r]
            /\ r.user = withdrawals[w].user /\ r.day = today
    BY <1>0, <1>2, CreateEffect
  <2>2. ~Occupied(withdrawals[w].user, today)
    BY <1>2 DEF CreateWithdrawal, DuplicateKey
  <2>3. withdrawals'[w] = r /\ \A v \in Withdrawals \ {w} : withdrawals'[v] = withdrawals[v]
    BY <2>1 DEF WithdrawalTypeOK
  <2>4. QED BY <1>0, <2>1, <2>2, <2>3 DEF OneRequestPerDay, Occupied
<1>3. ASSUME NEW w \in Withdrawals, AbortWithdrawal(w) PROVE OneRequestPerDay'
  <2>1. NoRequest.status \notin Occupying
    BY DEF NoRequest, Occupying
  <2>2. withdrawals' = [withdrawals EXCEPT ![w] = NoRequest]
    BY <1>3 DEF AbortWithdrawal
  <2>3. QED BY <1>0, <2>1, <2>2, DayKept
<1>4. ASSUME NEW w \in Withdrawals, NEW from, from \subseteq Occupying, NEW to \in WithdrawalStatuses,
             Transition(w, from, to)
      PROVE  OneRequestPerDay'
  <2>1. from \subseteq WithdrawalStatuses
    BY <1>4 DEF WithdrawalStatuses
  <2>2. PICK r \in RequestRecord :
            /\ withdrawals' = [withdrawals EXCEPT ![w] = r]
            /\ r.user = withdrawals[w].user /\ r.day = withdrawals[w].day
    BY <1>0, <1>4, <2>1, TransitionEffect
  <2>3. withdrawals[w].status \in Occupying
    BY <1>4 DEF Transition
  <2>4. QED BY <1>0, <2>2, <2>3, DayKept
<1>5. ASSUME NEW w \in Withdrawals,
             \/ \E u \in Holders : CancelWithdrawal(w, u)
             \/ StartProcessing(w) \/ CompleteWithdrawal(w) \/ RejectWithdrawal(w)
      PROVE  OneRequestPerDay'
  <2>1. /\ {"PENDING"} \subseteq Occupying /\ {"PENDING", "PROCESSING"} \subseteq Occupying
        /\ {"PROCESSING", "PENDING"} \subseteq Occupying
        /\ {"CANCELLED", "PROCESSING", "COMPLETED", "REJECTED"} \subseteq WithdrawalStatuses
    BY DEF Occupying, WithdrawalStatuses
  <2>2. \/ Transition(w, {"PENDING"}, "CANCELLED") \/ Transition(w, {"PENDING"}, "PROCESSING")
        \/ Transition(w, {"PROCESSING", "PENDING"}, "COMPLETED")
        \/ Transition(w, {"PENDING", "PROCESSING"}, "REJECTED")
    BY <1>5 DEF CancelWithdrawal, StartProcessing, CompleteWithdrawal, RejectWithdrawal
  <2>3. QED BY <1>4, <2>1, <2>2
<1>6. CASE UNCHANGED withdrawals
  BY <1>6 DEF OneRequestPerDay
<1>7. CASE ~ \E w \in Withdrawals :
             \/ \E u \in Holders, n \in Amounts, method \in PayoutMethods : AskForWithdrawal(w, u, n, method)
             \/ CreateWithdrawal(w) \/ AbortWithdrawal(w) \/ \E u \in Holders : CancelWithdrawal(w, u)
             \/ StartProcessing(w) \/ CompleteWithdrawal(w) \/ RejectWithdrawal(w)
  BY <1>6, <1>7 DEF WithdrawalNext, withdrawalVars, Withdraw, WithdrawRefused, HoldForBid, AdminCredit,
     ReleaseBid, RecordCredit, CrashCredit, NextDay
<1>8. QED BY <1>1, <1>2, <1>3, <1>5, <1>7

-----------------------------------------------------------------------------
(***************************************************************************)
(* The books.                                                              *)
(***************************************************************************)
Pending == {"PENDING", "PROCESSING"}
Paid == {"COMPLETED"}

LEMMA RequestChanges ==
    ASSUME WithdrawalTypeOK, NEW w \in Withdrawals, NEW r \in {NoRequest} \cup RequestRecord,
           withdrawals' = [withdrawals EXCEPT ![w] = r], NEW v
    PROVE  /\ SumPending(v) \in Int /\ SumCompleted(v) \in Int
           /\ SumPending(v)' = SumPending(v) - Counts(withdrawals[w], v, Pending) + Counts(r, v, Pending)
           /\ SumCompleted(v)' = SumCompleted(v) - Counts(withdrawals[w], v, Paid) + Counts(r, v, Paid)
<1>1. withdrawals \in [Withdrawals -> {NoRequest} \cup RequestRecord]
  BY DEF WithdrawalTypeOK
<1>2. Pending \subseteq WithdrawalStatuses /\ Paid \subseteq WithdrawalStatuses
  BY DEF Pending, Paid, WithdrawalStatuses, Occupying
<1>3. /\ AmountsOf(v, Pending) \in Int
      /\ AmountsOf(v, Pending)' = AmountsOf(v, Pending) - Counts(withdrawals[w], v, Pending)
                                    + Counts(r, v, Pending)
  BY <1>1, <1>2, AmountsChange
<1>4. /\ AmountsOf(v, Paid) \in Int
      /\ AmountsOf(v, Paid)' = AmountsOf(v, Paid) - Counts(withdrawals[w], v, Paid) + Counts(r, v, Paid)
  BY <1>1, <1>2, AmountsChange
<1>5. /\ SumPending(v) = AmountsOf(v, Pending) /\ SumPending(v)' = AmountsOf(v, Pending)'
      /\ SumCompleted(v) = AmountsOf(v, Paid) /\ SumCompleted(v)' = AmountsOf(v, Paid)'
  BY DEF SumPending, SumCompleted, Pending, Paid
<1>6. QED BY <1>3, <1>4, <1>5

\* Sums of what does not change do not change.
LEMMA SumsKept ==
    ASSUME NEW v
    PROVE  /\ UNCHANGED withdrawals => SumPending(v)' = SumPending(v) /\ SumCompleted(v)' = SumCompleted(v)
           /\ UNCHANGED adjusting => Unrecorded(v)' = Unrecorded(v)
<1>1. ASSUME UNCHANGED withdrawals
      PROVE  SumPending(v)' = SumPending(v) /\ SumCompleted(v)' = SumCompleted(v)
  BY <1>1 DEF SumPending, SumCompleted, AmountsOf
<1>2. ASSUME UNCHANGED adjusting PROVE Unrecorded(v)' = Unrecorded(v)
  BY <1>2 DEF Unrecorded
<1>3. QED BY <1>1, <1>2

\* The numbers the books of v are about.
LEMMA BooksTyped ==
    ASSUME WithdrawalTypeOK, NEW v \in Holders
    PROVE  /\ wallets[v].balance \in Nat /\ wallets[v].held \in Nat /\ bidHeld[v] \in Nat
           /\ \A t \in Rows : ledger[v][t] \in Nat
           /\ SumPending(v) \in Int /\ SumCompleted(v) \in Int /\ Unrecorded(v) \in Int
<1>1. /\ AmountsOf(v, {"PENDING", "PROCESSING"}) \in Int /\ AmountsOf(v, {"COMPLETED"}) \in Int
      /\ Unrecorded(v) \in Int
  <2>1. {"PENDING", "PROCESSING"} \subseteq WithdrawalStatuses /\ {"COMPLETED"} \subseteq WithdrawalStatuses
    BY DEF WithdrawalStatuses, Occupying
  <2>2. QED BY <2>1, SumsTyped
<1>2. wallets[v] \in WalletDoc /\ bidHeld[v] \in Nat /\ ledger[v] \in [Rows -> Nat]
  BY DEF WithdrawalTypeOK
<1>3. QED BY <1>1, <1>2 DEF WalletDoc, SumPending, SumCompleted

\* Nothing about v has changed.
LEMMA BooksUntouched ==
    ASSUME Books, NEW v \in Holders, wallets'[v] = wallets[v], ledger'[v] = ledger[v],
           bidHeld'[v] = bidHeld[v], SumPending(v)' = SumPending(v),
           SumCompleted(v)' = SumCompleted(v), Unrecorded(v)' = Unrecorded(v)
    PROVE  HeldFor(v)' /\ Explained(v)'
  BY DEF Books, HeldFor, Explained

\* Every step changes both sides of the books by as much.
LEMMA BooksStep ==
    ASSUME WithdrawalTypeOK, Books, [WithdrawalNext]_withdrawalVars PROVE Books'
<1>0. WithdrawalTypeOK /\ Books /\ \A v \in Holders : SoundWallet(wallets[v])
  BY DEF Books, HeldFor
<1>00. \A n \in Amounts : n \in Nat
  BY WithdrawalAssumption
<1>1. ASSUME NEW w \in Withdrawals, NEW u \in Holders, NEW n \in Amounts, NEW method, AskForWithdrawal(w, u, n, method) PROVE Books'
  <2>1. PICK r \in {NoRequest} \cup RequestRecord :
            /\ withdrawals' = [withdrawals EXCEPT ![w] = r]
            /\ withdrawals[w] = NoRequest /\ r.status = "ASKED"
    BY <1>0, <1>1, AskEffect
  <2>2. UNCHANGED <<wallets, ledger, bidHeld, adjusting>>
    BY <1>1 DEF AskForWithdrawal
  <2>3. ASSUME NEW v \in Holders PROVE HeldFor(v)' /\ Explained(v)'
    <3>1. /\ SumPending(v) \in Int /\ SumCompleted(v) \in Int
          /\ SumPending(v)' = SumPending(v) - Counts(withdrawals[w], v, Pending) + Counts(r, v, Pending)
          /\ SumCompleted(v)' = SumCompleted(v) - Counts(withdrawals[w], v, Paid) + Counts(r, v, Paid)
      BY <1>0, <2>1, RequestChanges
    <3>2. /\ Counts(withdrawals[w], v, Pending) = Counts(r, v, Pending)
          /\ Counts(withdrawals[w], v, Paid) = Counts(r, v, Paid)
          /\ Counts(r, v, Pending) \in Int /\ Counts(r, v, Paid) \in Int
      BY <2>1, CountsTyped DEF Counts, Pending, Paid, NoRequest, WithdrawalStatuses, Occupying
    <3>3. SumPending(v)' = SumPending(v) /\ SumCompleted(v)' = SumCompleted(v)
      BY <3>1, <3>2
    <3>4. Unrecorded(v)' = Unrecorded(v)
      BY <2>2, SumsKept
    <3>5. QED BY <1>0, <2>2, <3>3, <3>4, BooksUntouched
  <2>4. QED BY <2>3 DEF Books
<1>2. ASSUME NEW w \in Withdrawals, CreateWithdrawal(w) PROVE Books'
  <2> DEFINE u == withdrawals[w].user
             m == withdrawals[w].amount
  <2>1. CreateWithdrawal(w)
    BY <1>2
  <2>2. /\ withdrawals[w] \in RequestRecord /\ withdrawals[w].status = "ASKED"
        /\ \E r \in RequestRecord :
               /\ withdrawals' = [withdrawals EXCEPT ![w] = r]
               /\ r.status = "PENDING" /\ r.user = u /\ r.amount = m
    BY <1>0, <2>1, CreateEffect
  <2>3. PICK r \in RequestRecord : /\ withdrawals' = [withdrawals EXCEPT ![w] = r]
                                  /\ r.status = "PENDING" /\ r.user = u /\ r.amount = m
    BY <2>2
  <2>4. u \in Holders /\ m \in Nat
    BY <2>2, AmountOfRequest
  <2>5. HoldsFor(u, m) /\ UNCHANGED <<bidHeld, adjusting>>
    BY <1>2 DEF CreateWithdrawal
  <2>6. withdrawals[w].user = u /\ withdrawals[w].amount = m
    OBVIOUS
  <2> HIDE DEF u, m
  <2>7. /\ SoundWallet(wallets'[u])
        /\ wallets'[u].held = wallets[u].held + m /\ wallets'[u].balance = wallets[u].balance
        /\ \A t \in Rows : ledger'[u][t] = ledger[u][t] + (IF t = "HOLD" THEN m ELSE 0)
        /\ \A v \in Holders \ {u} : wallets'[v] = wallets[v] /\ ledger'[v] = ledger[v]
    BY <1>0, <2>4, <2>5, HoldsEffect
  <2>8. ASSUME NEW v \in Holders PROVE HeldFor(v)' /\ Explained(v)'
    <3>1. /\ SumPending(v) \in Int /\ SumCompleted(v) \in Int
          /\ SumPending(v)' = SumPending(v) - Counts(withdrawals[w], v, Pending) + Counts(r, v, Pending)
          /\ SumCompleted(v)' = SumCompleted(v) - Counts(withdrawals[w], v, Paid) + Counts(r, v, Paid)
      BY <1>0, <2>3, RequestChanges
    <3>2. Unrecorded(v)' = Unrecorded(v) /\ bidHeld'[v] = bidHeld[v]
      BY <2>5, SumsKept
    <3>3. CASE v = u
      <4>1. SumPending(v)' = SumPending(v) + m /\ SumCompleted(v)' = SumCompleted(v)
        BY <2>2, <2>3, <2>4, <2>6, <3>1, <3>3 DEF Counts, Pending, Paid
      <4>2. /\ ledger'[v]["DEPOSIT"] = ledger[v]["DEPOSIT"]
            /\ ledger'[v]["WITHDRAW"] = ledger[v]["WITHDRAW"]
            /\ ledger'[v]["HOLD"] = ledger[v]["HOLD"] + m
            /\ ledger'[v]["RELEASE"] = ledger[v]["RELEASE"]
            /\ ledger'[v]["CAPTURE"] = ledger[v]["CAPTURE"]
        BY <1>0, <2>7, <3>3, BooksTyped DEF Rows
      <4>3. /\ wallets[v].balance \in Nat /\ wallets[v].held \in Nat /\ bidHeld[v] \in Nat
            /\ ledger[v]["DEPOSIT"] \in Nat /\ ledger[v]["WITHDRAW"] \in Nat /\ ledger[v]["HOLD"] \in Nat
            /\ ledger[v]["RELEASE"] \in Nat /\ ledger[v]["CAPTURE"] \in Nat
            /\ SumPending(v) \in Int /\ SumCompleted(v) \in Int /\ Unrecorded(v) \in Int
        BY <1>0, BooksTyped DEF Rows
      <4>4. HeldFor(v) /\ Explained(v)
        BY <1>0 DEF Books
      <4>5. HeldFor(v)'
        BY <2>4, <2>7, <3>2, <3>3, <4>1, <4>2, <4>3, <4>4 DEF HeldFor
      <4>6. Explained(v)'
        BY <2>4, <2>7, <3>2, <3>3, <4>1, <4>2, <4>3, <4>4 DEF Explained
      <4>7. QED BY <4>5, <4>6
    <3>4. CASE v # u
      <4>1. SumPending(v)' = SumPending(v) /\ SumCompleted(v)' = SumCompleted(v)
        BY <2>3, <2>6, <3>1, <3>4 DEF Counts
      <4>2. QED BY <1>0, <2>7, <3>2, <3>4, <4>1, BooksUntouched
    <3>5. QED BY <3>3, <3>4
  <2>9. QED BY <2>8 DEF Books
<1>3. ASSUME NEW w \in Withdrawals, NEW x \in Holders, CancelWithdrawal(w, x) PROVE Books'
  <2> DEFINE u == withdrawals[w].user
             m == withdrawals[w].amount
  <2>1. Transition(w, {"PENDING"}, "CANCELLED")
    BY <1>3 DEF CancelWithdrawal
  <2>2. /\ withdrawals[w] \in RequestRecord /\ withdrawals[w].status \in {"PENDING"}
        /\ \E r \in RequestRecord :
               /\ withdrawals' = [withdrawals EXCEPT ![w] = r]
               /\ r.status = "CANCELLED" /\ r.user = u /\ r.amount = m
    BY <1>0, <2>1, TransitionEffect DEF WithdrawalStatuses, Occupying
  <2>3. PICK r \in RequestRecord : /\ withdrawals' = [withdrawals EXCEPT ![w] = r]
                                  /\ r.status = "CANCELLED" /\ r.user = u /\ r.amount = m
    BY <2>2
  <2>4. u \in Holders /\ m \in Nat
    BY <2>2, AmountOfRequest
  <2>5. ReleasesTo(u, m) /\ UNCHANGED <<bidHeld, adjusting>>
    BY <1>3 DEF CancelWithdrawal
  <2>6. withdrawals[w].user = u /\ withdrawals[w].amount = m
    OBVIOUS
  <2> HIDE DEF u, m
  <2>7. /\ SoundWallet(wallets'[u])
        /\ wallets'[u].held = wallets[u].held - m /\ wallets'[u].balance = wallets[u].balance
        /\ \A t \in Rows : ledger'[u][t] = ledger[u][t] + (IF t = "RELEASE" THEN m ELSE 0)
        /\ \A v \in Holders \ {u} : wallets'[v] = wallets[v] /\ ledger'[v] = ledger[v]
    BY <1>0, <2>4, <2>5, ReleasesEffect
  <2>8. ASSUME NEW v \in Holders PROVE HeldFor(v)' /\ Explained(v)'
    <3>1. /\ SumPending(v) \in Int /\ SumCompleted(v) \in Int
          /\ SumPending(v)' = SumPending(v) - Counts(withdrawals[w], v, Pending) + Counts(r, v, Pending)
          /\ SumCompleted(v)' = SumCompleted(v) - Counts(withdrawals[w], v, Paid) + Counts(r, v, Paid)
      BY <1>0, <2>3, RequestChanges
    <3>2. Unrecorded(v)' = Unrecorded(v) /\ bidHeld'[v] = bidHeld[v]
      BY <2>5, SumsKept
    <3>3. CASE v = u
      <4>1. SumPending(v)' = SumPending(v) - m /\ SumCompleted(v)' = SumCompleted(v)
        BY <2>2, <2>3, <2>4, <2>6, <3>1, <3>3 DEF Counts, Pending, Paid
      <4>2. /\ ledger'[v]["DEPOSIT"] = ledger[v]["DEPOSIT"]
            /\ ledger'[v]["WITHDRAW"] = ledger[v]["WITHDRAW"]
            /\ ledger'[v]["HOLD"] = ledger[v]["HOLD"]
            /\ ledger'[v]["RELEASE"] = ledger[v]["RELEASE"] + m
            /\ ledger'[v]["CAPTURE"] = ledger[v]["CAPTURE"]
        BY <1>0, <2>7, <3>3, BooksTyped DEF Rows
      <4>3. /\ wallets[v].balance \in Nat /\ wallets[v].held \in Nat /\ bidHeld[v] \in Nat
            /\ ledger[v]["DEPOSIT"] \in Nat /\ ledger[v]["WITHDRAW"] \in Nat /\ ledger[v]["HOLD"] \in Nat
            /\ ledger[v]["RELEASE"] \in Nat /\ ledger[v]["CAPTURE"] \in Nat
            /\ SumPending(v) \in Int /\ SumCompleted(v) \in Int /\ Unrecorded(v) \in Int
        BY <1>0, BooksTyped DEF Rows
      <4>4. HeldFor(v) /\ Explained(v)
        BY <1>0 DEF Books
      <4>5. HeldFor(v)'
        BY <2>4, <2>7, <3>2, <3>3, <4>1, <4>2, <4>3, <4>4 DEF HeldFor
      <4>6. Explained(v)'
        BY <2>4, <2>7, <3>2, <3>3, <4>1, <4>2, <4>3, <4>4 DEF Explained
      <4>7. QED BY <4>5, <4>6
    <3>4. CASE v # u
      <4>1. SumPending(v)' = SumPending(v) /\ SumCompleted(v)' = SumCompleted(v)
        BY <2>3, <2>6, <3>1, <3>4 DEF Counts
      <4>2. QED BY <1>0, <2>7, <3>2, <3>4, <4>1, BooksUntouched
    <3>5. QED BY <3>3, <3>4
  <2>9. QED BY <2>8 DEF Books
<1>4. ASSUME NEW w \in Withdrawals, CompleteWithdrawal(w) PROVE Books'
  <2> DEFINE u == withdrawals[w].user
             m == withdrawals[w].amount
  <2>1. Transition(w, {"PROCESSING", "PENDING"}, "COMPLETED")
    BY <1>4 DEF CompleteWithdrawal
  <2>2. /\ withdrawals[w] \in RequestRecord /\ withdrawals[w].status \in {"PROCESSING", "PENDING"}
        /\ \E r \in RequestRecord :
               /\ withdrawals' = [withdrawals EXCEPT ![w] = r]
               /\ r.status = "COMPLETED" /\ r.user = u /\ r.amount = m
    BY <1>0, <2>1, TransitionEffect DEF WithdrawalStatuses, Occupying
  <2>3. PICK r \in RequestRecord : /\ withdrawals' = [withdrawals EXCEPT ![w] = r]
                                  /\ r.status = "COMPLETED" /\ r.user = u /\ r.amount = m
    BY <2>2
  <2>4. u \in Holders /\ m \in Nat
    BY <2>2, AmountOfRequest
  <2>5. CapturesFrom(u, m) /\ UNCHANGED <<bidHeld, adjusting>>
    BY <1>4 DEF CompleteWithdrawal
  <2>6. withdrawals[w].user = u /\ withdrawals[w].amount = m
    OBVIOUS
  <2> HIDE DEF u, m
  <2>7. /\ SoundWallet(wallets'[u])
        /\ wallets'[u].held = wallets[u].held - m /\ wallets'[u].balance = wallets[u].balance - m
        /\ \A t \in Rows : ledger'[u][t] = ledger[u][t] + (IF t = "CAPTURE" THEN m ELSE 0)
        /\ \A v \in Holders \ {u} : wallets'[v] = wallets[v] /\ ledger'[v] = ledger[v]
    BY <1>0, <2>4, <2>5, CapturesEffect
  <2>8. ASSUME NEW v \in Holders PROVE HeldFor(v)' /\ Explained(v)'
    <3>1. /\ SumPending(v) \in Int /\ SumCompleted(v) \in Int
          /\ SumPending(v)' = SumPending(v) - Counts(withdrawals[w], v, Pending) + Counts(r, v, Pending)
          /\ SumCompleted(v)' = SumCompleted(v) - Counts(withdrawals[w], v, Paid) + Counts(r, v, Paid)
      BY <1>0, <2>3, RequestChanges
    <3>2. Unrecorded(v)' = Unrecorded(v) /\ bidHeld'[v] = bidHeld[v]
      BY <2>5, SumsKept
    <3>3. CASE v = u
      <4>1. SumPending(v)' = SumPending(v) - m /\ SumCompleted(v)' = SumCompleted(v) + m
        BY <2>2, <2>3, <2>4, <2>6, <3>1, <3>3 DEF Counts, Pending, Paid
      <4>2. /\ ledger'[v]["DEPOSIT"] = ledger[v]["DEPOSIT"]
            /\ ledger'[v]["WITHDRAW"] = ledger[v]["WITHDRAW"]
            /\ ledger'[v]["HOLD"] = ledger[v]["HOLD"]
            /\ ledger'[v]["RELEASE"] = ledger[v]["RELEASE"]
            /\ ledger'[v]["CAPTURE"] = ledger[v]["CAPTURE"] + m
        BY <1>0, <2>7, <3>3, BooksTyped DEF Rows
      <4>3. /\ wallets[v].balance \in Nat /\ wallets[v].held \in Nat /\ bidHeld[v] \in Nat
            /\ ledger[v]["DEPOSIT"] \in Nat /\ ledger[v]["WITHDRAW"] \in Nat /\ ledger[v]["HOLD"] \in Nat
            /\ ledger[v]["RELEASE"] \in Nat /\ ledger[v]["CAPTURE"] \in Nat
            /\ SumPending(v) \in Int /\ SumCompleted(v) \in Int /\ Unrecorded(v) \in Int
        BY <1>0, BooksTyped DEF Rows
      <4>4. HeldFor(v) /\ Explained(v)
        BY <1>0 DEF Books
      <4>5. HeldFor(v)'
        BY <2>4, <2>7, <3>2, <3>3, <4>1, <4>2, <4>3, <4>4 DEF HeldFor
      <4>6. Explained(v)'
        BY <2>4, <2>7, <3>2, <3>3, <4>1, <4>2, <4>3, <4>4 DEF Explained
      <4>7. QED BY <4>5, <4>6
    <3>4. CASE v # u
      <4>1. SumPending(v)' = SumPending(v) /\ SumCompleted(v)' = SumCompleted(v)
        BY <2>3, <2>6, <3>1, <3>4 DEF Counts
      <4>2. QED BY <1>0, <2>7, <3>2, <3>4, <4>1, BooksUntouched
    <3>5. QED BY <3>3, <3>4
  <2>9. QED BY <2>8 DEF Books
<1>5. ASSUME NEW w \in Withdrawals, RejectWithdrawal(w) PROVE Books'
  <2> DEFINE u == withdrawals[w].user
             m == withdrawals[w].amount
  <2>1. Transition(w, {"PENDING", "PROCESSING"}, "REJECTED")
    BY <1>5 DEF RejectWithdrawal
  <2>2. /\ withdrawals[w] \in RequestRecord /\ withdrawals[w].status \in {"PENDING", "PROCESSING"}
        /\ \E r \in RequestRecord :
               /\ withdrawals' = [withdrawals EXCEPT ![w] = r]
               /\ r.status = "REJECTED" /\ r.user = u /\ r.amount = m
    BY <1>0, <2>1, TransitionEffect DEF WithdrawalStatuses, Occupying
  <2>3. PICK r \in RequestRecord : /\ withdrawals' = [withdrawals EXCEPT ![w] = r]
                                  /\ r.status = "REJECTED" /\ r.user = u /\ r.amount = m
    BY <2>2
  <2>4. u \in Holders /\ m \in Nat
    BY <2>2, AmountOfRequest
  <2>5. ReleasesTo(u, m) /\ UNCHANGED <<bidHeld, adjusting>>
    BY <1>5 DEF RejectWithdrawal
  <2>6. withdrawals[w].user = u /\ withdrawals[w].amount = m
    OBVIOUS
  <2> HIDE DEF u, m
  <2>7. /\ SoundWallet(wallets'[u])
        /\ wallets'[u].held = wallets[u].held - m /\ wallets'[u].balance = wallets[u].balance
        /\ \A t \in Rows : ledger'[u][t] = ledger[u][t] + (IF t = "RELEASE" THEN m ELSE 0)
        /\ \A v \in Holders \ {u} : wallets'[v] = wallets[v] /\ ledger'[v] = ledger[v]
    BY <1>0, <2>4, <2>5, ReleasesEffect
  <2>8. ASSUME NEW v \in Holders PROVE HeldFor(v)' /\ Explained(v)'
    <3>1. /\ SumPending(v) \in Int /\ SumCompleted(v) \in Int
          /\ SumPending(v)' = SumPending(v) - Counts(withdrawals[w], v, Pending) + Counts(r, v, Pending)
          /\ SumCompleted(v)' = SumCompleted(v) - Counts(withdrawals[w], v, Paid) + Counts(r, v, Paid)
      BY <1>0, <2>3, RequestChanges
    <3>2. Unrecorded(v)' = Unrecorded(v) /\ bidHeld'[v] = bidHeld[v]
      BY <2>5, SumsKept
    <3>3. CASE v = u
      <4>1. SumPending(v)' = SumPending(v) - m /\ SumCompleted(v)' = SumCompleted(v)
        BY <2>2, <2>3, <2>4, <2>6, <3>1, <3>3 DEF Counts, Pending, Paid
      <4>2. /\ ledger'[v]["DEPOSIT"] = ledger[v]["DEPOSIT"]
            /\ ledger'[v]["WITHDRAW"] = ledger[v]["WITHDRAW"]
            /\ ledger'[v]["HOLD"] = ledger[v]["HOLD"]
            /\ ledger'[v]["RELEASE"] = ledger[v]["RELEASE"] + m
            /\ ledger'[v]["CAPTURE"] = ledger[v]["CAPTURE"]
        BY <1>0, <2>7, <3>3, BooksTyped DEF Rows
      <4>3. /\ wallets[v].balance \in Nat /\ wallets[v].held \in Nat /\ bidHeld[v] \in Nat
            /\ ledger[v]["DEPOSIT"] \in Nat /\ ledger[v]["WITHDRAW"] \in Nat /\ ledger[v]["HOLD"] \in Nat
            /\ ledger[v]["RELEASE"] \in Nat /\ ledger[v]["CAPTURE"] \in Nat
            /\ SumPending(v) \in Int /\ SumCompleted(v) \in Int /\ Unrecorded(v) \in Int
        BY <1>0, BooksTyped DEF Rows
      <4>4. HeldFor(v) /\ Explained(v)
        BY <1>0 DEF Books
      <4>5. HeldFor(v)'
        BY <2>4, <2>7, <3>2, <3>3, <4>1, <4>2, <4>3, <4>4 DEF HeldFor
      <4>6. Explained(v)'
        BY <2>4, <2>7, <3>2, <3>3, <4>1, <4>2, <4>3, <4>4 DEF Explained
      <4>7. QED BY <4>5, <4>6
    <3>4. CASE v # u
      <4>1. SumPending(v)' = SumPending(v) /\ SumCompleted(v)' = SumCompleted(v)
        BY <2>3, <2>6, <3>1, <3>4 DEF Counts
      <4>2. QED BY <1>0, <2>7, <3>2, <3>4, <4>1, BooksUntouched
    <3>5. QED BY <3>3, <3>4
  <2>9. QED BY <2>8 DEF Books
<1>6. ASSUME NEW w \in Withdrawals, AbortWithdrawal(w) PROVE Books'
  <2>1. PICK r \in {NoRequest} \cup RequestRecord :
            /\ withdrawals' = [withdrawals EXCEPT ![w] = r]
            /\ withdrawals[w].status = "ASKED" /\ r = NoRequest
    BY <1>6 DEF AbortWithdrawal
  <2>2. UNCHANGED <<wallets, ledger, bidHeld, adjusting>>
    BY <1>6 DEF AbortWithdrawal
  <2>3. ASSUME NEW v \in Holders PROVE HeldFor(v)' /\ Explained(v)'
    <3>1. /\ SumPending(v) \in Int /\ SumCompleted(v) \in Int
          /\ SumPending(v)' = SumPending(v) - Counts(withdrawals[w], v, Pending) + Counts(r, v, Pending)
          /\ SumCompleted(v)' = SumCompleted(v) - Counts(withdrawals[w], v, Paid) + Counts(r, v, Paid)
      BY <1>0, <2>1, RequestChanges
    <3>2. /\ Counts(withdrawals[w], v, Pending) = Counts(r, v, Pending)
          /\ Counts(withdrawals[w], v, Paid) = Counts(r, v, Paid)
          /\ Counts(r, v, Pending) \in Int /\ Counts(r, v, Paid) \in Int
      BY <2>1, CountsTyped DEF Counts, Pending, Paid, NoRequest, WithdrawalStatuses, Occupying
    <3>3. SumPending(v)' = SumPending(v) /\ SumCompleted(v)' = SumCompleted(v)
      BY <3>1, <3>2
    <3>4. Unrecorded(v)' = Unrecorded(v)
      BY <2>2, SumsKept
    <3>5. QED BY <1>0, <2>2, <3>3, <3>4, BooksUntouched
  <2>4. QED BY <2>3 DEF Books
<1>7. ASSUME NEW w \in Withdrawals, StartProcessing(w) PROVE Books'
  <2>1. PICK r \in {NoRequest} \cup RequestRecord :
            /\ withdrawals' = [withdrawals EXCEPT ![w] = r]
            /\ withdrawals[w].status = "PENDING" /\ r.status = "PROCESSING"
            /\ r.user = withdrawals[w].user /\ r.amount = withdrawals[w].amount
    BY <1>0, <1>7, TransitionEffect DEF StartProcessing, WithdrawalStatuses, Occupying
  <2>2. UNCHANGED <<wallets, ledger, bidHeld, adjusting>>
    BY <1>7 DEF StartProcessing
  <2>3. ASSUME NEW v \in Holders PROVE HeldFor(v)' /\ Explained(v)'
    <3>1. /\ SumPending(v) \in Int /\ SumCompleted(v) \in Int
          /\ SumPending(v)' = SumPending(v) - Counts(withdrawals[w], v, Pending) + Counts(r, v, Pending)
          /\ SumCompleted(v)' = SumCompleted(v) - Counts(withdrawals[w], v, Paid) + Counts(r, v, Paid)
      BY <1>0, <2>1, RequestChanges
    <3>2. /\ Counts(withdrawals[w], v, Pending) = Counts(r, v, Pending)
          /\ Counts(withdrawals[w], v, Paid) = Counts(r, v, Paid)
          /\ Counts(r, v, Pending) \in Int /\ Counts(r, v, Paid) \in Int
      BY <2>1, CountsTyped DEF Counts, Pending, Paid, NoRequest, WithdrawalStatuses, Occupying
    <3>3. SumPending(v)' = SumPending(v) /\ SumCompleted(v)' = SumCompleted(v)
      BY <3>1, <3>2
    <3>4. Unrecorded(v)' = Unrecorded(v)
      BY <2>2, SumsKept
    <3>5. QED BY <1>0, <2>2, <3>3, <3>4, BooksUntouched
  <2>4. QED BY <2>3 DEF Books
<1>8. ASSUME NEW u \in Holders, NEW n \in Amounts, Withdraw(u, n) PROVE Books'
  <2>1. DebitsFrom(u, n) /\ UNCHANGED <<withdrawals, adjusting>> /\ n \in Nat
    BY <1>0, <1>00, <1>8 DEF Withdraw, WithdrawalTypeOK
  <2>2. /\ SoundWallet(wallets'[u])
        /\ wallets'[u].held = wallets[u].held /\ wallets'[u].balance = wallets[u].balance - n
        /\ \A t \in Rows : ledger'[u][t] = ledger[u][t] + (IF t = "WITHDRAW" THEN n ELSE 0)
        /\ \A v \in Holders \ {u} : wallets'[v] = wallets[v] /\ ledger'[v] = ledger[v]
    BY <1>0, <2>1, DebitsEffect
  <2>3. ASSUME NEW v \in Holders PROVE HeldFor(v)' /\ Explained(v)'
    <3>1. /\ SumPending(v)' = SumPending(v) /\ SumCompleted(v)' = SumCompleted(v)
          /\ Unrecorded(v)' = Unrecorded(v)
      BY <2>1, SumsKept
    <3>2. CASE v = u
      <4>1. /\ ledger'[v]["DEPOSIT"] = ledger[v]["DEPOSIT"]
            /\ ledger'[v]["WITHDRAW"] = ledger[v]["WITHDRAW"] + n
            /\ ledger'[v]["HOLD"] = ledger[v]["HOLD"]
            /\ ledger'[v]["RELEASE"] = ledger[v]["RELEASE"]
            /\ ledger'[v]["CAPTURE"] = ledger[v]["CAPTURE"]
        BY <1>0, <2>2, <3>2, BooksTyped DEF Rows
      <4>2. bidHeld'[v] = bidHeld[v]
        BY <1>0, <1>8, <2>1, <3>2 DEF Withdraw, WithdrawalTypeOK
      <4>3. /\ wallets[v].balance \in Nat /\ wallets[v].held \in Nat /\ bidHeld[v] \in Nat
            /\ ledger[v]["DEPOSIT"] \in Nat /\ ledger[v]["WITHDRAW"] \in Nat /\ ledger[v]["HOLD"] \in Nat
            /\ ledger[v]["RELEASE"] \in Nat /\ ledger[v]["CAPTURE"] \in Nat
            /\ SumPending(v) \in Int /\ SumCompleted(v) \in Int /\ Unrecorded(v) \in Int
        BY <1>0, BooksTyped DEF Rows
      <4>4. HeldFor(v) /\ Explained(v)
        BY <1>0 DEF Books
      <4>5. HeldFor(v)'
        BY <2>1, <2>2, <3>1, <3>2, <4>1, <4>2, <4>3, <4>4 DEF HeldFor
      <4>6. Explained(v)'
        BY <2>1, <2>2, <3>1, <3>2, <4>1, <4>2, <4>3, <4>4 DEF Explained
      <4>7. QED BY <4>5, <4>6
    <3>3. CASE v # u
      <4>1. bidHeld'[v] = bidHeld[v]
        BY <1>0, <1>8, <3>3 DEF Withdraw, WithdrawalTypeOK
      <4>2. QED BY <1>0, <2>2, <3>1, <3>3, <4>1, BooksUntouched
    <3>4. QED BY <3>2, <3>3
  <2>4. QED BY <2>3 DEF Books
<1>9. ASSUME NEW u \in Holders, NEW n \in Amounts, HoldForBid(u, n) PROVE Books'
  <2>1. HoldsFor(u, n) /\ UNCHANGED <<withdrawals, adjusting>> /\ n \in Nat
    BY <1>0, <1>00, <1>9 DEF HoldForBid, WithdrawalTypeOK
  <2>2. /\ SoundWallet(wallets'[u])
        /\ wallets'[u].held = wallets[u].held + n /\ wallets'[u].balance = wallets[u].balance
        /\ \A t \in Rows : ledger'[u][t] = ledger[u][t] + (IF t = "HOLD" THEN n ELSE 0)
        /\ \A v \in Holders \ {u} : wallets'[v] = wallets[v] /\ ledger'[v] = ledger[v]
    BY <1>0, <2>1, HoldsEffect
  <2>3. ASSUME NEW v \in Holders PROVE HeldFor(v)' /\ Explained(v)'
    <3>1. /\ SumPending(v)' = SumPending(v) /\ SumCompleted(v)' = SumCompleted(v)
          /\ Unrecorded(v)' = Unrecorded(v)
      BY <2>1, SumsKept
    <3>2. CASE v = u
      <4>1. /\ ledger'[v]["DEPOSIT"] = ledger[v]["DEPOSIT"]
            /\ ledger'[v]["WITHDRAW"] = ledger[v]["WITHDRAW"]
            /\ ledger'[v]["HOLD"] = ledger[v]["HOLD"] + n
            /\ ledger'[v]["RELEASE"] = ledger[v]["RELEASE"]
            /\ ledger'[v]["CAPTURE"] = ledger[v]["CAPTURE"]
        BY <1>0, <2>2, <3>2, BooksTyped DEF Rows
      <4>2. bidHeld'[v] = bidHeld[v] + n
        BY <1>0, <1>9, <2>1, <3>2 DEF HoldForBid, WithdrawalTypeOK
      <4>3. /\ wallets[v].balance \in Nat /\ wallets[v].held \in Nat /\ bidHeld[v] \in Nat
            /\ ledger[v]["DEPOSIT"] \in Nat /\ ledger[v]["WITHDRAW"] \in Nat /\ ledger[v]["HOLD"] \in Nat
            /\ ledger[v]["RELEASE"] \in Nat /\ ledger[v]["CAPTURE"] \in Nat
            /\ SumPending(v) \in Int /\ SumCompleted(v) \in Int /\ Unrecorded(v) \in Int
        BY <1>0, BooksTyped DEF Rows
      <4>4. HeldFor(v) /\ Explained(v)
        BY <1>0 DEF Books
      <4>5. HeldFor(v)'
        BY <2>1, <2>2, <3>1, <3>2, <4>1, <4>2, <4>3, <4>4 DEF HeldFor
      <4>6. Explained(v)'
        BY <2>1, <2>2, <3>1, <3>2, <4>1, <4>2, <4>3, <4>4 DEF Explained
      <4>7. QED BY <4>5, <4>6
    <3>3. CASE v # u
      <4>1. bidHeld'[v] = bidHeld[v]
        BY <1>0, <1>9, <3>3 DEF HoldForBid, WithdrawalTypeOK
      <4>2. QED BY <1>0, <2>2, <3>1, <3>3, <4>1, BooksUntouched
    <3>4. QED BY <3>2, <3>3
  <2>4. QED BY <2>3 DEF Books
<1>10. ASSUME NEW u \in Holders, ReleaseBid(u) PROVE Books'
  <2>1. ReleasesTo(u, bidHeld[u]) /\ UNCHANGED <<withdrawals, adjusting>> /\ bidHeld[u] \in Nat
    BY <1>0, <1>00, <1>10 DEF ReleaseBid, WithdrawalTypeOK
  <2>2. /\ SoundWallet(wallets'[u])
        /\ wallets'[u].held = wallets[u].held - bidHeld[u] /\ wallets'[u].balance = wallets[u].balance
        /\ \A t \in Rows : ledger'[u][t] = ledger[u][t] + (IF t = "RELEASE" THEN bidHeld[u] ELSE 0)
        /\ \A v \in Holders \ {u} : wallets'[v] = wallets[v] /\ ledger'[v] = ledger[v]
    BY <1>0, <2>1, ReleasesEffect
  <2>3. ASSUME NEW v \in Holders PROVE HeldFor(v)' /\ Explained(v)'
    <3>1. /\ SumPending(v)' = SumPending(v) /\ SumCompleted(v)' = SumCompleted(v)
          /\ Unrecorded(v)' = Unrecorded(v)
      BY <2>1, SumsKept
    <3>2. CASE v = u
      <4>1. /\ ledger'[v]["DEPOSIT"] = ledger[v]["DEPOSIT"]
            /\ ledger'[v]["WITHDRAW"] = ledger[v]["WITHDRAW"]
            /\ ledger'[v]["HOLD"] = ledger[v]["HOLD"]
            /\ ledger'[v]["RELEASE"] = ledger[v]["RELEASE"] + bidHeld[u]
            /\ ledger'[v]["CAPTURE"] = ledger[v]["CAPTURE"]
        BY <1>0, <2>2, <3>2, BooksTyped DEF Rows
      <4>2. bidHeld'[v] = bidHeld[v] - bidHeld[u]
        BY <1>0, <1>10, <2>1, <3>2 DEF ReleaseBid, WithdrawalTypeOK
      <4>3. /\ wallets[v].balance \in Nat /\ wallets[v].held \in Nat /\ bidHeld[v] \in Nat
            /\ ledger[v]["DEPOSIT"] \in Nat /\ ledger[v]["WITHDRAW"] \in Nat /\ ledger[v]["HOLD"] \in Nat
            /\ ledger[v]["RELEASE"] \in Nat /\ ledger[v]["CAPTURE"] \in Nat
            /\ SumPending(v) \in Int /\ SumCompleted(v) \in Int /\ Unrecorded(v) \in Int
        BY <1>0, BooksTyped DEF Rows
      <4>4. HeldFor(v) /\ Explained(v)
        BY <1>0 DEF Books
      <4>5. HeldFor(v)'
        BY <2>1, <2>2, <3>1, <3>2, <4>1, <4>2, <4>3, <4>4 DEF HeldFor
      <4>6. Explained(v)'
        BY <2>1, <2>2, <3>1, <3>2, <4>1, <4>2, <4>3, <4>4 DEF Explained
      <4>7. QED BY <4>5, <4>6
    <3>3. CASE v # u
      <4>1. bidHeld'[v] = bidHeld[v]
        BY <1>0, <1>10, <3>3 DEF ReleaseBid, WithdrawalTypeOK
      <4>2. QED BY <1>0, <2>2, <3>1, <3>3, <4>1, BooksUntouched
    <3>4. QED BY <3>2, <3>3
  <2>4. QED BY <2>3 DEF Books
<1>11. ASSUME NEW u \in Holders, NEW n \in Amounts, WithdrawRefused(u, n) PROVE Books'
  <2> DEFINE row == [ledger[u] EXCEPT !["FAILED"] = ledger[u]["FAILED"] + n]
  <2>1. /\ ledger' = [ledger EXCEPT ![u] = row]
        /\ UNCHANGED <<wallets, withdrawals, bidHeld, adjusting>>
    BY <1>11 DEF WithdrawRefused
  <2>2. \A t \in Rows \ {"FAILED"} : row[t] = ledger[u][t]
    BY <1>0 DEF WithdrawalTypeOK
  <2> HIDE DEF row
  <2>3. \A v \in Holders : \A t \in Rows \ {"FAILED"} : ledger'[v][t] = ledger[v][t]
    BY <1>0, <2>1, <2>2 DEF WithdrawalTypeOK
  <2>4. ASSUME NEW v \in Holders PROVE HeldFor(v)' /\ Explained(v)'
    <3>1. /\ SumPending(v)' = SumPending(v) /\ SumCompleted(v)' = SumCompleted(v)
          /\ Unrecorded(v)' = Unrecorded(v)
      BY <2>1, SumsKept
    <3>2. QED BY <1>0, <2>1, <2>3, <3>1 DEF Books, HeldFor, Explained, Rows
  <2>5. QED BY <2>4 DEF Books
<1>12. ASSUME NEW a \in Adjustments, NEW u \in Holders, NEW n \in Amounts, AdminCredit(a, u, n)
       PROVE  Books'
  <2> DEFINE j == [at |-> "credited", user |-> u, amount |-> n]
  <2>1. /\ wallets' = [wallets EXCEPT ![u] = Credited(wallets[u], n)]
        /\ adjusting' = [adjusting EXCEPT ![a] = j] /\ adjusting[a].at = "idle"
        /\ UNCHANGED <<withdrawals, ledger, bidHeld>>
    BY <1>12 DEF AdminCredit
  <2>2. j \in AdjustmentRecord /\ j.at = "credited" /\ j.user = u /\ j.amount = n /\ n \in Nat
    BY <1>00 DEF AdjustmentRecord
  <2> HIDE DEF j
  <2>3. ASSUME NEW v \in Holders PROVE HeldFor(v)' /\ Explained(v)'
    <3>1. SumPending(v)' = SumPending(v) /\ SumCompleted(v)' = SumCompleted(v)
      BY <2>1, SumsKept
    <3>2. Unrecorded(v)' = Unrecorded(v) - Owes(adjusting[a], v) + Owes(j, v)
      BY <1>0, <2>1, <2>2, UnrecordedChanges DEF WithdrawalTypeOK, AdjustmentRecord
    <3>3. Owes(adjusting[a], v) = 0 /\ Owes(j, v) = IF v = u THEN n ELSE 0
      BY <2>1, <2>2 DEF Owes
    <3>4. /\ wallets'[v].held = wallets[v].held
          /\ wallets'[v].balance = wallets[v].balance + (IF v = u THEN n ELSE 0)
          /\ SoundWallet(wallets[v]) => SoundWallet(wallets'[v])
      <4>1. CASE v = u
        <5>1. wallets'[v] = Credited(wallets[v], n) /\ wallets[v] \in WalletDoc
          BY <1>0, <2>1, <4>1 DEF WithdrawalTypeOK
        <5>2. QED BY <2>2, <4>1, <5>1 DEF Credited, WalletDoc, SoundWallet
      <4>2. CASE v # u
        <5>1. wallets'[v] = wallets[v] /\ wallets[v].balance \in Nat
          BY <1>0, <2>1, <4>2, BooksTyped DEF WithdrawalTypeOK
        <5>2. QED BY <4>2, <5>1
      <4>3. QED BY <4>1, <4>2
    <3>5. /\ wallets[v].balance \in Nat /\ wallets[v].held \in Nat /\ bidHeld[v] \in Nat
          /\ ledger[v]["DEPOSIT"] \in Nat /\ ledger[v]["WITHDRAW"] \in Nat /\ ledger[v]["HOLD"] \in Nat
          /\ ledger[v]["RELEASE"] \in Nat /\ ledger[v]["CAPTURE"] \in Nat
          /\ SumPending(v) \in Int /\ SumCompleted(v) \in Int /\ Unrecorded(v) \in Int
      BY <1>0, BooksTyped DEF Rows
    <3>6. HeldFor(v) /\ Explained(v)
      BY <1>0 DEF Books
    <3>7. HeldFor(v)'
      BY <2>1, <2>2, <3>1, <3>2, <3>3, <3>4, <3>5, <3>6 DEF HeldFor
    <3>8. Explained(v)'
      BY <2>1, <2>2, <3>1, <3>2, <3>3, <3>4, <3>5, <3>6 DEF Explained
    <3>9. QED BY <3>7, <3>8
  <2>4. QED BY <2>3 DEF Books
<1>13. ASSUME NEW a \in Adjustments, RecordCredit(a) PROVE Books'
  <2> DEFINE u == adjusting[a].user
             n == adjusting[a].amount
             row == [ledger[u] EXCEPT !["DEPOSIT"] = ledger[u]["DEPOSIT"] + n]
             j == [at |-> "recorded"]
  <2>1. /\ ledger' = [ledger EXCEPT ![u] = row] /\ adjusting' = [adjusting EXCEPT ![a] = j]
        /\ UNCHANGED <<wallets, withdrawals, bidHeld>>
    BY <1>13 DEF RecordCredit
  <2>2. u \in Holders /\ n \in Amounts /\ adjusting[a].at = "credited"
    BY <1>0, <1>13 DEF RecordCredit, WithdrawalTypeOK
  <2>3. j \in AdjustmentRecord /\ j.at = "recorded" /\ adjusting[a].user = u /\ adjusting[a].amount = n
        /\ n \in Nat
    BY <1>00, <2>2 DEF AdjustmentRecord
  <2> HIDE DEF u, n, j
  <2>4. row["DEPOSIT"] = ledger[u]["DEPOSIT"] + n
        /\ \A t \in Rows \ {"DEPOSIT"} : row[t] = ledger[u][t]
    BY <1>0, <2>2 DEF WithdrawalTypeOK, Rows
  <2> HIDE DEF row
  <2>5. ASSUME NEW v \in Holders PROVE HeldFor(v)' /\ Explained(v)'
    <3>1. SumPending(v)' = SumPending(v) /\ SumCompleted(v)' = SumCompleted(v)
      BY <2>1, SumsKept
    <3>2. Unrecorded(v)' = Unrecorded(v) - Owes(adjusting[a], v) + Owes(j, v)
      BY <1>0, <2>1, <2>3, UnrecordedChanges DEF WithdrawalTypeOK, AdjustmentRecord
    <3>3. Owes(j, v) = 0 /\ Owes(adjusting[a], v) = IF v = u THEN n ELSE 0
      BY <2>2, <2>3 DEF Owes
    <3>4. /\ ledger'[v]["DEPOSIT"] = ledger[v]["DEPOSIT"] + (IF v = u THEN n ELSE 0)
          /\ \A t \in Rows \ {"DEPOSIT"} : ledger'[v][t] = ledger[v][t]
      <4>1. ledger[v]["DEPOSIT"] \in Nat
        BY <1>0, BooksTyped DEF Rows
      <4>2. QED BY <1>0, <2>1, <2>2, <2>4, <4>1 DEF WithdrawalTypeOK
    <3>5. /\ ledger'[v]["WITHDRAW"] = ledger[v]["WITHDRAW"] /\ ledger'[v]["HOLD"] = ledger[v]["HOLD"]
          /\ ledger'[v]["RELEASE"] = ledger[v]["RELEASE"] /\ ledger'[v]["CAPTURE"] = ledger[v]["CAPTURE"]
      BY <3>4 DEF Rows
    <3>6. /\ wallets[v].balance \in Nat /\ wallets[v].held \in Nat /\ bidHeld[v] \in Nat
          /\ ledger[v]["DEPOSIT"] \in Nat /\ ledger[v]["WITHDRAW"] \in Nat /\ ledger[v]["HOLD"] \in Nat
          /\ ledger[v]["RELEASE"] \in Nat /\ ledger[v]["CAPTURE"] \in Nat
          /\ SumPending(v) \in Int /\ SumCompleted(v) \in Int /\ Unrecorded(v) \in Int
      BY <1>0, BooksTyped DEF Rows
    <3>7. HeldFor(v) /\ Explained(v)
      BY <1>0 DEF Books
    <3>8. HeldFor(v)'
      BY <2>1, <2>3, <3>1, <3>2, <3>3, <3>4, <3>5, <3>6, <3>7 DEF HeldFor
    <3>9. Explained(v)'
      BY <2>1, <2>3, <3>1, <3>2, <3>3, <3>4, <3>5, <3>6, <3>7 DEF Explained
    <3>10. QED BY <3>8, <3>9
  <2>6. QED BY <2>5 DEF Books
<1>14. ASSUME NEW a \in Adjustments, CrashCredit(a) PROVE Books'
  <2> DEFINE j == [adjusting[a] EXCEPT !.at = "lost"]
  <2>1. /\ j \in AdjustmentRecord /\ j.at = "lost" /\ adjusting[a].at = "credited"
        /\ j.user = adjusting[a].user /\ j.amount = adjusting[a].amount
    BY <1>0, <1>14 DEF CrashCredit, WithdrawalTypeOK, AdjustmentRecord
  <2>2. adjusting' = [adjusting EXCEPT ![a] = j] /\ UNCHANGED <<wallets, withdrawals, ledger, bidHeld>>
    BY <1>14 DEF CrashCredit
  <2> HIDE DEF j
  <2>3. ASSUME NEW v \in Holders PROVE HeldFor(v)' /\ Explained(v)'
    <3>1. SumPending(v)' = SumPending(v) /\ SumCompleted(v)' = SumCompleted(v)
      BY <2>2, SumsKept
    <3>2. Unrecorded(v) \in Int /\ Unrecorded(v)' = Unrecorded(v) - Owes(adjusting[a], v) + Owes(j, v)
      BY <1>0, <2>1, <2>2, UnrecordedChanges DEF WithdrawalTypeOK, AdjustmentRecord
    <3>3. Owes(j, v) = Owes(adjusting[a], v) /\ Owes(j, v) \in Int
      BY <2>1, OwesTyped DEF Owes
    <3>4. Unrecorded(v)' = Unrecorded(v)
      BY <3>2, <3>3
    <3>5. QED BY <1>0, <2>2, <3>1, <3>4, BooksUntouched
  <2>4. QED BY <2>3 DEF Books
<1>15. CASE NextDay \/ UNCHANGED withdrawalVars
  <2>1. UNCHANGED <<wallets, withdrawals, ledger, bidHeld, adjusting>>
    BY <1>15 DEF NextDay, withdrawalVars
  <2>2. ASSUME NEW v \in Holders PROVE HeldFor(v)' /\ Explained(v)'
    BY <1>0, <2>1, SumsKept, BooksUntouched
  <2>3. QED BY <2>2 DEF Books
<1>16. QED
  BY <1>1, <1>2, <1>3, <1>4, <1>5, <1>6, <1>7, <1>8, <1>9, <1>10, <1>11, <1>12, <1>13, <1>14,
     <1>15 DEF WithdrawalNext

-----------------------------------------------------------------------------
(***************************************************************************)
(* The theorems.                                                           *)
(***************************************************************************)
\* At the start there is nothing to add up.
LEMMA WithdrawalInvInit == WithdrawalInit => WithdrawalInv
<1> SUFFICES ASSUME WithdrawalInit PROVE WithdrawalInv
  OBVIOUS
<1>1. WithdrawalTypeOK
  BY WithdrawalAssumption DEF WithdrawalInit, WithdrawalTypeOK, WalletDoc, Rows
<1>2. \A w \in Withdrawals : withdrawals[w].status \notin WithdrawalStatuses
  BY DEF WithdrawalInit, NoRequest, WithdrawalStatuses, Occupying
<1>3. OneRequestPerDay
  BY <1>2 DEF OneRequestPerDay, WithdrawalStatuses
<1>4. ASSUME NEW v \in Holders PROVE HeldFor(v) /\ Explained(v)
  <2>1. IsFiniteSet(Withdrawals) /\ IsFiniteSet(Adjustments) /\ Funds \in Nat
    BY WithdrawalAssumption
  <2>2. ASSUME NEW S, S \subseteq WithdrawalStatuses PROVE AmountsOf(v, S) = 0
    <3> DEFINE f == [w \in Withdrawals |-> IF withdrawals[w].status \in S /\ withdrawals[w].user = v
                                           THEN withdrawals[w].amount ELSE 0]
    <3>1. \A w \in Withdrawals : f[w] = 0
      BY <1>2, <2>2
    <3>2. AmountsOf(v, S) = SumFunctionOnSet(f, Withdrawals)
      BY DEF AmountsOf, SumFunction
    <3> HIDE DEF f
    <3>3. QED BY <2>1, <3>1, <3>2, SumOfZeros
  <2>3. Unrecorded(v) = 0
    <3> DEFINE f == [a \in Adjustments |->
                        IF adjusting[a].at \in {"credited", "lost"} /\ adjusting[a].user = v
                        THEN adjusting[a].amount ELSE 0]
    <3>1. \A a \in Adjustments : f[a] = 0
      BY DEF WithdrawalInit
    <3>2. Unrecorded(v) = SumFunctionOnSet(f, Adjustments)
      BY DEF Unrecorded, SumFunction
    <3> HIDE DEF f
    <3>3. QED BY <2>1, <3>1, <3>2, SumOfZeros
  <2>4. SumPending(v) = 0 /\ SumCompleted(v) = 0
    <3>1. {"PENDING", "PROCESSING"} \subseteq WithdrawalStatuses /\ {"COMPLETED"} \subseteq WithdrawalStatuses
      BY DEF WithdrawalStatuses, Occupying
    <3>2. QED BY <2>2, <3>1 DEF SumPending, SumCompleted
  <2>5. /\ wallets[v] = [balance |-> Funds, held |-> 0] /\ bidHeld[v] = 0
        /\ ledger[v]["DEPOSIT"] = Funds /\ ledger[v]["WITHDRAW"] = 0 /\ ledger[v]["CAPTURE"] = 0
        /\ ledger[v]["HOLD"] = 0 /\ ledger[v]["RELEASE"] = 0
    BY DEF WithdrawalInit, Rows
  <2>6. SoundWallet(wallets[v]) /\ wallets[v].held = 0 /\ wallets[v].balance = Funds
    BY <2>1, <2>5 DEF SoundWallet, WalletDoc
  <2>7. QED BY <2>1, <2>3, <2>4, <2>5, <2>6 DEF HeldFor, Explained
<1>5. QED BY <1>1, <1>3, <1>4 DEF WithdrawalInv, Books

LEMMA WithdrawalInvAlways == WithdrawalSpec => []WithdrawalInv
<1>1. WithdrawalInv /\ [WithdrawalNext]_withdrawalVars => WithdrawalInv'
  BY WithdrawalTypesStep, OneRequestStep, BooksStep DEF WithdrawalInv
<1>2. QED BY <1>1, WithdrawalInvInit, PTL DEF WithdrawalSpec

\* Every variable keeps its type: no wallet and no counter becomes negative.
THEOREM WithdrawalsAreTyped == WithdrawalSpec => []WithdrawalTypeOK
<1>1. WithdrawalInv => WithdrawalTypeOK
  BY DEF WithdrawalInv
<1>2. QED BY <1>1, WithdrawalInvAlways, PTL

\* However many calls pass hasRequestToday at once, the insert decides: a user
\* has one request a day that is neither cancelled nor rejected.
THEOREM OneRequestADay == WithdrawalSpec => []OneRequestPerDay
<1>1. WithdrawalInv => OneRequestPerDay
  BY DEF WithdrawalInv
<1>2. QED BY <1>1, WithdrawalInvAlways, PTL

\* What a wallet holds is what its bids and its open requests hold: no order
\* of requests, cancellations, completions and rejections loses a hold or
\* releases one twice.
THEOREM HoldsAreOwed == WithdrawalSpec => []HeldIsOwed
<1>1. WithdrawalInv => HeldIsOwed
  BY DEF WithdrawalInv, Books, HeldFor, HeldIsOwed
<1>2. QED BY <1>1, WithdrawalInvAlways, PTL

\* The rows of the ledger explain the wallet, short only of the admin credits
\* whose server died, and what was captured is what the treasury reports.
THEOREM RowsExplainWallets == WithdrawalSpec => []LedgerExplainsWallet
<1>1. WithdrawalInv => LedgerExplainsWallet
  BY DEF WithdrawalInv, Books, Explained, LedgerExplainsWallet
<1>2. QED BY <1>1, WithdrawalInvAlways, PTL
=============================================================================
