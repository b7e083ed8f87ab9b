----------------------------- MODULE Withdrawals ----------------------------
(***************************************************************************)
(* Withdrawals of wallet money: withdrawals.service.ts with its repository *)
(* and the operations of wallet.service.ts it shares the wallet with, the  *)
(* withdraw mutation, the admin's balance adjustments and the holds of     *)
(* bids.                                                                   *)
(*                                                                         *)
(* requestWithdrawal checks the balance and the day's requests before its  *)
(* transaction: two steps.  The other withdrawal operations begin with a   *)
(* conditional update of the status inside their transaction: one step.    *)
(* The admin's credit passes no session: the credit and its ledger row are *)
(* two steps, and a server that dies in between leaves only the credit.    *)
(***************************************************************************)
EXTENDS Wallet, FiniteSets, Functions

CONSTANTS
    Holders,          \* users with a wallet
    Withdrawals,      \* identities of requests: bounds how many are made
    Adjustments,      \* calls of adminAdjustBalance with type CREDIT
    Funds,            \* what a wallet holds at the start
    Amounts,          \* what callers ask for
    MinimumAmount, BankMaximum, MobileMaximum, FeePercentage,
    LastDay,          \* bounds the calendar
    HoldBound         \* bounds the holds for bids over the life of a wallet

ASSUME WithdrawalAssumption ==
    /\ IsFiniteSet(Withdrawals)
    /\ IsFiniteSet(Adjustments)
    /\ Funds \in Nat
    /\ LastDay \in Nat
    /\ Amounts \subseteq Nat
    /\ FeePercentage \in 0 .. 100

PayoutMethods == {"BANK_ACCOUNT", "INSTAPAY", "MOBILE_WALLET"}
PayoutFields == {"bankName", "accountHolderName", "accountNumber", "iban",
                 "phoneNumber", "ipaAddress"}
Occupying == {"PENDING", "PROCESSING", "COMPLETED"}
WithdrawalStatuses == Occupying \cup {"CANCELLED", "REJECTED"}
WithdrawalEvents == {"WithdrawalRequested", "WithdrawalCompleted", "WithdrawalRejected"}
Rows == {"DEPOSIT", "WITHDRAW", "HOLD", "RELEASE", "CAPTURE", "FAILED"}

VARIABLES
    wallets,       \* the wallet documents
    withdrawals,   \* the requests, from the call that asks for one on
    ledger,        \* per user, the sum of the SUCCESS rows of each type and
                   \* of the FAILED ones
    bidHeld,       \* per user, the part of the hold that belongs to bids
    announced,     \* per request, the outbox rows about it
    mailed,        \* per user, the outbox rows about direct withdrawals
    adjusting,     \* how far each credit of the admin has come
    today          \* the calendar day in Cairo

withdrawalVars == <<wallets, withdrawals, ledger, bidHeld, announced, mailed,
                    adjusting, today>>

NoRequest == [status |-> "NONE"]

WithdrawalInit ==
    /\ wallets = [u \in Holders |-> [balance |-> Funds, held |-> 0]]
    /\ withdrawals = [w \in Withdrawals |-> NoRequest]
    /\ ledger = [u \in Holders |-> [t \in Rows |-> IF t = "DEPOSIT" THEN Funds ELSE 0]]
    /\ bidHeld = [u \in Holders |-> 0]
    /\ announced = [w \in Withdrawals |-> [e \in WithdrawalEvents |-> 0]]
    /\ mailed = [u \in Holders |-> 0]
    /\ adjusting = [a \in Adjustments |-> [at |-> "idle"]]
    /\ today = 0

-----------------------------------------------------------------------------
\* executeWalletOp: the guarded update and the SUCCESS row, in one session.
Moves(u, can, after, rows, n) ==
    /\ can
    /\ wallets' = [wallets EXCEPT ![u] = after]
    /\ ledger' = [ledger EXCEPT ![u] = [t \in Rows |-> @[t] + (IF t \in rows THEN n ELSE 0)]]

HoldsFor(u, n) == Moves(u, CanHold(wallets[u], n), WithHold(wallets[u], n), {"HOLD"}, n)
ReleasesTo(u, n) == Moves(u, CanRelease(wallets[u], n), Released(wallets[u], n), {"RELEASE"}, n)
CapturesFrom(u, n) == Moves(u, CanCapture(wallets[u], n), Captured(wallets[u], n), {"CAPTURE"}, n)
DebitsFrom(u, n) == Moves(u, CanDebit(wallets[u], n), Debited(wallets[u], n), {"WITHDRAW"}, n)

Announce(w, e) == announced' = [announced EXCEPT ![w][e] = @ + 1]

-----------------------------------------------------------------------------
\* validatePayoutDetails: what each method needs to be paid out.
SufficientDetails(method, given) ==
    CASE method = "BANK_ACCOUNT" ->
            /\ {"bankName", "accountHolderName"} \subseteq given
            /\ given \cap {"accountNumber", "iban"} # {}
      [] method = "INSTAPAY" -> given \cap {"phoneNumber", "ipaAddress"} # {}
      [] method = "MOBILE_WALLET" -> "phoneNumber" \in given

MaxAllowed(method) == IF method = "BANK_ACCOUNT" THEN BankMaximum ELSE MobileMaximum

\* calculateFee, in the smallest unit: the amounts are chosen so that it is exact.
Fee(n) == (n * FeePercentage) \div 100

NetAmount(n) == n - Fee(n)

\* hasRequestToday, and the unique partial index on user and day.
Occupied(u, day) ==
    \E w \in Withdrawals :
        withdrawals[w].status \in Occupying
            /\ withdrawals[w].user = u /\ withdrawals[w].day = day

NoUniqueIndex(u, day) == FALSE

DuplicateKey(u, day) == Occupied(u, day)

\* requestWithdrawal up to its transaction: all that it verifies there.
AskForWithdrawal(w, u, n, method) ==
    /\ withdrawals[w] = NoRequest
    /\ \E given \in SUBSET PayoutFields : SufficientDetails(method, given)
    /\ MinimumAmount <= n /\ n <= MaxAllowed(method)
    /\ Available(wallets[u]) >= n
    /\ ~Occupied(u, today)
    /\ withdrawals' = [withdrawals EXCEPT ![w] =
           [status |-> "ASKED", user |-> u, amount |-> n, fee |-> Fee(n),
            net |-> NetAmount(n), day |-> today]]
    /\ UNCHANGED <<wallets, ledger, bidHeld, announced, mailed, adjusting, today>>

\* The transaction of requestWithdrawal: hold, request of the day, event.
CreateWithdrawal(w) ==
    LET r == withdrawals[w] IN
    /\ r.status = "ASKED"
    /\ ~DuplicateKey(r.user, today)
    /\ HoldsFor(r.user, r.amount)
    /\ withdrawals' = [withdrawals EXCEPT ![w].status = "PENDING", ![w].day = today]
    /\ Announce(w, "WithdrawalRequested")
    /\ UNCHANGED <<bidHeld, mailed, adjusting, today>>

\* Insufficient funds, a duplicate key or a write conflict abort it.
AbortWithdrawal(w) ==
    /\ withdrawals[w].status = "ASKED"
    /\ withdrawals' = [withdrawals EXCEPT ![w] = NoRequest]
    /\ UNCHANGED <<wallets, ledger, bidHeld, announced, mailed, adjusting, today>>

\* transitionStatus: the update is conditional on the stored status.
TransitionUnconditionally(w, from, to) ==
    /\ withdrawals[w].status \in WithdrawalStatuses
    /\ withdrawals' = [withdrawals EXCEPT ![w].status = to]

Transition(w, from, to) ==
    /\ withdrawals[w].status \in from
    /\ withdrawals' = [withdrawals EXCEPT ![w].status = to]

\* cancelWithdrawal, by the owner.
CancelWithdrawal(w, u) ==
    /\ Transition(w, {"PENDING"}, "CANCELLED")
    /\ withdrawals[w].user = u
    /\ ReleasesTo(u, withdrawals[w].amount)
    /\ UNCHANGED <<bidHeld, announced, mailed, adjusting, today>>

\* adminStartProcessing.
StartProcessing(w) ==
    /\ Transition(w, {"PENDING"}, "PROCESSING")
    /\ UNCHANGED <<wallets, ledger, bidHeld, announced, mailed, adjusting, today>>

\* adminCompleteWithdrawal.
CompleteByRelease(w) ==
    /\ Transition(w, {"PROCESSING", "PENDING"}, "COMPLETED")
    /\ ReleasesTo(withdrawals[w].user, withdrawals[w].amount)
    /\ Announce(w, "WithdrawalCompleted")
    /\ UNCHANGED <<bidHeld, mailed, adjusting, today>>

CompleteWithdrawal(w) ==
    /\ Transition(w, {"PROCESSING", "PENDING"}, "COMPLETED")
    /\ CapturesFrom(withdrawals[w].user, withdrawals[w].amount)
    /\ Announce(w, "WithdrawalCompleted")
    /\ UNCHANGED <<bidHeld, mailed, adjusting, today>>

\* adminRejectWithdrawal.
RejectWithdrawal(w) ==
    /\ Transition(w, {"PENDING", "PROCESSING"}, "REJECTED")
    /\ ReleasesTo(withdrawals[w].user, withdrawals[w].amount)
    /\ Announce(w, "WithdrawalRejected")
    /\ UNCHANGED <<bidHeld, mailed, adjusting, today>>

-----------------------------------------------------------------------------
\* The withdraw mutation, and the admin's debit, which names a reference and
\* therefore mails nothing.  notifyWithdrawal is not awaited: its insert into
\* the outbox may come after the commit and be lost.
Withdraw(u, n) ==
    /\ DebitsFrom(u, n)
    /\ mailed' \in {mailed, [mailed EXCEPT ![u] = @ + 1]}
    /\ UNCHANGED <<withdrawals, bidHeld, announced, adjusting, today>>

\* A refused withdrawal is logged as a FAILED row outside its transaction.
\* One such row per user is kept: it has no other effect.
WithdrawRefused(u, n) ==
    /\ ~CanDebit(wallets[u], n)
    /\ ledger[u]["FAILED"] = 0
    /\ ledger' = [ledger EXCEPT ![u]["FAILED"] = @ + n]
    /\ UNCHANGED <<wallets, withdrawals, bidHeld, announced, mailed, adjusting, today>>

\* adminAdjustBalance with CREDIT: deposit without a session.
AdminCredit(a, u, n) ==
    /\ adjusting[a].at = "idle"
    /\ ValidAmount(n)
    /\ wallets' = [wallets EXCEPT ![u] = Credited(@, n)]
    /\ adjusting' = [adjusting EXCEPT ![a] = [at |-> "credited", user |-> u, amount |-> n]]
    /\ UNCHANGED <<withdrawals, ledger, bidHeld, announced, mailed, today>>

RecordCredit(a) ==
    /\ adjusting[a].at = "credited"
    /\ ledger' = [ledger EXCEPT ![adjusting[a].user]["DEPOSIT"] = @ + adjusting[a].amount]
    /\ adjusting' = [adjusting EXCEPT ![a] = [at |-> "recorded"]]
    /\ UNCHANGED <<wallets, withdrawals, bidHeld, announced, mailed, today>>

CrashCredit(a) ==
    /\ adjusting[a].at = "credited"
    /\ adjusting' = [adjusting EXCEPT ![a].at = "lost"]
    /\ UNCHANGED <<wallets, withdrawals, ledger, bidHeld, announced, mailed, today>>

\* hold and release for a bid: the same wallet document.
HoldForBid(u, n) ==
    /\ ledger[u]["HOLD"] + n <= HoldBound
    /\ HoldsFor(u, n)
    /\ bidHeld' = [bidHeld EXCEPT ![u] = @ + n]
    /\ UNCHANGED <<withdrawals, announced, mailed, adjusting, today>>

ReleaseBid(u) ==
    /\ ReleasesTo(u, bidHeld[u])
    /\ bidHeld' = [bidHeld EXCEPT ![u] = 0]
    /\ UNCHANGED <<withdrawals, announced, mailed, adjusting, today>>

\* Midnight in Cairo.
NextDay ==
    /\ today < LastDay
    /\ today' = today + 1
    /\ UNCHANGED <<wallets, withdrawals, ledger, bidHeld, announced, mailed, adjusting>>

WithdrawalNext ==
    \/ \E w \in Withdrawals :
        \/ \E u \in Holders, n \in Amounts, method \in PayoutMethods :
               AskForWithdrawal(w, u, n, method)
        \/ CreateWithdrawal(w)
        \/ AbortWithdrawal(w)
        \/ \E u \in Holders : CancelWithdrawal(w, u)
        \/ StartProcessing(w)
        \/ CompleteWithdrawal(w)
        \/ RejectWithdrawal(w)
    \/ \E u \in Holders, n \in Amounts :
        \/ Withdraw(u, n)
        \/ WithdrawRefused(u, n)
        \/ HoldForBid(u, n)
        \/ \E a \in Adjustments : AdminCredit(a, u, n)
    \/ \E u \in Holders : ReleaseBid(u)
    \/ \E a \in Adjustments : RecordCredit(a) \/ CrashCredit(a)
    \/ NextDay

WithdrawalSpec == WithdrawalInit /\ [][WithdrawalNext]_withdrawalVars

-----------------------------------------------------------------------------
RequestRecord ==
    [status : {"ASKED"} \cup WithdrawalStatuses, user : Holders, amount : Amounts,
     fee : Nat, net : Nat, day : 0 .. LastDay]

\* What each variable holds.
WithdrawalTypeOK ==
    /\ wallets \in [Holders -> WalletDoc]
    /\ withdrawals \in [Withdrawals -> {NoRequest} \cup RequestRecord]
    /\ ledger \in [Holders -> [Rows -> Nat]]
    /\ bidHeld \in [Holders -> Nat]
    /\ announced \in [Withdrawals -> [WithdrawalEvents -> Nat]]
    /\ mailed \in [Holders -> Nat]
    /\ adjusting \in [Adjustments ->
           [at : {"idle", "recorded"}]
             \cup [at : {"credited", "lost"}, user : Holders, amount : Amounts]]
    /\ today \in 0 .. LastDay

\* What the requests of u in one of these statuses ask for together.
AmountsOf(u, statuses) ==
    SumFunction([w \in Withdrawals |->
        IF withdrawals[w].status \in statuses /\ withdrawals[w].user = u
        THEN withdrawals[w].amount ELSE 0])

\* sumPendingWithdrawals and sumCompletedWithdrawals of the admin's treasury,
\* per user.
SumPending(u) == AmountsOf(u, {"PENDING", "PROCESSING"})
SumCompleted(u) == AmountsOf(u, {"COMPLETED"})

\* What is held in a wallet is what its bids and its open requests hold:
\* no order of requests, cancellations, rejections and completions leaves a
\* hold behind or releases one twice, although releaseBalance only looks at
\* the hold of the whole wallet (withdrawals.service.ts).
HeldIsOwed ==
    \A u \in Holders :
        wallets[u].held = bidHeld[u] + SumPending(u) /\ SoundWallet(wallets[u])

\* Two calls that both passed hasRequestToday create one request: a user has
\* at most one request a day that is neither cancelled nor rejected.
OneRequestPerDay ==
    \A v, w \in Withdrawals :
        /\ withdrawals[v].status \in Occupying
        /\ withdrawals[w].status \in Occupying
        /\ withdrawals[v].user = withdrawals[w].user
        /\ withdrawals[v].day = withdrawals[w].day
        => v = w

Unrecorded(u) ==
    SumFunction([a \in Adjustments |->
        IF adjusting[a].at \in {"credited", "lost"} /\ adjusting[a].user = u
        THEN adjusting[a].amount ELSE 0])

\* The transaction rows explain the wallet: they add up to its balance and
\* its hold, short only of the admin credits whose server died before the
\* row was written, and what was captured is what the treasury reports as
\* withdrawn.
LedgerExplainsWallet ==
    \A u \in Holders :
        LET l == ledger[u] IN
        /\ wallets[u].balance = l["DEPOSIT"] - l["WITHDRAW"] - l["CAPTURE"] + Unrecorded(u)
        /\ wallets[u].held = l["HOLD"] - l["RELEASE"] - l["CAPTURE"]
        /\ l["CAPTURE"] = SumCompleted(u)
=============================================================================
