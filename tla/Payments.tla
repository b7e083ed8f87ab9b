------------------------------ MODULE Payments ------------------------------
(***************************************************************************)
(* Deposits through a payment gateway: initializePayment, the webhook      *)
(* inbox and its consumer, the reconciliation and expiration jobs, the     *)
(* append-only ledger of transaction.service.ts, and the wallet consumer   *)
(* that credits the wallet.  Events travel as in Delivery.                 *)
(*                                                                         *)
(* A payment is a number: the order in which they were created.  Its row   *)
(* stays PENDING; a decision appends a child row and sets hasChild.        *)
(***************************************************************************)
EXTENDS Delivery

CONSTANTS
    LastPayment,    \* payments are 1 .. LastPayment
    Paymob,         \* the payments of that provider; Stripe has the others
    Foreign,        \* the payments in another currency than EGP
    Webhooks,       \* the notices that arrive, as pairs of payment and notice
    PageSize        \* 100 in both jobs

Payments == 1 .. LastPayment
Notices == {"pending", "declined", "paid"}

ASSUME PaymentAssumption ==
    /\ LastPayment \in Nat
    /\ Paymob \subseteq Payments
    /\ Foreign \subseteq Payments
    /\ Webhooks \subseteq Payments \X Notices
    /\ PageSize \in Nat \ {0}

Decisions == {"SUCCESS", "FAILED", "EXPIRED"}
Jobs == {"expire", "reconcile"}

VARIABLES
    progress,   \* per payment, how far initializePayment has come
    hasChild,   \* the flag of the PENDING row
    children,   \* the statuses of the child rows
    walletCredited, \* the flag of the PENDING row
    credits,    \* how often the amount was added to the wallet
    due,        \* whether expiresAt has passed
    gateway,    \* what the gateway knows of the payment
    inbox,      \* the webhook events: what they said, whether processed
    job         \* the runs of the two cron jobs

paymentVars == <<progress, hasChild, children, walletCredited, credits, due,
                 gateway, inbox, job>>

WebhookReceived(w) == [type |-> "PaymentWebhookReceived", of |-> w]
DepositInitiated(p) == [type |-> "WalletDepositInitiated", of |-> <<p, "credit">>]
Deposited(p) == [type |-> "WalletDeposited", of |-> <<p, "credit">>]

\* The id of the provider's event: payload.id for Stripe.  Paymob's obj.id is
\* the id of the attempt, the same before and after it succeeds.
ProviderEventId(p, notice) ==
    IF p \in Paymob /\ notice = "pending" THEN <<p, "paid">> ELSE <<p, notice>>

WebhookIds == {ProviderEventId(p, notice) : p \in Payments, notice \in Notices}
NoWebhook == [said |-> "none"]

PaymentEvents ==
    {WebhookReceived(w) : w \in WebhookIds}
        \cup {DepositInitiated(p) : p \in Payments} \cup {Deposited(p) : p \in Payments}

Off == [page |-> 0, full |-> FALSE, todo |-> {}, answer |-> "none"]

PaymentInit ==
    /\ progress = [p \in Payments |-> "none"]
    /\ hasChild = [p \in Payments |-> FALSE]
    /\ children = [p \in Payments |-> {}]
    /\ walletCredited = [p \in Payments |-> FALSE]
    /\ credits = [p \in Payments |-> 0]
    /\ due = [p \in Payments |-> FALSE]
    /\ gateway = [p \in Payments |-> "unknown"]
    /\ inbox = [w \in WebhookIds |-> NoWebhook]
    /\ job = [j \in Jobs |-> Off]

-----------------------------------------------------------------------------
\* initializePayment: the PENDING row, the gateway, the intent id.
CreatePending(p) ==
    /\ progress[p] = "none"
    /\ \A q \in Payments : q < p => progress[q] # "none"
    /\ progress' = [progress EXCEPT ![p] = "created"]
    /\ UNCHANGED <<hasChild, children, walletCredited, credits, due, gateway, inbox, job>>
    /\ UNCHANGED deliveryVars

\* createPayment of the provider.
CreateAtGateway(p) ==
    /\ progress[p] = "created"
    /\ gateway[p] = "unknown"
    /\ gateway' = [gateway EXCEPT ![p] = "open"]
    /\ UNCHANGED <<progress, hasChild, children, walletCredited, credits, due, inbox, job>>
    /\ UNCHANGED deliveryVars

\* updateGatewayPaymentIntentId.  An update that is applied while its answer is
\* lost is left out: the code would append FAILED to a payment that has its intent.
AttachIntent(p) ==
    /\ progress[p] = "created"
    /\ gateway[p] # "unknown"
    /\ progress' = [progress EXCEPT ![p] = "attached"]
    /\ UNCHANGED <<hasChild, children, walletCredited, credits, due, gateway, inbox, job>>
    /\ UNCHANGED deliveryVars

\* The gateway's error, or its answer lost: the catch of initializePayment
\* appends FAILED and then marks the parent, each on its own.
Appended(p, s) == children' = [children EXCEPT ![p] = @ \cup {s}]

AppendFailed(p) ==
    /\ progress[p] = "created"
    /\ faults > 0
    /\ faults' = faults - 1
    /\ \/ /\ "FAILED" \notin children[p]
          /\ Appended(p, "FAILED")
          /\ progress' = [progress EXCEPT ![p] = "failing"]
       \/ /\ "FAILED" \in children[p]
          /\ progress' = [progress EXCEPT ![p] = "failed"]
          /\ UNCHANGED children
    /\ UNCHANGED <<hasChild, walletCredited, credits, due, gateway, inbox, job>>
    /\ UNCHANGED <<outbox, published, copies, keys, dead, dropped>>

MarkParent(p) ==
    /\ progress[p] = "failing"
    /\ hasChild' = [hasChild EXCEPT ![p] = TRUE]
    /\ progress' = [progress EXCEPT ![p] = "failed"]
    /\ UNCHANGED <<children, walletCredited, credits, due, gateway, inbox, job>>
    /\ UNCHANGED deliveryVars

\* The server dies in initializePayment.
CrashInitialize(p) ==
    /\ progress[p] \in {"created", "failing"}
    /\ faults > 0
    /\ faults' = faults - 1
    /\ progress' = [progress EXCEPT ![p] = "failed"]
    /\ UNCHANGED <<hasChild, children, walletCredited, credits, due, gateway, inbox, job>>
    /\ UNCHANGED <<outbox, published, copies, keys, dead, dropped>>

-----------------------------------------------------------------------------
\* The gateway: the user can only pay what initializePayment returned to him;
\* a declined attempt may be followed by a successful one.
UserPays(p) ==
    /\ progress[p] = "attached"
    /\ gateway[p] \in {"open", "declined"}
    /\ \E s \in {"declined", "paid"} \ {gateway[p]} : gateway' = [gateway EXCEPT ![p] = s]
    /\ UNCHANGED <<progress, hasChild, children, walletCredited, credits, due, inbox, job>>
    /\ UNCHANGED deliveryVars

\* expiresAt, an hour after the row was created.
BecomesDue(p) ==
    /\ progress[p] # "none"
    /\ ~due[p]
    /\ due' = [due EXCEPT ![p] = TRUE]
    /\ UNCHANGED <<progress, hasChild, children, walletCredited, credits, gateway, inbox, job>>
    /\ UNCHANGED deliveryVars

\* What a webhook of the payment can say now.
Sayable(p) ==
    CASE gateway[p] = "unknown" -> {}
      [] gateway[p] = "open" -> {"pending"}
      [] gateway[p] = "declined" -> {"pending", "declined"}
      [] gateway[p] = "paid" -> Notices

\* handleWebhook: inbox and outbox in one transaction, once per event id.
HandleWebhook(p, notice) ==
    LET w == ProviderEventId(p, notice) IN
    /\ <<p, notice>> \in Webhooks
    /\ notice \in Sayable(p)
    /\ inbox[w] = NoWebhook
    /\ inbox' = [inbox EXCEPT ![w] = [said |-> notice, processed |-> FALSE]]
    /\ Saved({WebhookReceived(w)})
    /\ UNCHANGED <<progress, hasChild, children, walletCredited, credits, due, gateway, job>>
    /\ UNCHANGED <<published, copies, keys, dead, dropped, faults>>

-----------------------------------------------------------------------------
\* updateTransactionStatusDirect, in the transaction of its caller.  A second
\* child with the same status breaks the unique index on the idempotency key
\* and the status, and the transaction is lost with it.
DuplicateChild(p, s) == ~hasChild[p] /\ s \in children[p]

Emitted(p, s) == IF s = "SUCCESS" THEN {DepositInitiated(p)} ELSE {}

Decide(p, s) ==
    /\ ~DuplicateChild(p, s)
    /\ \/ /\ hasChild[p]
          /\ UNCHANGED <<hasChild, children, outbox>>
       \/ /\ ~hasChild[p]
          /\ Appended(p, s)
          /\ hasChild' = [hasChild EXCEPT ![p] = TRUE]
          /\ Saved(Emitted(p, s))

\* extractWebhookData: everything but a success is a failure.
SuccessUnlessDeclined(said) == said # "declined"

IsSuccess(said) == said = "paid"

StatusSaid(said) == IF IsSuccess(said) THEN "SUCCESS" ELSE "FAILED"

\* processPaymentWebhookEvent, for the copy a consumer holds.
ProcessWebhook(c) ==
    LET w == c.event.of
        p == w[1] IN
    /\ c \in copies
    /\ c.queue = "webhook"
    /\ c.at = "checked"
    /\ Advance(c, "handled")
    /\ \/ /\ inbox[w].processed
          /\ UNCHANGED <<hasChild, children, outbox, inbox>>
       \/ /\ ~inbox[w].processed
          /\ inbox' = [inbox EXCEPT ![w].processed = TRUE]
          /\ \/ p \in Foreign /\ UNCHANGED <<hasChild, children, outbox>>
             \/ p \notin Foreign /\ Decide(p, StatusSaid(inbox[w].said))
    /\ UNCHANGED <<progress, walletCredited, credits, due, gateway, job>>
    /\ UNCHANGED <<published, keys, dead, dropped, faults>>

\* The unique index refuses the child row: the transaction cannot commit and
\* the message is retried.
WebhookConflicts(c) ==
    LET w == c.event.of IN
    /\ c \in copies
    /\ c.queue = "webhook"
    /\ c.at = "checked"
    /\ ~inbox[w].processed
    /\ w[1] \notin Foreign
    /\ DuplicateChild(w[1], StatusSaid(inbox[w].said))
    /\ Rejected(c)
    /\ UNCHANGED paymentVars
    /\ UNCHANGED <<outbox, published, keys, dropped, faults>>

\* handleWalletDepositInitiated: one transaction.
CreditUnguarded(c) ==
    LET p == c.event.of[1] IN
    /\ c \in copies
    /\ c.queue = "wallet"
    /\ c.at = "checked"
    /\ Advance(c, "handled")
    /\ credits' = [credits EXCEPT ![p] = @ + 1]
    /\ walletCredited' = [walletCredited EXCEPT ![p] = TRUE]
    /\ Saved({Deposited(p)})
    /\ UNCHANGED <<progress, hasChild, children, due, gateway, inbox, job>>
    /\ UNCHANGED <<published, keys, dead, dropped, faults>>

CreditWallet(c) ==
    LET p == c.event.of[1] IN
    /\ c \in copies
    /\ c.queue = "wallet"
    /\ c.at = "checked"
    /\ Advance(c, "handled")
    /\ \/ /\ walletCredited[p]
          /\ UNCHANGED <<credits, walletCredited, outbox>>
       \/ /\ ~walletCredited[p]
          /\ credits' = [credits EXCEPT ![p] = @ + 1]
          /\ walletCredited' = [walletCredited EXCEPT ![p] = TRUE]
          /\ Saved({Deposited(p)})
    /\ UNCHANGED <<progress, hasChild, children, due, gateway, inbox, job>>
    /\ UNCHANGED <<published, keys, dead, dropped, faults>>

-----------------------------------------------------------------------------
(***************************************************************************)
(* The two jobs.  findAll sorts by creation, newest first, and skips the   *)
(* pages before: a list that has shrunk in the meantime hides rows.  The   *)
(* endDate of reconciliation is moved to the end of the day, so that rows  *)
(* of any age are listed.                                                  *)
(***************************************************************************)
MatchingAttached(j) ==
    {p \in Payments : progress[p] = "attached" /\ ~hasChild[p] /\ (j = "expire" => due[p])}

Matching(j) ==
    {p \in Payments : /\ progress[p] # "none"
                      /\ ~hasChild[p]
                      /\ j = "expire" => due[p]}

NewerIn(S, p) == {q \in S : q > p}

Page(S, n) == {p \in S : Cardinality(NewerIn(S, p)) \in (n - 1) * PageSize .. n * PageSize - 1}

\* A page of results: rows, and whether another page may follow.
Fetched(j, n) ==
    LET rows == Page(Matching(j), n) IN
    IF rows = {} THEN Off
    ELSE [page |-> n, full |-> Cardinality(rows) >= PageSize, todo |-> rows, answer |-> "none"]

\* The lock is taken, the first page read.
StartJob(j) ==
    /\ job[j].page = 0
    /\ Matching(j) # {}
    /\ job' = [job EXCEPT ![j] = Fetched(j, 1)]
    /\ UNCHANGED <<progress, hasChild, children, walletCredited, credits, due, gateway, inbox>>
    /\ UNCHANGED deliveryVars

\* A page is done: the next one if this one was full.
NextPage(j) ==
    /\ job[j].page > 0
    /\ job[j].todo = {}
    /\ job' = [job EXCEPT ![j] = IF job[j].full THEN Fetched(j, job[j].page + 1) ELSE Off]
    /\ UNCHANGED <<progress, hasChild, children, walletCredited, credits, due, gateway, inbox>>
    /\ UNCHANGED deliveryVars

\* The row the job is at.
At(j, p) == p \in job[j].todo /\ NewerIn(job[j].todo, p) = {}

Ticked(j, p) == [job[j] EXCEPT !.todo = @ \ {p}, !.answer = "none"]

\* handleExpiredPayments, one row.
ExpirePayment(p) ==
    /\ At("expire", p)
    /\ Decide(p, "EXPIRED")
    /\ job' = [job EXCEPT !["expire"] = Ticked("expire", p)]
    /\ UNCHANGED <<progress, walletCredited, credits, due, gateway, inbox>>
    /\ UNCHANGED <<published, copies, keys, dead, dropped, faults>>

\* The providers' getPaymentStatus: Stripe reports an intent nobody has paid
\* yet as requires_payment_method, which counts as failed.
PaymentStatus(p) ==
    CASE gateway[p] = "paid" -> {"SUCCESS"}
      [] gateway[p] = "declined" -> {"FAILED"}
      [] gateway[p] = "open" -> IF p \in Paymob THEN {"PENDING"} ELSE {"FAILED", "PENDING"}
      [] gateway[p] = "unknown" -> {"PENDING"}

\* reconcilePendingPayments, one row: ask the gateway, then write.
AskGateway(p) ==
    /\ At("reconcile", p)
    /\ job["reconcile"].answer = "none"
    /\ progress[p] = "attached"
    /\ \E s \in PaymentStatus(p) :
           job' = [job EXCEPT !["reconcile"] =
               IF s = "PENDING" THEN Ticked("reconcile", p) ELSE [@ EXCEPT !.answer = s]]
    /\ UNCHANGED <<progress, hasChild, children, walletCredited, credits, due, gateway, inbox>>
    /\ UNCHANGED deliveryVars

RecordAnswer(p) ==
    /\ At("reconcile", p)
    /\ job["reconcile"].answer # "none"
    /\ Decide(p, job["reconcile"].answer)
    /\ job' = [job EXCEPT !["reconcile"] = Ticked("reconcile", p)]
    /\ UNCHANGED <<progress, walletCredited, credits, due, gateway, inbox>>
    /\ UNCHANGED <<published, copies, keys, dead, dropped, faults>>

\* A row is passed over: it has no intent id, or the gateway or the database
\* fails.
PassOver(j, p) ==
    /\ At(j, p)
    /\ \/ /\ j = "reconcile"
          /\ job[j].answer = "none" /\ progress[p] # "attached"
          /\ UNCHANGED faults
       \/ /\ faults > 0
          /\ faults' = faults - 1
    /\ job' = [job EXCEPT ![j] = Ticked(j, p)]
    /\ UNCHANGED <<progress, hasChild, children, walletCredited, credits, due, gateway, inbox>>
    /\ UNCHANGED <<outbox, published, copies, keys, dead, dropped>>

\* The server dies in a job; the lock goes with its TTL.
CrashPaymentJob(j) ==
    /\ job[j].page > 0
    /\ faults > 0
    /\ faults' = faults - 1
    /\ job' = [job EXCEPT ![j] = Off]
    /\ UNCHANGED <<progress, hasChild, children, walletCredited, credits, due, gateway, inbox>>
    /\ UNCHANGED <<outbox, published, copies, keys, dead, dropped>>

-----------------------------------------------------------------------------
PaymentNext ==
    \/ \E p \in Payments :
        \/ CreatePending(p)
        \/ CreateAtGateway(p)
        \/ AttachIntent(p)
        \/ AppendFailed(p)
        \/ MarkParent(p)
        \/ CrashInitialize(p)
        \/ UserPays(p)
        \/ BecomesDue(p)
        \/ \E notice \in Notices : HandleWebhook(p, notice)
        \/ ExpirePayment(p)
        \/ AskGateway(p)
        \/ RecordAnswer(p)
        \/ \E j \in Jobs : PassOver(j, p)
    \/ \E c \in copies : ProcessWebhook(c) \/ WebhookConflicts(c) \/ CreditWallet(c)
    \/ \E j \in Jobs : StartJob(j) \/ NextPage(j) \/ CrashPaymentJob(j)
    \/ DeliveryNext /\ UNCHANGED paymentVars

payAllVars == <<paymentVars, deliveryVars>>

PaymentSpec == PaymentInit /\ DeliveryInit /\ faults \in Nat /\ [][PaymentNext]_payAllVars

WalletConsumerMoves ==
    \E c \in {d \in copies : d.queue = "wallet"} :
        \/ CreditWallet(c)
        \/ (Take(c) \/ SkipDuplicate(c) \/ Acknowledge(c)) /\ UNCHANGED paymentVars

\* The cron jobs and the outbox worker run again and again, a job that has
\* begun goes on, and a message that is there is delivered and handled.
DeliveryFairness ==
    /\ \A e \in PaymentEvents : WF_payAllVars(Dispatch(e) /\ UNCHANGED paymentVars)
    /\ WF_payAllVars(WalletConsumerMoves)

JobFairness ==
    /\ WF_payAllVars(StartJob("expire") \/ NextPage("expire"))
    /\ \A p \in Payments : WF_payAllVars(ExpirePayment(p) \/ PassOver("expire", p))

-----------------------------------------------------------------------------
PaymentRowsTypeOK ==
    /\ progress \in [Payments -> {"none", "created", "attached", "failing", "failed"}]
    /\ hasChild \in [Payments -> BOOLEAN]
    /\ children \in [Payments -> SUBSET Decisions]
    /\ walletCredited \in [Payments -> BOOLEAN]
    /\ credits \in [Payments -> Nat]
    /\ due \in [Payments -> BOOLEAN]
    /\ gateway \in [Payments -> {"unknown", "open", "declined", "paid"}]
    /\ inbox \in [WebhookIds -> {NoWebhook} \cup [said : Notices, processed : BOOLEAN]]
    /\ job \in [Jobs -> [page : 0 .. LastPayment, full : BOOLEAN, todo : SUBSET Payments,
                         answer : {"none", "SUCCESS", "FAILED"}]]

PaymentTypeOK == PaymentRowsTypeOK /\ DeliveryTypeOK(PaymentEvents)

Accepted(p) == "SUCCESS" \in children[p]
LostDeposit(p) ==
    \E x \in dead \cup dropped : x = <<"wallet", DepositInitiated(p)>>

\* What the abstract specification calls paid, accepted and credited.
D == INSTANCE Deposits WITH
    Deposits <- Payments,
    paid <- {p \in Payments : gateway[p] = "paid"},
    accepted <- {p \in Payments : Accepted(p)},
    credited <- credits

DepositsImplemented == D!DepositSpec

\* A deposit the ledger has accepted is in the wallet, or the message that
\* puts it there is still on its way, or it lies in the dead letter queue or
\* was lost between the acknowledgement and the retry queue.
AcceptedIsOnItsWay ==
    \A p \in Payments :
        Accepted(p) =>
            \/ credits[p] = 1
            \/ OnItsWay("wallet", DepositInitiated(p))
            \/ LostDeposit(p)

\* An accepted deposit reaches the wallet, unless its message was lost.
AcceptedIsCredited ==
    \A p \in Payments : Accepted(p) ~> credits[p] = 1 \/ LostDeposit(p)

\* No deposit stays PENDING: an hour after its creation the expiration job
\* decides what nobody has decided, although its pages are counted while the
\* list shrinks.
DueIsDecided ==
    \A p \in Payments : due[p] ~> hasChild[p]
=============================================================================
