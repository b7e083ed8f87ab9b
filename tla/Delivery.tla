------------------------------ MODULE Delivery ------------------------------
(***************************************************************************)
(* How an event reaches its consumers: the outbox collection and the       *)
(* worker that publishes it (infrastructure/outbox), the exchange, the     *)
(* queues and their bindings (infrastructure/rabbitmq), and what the five  *)
(* consumers have in common: the duplicate check in Redis, the             *)
(* acknowledgement, the retry queues and the dead letter queue.            *)
(*                                                                         *)
(* An event is a record with its type and what it is about; it stands for  *)
(* one outbox row and its messageId.  A copy is one message in one queue:  *)
(* "ready", or with a consumer that has passed the duplicate check         *)
(* ("checked") or has done its work as well ("handled").  The wait in a    *)
(* retry queue is left out: the message goes back through the exchange at  *)
(* once.                                                                   *)
(***************************************************************************)
EXTENDS Integers, FiniteSets

CONSTANTS
    Watched,           \* the queues whose consumers a composition models; what
                       \* goes to the others is left out of copies
    MaxRetries,        \* 3 in every consumer
    MaxPublications    \* bounds how often one row is published

ASSUME DeliveryAssumption ==
    /\ Watched \subseteq {"notifications", "webhook", "wallet", "auth", "auction"}
    /\ MaxRetries \in Nat
    /\ MaxPublications \in Nat

VARIABLES
    outbox,      \* the events whose row has no publishedAt
    published,   \* the publications so far, as pairs of event and number
    copies,      \* the messages in the queues and with the consumers
    keys,        \* the events whose key rabbit:msg:<messageId> is in Redis
    dead,        \* what is in the dead letter queue: pairs of queue and event
    dropped,     \* messages acknowledged and then not sent to a retry queue
    faults       \* how many more faults happen

deliveryVars == <<outbox, published, copies, keys, dead, dropped, faults>>

Queues == Watched

NotifiedTypes == {
    "AuctionStarted", "AuctionEnded", "BidPlaced", "AutoBidPlaced", "AutoBidExhausted",
    "AuctionCancelledByAdmin", "AuctionCancelled", "UserRegistered", "EmailVerified",
    "PasswordReset", "PasswordChanged", "WalletDeposited", "WithdrawalCompleted",
    "WithdrawalRequested", "WithdrawalRejected", "AccountReactivationRequested",
    "AccountReactivated", "ChatMessageSent", "ReviewPublished", "ReviewReplied",
    "EscrowCreated", "EscrowReleased", "EscrowRefunded", "DisputeOpened",
    "DisputeResolved", "DisputeCancelled"}

AllEventTypes == NotifiedTypes \cup {
    "PaymentWebhookReceived", "UserBanned", "WalletDepositInitiated", "UserSoftDeleted",
    "ReviewCreated", "EscrowDisputed"}

\* assertTopology: the routing keys each queue is bound to.
Bindings(q) ==
    CASE q = "notifications" -> NotifiedTypes \cup {"notification.retry.direct"}
      [] q = "webhook" -> {"PaymentWebhookReceived"}
      [] q = "wallet" -> {"WalletDepositInitiated"}
      [] q = "auth" -> {"UserBanned"}
      [] q = "auction" -> {"UserBanned", "UserSoftDeleted", "auction.retry.direct"}

Bound(key) == {q \in Queues : key \in Bindings(q)}

\* The routing key a message leaves the retry queue of q with: that of auth is
\* bound to the auction queue as well.
RetryKey(q) ==
    CASE q = "notifications" -> "notification.retry.direct"
      [] q = "webhook" -> "PaymentWebhookReceived"
      [] q = "wallet" -> "WalletDepositInitiated"
      [] q = "auth" -> "UserBanned"
      [] q = "auction" -> "auction.retry.direct"

\* Which consumers acknowledge a failed message before they send it on.
AcksFirst == {"wallet", "auth", "auction"}

\* channel.prefetch: 1 for the consumers that move money.
Prefetch(q) == IF q \in {"wallet", "webhook"} THEN 1 ELSE 10

Copy(q, e, retry, n) == [queue |-> q, event |-> e, retry |-> retry, pub |-> n, at |-> "ready"]
InHand(q) == {c \in copies : c.queue = q /\ c.at # "ready"}

DeliveryInit ==
    /\ outbox = {}
    /\ published = {}
    /\ copies = {}
    /\ keys = {}
    /\ dead = {}
    /\ dropped = {}

-----------------------------------------------------------------------------
\* saveEvent, in the transaction of the caller.
Saved(es) == outbox' = outbox \cup es

\* RabbitMQService.publish: one copy in every queue bound to the event type.
PublicationsOf(e) == {n \in 1 .. MaxPublications : <<e, n>> \in published}

Publication(e) ==
    LET n == Cardinality(PublicationsOf(e)) + 1 IN
    /\ n <= MaxPublications
    /\ published' = published \cup {<<e, n>>}
    /\ copies' = copies \cup {Copy(q, e, 0, n) : q \in Bound(e.type)}

\* dispatchPendingEvents, one event of the batch: publish, set publishedAt.
\* The row stays unpublished when the worker dies in between, and a second
\* worker publishes it too when the first has outlived its lock.
MarkedBeforePublished(e) ==
    /\ e \in outbox
    /\ outbox' = outbox \ {e}
    /\ UNCHANGED <<published, copies, keys, dead, dropped, faults>>

Dispatch(e) ==
    /\ e \in outbox
    /\ Publication(e)
    /\ outbox' = outbox \ {e}
    /\ UNCHANGED <<keys, dead, dropped, faults>>

DispatchUnmarked(e) ==
    /\ e \in outbox
    /\ faults > 0
    /\ Cardinality(PublicationsOf(e)) + 1 < MaxPublications
    /\ Publication(e)
    /\ faults' = faults - 1
    /\ UNCHANGED <<outbox, keys, dead, dropped>>

-----------------------------------------------------------------------------
Advance(c, to) == copies' = (copies \ {c}) \cup {[c EXCEPT !.at = to]}

\* handleMessage begins: the duplicate check.  The key is the same for every
\* queue.  The webhook consumer has none.
IsDuplicate(q, e) == q # "webhook" /\ e \in keys

Take(c) ==
    /\ c \in copies
    /\ c.at = "ready"
    /\ Cardinality(InHand(c.queue)) < Prefetch(c.queue)
    /\ ~IsDuplicate(c.queue, c.event)
    /\ Advance(c, "checked")
    /\ UNCHANGED <<outbox, published, keys, dead, dropped, faults>>

SkipDuplicate(c) ==
    /\ c \in copies
    /\ c.at = "ready"
    /\ IsDuplicate(c.queue, c.event)
    /\ copies' = copies \ {c}
    /\ UNCHANGED <<outbox, published, keys, dead, dropped, faults>>

\* handleMessage ends: set the key, acknowledge.
SetsKey(q) == q # "webhook"

Acknowledge(c) ==
    /\ c \in copies
    /\ c.at = "handled"
    /\ copies' = copies \ {c}
    /\ keys' = IF SetsKey(c.queue) THEN keys \cup {c.event} ELSE keys
    /\ UNCHANGED <<outbox, published, dead, dropped, faults>>

\* handleProcessingError.
Retried(c) == {Copy(q, c.event, c.retry + 1, c.pub) : q \in Bound(RetryKey(c.queue))}

AlwaysRetried(c) ==
    /\ copies' = (copies \ {c}) \cup Retried(c)
    /\ UNCHANGED dead

Rejected(c) ==
    \/ /\ c.retry < MaxRetries
       /\ copies' = (copies \ {c}) \cup Retried(c)
       /\ UNCHANGED dead
    \/ /\ c.retry >= MaxRetries
       /\ copies' = copies \ {c}
       /\ dead' = dead \cup {<<c.queue, c.event>>}

Fail(c) ==
    /\ c \in copies
    /\ c.at # "ready"
    /\ faults > 0
    /\ faults' = faults - 1
    /\ Rejected(c)
    /\ UNCHANGED <<outbox, published, keys, dropped>>

\* The connection breaks between the acknowledgement and the message to the
\* retry queue: gone, or there twice.
FailHalfway(c) ==
    /\ c \in copies
    /\ c.at # "ready"
    /\ c.retry < MaxRetries
    /\ faults > 0
    /\ faults' = faults - 1
    /\ \/ /\ c.queue \in AcksFirst
          /\ copies' = copies \ {c}
          /\ dropped' = dropped \cup {<<c.queue, c.event>>}
       \/ /\ c.queue \notin AcksFirst
          /\ copies' = (copies \ {c}) \cup {[c EXCEPT !.at = "ready"]} \cup Retried(c)
          /\ UNCHANGED dropped
    /\ UNCHANGED <<outbox, published, keys, dead>>

\* The server dies: what its consumers had in hand is delivered again.
CrashConsumers ==
    /\ faults > 0
    /\ faults' = faults - 1
    /\ \E c \in copies : c.at # "ready"
    /\ copies' = {[c EXCEPT !.at = "ready"] : c \in copies}
    /\ UNCHANGED <<outbox, published, keys, dead, dropped>>

\* The key expires after a day.
KeyExpires(e) ==
    /\ e \in keys
    /\ faults > 0
    /\ faults' = faults - 1
    /\ keys' = keys \ {e}
    /\ UNCHANGED <<outbox, published, copies, dead, dropped>>

DeliveryNext ==
    \/ \E e \in outbox : Dispatch(e) \/ DispatchUnmarked(e)
    \/ \E c \in copies : Take(c) \/ SkipDuplicate(c) \/ Acknowledge(c) \/ Fail(c) \/ FailHalfway(c)
    \/ CrashConsumers
    \/ \E e \in keys : KeyExpires(e)

DeliveryTypeOK(Events) ==
    /\ outbox \subseteq Events
    /\ published \subseteq Events \X (1 .. MaxPublications)
    /\ copies \subseteq [queue : Queues, event : Events, retry : 0 .. MaxRetries,
                         pub : 1 .. MaxPublications, at : {"ready", "checked", "handled"}]
    /\ keys \subseteq Events
    /\ dead \subseteq Queues \X Events
    /\ dropped \subseteq Queues \X Events
    /\ faults \in Nat

\* Where an event still is on its way to a queue.
OnItsWay(q, e) == e \in outbox \/ \E c \in copies : c.queue = q /\ c.event = e
=============================================================================
