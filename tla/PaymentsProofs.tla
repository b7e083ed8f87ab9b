--------------------------- MODULE PaymentsProofs ---------------------------
(***************************************************************************)
(* Proofs about Payments, for any number of payments, faults, retries and  *)
(* publications: it implements Deposits, and a deposit that was accepted   *)
(* is in the wallet, or on its way, or known to be lost.                   *)
(***************************************************************************)
EXTENDS Payments, FiniteSetTheorems, TLAPS

-----------------------------------------------------------------------------
(***************************************************************************)
(* Delivery, for any set of events.                                        *)
(***************************************************************************)
CopiesOf(Events) ==
    [queue : Queues, event : Events, retry : 0 .. MaxRetries,
     pub : 1 .. MaxPublications, at : {"ready", "checked", "handled"}]

\* A message is published under a number that no publication has had.
LEMMA PublicationTyped ==
    ASSUME NEW Events, DeliveryTypeOK(Events), NEW e \in Events, Publication(e)
    PROVE  /\ published' \subseteq Events \X (1 .. MaxPublications)
           /\ copies' \subseteq CopiesOf(Events)
<1> DEFINE n == Cardinality(PublicationsOf(e)) + 1
<1>1. n \in 1 .. MaxPublications
  <2>1. MaxPublications \in Nat
    BY DeliveryAssumption
  <2>2. IsFiniteSet(1 .. MaxPublications)
    BY <2>1, FS_Interval
  <2>3. PublicationsOf(e) \subseteq 1 .. MaxPublications
    BY DEF PublicationsOf
  <2>4. Cardinality(PublicationsOf(e)) \in Nat
    BY <2>2, <2>3, FS_Subset, FS_CardinalityType
  <2>5. QED BY <2>1, <2>4 DEF Publication
<1>2. published' = published \cup {<<e, n>>}
  BY DEF Publication
<1>3. copies' = copies \cup {Copy(q, e, 0, n) : q \in Bound(e.type)}
  BY DEF Publication
<1> HIDE DEF n
<1>4. \A q \in Bound(e.type) : Copy(q, e, 0, n) \in CopiesOf(Events)
  BY <1>1, DeliveryAssumption DEF Copy, CopiesOf, Bound
<1>5. QED BY <1>1, <1>2, <1>3, <1>4 DEF DeliveryTypeOK, CopiesOf

\* What goes to a retry queue is a copy again.
LEMMA RetriedTyped ==
    ASSUME NEW Events, DeliveryTypeOK(Events), NEW c \in copies, c.retry < MaxRetries
    PROVE  Retried(c) \subseteq CopiesOf(Events)
<1>1. c \in CopiesOf(Events)
  BY DEF DeliveryTypeOK, CopiesOf
<1>2. c.retry + 1 \in 0 .. MaxRetries
  BY <1>1, DeliveryAssumption DEF CopiesOf
<1>3. \A q \in Bound(RetryKey(c.queue)) : Copy(q, c.event, c.retry + 1, c.pub) \in CopiesOf(Events)
  BY <1>1, <1>2 DEF Copy, CopiesOf, Bound
<1>4. QED BY <1>3 DEF Retried

\* A consumer that advances keeps what the message is.
LEMMA AdvanceTyped ==
    ASSUME NEW Events, NEW c \in CopiesOf(Events), NEW to \in {"ready", "checked", "handled"}
    PROVE  /\ [c EXCEPT !.at = to] \in CopiesOf(Events)
           /\ [c EXCEPT !.at = to].queue = c.queue
           /\ [c EXCEPT !.at = to].event = c.event
           /\ [c EXCEPT !.at = to].at = to
BY DEF CopiesOf

LEMMA RejectedTyped ==
    ASSUME NEW Events, DeliveryTypeOK(Events), NEW c \in copies, Rejected(c)
    PROVE  /\ copies' \subseteq CopiesOf(Events)
           /\ dead' \subseteq Queues \X Events
<1>1. copies \subseteq CopiesOf(Events)
  BY DEF DeliveryTypeOK, CopiesOf
<1>2. CASE /\ c.retry < MaxRetries
           /\ copies' = (copies \ {c}) \cup Retried(c)
           /\ UNCHANGED dead
  BY <1>1, <1>2, RetriedTyped DEF DeliveryTypeOK
<1>3. CASE /\ copies' = copies \ {c}
           /\ dead' = dead \cup {<<c.queue, c.event>>}
  <2>1. c.queue \in Queues /\ c.event \in Events
    BY <1>1 DEF CopiesOf
  <2>2. QED BY <1>1, <1>3, <2>1 DEF DeliveryTypeOK
<1>4. QED BY <1>2, <1>3 DEF Rejected

\* The message system keeps its types, whatever its events are.
LEMMA DeliveryTyped ==
    ASSUME NEW Events, DeliveryTypeOK(Events), DeliveryNext
    PROVE  DeliveryTypeOK(Events)'
<1>0. copies \subseteq CopiesOf(Events)
  BY DEF DeliveryTypeOK, CopiesOf
<1> USE DEF DeliveryTypeOK
<1>1. ASSUME NEW e \in outbox, Dispatch(e) \/ DispatchUnmarked(e) PROVE DeliveryTypeOK(Events)'
  <2>1. /\ published' \subseteq Events \X (1 .. MaxPublications)
        /\ copies' \subseteq CopiesOf(Events)
    BY <1>1, PublicationTyped DEF Dispatch, DispatchUnmarked
  <2>2. QED BY <1>1, <2>1 DEF Dispatch, DispatchUnmarked, CopiesOf
<1>2. ASSUME NEW c \in copies, Take(c) PROVE DeliveryTypeOK(Events)'
  <2>1. [c EXCEPT !.at = "checked"] \in CopiesOf(Events)
    BY <1>0, AdvanceTyped
  <2>2. QED BY <1>0, <1>2, <2>1 DEF Take, Advance, CopiesOf
<1>3. ASSUME NEW c \in copies, SkipDuplicate(c) \/ Acknowledge(c) PROVE DeliveryTypeOK(Events)'
  <2>1. c.event \in Events
    BY <1>0 DEF CopiesOf
  <2>2. QED BY <1>3, <2>1 DEF SkipDuplicate, Acknowledge
<1>4. ASSUME NEW c \in copies, Fail(c) PROVE DeliveryTypeOK(Events)'
  <2>1. copies' \subseteq CopiesOf(Events) /\ dead' \subseteq Queues \X Events
    BY <1>4, RejectedTyped DEF Fail
  <2>2. QED BY <1>4, <2>1 DEF Fail, CopiesOf
<1>5. ASSUME NEW c \in copies, FailHalfway(c) PROVE DeliveryTypeOK(Events)'
  <2>1. Retried(c) \subseteq CopiesOf(Events)
    BY <1>5, RetriedTyped DEF FailHalfway
  <2>2. [c EXCEPT !.at = "ready"] \in CopiesOf(Events)
    BY <1>0, AdvanceTyped
  <2>3. copies' \subseteq CopiesOf(Events)
    BY <1>0, <1>5, <2>1, <2>2 DEF FailHalfway
  <2>4. c.queue \in Queues /\ c.event \in Events
    BY <1>0 DEF CopiesOf
  <2>5. QED BY <1>5, <2>3, <2>4 DEF FailHalfway, CopiesOf
<1>6. ASSUME CrashConsumers PROVE DeliveryTypeOK(Events)'
  <2>1. \A c \in copies : [c EXCEPT !.at = "ready"] \in CopiesOf(Events)
    BY <1>0, AdvanceTyped
  <2>2. QED BY <1>6, <2>1 DEF CrashConsumers, CopiesOf
<1>7. ASSUME NEW e \in keys, KeyExpires(e) PROVE DeliveryTypeOK(Events)'
  BY <1>7 DEF KeyExpires
<1>8. QED BY <1>1, <1>2, <1>3, <1>4, <1>5, <1>6, <1>7 DEF DeliveryNext

\* A message c comes from a message d: the same event, in the same queue or
\* sent back by its consumer; and only what was handled still is.
ComesFrom(c, d) ==
    /\ c.event = d.event
    /\ c.queue = d.queue \/ c.queue \in Bound(RetryKey(d.queue))
    /\ c.at = "handled" => c.queue = d.queue /\ d.at = "handled"

\* A message that was just published.
JustPublished(c) == c.event \in outbox /\ c.queue \in Bound(c.event.type) /\ c.at = "ready"

LEMMA RejectedComesFrom ==
    ASSUME NEW Events, DeliveryTypeOK(Events), NEW c \in copies, Rejected(c)
    PROVE  \A x \in copies' : \E d \in copies : ComesFrom(x, d)
<1>1. \A x \in Retried(c) : ComesFrom(x, c)
  BY DEF Retried, Copy, ComesFrom
<1>2. \A x \in copies : ComesFrom(x, x)
  BY DEF ComesFrom
<1>3. QED BY <1>1, <1>2 DEF Rejected

\* Where every message, every row and every key come from.
LEMMA DeliveryDescent ==
    ASSUME NEW Events, DeliveryTypeOK(Events), DeliveryNext
    PROVE  /\ \A x \in copies' : JustPublished(x) \/ \E d \in copies : ComesFrom(x, d)
           /\ outbox' \subseteq outbox
           /\ keys' \subseteq keys \cup {d.event : d \in {b \in copies : b.at = "handled"}}
<1>0. copies \subseteq CopiesOf(Events)
  BY DEF DeliveryTypeOK, CopiesOf
<1>a. \A x \in copies : ComesFrom(x, x)
  BY DEF ComesFrom
<1>b. ASSUME NEW c \in copies, NEW to \in {"ready", "checked"}
      PROVE  ComesFrom([c EXCEPT !.at = to], c)
  BY <1>0, AdvanceTyped DEF ComesFrom
<1>1. ASSUME NEW e \in outbox, Dispatch(e) \/ DispatchUnmarked(e)
      PROVE  /\ \A x \in copies' : JustPublished(x) \/ \E d \in copies : ComesFrom(x, d)
             /\ outbox' \subseteq outbox /\ keys' = keys
  <2> DEFINE n == Cardinality(PublicationsOf(e)) + 1
  <2>1. copies' = copies \cup {Copy(q, e, 0, n) : q \in Bound(e.type)}
    BY <1>1 DEF Dispatch, DispatchUnmarked, Publication
  <2> HIDE DEF n
  <2>2. \A q \in Bound(e.type) : JustPublished(Copy(q, e, 0, n))
    BY DEF Copy, JustPublished
  <2>3. QED BY <1>1, <1>a, <2>1, <2>2 DEF Dispatch, DispatchUnmarked
<1>2. ASSUME NEW c \in copies, Take(c)
      PROVE  (\A x \in copies' : \E d \in copies : ComesFrom(x, d)) /\ UNCHANGED <<outbox, keys>>
  BY <1>2, <1>a, <1>b DEF Take, Advance
<1>3. ASSUME NEW c \in copies, SkipDuplicate(c) \/ Acknowledge(c)
      PROVE  /\ \A x \in copies' : \E d \in copies : ComesFrom(x, d)
             /\ outbox' = outbox
             /\ keys' \subseteq keys \cup {d.event : d \in {b \in copies : b.at = "handled"}}
  BY <1>3, <1>a DEF SkipDuplicate, Acknowledge
<1>4. ASSUME NEW c \in copies, Fail(c)
      PROVE  (\A x \in copies' : \E d \in copies : ComesFrom(x, d)) /\ UNCHANGED <<outbox, keys>>
  BY <1>4, RejectedComesFrom DEF Fail
<1>5. ASSUME NEW c \in copies, FailHalfway(c)
      PROVE  (\A x \in copies' : \E d \in copies : ComesFrom(x, d)) /\ UNCHANGED <<outbox, keys>>
  <2>1. \A x \in Retried(c) : ComesFrom(x, c)
    BY DEF Retried, Copy, ComesFrom
  <2>2. QED BY <1>5, <1>a, <1>b, <2>1 DEF FailHalfway
<1>6. ASSUME CrashConsumers
      PROVE  (\A x \in copies' : \E d \in copies : ComesFrom(x, d)) /\ UNCHANGED <<outbox, keys>>
  BY <1>6, <1>b DEF CrashConsumers
<1>7. ASSUME NEW e \in keys, KeyExpires(e)
      PROVE  UNCHANGED <<outbox, copies>> /\ keys' \subseteq keys
  BY <1>7 DEF KeyExpires
<1>8. QED BY <1>a, <1>1, <1>2, <1>3, <1>4, <1>5, <1>6, <1>7 DEF DeliveryNext

\* What a consumer has handled, or some consumer before.
Handled(e) == e \in keys \/ \E c \in copies : c.event = e /\ c.at = "handled"

\* A rejected message is in the queue again or in the dead letter queue.
LEMMA RejectedNotLost ==
    ASSUME NEW Events, DeliveryTypeOK(Events), NEW c \in copies, Rejected(c), NEW d \in copies,
           d.queue \in Bound(RetryKey(d.queue))
    PROVE  \/ \E x \in copies' : x.queue = d.queue /\ x.event = d.event
           \/ <<d.queue, d.event>> \in dead'
<1>1. CASE d # c
  BY <1>1 DEF Rejected
<1>2. CASE d = c
  <2>1. Copy(d.queue, d.event, c.retry + 1, c.pub) \in Retried(c)
    BY <1>2 DEF Retried
  <2>2. /\ Copy(d.queue, d.event, c.retry + 1, c.pub).queue = d.queue
        /\ Copy(d.queue, d.event, c.retry + 1, c.pub).event = d.event
    BY DEF Copy
  <2>3. QED BY <1>2, <2>1, <2>2 DEF Rejected
<1>3. QED BY <1>1, <1>2

\* No step of the message system loses a message unnoticed, in a queue that is
\* bound to its event and to its own retries: it is still on its way, or it is in
\* the dead letter queue, or it went between acknowledgement and retry, or a
\* consumer is done with it.
LEMMA NothingIsLost ==
    ASSUME NEW Events, DeliveryTypeOK(Events), DeliveryNext, NEW q, NEW e,
           q \in Bound(e.type), q \in Bound(RetryKey(q)), OnItsWay(q, e)
    PROVE  \/ OnItsWay(q, e)'
           \/ <<q, e>> \in dead'
           \/ q \in AcksFirst /\ <<q, e>> \in dropped'
           \/ Handled(e)
<1>0. copies \subseteq CopiesOf(Events)
  BY DEF DeliveryTypeOK, CopiesOf
<1>a. CASE e \in outbox
  <2>1. ASSUME Dispatch(e) PROVE OnItsWay(q, e)'
    <3> DEFINE n == Cardinality(PublicationsOf(e)) + 1
    <3>1. copies' = copies \cup {Copy(r, e, 0, n) : r \in Bound(e.type)}
      BY <2>1 DEF Dispatch, Publication
    <3> HIDE DEF n
    <3>2. Copy(q, e, 0, n).queue = q /\ Copy(q, e, 0, n).event = e
      BY DEF Copy
    <3>3. QED BY <3>1, <3>2 DEF OnItsWay
  <2>2. ASSUME NEW f \in outbox, Dispatch(f), f # e PROVE e \in outbox'
    BY <1>a, <2>2 DEF Dispatch
  <2>3. QED
    BY <1>a, <2>1, <2>2 DEF DeliveryNext, DispatchUnmarked, Take, SkipDuplicate, Acknowledge,
              Fail, FailHalfway, CrashConsumers, KeyExpires, OnItsWay
<1>b. CASE e \notin outbox
  <2>0. PICK d \in copies : d.queue = q /\ d.event = e
    BY <1>b DEF OnItsWay
  <2> DEFINE Queued == \E c \in copies : c.queue = q /\ c.event = e
  <2>1. ASSUME NEW f \in outbox, Dispatch(f) \/ DispatchUnmarked(f) PROVE Queued'
    BY <2>0, <2>1 DEF Dispatch, DispatchUnmarked, Publication
  <2>2. ASSUME NEW c \in copies, Take(c) PROVE Queued'
    <3>1. [c EXCEPT !.at = "checked"].queue = c.queue /\ [c EXCEPT !.at = "checked"].event = c.event
      BY <1>0, AdvanceTyped
    <3>2. QED BY <2>0, <2>2, <3>1 DEF Take, Advance
  <2>3. ASSUME NEW c \in copies, SkipDuplicate(c) \/ Acknowledge(c)
        PROVE  Queued' \/ Handled(e)
    BY <2>0, <2>3 DEF SkipDuplicate, IsDuplicate, Acknowledge, Handled
  <2>4. ASSUME NEW c \in copies, Fail(c) PROVE Queued' \/ <<q, e>> \in dead'
    BY <2>0, <2>4, RejectedNotLost DEF Fail
  <2>5. ASSUME NEW c \in copies, FailHalfway(c)
        PROVE  Queued' \/ (q \in AcksFirst /\ <<q, e>> \in dropped')
    <3>1. [c EXCEPT !.at = "ready"].queue = c.queue /\ [c EXCEPT !.at = "ready"].event = c.event
      BY <1>0, AdvanceTyped
    <3>2. QED BY <2>0, <2>5, <3>1 DEF FailHalfway
  <2>6. ASSUME CrashConsumers PROVE Queued'
    <3>1. [d EXCEPT !.at = "ready"].queue = d.queue /\ [d EXCEPT !.at = "ready"].event = d.event
      BY <1>0, AdvanceTyped
    <3>2. QED BY <2>0, <2>6, <3>1 DEF CrashConsumers
  <2>7. ASSUME NEW f \in keys, KeyExpires(f) PROVE Queued'
    BY <2>0, <2>7 DEF KeyExpires
  <2>8. Queued' => OnItsWay(q, e)'
    BY DEF OnItsWay
  <2> HIDE DEF Queued
  <2>9. QED BY <2>1, <2>2, <2>3, <2>4, <2>5, <2>6, <2>7, <2>8 DEF DeliveryNext
<1>c. QED BY <1>a, <1>b

\* What is known to be lost stays known.
LEMMA LossesStayKnown ==
    ASSUME DeliveryNext
    PROVE  dead \subseteq dead' /\ dropped \subseteq dropped'
BY DEF DeliveryNext, Dispatch, DispatchUnmarked, Take, SkipDuplicate, Acknowledge,
       Fail, Rejected, FailHalfway, CrashConsumers, KeyExpires

\* The queue of the wallet consumer is the only one bound to deposits, and what
\* it sends back comes to it again; the same of the webhook consumer.
LEMMA BindingsOfDeposits ==
    /\ \A q \in Queues : /\ "WalletDepositInitiated" \in Bindings(q) <=> q = "wallet"
                         /\ "PaymentWebhookReceived" \in Bindings(q) <=> q = "webhook"
    /\ \A t : /\ "wallet" \in Bound(t) => t = "WalletDepositInitiated"
              /\ "webhook" \in Bound(t) => t = "PaymentWebhookReceived"
    /\ \A q \in Queues : \A r \in Bound(RetryKey(q)) :
          (r = "wallet" <=> q = "wallet") /\ (r = "webhook" <=> q = "webhook")
    /\ "wallet" \in Queues => "wallet" \in Bound(RetryKey("wallet"))
<1>1. Queues \subseteq {"notifications", "webhook", "wallet", "auth", "auction"}
  BY DeliveryAssumption DEF Queues
<1>2. \A q \in Queues : /\ "WalletDepositInitiated" \in Bindings(q) <=> q = "wallet"
                        /\ "PaymentWebhookReceived" \in Bindings(q) <=> q = "webhook"
  BY <1>1 DEF Bindings, NotifiedTypes
<1>3. \A t : /\ "wallet" \in Bound(t) => t = "WalletDepositInitiated"
             /\ "webhook" \in Bound(t) => t = "PaymentWebhookReceived"
  BY DEF Bound, Bindings
<1>4. ASSUME NEW q \in Queues, NEW r \in Bound(RetryKey(q))
      PROVE  (r = "wallet" <=> q = "wallet") /\ (r = "webhook" <=> q = "webhook")
  <2>1. RetryKey(q) = "WalletDepositInitiated" <=> q = "wallet"
    BY <1>1 DEF RetryKey
  <2>2. RetryKey(q) = "PaymentWebhookReceived" <=> q = "webhook"
    BY <1>1 DEF RetryKey
  <2>3. QED BY <1>2, <1>3, <2>1, <2>2 DEF Bound
<1>5. "wallet" \in Queues => "wallet" \in Bound(RetryKey("wallet"))
  BY <1>2 DEF RetryKey, Bound
<1>6. QED BY <1>2, <1>3, <1>4, <1>5

\* Deposits are in the wallet consumer's queue and nothing else is.
RightQueues ==
    \A c \in copies : /\ c.queue = "wallet" <=> c.event.type = "WalletDepositInitiated"
                      /\ c.queue = "webhook" <=> c.event.type = "PaymentWebhookReceived"

LEMMA RightQueuesKept ==
    ASSUME NEW Events, DeliveryTypeOK(Events), RightQueues,
           \A x \in copies' : JustPublished(x) \/ \E d \in copies : ComesFrom(x, d)
    PROVE  RightQueues'
<1>1. ASSUME NEW x \in copies'
      PROVE  /\ x.queue = "wallet" <=> x.event.type = "WalletDepositInitiated"
             /\ x.queue = "webhook" <=> x.event.type = "PaymentWebhookReceived"
  <2>1. CASE JustPublished(x)
    BY <2>1, BindingsOfDeposits DEF JustPublished, Bound
  <2>2. CASE \E d \in copies : ComesFrom(x, d)
    <3>1. PICK d \in copies : ComesFrom(x, d)
      BY <2>2
    <3>2. d.queue \in Queues
      BY DEF DeliveryTypeOK
    <3>3. (x.queue = "wallet" <=> d.queue = "wallet") /\ (x.queue = "webhook" <=> d.queue = "webhook")
      BY <3>1, <3>2, BindingsOfDeposits DEF ComesFrom
    <3>4. QED BY <3>1, <3>3 DEF ComesFrom, RightQueues
  <2>3. QED BY <1>1, <2>1, <2>2
<1>2. QED BY <1>1 DEF RightQueues

\* Where a deposit's message may be.
InQueue(e) == \E c \in copies : c.queue = "wallet" /\ c.event = e
Failed(e) == <<"wallet", e>> \in dead \cup dropped

\* No step of the message system loses a deposit's message unnoticed.
LEMMA DeliveryLosesNothing ==
    ASSUME NEW Events, DeliveryTypeOK(Events), DeliveryNext, "wallet" \in Watched,
           NEW e \in Events, e.type = "WalletDepositInitiated",
           e \in outbox \/ InQueue(e) \/ Failed(e)
    PROVE  e \in outbox' \/ InQueue(e)' \/ Failed(e)' \/ Handled(e)
<1>1. CASE Failed(e)
  BY <1>1, LossesStayKnown DEF Failed
<1>2. CASE ~Failed(e)
  <2>1. OnItsWay("wallet", e)
    BY <1>2 DEF OnItsWay, InQueue
  <2>2. "wallet" \in Bound(e.type) /\ "wallet" \in Bound(RetryKey("wallet"))
    BY BindingsOfDeposits DEF Bound, Queues
  <2>3. \/ OnItsWay("wallet", e)' \/ <<"wallet", e>> \in dead'
        \/ "wallet" \in AcksFirst /\ <<"wallet", e>> \in dropped'
        \/ Handled(e)
    BY <2>1, <2>2, NothingIsLost
  <2>4. QED BY <2>3 DEF OnItsWay, InQueue, Failed
<1>3. QED BY <1>1, <1>2

-----------------------------------------------------------------------------
(***************************************************************************)
(* The types of Payments.                                                  *)
(***************************************************************************)
LEMMA EventShapes ==
    /\ \A p \in Payments : /\ DepositInitiated(p) \in PaymentEvents
                           /\ DepositInitiated(p).type = "WalletDepositInitiated"
                           /\ DepositInitiated(p).of[1] = p
                           /\ Deposited(p) \in PaymentEvents
                           /\ Deposited(p).type = "WalletDeposited"
    /\ \A w \in WebhookIds : /\ w[1] \in Payments
                             /\ WebhookReceived(w) \in PaymentEvents
                             /\ WebhookReceived(w).type = "PaymentWebhookReceived"
                             /\ WebhookReceived(w).of = w
    /\ \A e \in PaymentEvents :
          e.type = "WalletDepositInitiated" => \E p \in Payments : e = DepositInitiated(p)
    /\ \A e \in PaymentEvents :
          e.type = "PaymentWebhookReceived" => \E w \in WebhookIds : e = WebhookReceived(w)
    /\ \A p \in Payments, n \in Notices :
          ProviderEventId(p, n) \in WebhookIds /\ ProviderEventId(p, n)[1] = p
<1>1. \A p \in Payments : /\ DepositInitiated(p) \in PaymentEvents
                           /\ DepositInitiated(p).type = "WalletDepositInitiated"
                           /\ DepositInitiated(p).of[1] = p
                           /\ Deposited(p) \in PaymentEvents
                           /\ Deposited(p).type = "WalletDeposited"
  BY DEF PaymentEvents, DepositInitiated, Deposited
<1>2. \A p \in Payments, n \in Notices :
          ProviderEventId(p, n) \in WebhookIds /\ ProviderEventId(p, n)[1] = p
  BY DEF ProviderEventId, WebhookIds
<1>3. ASSUME NEW w \in WebhookIds PROVE w[1] \in Payments
  <2>1. PICK p \in Payments, n \in Notices : w = ProviderEventId(p, n)
    BY DEF WebhookIds
  <2>2. QED BY <1>2, <2>1
<1>4. \A w \in WebhookIds : /\ WebhookReceived(w) \in PaymentEvents
                            /\ WebhookReceived(w).type = "PaymentWebhookReceived"
                            /\ WebhookReceived(w).of = w
  BY DEF PaymentEvents, WebhookReceived
<1>5. ASSUME NEW e \in PaymentEvents
      PROVE  /\ e.type = "WalletDepositInitiated" => \E p \in Payments : e = DepositInitiated(p)
             /\ e.type = "PaymentWebhookReceived" => \E w \in WebhookIds : e = WebhookReceived(w)
  BY <1>1, <1>4 DEF PaymentEvents
<1>6. QED BY <1>1, <1>2, <1>3, <1>4, <1>5

JobRows == [page : 0 .. LastPayment, full : BOOLEAN, todo : SUBSET Payments,
            answer : {"none", "SUCCESS", "FAILED"}]

\* A page of at least one row stands behind no more rows than there are.
LEMMA PagesAreBounded ==
    ASSUME NEW S \in SUBSET Payments, NEW n \in Nat \ {0}, Page(S, n) # {}
    PROVE  n \in 0 .. LastPayment
<1>1. PICK p \in S : Cardinality(NewerIn(S, p)) \in (n - 1) * PageSize .. n * PageSize - 1
  BY DEF Page
<1>2. LastPayment \in Nat /\ PageSize \in Nat \ {0}
  BY PaymentAssumption
<1>3. IsFiniteSet(Payments) /\ Cardinality(Payments) = LastPayment
  BY <1>2, FS_Interval DEF Payments
<1>4. IsFiniteSet(Payments \ {p}) /\ Cardinality(Payments \ {p}) = LastPayment - 1
  BY <1>1, <1>3, FS_RemoveElement
<1>5. NewerIn(S, p) \subseteq Payments \ {p}
  <2>1. p \in Int
    BY <1>1, <1>2 DEF Payments
  <2>2. ~(p > p)
    BY <2>1
  <2>3. S \subseteq Payments
    OBVIOUS
  <2>4. QED BY <2>2, <2>3, Zenon DEF NewerIn
<1>6. Cardinality(NewerIn(S, p)) <= LastPayment - 1 /\ Cardinality(NewerIn(S, p)) \in Nat
  BY <1>4, <1>5, FS_Subset, FS_CardinalityType
<1>7. (n - 1) * PageSize >= n - 1
  BY <1>2
<1>8. QED
  BY <1>1, <1>2, <1>6, <1>7

LEMMA OffTyped == Off \in JobRows
BY PaymentAssumption DEF Off, JobRows

LEMMA FetchedTyped ==
    ASSUME NEW j \in Jobs, NEW n \in Nat \ {0}
    PROVE  Fetched(j, n) \in JobRows /\ Fetched(j, n).answer = "none"
<1> DEFINE rows == Page(Matching(j), n)
<1>1. rows \in SUBSET Payments
  BY DEF Page, Matching
<1>2. rows # {} => n \in 0 .. LastPayment
  BY PagesAreBounded DEF Matching
<1>3. Fetched(j, n) = IF rows = {} THEN Off
                      ELSE [page |-> n, full |-> Cardinality(rows) >= PageSize, todo |-> rows,
                            answer |-> "none"]
  BY DEF Fetched
<1> HIDE DEF rows
<1>4. ASSUME rows # {}
      PROVE  [page |-> n, full |-> Cardinality(rows) >= PageSize, todo |-> rows,
              answer |-> "none"] \in JobRows
  BY <1>1, <1>2, <1>4 DEF JobRows
<1>5. QED BY <1>3, <1>4, OffTyped DEF Off

\* The row is done, the answer forgotten.
LEMMA TickedTyped ==
    ASSUME PaymentRowsTypeOK, NEW j \in Jobs, NEW p
    PROVE  Ticked(j, p) \in JobRows /\ Ticked(j, p).answer = "none"
<1>1. job[j] \in JobRows
  BY DEF PaymentRowsTypeOK, JobRows
<1>2. QED BY <1>1 DEF Ticked, JobRows

\* A decision appends one child, and no second one.
LEMMA DecideEffect ==
    ASSUME PaymentTypeOK, NEW p \in Payments, NEW s \in Decisions, Decide(p, s)
    PROVE  /\ children' \in [Payments -> SUBSET Decisions]
           /\ hasChild' \in [Payments -> BOOLEAN]
           /\ \A q \in Payments :
                 Accepted(q)' <=> Accepted(q) \/ (q = p /\ s = "SUCCESS" /\ ~hasChild[p])
           /\ s = "SUCCESS" /\ ~hasChild[p] => ~Accepted(p)
           /\ outbox' = outbox \cup (IF hasChild[p] THEN {} ELSE Emitted(p, s))
<1>1. children \in [Payments -> SUBSET Decisions] /\ hasChild \in [Payments -> BOOLEAN]
  BY DEF PaymentTypeOK, PaymentRowsTypeOK
<1>2. CASE hasChild[p]
  BY <1>1, <1>2 DEF Decide, Accepted
<1>3. CASE ~hasChild[p]
  <2>1. children' = [children EXCEPT ![p] = @ \cup {s}] /\ s \notin children[p]
    BY <1>3 DEF Decide, DuplicateChild, Appended
  <2>2. hasChild' = [hasChild EXCEPT ![p] = TRUE]
    BY <1>3 DEF Decide
  <2>3. outbox' = outbox \cup Emitted(p, s)
    BY <1>3 DEF Decide, Saved
  <2>4. children' \in [Payments -> SUBSET Decisions]
    BY <1>1, <2>1
  <2>5. hasChild' \in [Payments -> BOOLEAN]
    BY <1>1, <2>2
  <2>6. \A q \in Payments : children'[q] = IF q = p THEN children[q] \cup {s} ELSE children[q]
    BY <1>1, <2>1
  <2>7. QED BY <1>3, <2>1, <2>3, <2>4, <2>5, <2>6 DEF Accepted
<1>4. QED BY <1>2, <1>3

-----------------------------------------------------------------------------
(***************************************************************************)
(* The invariant.                                                          *)
(***************************************************************************)
\* A webhook in the inbox says what was true.
SaidPaid == \A w \in WebhookIds : inbox[w].said = "paid" => gateway[w[1]] = "paid"

\* So does the answer reconciliation has for the row it is at.
AnsweredPaid ==
    \A p \in Payments :
        At("reconcile", p) /\ job["reconcile"].answer = "SUCCESS" => gateway[p] = "paid"

OnlyPaid == \A p \in Payments : Accepted(p) => gateway[p] = "paid"

\* The flag and the wallet change together.
CreditedOnce == \A p \in Payments : credits[p] = IF walletCredited[p] THEN 1 ELSE 0

\* The messages about webhooks find them in the inbox.
Known ==
    \A w \in WebhookIds :
        (\/ WebhookReceived(w) \in outbox
         \/ \E c \in copies : c.event = WebhookReceived(w)) => inbox[w] # NoWebhook

\* Nobody asks for the credit of a deposit that was not accepted.
Asked ==
    \A p \in Payments :
        DepositInitiated(p) \in outbox \/ InQueue(DepositInitiated(p)) => Accepted(p)

\* A key in Redis, and a message that was handled, mean that the wallet has
\* the money.
HandledMeansCredited ==
    \A p \in Payments : Handled(DepositInitiated(p)) => walletCredited[p]

\* With a wallet consumer, an accepted deposit is where AcceptedIsOnItsWay says.
Traced ==
    "wallet" \in Watched =>
        \A p \in Payments : Accepted(p) =>
            \/ credits[p] = 1
            \/ DepositInitiated(p) \in outbox
            \/ InQueue(DepositInitiated(p))
            \/ Failed(DepositInitiated(p))

GatewayInv == SaidPaid /\ AnsweredPaid /\ OnlyPaid
MessageInv == RightQueues /\ Known /\ Asked /\ HandledMeansCredited /\ Traced
PaymentInv == PaymentTypeOK /\ GatewayInv /\ CreditedOnce /\ MessageInv

-----------------------------------------------------------------------------
\* The copy the webhook consumer holds is about a webhook of the inbox.
LEMMA WebhookInHand ==
    ASSUME PaymentTypeOK, RightQueues, Known, NEW c \in copies, c.queue = "webhook"
    PROVE  /\ c.event.of \in WebhookIds
           /\ c.event.of[1] \in Payments
           /\ inbox[c.event.of] \in [said : Notices, processed : BOOLEAN]
<1>1. c.event \in PaymentEvents
  BY DEF PaymentTypeOK, DeliveryTypeOK
<1>2. PICK w \in WebhookIds : c.event = WebhookReceived(w)
  BY <1>1, EventShapes DEF RightQueues
<1>3. inbox[w] # NoWebhook
  BY <1>2 DEF Known
<1>4. QED BY <1>2, <1>3, EventShapes DEF PaymentTypeOK, PaymentRowsTypeOK

\* The copy the wallet consumer holds is about a deposit.
LEMMA DepositInHand ==
    ASSUME PaymentTypeOK, RightQueues, NEW c \in copies, c.queue = "wallet"
    PROVE  \E p \in Payments : c.event = DepositInitiated(p) /\ c.event.of[1] = p
<1>1. c.event \in PaymentEvents
  BY DEF PaymentTypeOK, DeliveryTypeOK
<1>2. QED BY <1>1, EventShapes DEF RightQueues

LEMMA AdvanceKeepsTypes ==
    ASSUME DeliveryTypeOK(PaymentEvents), NEW c \in copies, Advance(c, "handled")
    PROVE  copies' \subseteq CopiesOf(PaymentEvents)
<1>1. copies \subseteq CopiesOf(PaymentEvents)
  BY DEF DeliveryTypeOK, CopiesOf
<1>2. [c EXCEPT !.at = "handled"] \in CopiesOf(PaymentEvents)
  BY <1>1, AdvanceTyped
<1>3. QED BY <1>1, <1>2 DEF Advance

\* Every step keeps the types.
LEMMA PaymentTypesStep ==
    ASSUME PaymentTypeOK, RightQueues, Known, [PaymentNext]_payAllVars
    PROVE  PaymentTypeOK'
<1> USE DEF PaymentTypeOK, PaymentRowsTypeOK
<1>1. ASSUME NEW p \in Payments,
             \/ CreatePending(p) \/ CreateAtGateway(p) \/ AttachIntent(p) \/ MarkParent(p)
             \/ UserPays(p) \/ BecomesDue(p)
      PROVE  PaymentTypeOK'
  <2>1. DeliveryTypeOK(PaymentEvents)'
    BY <1>1 DEF CreatePending, CreateAtGateway, AttachIntent, MarkParent, UserPays, BecomesDue,
                deliveryVars, DeliveryTypeOK
  <2>2. CASE CreatePending(p) \/ AttachIntent(p) \/ MarkParent(p)
    BY <2>1, <2>2 DEF CreatePending, AttachIntent, MarkParent
  <2>3. CASE CreateAtGateway(p) \/ UserPays(p)
    BY <2>1, <2>3 DEF CreateAtGateway, UserPays
  <2>4. CASE BecomesDue(p)
    BY <2>1, <2>4 DEF BecomesDue
  <2>5. QED BY <1>1, <2>2, <2>3, <2>4
<1>2. ASSUME NEW p \in Payments, AppendFailed(p) \/ CrashInitialize(p) PROVE PaymentTypeOK'
  <2>1. faults' \in Nat
    BY <1>2 DEF AppendFailed, CrashInitialize, DeliveryTypeOK
  <2>2. DeliveryTypeOK(PaymentEvents)'
    BY <1>2, <2>1 DEF AppendFailed, CrashInitialize, DeliveryTypeOK
  <2>3. children' \in [Payments -> SUBSET Decisions]
    BY <1>2 DEF AppendFailed, CrashInitialize, Appended, Decisions
  <2>4. progress' \in [Payments -> {"none", "created", "attached", "failing", "failed"}]
    BY <1>2 DEF AppendFailed, CrashInitialize
  <2>5. QED BY <1>2, <2>2, <2>3, <2>4 DEF AppendFailed, CrashInitialize
<1>3. ASSUME NEW p \in Payments, NEW n \in Notices, HandleWebhook(p, n) PROVE PaymentTypeOK'
  <2> DEFINE w == ProviderEventId(p, n)
  <2>1. w \in WebhookIds /\ WebhookReceived(w) \in PaymentEvents
    BY EventShapes
  <2>2. inbox' = [inbox EXCEPT ![w] = [said |-> n, processed |-> FALSE]]
        /\ outbox' = outbox \cup {WebhookReceived(w)}
    BY <1>3 DEF HandleWebhook, Saved
  <2> HIDE DEF w
  <2>3. inbox' \in [WebhookIds -> {NoWebhook} \cup [said : Notices, processed : BOOLEAN]]
    BY <2>1, <2>2
  <2>4. QED BY <1>3, <2>1, <2>2, <2>3 DEF HandleWebhook, DeliveryTypeOK
<1>4. ASSUME NEW p \in Payments, ExpirePayment(p) \/ RecordAnswer(p) PROVE PaymentTypeOK'
  <2>1. PICK s \in Decisions, j \in Jobs : Decide(p, s) /\ job' = [job EXCEPT ![j] = Ticked(j, p)]
    <3>1. job["reconcile"].answer \in {"none", "SUCCESS", "FAILED"}
      BY DEF Jobs
    <3>2. QED BY <1>4, <3>1 DEF ExpirePayment, RecordAnswer, Decisions, Jobs
  <2>2. job' \in [Jobs -> JobRows]
    BY <2>1, TickedTyped DEF JobRows
  <2>3. Emitted(p, s) \subseteq PaymentEvents
    BY EventShapes DEF Emitted
  <2>4. QED
    BY <1>4, <2>1, <2>2, <2>3, DecideEffect DEF ExpirePayment, RecordAnswer, DeliveryTypeOK, JobRows
<1>5. ASSUME NEW p \in Payments, AskGateway(p) PROVE PaymentTypeOK'
  <2>1. PICK s \in PaymentStatus(p) :
            job' = [job EXCEPT !["reconcile"] =
               IF s = "PENDING" THEN Ticked("reconcile", p) ELSE [@ EXCEPT !.answer = s]]
    BY <1>5 DEF AskGateway
  <2>2. s \in {"PENDING", "SUCCESS", "FAILED"}
    BY DEF PaymentStatus
  <2>3. \A f \in JobRows : \A a \in {"SUCCESS", "FAILED"} : [f EXCEPT !.answer = a] \in JobRows
    BY DEF JobRows
  <2>4. job \in [Jobs -> JobRows] /\ "reconcile" \in Jobs
    BY DEF JobRows, Jobs
  <2>5. job' \in [Jobs -> JobRows]
    BY <2>1, <2>2, <2>3, <2>4, TickedTyped
  <2>6. QED BY <1>5, <2>5 DEF AskGateway, deliveryVars, DeliveryTypeOK, JobRows
<1>6. ASSUME NEW p \in Payments, NEW j \in Jobs, PassOver(j, p) PROVE PaymentTypeOK'
  <2>1. job' \in [Jobs -> JobRows]
    BY <1>6, TickedTyped DEF PassOver, JobRows
  <2>2. faults' \in Nat
    BY <1>6 DEF PassOver, DeliveryTypeOK
  <2>3. QED BY <1>6, <2>1, <2>2 DEF PassOver, DeliveryTypeOK, JobRows
<1>7. ASSUME NEW c \in copies, ProcessWebhook(c) PROVE PaymentTypeOK'
  <2> DEFINE w == c.event.of
             p == w[1]
  <2>1. w \in WebhookIds /\ p \in Payments /\ inbox[w] \in [said : Notices, processed : BOOLEAN]
    BY <1>7, WebhookInHand DEF ProcessWebhook
  <2>2. copies' \subseteq CopiesOf(PaymentEvents)
    BY <1>7, AdvanceKeepsTypes DEF ProcessWebhook
  <2>3. CASE UNCHANGED <<hasChild, children, outbox, inbox>>
    BY <1>7, <2>2, <2>3 DEF ProcessWebhook, DeliveryTypeOK, CopiesOf
  <2>4. CASE /\ inbox' = [inbox EXCEPT ![w].processed = TRUE]
             /\ UNCHANGED <<hasChild, children, outbox>> \/ Decide(p, StatusSaid(inbox[w].said))
    <3>1. inbox' = [inbox EXCEPT ![w] = [inbox[w] EXCEPT !.processed = TRUE]]
      BY <2>4
    <3>2. [inbox[w] EXCEPT !.processed = TRUE] \in [said : Notices, processed : BOOLEAN]
      BY <2>1
    <3>3. StatusSaid(inbox[w].said) \in Decisions
      BY DEF StatusSaid, Decisions
    <3>4. Emitted(p, StatusSaid(inbox[w].said)) \subseteq PaymentEvents
      BY <2>1, EventShapes DEF Emitted
    <3> HIDE DEF w, p
    <3>5. inbox' \in [WebhookIds -> {NoWebhook} \cup [said : Notices, processed : BOOLEAN]]
      BY <2>1, <3>1, <3>2
    <3>6. /\ children' \in [Payments -> SUBSET Decisions] /\ hasChild' \in [Payments -> BOOLEAN]
          /\ outbox' \subseteq PaymentEvents
      BY <2>1, <2>4, <3>3, <3>4, DecideEffect DEF DeliveryTypeOK
    <3>7. QED BY <1>7, <2>2, <3>5, <3>6 DEF ProcessWebhook, DeliveryTypeOK, CopiesOf
  <2>5. QED BY <1>7, <2>3, <2>4 DEF ProcessWebhook
<1>8. ASSUME NEW c \in copies, WebhookConflicts(c) PROVE PaymentTypeOK'
  <2>1. copies' \subseteq CopiesOf(PaymentEvents) /\ dead' \subseteq Queues \X PaymentEvents
    BY <1>8, RejectedTyped DEF WebhookConflicts
  <2>2. QED BY <1>8, <2>1 DEF WebhookConflicts, paymentVars, DeliveryTypeOK, CopiesOf
<1>9. ASSUME NEW c \in copies, CreditWallet(c) PROVE PaymentTypeOK'
  <2>1. PICK p \in Payments : c.event.of[1] = p
    BY <1>9, DepositInHand DEF CreditWallet
  <2>2. copies' \subseteq CopiesOf(PaymentEvents)
    BY <1>9, AdvanceKeepsTypes DEF CreditWallet
  <2>3. credits[p] + 1 \in Nat /\ Deposited(p) \in PaymentEvents
    BY EventShapes
  <2>4. DeliveryTypeOK(PaymentEvents)'
    BY <1>9, <2>1, <2>2, <2>3 DEF CreditWallet, Saved, DeliveryTypeOK, CopiesOf
  <2>5. credits' \in [Payments -> Nat] /\ walletCredited' \in [Payments -> BOOLEAN]
    <3>1. \/ credits' = credits /\ walletCredited' = walletCredited
          \/ /\ credits' = [credits EXCEPT ![p] = credits[p] + 1]
             /\ walletCredited' = [walletCredited EXCEPT ![p] = TRUE]
      BY <1>9, <2>1 DEF CreditWallet
    <3>2. credits \in [Payments -> Nat] /\ walletCredited \in [Payments -> BOOLEAN]
      OBVIOUS
    <3>3. [credits EXCEPT ![p] = credits[p] + 1] \in [Payments -> Nat]
      BY <2>3, <3>2
    <3>4. [walletCredited EXCEPT ![p] = TRUE] \in [Payments -> BOOLEAN]
      BY <3>2
    <3>5. CASE credits' = credits /\ walletCredited' = walletCredited
      BY <3>2, <3>5
    <3>6. QED BY <3>1, <3>3, <3>4, <3>5
  <2>6. QED BY <1>9, <2>4, <2>5 DEF CreditWallet
<1>10. ASSUME NEW j \in Jobs, StartJob(j) \/ NextPage(j) PROVE PaymentTypeOK'
  <2>1. job[j].page \in Nat
    BY PaymentAssumption
  <2>2. Fetched(j, 1) \in JobRows /\ Fetched(j, job[j].page + 1) \in JobRows
    BY <2>1, FetchedTyped
  <2>3. job' \in [Jobs -> JobRows]
    BY <1>10, <2>2, OffTyped DEF StartJob, NextPage, JobRows
  <2>4. QED BY <1>10, <2>3 DEF StartJob, NextPage, deliveryVars, DeliveryTypeOK, JobRows
<1>11. ASSUME NEW j \in Jobs, CrashPaymentJob(j) PROVE PaymentTypeOK'
  <2>1. job' \in [Jobs -> JobRows] /\ faults' \in Nat
    BY <1>11, OffTyped DEF CrashPaymentJob, JobRows, DeliveryTypeOK
  <2>2. QED BY <1>11, <2>1 DEF CrashPaymentJob, DeliveryTypeOK, JobRows
<1>12. ASSUME DeliveryNext, UNCHANGED paymentVars PROVE PaymentTypeOK'
  <2>1. DeliveryTypeOK(PaymentEvents)'
    BY <1>12, DeliveryTyped
  <2>2. QED BY <1>12, <2>1 DEF paymentVars
<1>13. CASE UNCHANGED payAllVars
  BY <1>13 DEF payAllVars, paymentVars, deliveryVars, DeliveryTypeOK
<1>14. QED
  BY <1>1, <1>2, <1>3, <1>4, <1>5, <1>6, <1>7, <1>8, <1>9, <1>10, <1>11, <1>12, <1>13
  DEF PaymentNext

-----------------------------------------------------------------------------
(***************************************************************************)
(* What a step does to the deposits: the steps of the abstract             *)
(* specification.                                                          *)
(***************************************************************************)
PaidOnes == {p \in Payments : gateway[p] = "paid"}
AcceptedOnes == {p \in Payments : Accepted(p)}

Pays(p) == p \notin PaidOnes /\ PaidOnes' = PaidOnes \cup {p} /\ UNCHANGED <<AcceptedOnes, credits>>
Accepts(p) ==
    /\ p \in PaidOnes \ AcceptedOnes
    /\ AcceptedOnes' = AcceptedOnes \cup {p}
    /\ UNCHANGED <<PaidOnes, credits>>
Credits(p) ==
    /\ p \in AcceptedOnes
    /\ credits[p] = 0
    /\ credits' = [credits EXCEPT ![p] = 1]
    /\ UNCHANGED <<PaidOnes, AcceptedOnes>>

DepositStep ==
    \/ \E p \in Payments : Pays(p) \/ Accepts(p) \/ Credits(p)
    \/ UNCHANGED <<PaidOnes, AcceptedOnes, credits>>

\* There is one row a job is at.
LEMMA AtOneRow ==
    ASSUME NEW j, NEW p \in Payments, NEW q \in Payments, At(j, p), At(j, q)
    PROVE  p = q
<1>1. p \in Int /\ q \in Int
  BY PaymentAssumption DEF Payments
<1>2. ~(q > p) /\ ~(p > q)
  BY DEF At, NewerIn
<1>3. QED BY <1>1, <1>2

\* Deciding for a payment of which the caller knows that it was paid if it is
\* said to have succeeded.
LEMMA DecideAccepts ==
    ASSUME PaymentTypeOK, NEW p \in Payments, NEW s \in Decisions, Decide(p, s),
           s = "SUCCESS" => gateway[p] = "paid", UNCHANGED <<gateway, credits>>
    PROVE  DepositStep
<1>1. \A q \in Payments :
          Accepted(q)' <=> Accepted(q) \/ (q = p /\ s = "SUCCESS" /\ ~hasChild[p])
  BY DecideEffect
<1>2. s = "SUCCESS" /\ ~hasChild[p] => ~Accepted(p)
  BY DecideEffect
<1>3. PaidOnes' = PaidOnes
  BY DEF PaidOnes
<1>4. CASE s = "SUCCESS" /\ ~hasChild[p]
  <2>1. AcceptedOnes' = AcceptedOnes \cup {p}
    BY <1>1, <1>4 DEF AcceptedOnes
  <2>2. p \in PaidOnes \ AcceptedOnes
    BY <1>2, <1>4 DEF PaidOnes, AcceptedOnes
  <2>3. QED BY <1>3, <2>1, <2>2 DEF DepositStep, Accepts
<1>5. CASE ~(s = "SUCCESS" /\ ~hasChild[p])
  <2>1. AcceptedOnes' = AcceptedOnes
    BY <1>1, <1>5 DEF AcceptedOnes
  <2>2. QED BY <1>3, <2>1 DEF DepositStep
<1>6. QED BY <1>4, <1>5

\* Every step pays, accepts or credits one deposit, or none.
LEMMA StepOnDeposits ==
    ASSUME PaymentInv, [PaymentNext]_payAllVars
    PROVE  DepositStep
<1> USE DEF PaymentInv
<1>0. /\ gateway \in [Payments -> {"unknown", "open", "declined", "paid"}]
      /\ children \in [Payments -> SUBSET Decisions]
      /\ credits \in [Payments -> Nat]
  BY DEF PaymentTypeOK, PaymentRowsTypeOK
<1>q. ASSUME UNCHANGED <<gateway, children, credits>> PROVE DepositStep
  BY <1>q DEF DepositStep, PaidOnes, AcceptedOnes, Accepted
<1>1. ASSUME NEW p \in Payments,
             CreatePending(p) \/ AttachIntent(p) \/ MarkParent(p) \/ CrashInitialize(p)
             \/ BecomesDue(p) \/ AskGateway(p) \/ (\E n \in Notices : HandleWebhook(p, n))
             \/ (\E j \in Jobs : PassOver(j, p))
      PROVE  UNCHANGED <<gateway, children, credits>>
  BY <1>1 DEF CreatePending, AttachIntent, MarkParent, CrashInitialize, BecomesDue, AskGateway,
              HandleWebhook, PassOver
<1>2. ASSUME NEW p \in Payments, AppendFailed(p) PROVE DepositStep
  <2>1. \A q \in Payments : Accepted(q)' <=> Accepted(q)
    <3>1. CASE children' = [children EXCEPT ![p] = children[p] \cup {"FAILED"}]
      BY <1>0, <3>1 DEF Accepted
    <3>2. CASE UNCHANGED children
      BY <3>2 DEF Accepted
    <3>3. QED BY <1>2, <3>1, <3>2 DEF AppendFailed, Appended
  <2>2. AcceptedOnes' = AcceptedOnes
    BY <2>1 DEF AcceptedOnes
  <2>3. QED BY <1>2, <2>2 DEF AppendFailed, DepositStep, PaidOnes
<1>3. ASSUME NEW p \in Payments, CreateAtGateway(p) PROVE DepositStep
  <2>1. \A q \in Payments : gateway'[q] = "paid" <=> gateway[q] = "paid"
    BY <1>0, <1>3 DEF CreateAtGateway
  <2>2. PaidOnes' = PaidOnes
    BY <2>1 DEF PaidOnes
  <2>3. QED BY <1>3, <2>2 DEF CreateAtGateway, DepositStep, AcceptedOnes, Accepted
<1>4. ASSUME NEW p \in Payments, UserPays(p) PROVE DepositStep
  <2>1. AcceptedOnes' = AcceptedOnes /\ credits' = credits
    BY <1>4 DEF UserPays, AcceptedOnes, Accepted
  <2>2. p \notin PaidOnes
    BY <1>4 DEF UserPays, PaidOnes
  <2>3. PICK s \in {"declined", "paid"} : gateway' = [gateway EXCEPT ![p] = s]
    BY <1>4 DEF UserPays
  <2>4. CASE s = "paid"
    <3>1. \A q \in Payments : gateway'[q] = "paid" <=> gateway[q] = "paid" \/ q = p
      BY <1>0, <2>3, <2>4
    <3>2. PaidOnes' = PaidOnes \cup {p}
      BY <3>1 DEF PaidOnes
    <3>3. QED BY <2>1, <2>2, <3>2 DEF DepositStep, Pays
  <2>5. CASE s = "declined"
    <3>1. \A q \in Payments : gateway'[q] = "paid" <=> gateway[q] = "paid"
      BY <1>0, <2>2, <2>3, <2>5 DEF PaidOnes
    <3>2. PaidOnes' = PaidOnes
      BY <3>1 DEF PaidOnes
    <3>3. QED BY <2>1, <3>2 DEF DepositStep
  <2>6. QED BY <2>3, <2>4, <2>5
<1>5. ASSUME NEW p \in Payments, ExpirePayment(p) PROVE DepositStep
  BY <1>5, DecideAccepts DEF ExpirePayment, Decisions
<1>6. ASSUME NEW p \in Payments, RecordAnswer(p) PROVE DepositStep
  <2>1. job["reconcile"].answer \in Decisions
    <3>1. job["reconcile"].answer \in {"none", "SUCCESS", "FAILED"}
      BY DEF PaymentTypeOK, PaymentRowsTypeOK, Jobs
    <3>2. QED BY <1>6, <3>1 DEF RecordAnswer, Decisions
  <2>2. job["reconcile"].answer = "SUCCESS" => gateway[p] = "paid"
    BY <1>6 DEF RecordAnswer, GatewayInv, AnsweredPaid
  <2>3. QED BY <1>6, <2>1, <2>2, DecideAccepts DEF RecordAnswer
<1>7. ASSUME NEW c \in copies, ProcessWebhook(c) PROVE DepositStep
  <2> DEFINE w == c.event.of
  <2>1. /\ w \in WebhookIds /\ w[1] \in Payments
        /\ inbox[w] \in [said : Notices, processed : BOOLEAN]
    BY <1>7, WebhookInHand DEF ProcessWebhook, MessageInv
  <2>2. UNCHANGED <<gateway, credits>>
    BY <1>7 DEF ProcessWebhook
  <2>3. StatusSaid(inbox[w].said) \in Decisions
    BY DEF StatusSaid, Decisions
  <2>4. StatusSaid(inbox[w].said) = "SUCCESS" => gateway[w[1]] = "paid"
    BY <2>1 DEF StatusSaid, IsSuccess, GatewayInv, SaidPaid
  <2>5. UNCHANGED children \/ Decide(w[1], StatusSaid(inbox[w].said))
    BY <1>7 DEF ProcessWebhook
  <2> HIDE DEF w
  <2>6. QED BY <1>q, <2>1, <2>2, <2>3, <2>4, <2>5, DecideAccepts
<1>8. ASSUME NEW c \in copies, CreditWallet(c) PROVE DepositStep
  <2>1. PICK p \in Payments : c.event = DepositInitiated(p) /\ c.event.of[1] = p
    BY <1>8, DepositInHand DEF CreditWallet, MessageInv
  <2>2. UNCHANGED <<gateway, children>>
    BY <1>8 DEF CreditWallet
  <2>3. CASE ~walletCredited[p]
    <3>1. credits[p] = 0
      BY <2>3 DEF CreditedOnce
    <3>2. credits' = [credits EXCEPT ![p] = credits[p] + 1]
      BY <1>8, <2>1, <2>3 DEF CreditWallet
    <3>3. credits' = [credits EXCEPT ![p] = 1]
      BY <3>1, <3>2
    <3>4. Accepted(p)
      BY <1>8, <2>1 DEF CreditWallet, MessageInv, Asked, InQueue
    <3>5. QED
      BY <2>2, <3>1, <3>3, <3>4 DEF DepositStep, Credits, PaidOnes, AcceptedOnes, Accepted
  <2>4. CASE walletCredited[p]
    BY <1>8, <1>q, <2>1, <2>2, <2>4 DEF CreditWallet
  <2>5. QED BY <2>3, <2>4
<1>9. ASSUME NEW c \in copies, WebhookConflicts(c) PROVE DepositStep
  BY <1>9, <1>q DEF WebhookConflicts, paymentVars
<1>10. ASSUME NEW j \in Jobs, StartJob(j) \/ NextPage(j) \/ CrashPaymentJob(j) PROVE DepositStep
  BY <1>10, <1>q DEF StartJob, NextPage, CrashPaymentJob
<1>11. CASE UNCHANGED paymentVars
  BY <1>11, <1>q DEF paymentVars
<1>12. QED
  BY <1>q, <1>1, <1>2, <1>3, <1>4, <1>5, <1>6, <1>7, <1>8, <1>9, <1>10, <1>11
  DEF PaymentNext, payAllVars

-----------------------------------------------------------------------------
(***************************************************************************)
(* What the gateway has said stays true.                                   *)
(***************************************************************************)
LEMMA GatewayStep ==
    ASSUME PaymentInv, [PaymentNext]_payAllVars
    PROVE  GatewayInv'
<1> USE DEF PaymentInv, GatewayInv
<1>1. PaidOnes \subseteq PaidOnes' /\ AcceptedOnes' \subseteq AcceptedOnes \cup PaidOnes
  BY StepOnDeposits DEF DepositStep, Pays, Accepts, Credits
<1>2. OnlyPaid'
  BY <1>1 DEF OnlyPaid, PaidOnes, AcceptedOnes
<1>3. \A p \in Payments : gateway[p] = "paid" => gateway'[p] = "paid"
  BY <1>1 DEF PaidOnes
<1>4. SaidPaid'
  <2>1. ASSUME UNCHANGED inbox PROVE SaidPaid'
    BY <1>3, <2>1, EventShapes DEF SaidPaid
  <2>2. ASSUME NEW p \in Payments, NEW n \in Notices, HandleWebhook(p, n) PROVE SaidPaid'
    <3> DEFINE w == ProviderEventId(p, n)
    <3>1. w \in WebhookIds /\ w[1] = p
      BY EventShapes
    <3>2. inbox' = [inbox EXCEPT ![w] = [said |-> n, processed |-> FALSE]]
      BY <2>2 DEF HandleWebhook
    <3>3. n = "paid" => gateway[p] = "paid"
      <4>1. gateway[p] \in {"unknown", "open", "declined", "paid"} /\ n \in Sayable(p)
        BY <2>2 DEF HandleWebhook, PaymentTypeOK, PaymentRowsTypeOK
      <4>2. QED BY <4>1 DEF Sayable
    <3> HIDE DEF w
    <3>4. \A v \in WebhookIds : inbox'[v].said = IF v = w THEN n ELSE inbox[v].said
      BY <3>1, <3>2 DEF PaymentTypeOK, PaymentRowsTypeOK
    <3>5. QED BY <1>3, <3>1, <3>3, <3>4, EventShapes DEF SaidPaid
  <2>3. ASSUME NEW c \in copies, ProcessWebhook(c) PROVE SaidPaid'
    <3> DEFINE w == c.event.of
    <3>1. w \in WebhookIds /\ inbox[w] \in [said : Notices, processed : BOOLEAN]
      BY <2>3, WebhookInHand DEF ProcessWebhook, MessageInv
    <3>2. UNCHANGED inbox \/ inbox' = [inbox EXCEPT ![w] = [inbox[w] EXCEPT !.processed = TRUE]]
      BY <2>3 DEF ProcessWebhook
    <3>3. [inbox[w] EXCEPT !.processed = TRUE].said = inbox[w].said
      BY <3>1
    <3> HIDE DEF w
    <3>4. \A v \in WebhookIds : inbox'[v].said = inbox[v].said
      BY SMTT(20), <3>1, <3>2, <3>3 DEF PaymentTypeOK, PaymentRowsTypeOK
    <3>5. QED BY <1>3, <3>4, EventShapes DEF SaidPaid
  <2>4. QED
    BY <2>1, <2>2, <2>3
    DEF PaymentNext, payAllVars, paymentVars, CreatePending, CreateAtGateway, AttachIntent,
        AppendFailed, MarkParent, CrashInitialize, UserPays, BecomesDue, ExpirePayment,
        AskGateway, RecordAnswer, PassOver, WebhookConflicts, CreditWallet, StartJob, NextPage,
        CrashPaymentJob
<1>5. AnsweredPaid'
  <2>0. job \in [Jobs -> JobRows] /\ "reconcile" \in Jobs /\ "expire" \in Jobs
    BY DEF PaymentTypeOK, PaymentRowsTypeOK, Jobs, JobRows
  <2>1. ASSUME UNCHANGED job PROVE AnsweredPaid'
    BY <1>3, <2>1 DEF AnsweredPaid, At, NewerIn
  <2>2. ASSUME NEW j \in Jobs, NEW row, job' = [job EXCEPT ![j] = row], row.answer = "none"
        PROVE  AnsweredPaid'
    <3>1. CASE j = "reconcile"
      BY <2>0, <2>2, <3>1 DEF AnsweredPaid
    <3>2. CASE j # "reconcile"
      <4>1. job'["reconcile"] = job["reconcile"]
        BY <2>0, <2>2, <3>2
      <4>2. QED BY <1>3, <4>1 DEF AnsweredPaid, At, NewerIn
    <3>3. QED BY <3>1, <3>2
  <2>3. ASSUME NEW j \in Jobs, StartJob(j) \/ NextPage(j) \/ CrashPaymentJob(j)
        PROVE  AnsweredPaid'
    <3>1. job[j].page \in Nat
      BY <2>0, PaymentAssumption DEF JobRows
    <3>2. Fetched(j, 1).answer = "none" /\ Fetched(j, job[j].page + 1).answer = "none"
      BY <3>1, FetchedTyped
    <3>3. Off.answer = "none"
      BY DEF Off
    <3>4. QED BY <2>2, <2>3, <3>2, <3>3 DEF StartJob, NextPage, CrashPaymentJob
  <2>4. ASSUME NEW p \in Payments, ExpirePayment(p) \/ RecordAnswer(p) \/ (\E j \in Jobs : PassOver(j, p))
        PROVE  AnsweredPaid'
    <3>1. \A j \in Jobs : Ticked(j, p).answer = "none"
      BY TickedTyped DEF PaymentTypeOK
    <3>2. QED BY <2>0, <2>2, <2>4, <3>1 DEF ExpirePayment, RecordAnswer, PassOver
  <2>5. ASSUME NEW p \in Payments, AskGateway(p) PROVE AnsweredPaid'
    <3>1. PICK s \in PaymentStatus(p) :
              job' = [job EXCEPT !["reconcile"] =
                 IF s = "PENDING" THEN Ticked("reconcile", p)
                 ELSE [job["reconcile"] EXCEPT !.answer = s]]
      BY <2>5 DEF AskGateway
    <3>2. CASE s = "PENDING"
      <4>1. job' = [job EXCEPT !["reconcile"] = Ticked("reconcile", p)]
        BY <3>1, <3>2
      <4>2. Ticked("reconcile", p).answer = "none"
        BY <2>0, TickedTyped DEF PaymentTypeOK
      <4>3. QED BY <2>0, <2>2, <4>1, <4>2
    <3>3. CASE s # "PENDING"
      <4>1. job' = [job EXCEPT !["reconcile"] = [job["reconcile"] EXCEPT !.answer = s]]
        BY <3>1, <3>3
      <4>2. /\ [job["reconcile"] EXCEPT !.answer = s].answer = s
            /\ [job["reconcile"] EXCEPT !.answer = s].todo = job["reconcile"].todo
        BY <2>0 DEF JobRows
      <4>3. job'["reconcile"].answer = s /\ job'["reconcile"].todo = job["reconcile"].todo
        BY <2>0, <4>1, <4>2
      <4>4. s = "SUCCESS" => gateway[p] = "paid"
        <5>1. gateway[p] \in {"unknown", "open", "declined", "paid"}
          BY DEF PaymentTypeOK, PaymentRowsTypeOK
        <5>2. QED BY <3>1, <5>1 DEF PaymentStatus
      <4>5. \A q \in Payments : At("reconcile", q)' => q = p
        <5>1. At("reconcile", p)
          BY <2>5 DEF AskGateway
        <5>2. \A q \in Payments : At("reconcile", q)' => At("reconcile", q)
          BY SMTT(20), <4>3 DEF At, NewerIn
        <5>3. QED BY <5>1, <5>2, AtOneRow
      <4>6. QED BY <1>3, <4>3, <4>4, <4>5 DEF AnsweredPaid
    <3>4. QED BY <3>2, <3>3
  <2>6. QED
    BY <2>1, <2>3, <2>4, <2>5
    DEF PaymentNext, payAllVars, paymentVars, CreatePending, CreateAtGateway, AttachIntent,
        AppendFailed, MarkParent, CrashInitialize, UserPays, BecomesDue, HandleWebhook,
        ProcessWebhook, WebhookConflicts, CreditWallet
<1>6. QED BY <1>2, <1>4, <1>5

\* The flag walletCredited and the amount in the wallet change together.
LEMMA CreditedOnceStep ==
    ASSUME PaymentInv, [PaymentNext]_payAllVars
    PROVE  CreditedOnce'
<1>1. ASSUME UNCHANGED <<credits, walletCredited>> PROVE CreditedOnce'
  BY <1>1 DEF PaymentInv, CreditedOnce
<1>2. ASSUME NEW c \in copies, CreditWallet(c) PROVE CreditedOnce'
  <2>1. PICK p \in Payments : c.event.of[1] = p
    BY <1>2, DepositInHand DEF CreditWallet, PaymentInv, MessageInv
  <2>2. credits \in [Payments -> Nat] /\ walletCredited \in [Payments -> BOOLEAN] /\ CreditedOnce
    BY DEF PaymentInv, PaymentTypeOK, PaymentRowsTypeOK
  <2>3. CASE walletCredited[p]
    BY <1>1, <1>2, <2>1, <2>3 DEF CreditWallet
  <2>4. CASE ~walletCredited[p]
    <3>1. /\ credits' = [credits EXCEPT ![p] = credits[p] + 1]
          /\ walletCredited' = [walletCredited EXCEPT ![p] = TRUE]
      BY <1>2, <2>1, <2>4 DEF CreditWallet
    <3>2. credits[p] = 0
      BY <2>2, <2>4 DEF CreditedOnce
    <3>3. QED BY <2>2, <3>1, <3>2 DEF CreditedOnce
  <2>5. QED BY <2>3, <2>4
<1>3. QED
  BY <1>1, <1>2
  DEF PaymentNext, payAllVars, paymentVars, CreatePending, CreateAtGateway, AttachIntent,
      AppendFailed, MarkParent, CrashInitialize, UserPays, BecomesDue, HandleWebhook,
      ProcessWebhook, WebhookConflicts, ExpirePayment, RecordAnswer, AskGateway, PassOver,
      StartJob, NextPage, CrashPaymentJob

-----------------------------------------------------------------------------
(***************************************************************************)
(* Messages, rows and keys.                                                *)
(***************************************************************************)
\* What the rest of the state must keep for the messages to stay right.
BooksKept ==
    /\ \A p \in Payments : /\ Accepted(p) => Accepted(p)'
                           /\ walletCredited[p] => walletCredited'[p]
                           /\ credits[p] = 1 => credits'[p] = 1
    /\ \A w \in WebhookIds : inbox[w] # NoWebhook => inbox'[w] # NoWebhook

\* A step of the payments that saves the rows E, and at most turns messages
\* into handled ones.
LEMMA MessagesKept ==
    ASSUME MessageInv, BooksKept, NEW E, outbox' = outbox \cup E, UNCHANGED <<keys, dead, dropped>>,
           \A x \in copies' : \E d \in copies :
               /\ x.event = d.event /\ x.queue = d.queue
               /\ x.at = "handled" => \/ d.at = "handled"
                                      \/ \A p \in Payments :
                                            x.event = DepositInitiated(p) => walletCredited'[p],
           \A d \in copies : \E x \in copies' : x.event = d.event /\ x.queue = d.queue,
           \A p \in Payments : DepositInitiated(p) \in E => Accepted(p)',
           \A p \in Payments : Accepted(p)' => Accepted(p) \/ DepositInitiated(p) \in E,
           \A w \in WebhookIds : WebhookReceived(w) \in E => inbox'[w] # NoWebhook
    PROVE  MessageInv'
<1> USE DEF MessageInv
<1>1. RightQueues'
  BY DEF RightQueues
<1>2. Known'
  BY DEF Known, BooksKept
<1>3. Asked'
  BY DEF Asked, BooksKept, InQueue
<1>4. HandledMeansCredited'
  BY DEF HandledMeansCredited, BooksKept, Handled
<1>5. Traced'
  BY DEF Traced, BooksKept, InQueue, Failed
<1>6. QED BY <1>1, <1>2, <1>3, <1>4, <1>5

\* The same when nothing about messages changes.
LEMMA MessagesUntouched ==
    ASSUME MessageInv, BooksKept, UNCHANGED <<outbox, copies, keys, dead, dropped>>,
           \A p \in Payments : Accepted(p)' => Accepted(p)
    PROVE  MessageInv'
<1> USE DEF MessageInv
<1>1. RightQueues'
  BY DEF RightQueues
<1>2. Known'
  BY DEF Known, BooksKept
<1>3. Asked'
  BY DEF Asked, BooksKept, InQueue
<1>4. HandledMeansCredited'
  BY DEF HandledMeansCredited, BooksKept, Handled
<1>5. Traced'
  BY DEF Traced, BooksKept, InQueue, Failed
<1>6. QED BY <1>1, <1>2, <1>3, <1>4, <1>5

\* A consumer that advances its message leaves all others alone.
LEMMA AdvanceKeeps ==
    ASSUME DeliveryTypeOK(PaymentEvents), NEW c \in copies, Advance(c, "handled")
    PROVE  /\ \A x \in copies' : \E d \in copies :
                  /\ x.event = d.event /\ x.queue = d.queue
                  /\ x.at = "handled" => d.at = "handled" \/ x.event = c.event
           /\ \A d \in copies : \E x \in copies' : x.event = d.event /\ x.queue = d.queue
<1>1. c \in CopiesOf(PaymentEvents)
  BY DEF DeliveryTypeOK, CopiesOf
<1>2. [c EXCEPT !.at = "handled"].queue = c.queue /\ [c EXCEPT !.at = "handled"].event = c.event
  BY <1>1, AdvanceTyped
<1>3. QED BY <1>2 DEF Advance

\* A step of the message system alone.
LEMMA MessagesTravel ==
    ASSUME PaymentTypeOK, MessageInv, CreditedOnce, UNCHANGED paymentVars, 
           \A x \in copies' : JustPublished(x) \/ \E d \in copies : ComesFrom(x, d),
           outbox' \subseteq outbox,
           keys' \subseteq keys \cup {d.event : d \in {b \in copies : b.at = "handled"}},
           "wallet" \in Watched => \A p \in Payments :
               (\/ DepositInitiated(p) \in outbox
                \/ InQueue(DepositInitiated(p))
                \/ Failed(DepositInitiated(p)))
               => \/ DepositInitiated(p) \in outbox'
                  \/ InQueue(DepositInitiated(p))'
                  \/ Failed(DepositInitiated(p))'
                  \/ Handled(DepositInitiated(p))
    PROVE  MessageInv'
<1> USE DEF MessageInv
<1>0. DeliveryTypeOK(PaymentEvents)
  BY DEF PaymentTypeOK
<1>a. \A x \in copies' : x.event \in outbox \/ \E d \in copies : x.event = d.event
  BY DEF JustPublished, ComesFrom
<1>1. RightQueues'
  BY <1>0, RightQueuesKept
<1>2. Known'
  BY <1>a DEF Known, paymentVars
<1>b. ASSUME NEW p \in Payments, NEW d \in copies, d.event = DepositInitiated(p)
      PROVE  InQueue(DepositInitiated(p))
  BY <1>b, EventShapes DEF RightQueues, InQueue
<1>3. Asked'
  <2>1. ASSUME NEW p \in Payments,
               DepositInitiated(p) \in outbox' \/ InQueue(DepositInitiated(p))'
        PROVE  Accepted(p)'
    <3>1. DepositInitiated(p) \in outbox \/ InQueue(DepositInitiated(p))
      BY <1>a, <1>b, <2>1 DEF InQueue
    <3>2. QED BY <3>1 DEF Asked, Accepted, paymentVars
  <2>2. QED BY <2>1 DEF Asked
<1>4. HandledMeansCredited'
  <2>1. ASSUME NEW p \in Payments, Handled(DepositInitiated(p))' PROVE walletCredited'[p]
    <3>1. Handled(DepositInitiated(p))
      BY <2>1 DEF Handled, JustPublished, ComesFrom
    <3>2. QED BY <3>1 DEF HandledMeansCredited, paymentVars
  <2>2. QED BY <2>1 DEF HandledMeansCredited
<1>5. Traced'
  <2>1. \A p \in Payments : Handled(DepositInitiated(p)) => credits[p] = 1
    BY DEF HandledMeansCredited, CreditedOnce
  <2>2. QED BY <2>1 DEF Traced, Accepted, paymentVars
<1>6. QED BY <1>1, <1>2, <1>3, <1>4, <1>5

LEMMA MessageStep ==
    ASSUME PaymentInv, [PaymentNext]_payAllVars
    PROVE  MessageInv'
<1> USE DEF PaymentInv
<1>0. /\ children \in [Payments -> SUBSET Decisions]
      /\ credits \in [Payments -> Nat]
      /\ walletCredited \in [Payments -> BOOLEAN]
      /\ DeliveryTypeOK(PaymentEvents)
  BY DEF PaymentTypeOK, PaymentRowsTypeOK
<1>1. ASSUME UNCHANGED <<children, credits, walletCredited, inbox>>,
             UNCHANGED <<outbox, copies, keys, dead, dropped>>
      PROVE  MessageInv'
  <2>1. BooksKept /\ \A p \in Payments : Accepted(p)' => Accepted(p)
    BY <1>1 DEF BooksKept, Accepted
  <2>2. QED BY <1>1, <2>1, MessagesUntouched
<1>2. ASSUME NEW p \in Payments, AppendFailed(p) PROVE MessageInv'
  <2>1. \A q \in Payments : Accepted(q)' <=> Accepted(q)
    <3>1. CASE children' = [children EXCEPT ![p] = children[p] \cup {"FAILED"}]
      BY <1>0, <3>1 DEF Accepted
    <3>2. CASE UNCHANGED children
      BY <3>2 DEF Accepted
    <3>3. QED BY <1>2, <3>1, <3>2 DEF AppendFailed, Appended
  <2>2. BooksKept /\ UNCHANGED <<outbox, copies, keys, dead, dropped>>
    BY <1>2, <2>1 DEF AppendFailed, BooksKept
  <2>3. QED BY <2>1, <2>2, MessagesUntouched
<1>3. ASSUME NEW p \in Payments, NEW n \in Notices, HandleWebhook(p, n) PROVE MessageInv'
  <2> DEFINE w == ProviderEventId(p, n)
             E == {WebhookReceived(w)}
  <2>1. w \in WebhookIds
    BY EventShapes
  <2>2. inbox' = [inbox EXCEPT ![w] = [said |-> n, processed |-> FALSE]] /\ outbox' = outbox \cup E
    BY <1>3 DEF HandleWebhook, Saved
  <2>3. UNCHANGED <<children, credits, walletCredited, copies, keys, dead, dropped>>
    BY <1>3 DEF HandleWebhook
  <2>4. [said |-> n, processed |-> FALSE] # NoWebhook
    BY DEF NoWebhook, Notices
  <2>5. \A v \in WebhookIds : WebhookReceived(v) \in E => v = w
    BY <2>1, EventShapes
  <2>6. \A q \in Payments : DepositInitiated(q) \notin E
    BY <2>1, EventShapes
  <2> HIDE DEF w, E
  <2>7. inbox'[w] # NoWebhook /\ \A v \in WebhookIds \ {w} : inbox'[v] = inbox[v]
    BY <2>1, <2>2, <2>4 DEF PaymentTypeOK, PaymentRowsTypeOK
  <2>8. BooksKept
    BY <2>3, <2>7 DEF BooksKept, Accepted
  <2>9. \A q \in Payments : Accepted(q)' <=> Accepted(q)
    BY <2>3 DEF Accepted
  <2>10. QED BY <2>2, <2>3, <2>5, <2>6, <2>7, <2>8, <2>9, MessagesKept
\* The rows that a decision saves.
<1>d. ASSUME NEW p \in Payments, NEW s \in Decisions, Decide(p, s)
      PROVE  \E E : /\ outbox' = outbox \cup E
                    /\ \A q \in Payments : DepositInitiated(q) \in E => Accepted(q)'
                    /\ \A q \in Payments : Accepted(q)' => Accepted(q) \/ DepositInitiated(q) \in E
                    /\ \A q \in Payments : Accepted(q) => Accepted(q)'
                    /\ \A w \in WebhookIds : WebhookReceived(w) \notin E
  <2> DEFINE E == IF hasChild[p] THEN {} ELSE Emitted(p, s)
  <2>1. /\ outbox' = outbox \cup E
        /\ \A q \in Payments :
              Accepted(q)' <=> Accepted(q) \/ (q = p /\ s = "SUCCESS" /\ ~hasChild[p])
    BY <1>d, DecideEffect
  <2>2. \A e \in E : e = DepositInitiated(p) /\ s = "SUCCESS" /\ ~hasChild[p]
    BY DEF Emitted
  <2>3. s = "SUCCESS" /\ ~hasChild[p] => DepositInitiated(p) \in E
    BY DEF Emitted
  <2> HIDE DEF E
  <2>4. \A q \in Payments : DepositInitiated(q) = DepositInitiated(p) => q = p
    BY EventShapes
  <2>5. \A w \in WebhookIds : WebhookReceived(w) # DepositInitiated(p)
    BY EventShapes
  <2>6. QED BY <2>1, <2>2, <2>3, <2>4, <2>5
<1>4. ASSUME NEW p \in Payments, ExpirePayment(p) \/ RecordAnswer(p) PROVE MessageInv'
  <2>1. PICK s \in Decisions : Decide(p, s)
    <3>1. job["reconcile"].answer \in {"none", "SUCCESS", "FAILED"}
      BY DEF PaymentTypeOK, PaymentRowsTypeOK, Jobs
    <3>2. QED BY <1>4, <3>1 DEF ExpirePayment, RecordAnswer, Decisions
  <2>2. UNCHANGED <<credits, walletCredited, inbox, copies, keys, dead, dropped>>
    BY <1>4 DEF ExpirePayment, RecordAnswer
  <2>3. PICK E : /\ outbox' = outbox \cup E
                 /\ \A q \in Payments : DepositInitiated(q) \in E => Accepted(q)'
                 /\ \A q \in Payments : Accepted(q)' => Accepted(q) \/ DepositInitiated(q) \in E
                 /\ \A q \in Payments : Accepted(q) => Accepted(q)'
                 /\ \A w \in WebhookIds : WebhookReceived(w) \notin E
    BY <1>d, <2>1
  <2>4. BooksKept
    BY <2>2, <2>3 DEF BooksKept
  <2>5. QED BY <2>2, <2>3, <2>4, MessagesKept
<1>5. ASSUME NEW c \in copies, ProcessWebhook(c) PROVE MessageInv'
  <2> DEFINE w == c.event.of
  <2>1. w \in WebhookIds /\ w[1] \in Payments /\ inbox[w] \in [said : Notices, processed : BOOLEAN]
    BY <1>5, WebhookInHand DEF ProcessWebhook, MessageInv
  <2>2. Advance(c, "handled") /\ UNCHANGED <<credits, walletCredited, keys, dead, dropped>>
    BY <1>5 DEF ProcessWebhook
  <2>3. c.event.type = "PaymentWebhookReceived"
    BY <1>5 DEF ProcessWebhook, MessageInv, RightQueues
  <2>4. \A q \in Payments : c.event # DepositInitiated(q)
    BY <2>3, EventShapes
  <2>5. UNCHANGED inbox \/ inbox' = [inbox EXCEPT ![w] = [inbox[w] EXCEPT !.processed = TRUE]]
    BY <1>5 DEF ProcessWebhook
  <2>6. UNCHANGED <<children, outbox>> \/ \E s \in Decisions : Decide(w[1], s)
    BY <1>5 DEF ProcessWebhook, StatusSaid, Decisions
  <2>7. [inbox[w] EXCEPT !.processed = TRUE] # NoWebhook
    <3>1. [inbox[w] EXCEPT !.processed = TRUE].said \in Notices
      BY <2>1
    <3>2. QED BY <3>1 DEF NoWebhook, Notices
  <2> HIDE DEF w
  <2>8. \A v \in WebhookIds : inbox[v] # NoWebhook => inbox'[v] # NoWebhook
    BY <2>1, <2>5, <2>7 DEF PaymentTypeOK, PaymentRowsTypeOK
  <2>9. \E E : /\ outbox' = outbox \cup E
               /\ \A q \in Payments : DepositInitiated(q) \in E => Accepted(q)'
               /\ \A q \in Payments : Accepted(q)' => Accepted(q) \/ DepositInitiated(q) \in E
               /\ \A q \in Payments : Accepted(q) => Accepted(q)'
               /\ \A v \in WebhookIds : WebhookReceived(v) \notin E
    <3>1. CASE UNCHANGED <<children, outbox>>
      <4>1. \A q \in Payments : Accepted(q)' <=> Accepted(q)
        BY <3>1 DEF Accepted
      <4>2. outbox' = outbox \cup {}
        BY <3>1
      <4> DEFINE none == {}
      <4>3. /\ outbox' = outbox \cup none
            /\ \A q \in Payments : DepositInitiated(q) \in none => Accepted(q)'
            /\ \A q \in Payments : Accepted(q)' => Accepted(q) \/ DepositInitiated(q) \in none
            /\ \A q \in Payments : Accepted(q) => Accepted(q)'
            /\ \A v \in WebhookIds : WebhookReceived(v) \notin none
        BY <4>1, <4>2
      <4> HIDE DEF none
      <4>4. QED BY <4>3
    <3>2. QED BY <1>d, <2>1, <2>6, <3>1
  <2>10. PICK E : /\ outbox' = outbox \cup E
                  /\ \A q \in Payments : DepositInitiated(q) \in E => Accepted(q)'
                  /\ \A q \in Payments : Accepted(q)' => Accepted(q) \/ DepositInitiated(q) \in E
                  /\ \A q \in Payments : Accepted(q) => Accepted(q)'
                  /\ \A v \in WebhookIds : WebhookReceived(v) \notin E
    BY <2>9
  <2>11. BooksKept
    BY <2>2, <2>8, <2>10 DEF BooksKept
  <2>12. /\ \A x \in copies' : \E d \in copies :
                /\ x.event = d.event /\ x.queue = d.queue
                /\ x.at = "handled" => d.at = "handled" \/ x.event = c.event
         /\ \A d \in copies : \E x \in copies' : x.event = d.event /\ x.queue = d.queue
    BY <1>0, <2>2, AdvanceKeeps
  <2>13. \A x \in copies' : \E d \in copies :
            /\ x.event = d.event /\ x.queue = d.queue
            /\ x.at = "handled" => \/ d.at = "handled"
                                   \/ \A p \in Payments :
                                         x.event = DepositInitiated(p) => walletCredited'[p]
    BY <2>4, <2>12
  <2>14. QED BY <2>2, <2>10, <2>11, <2>12, <2>13, MessagesKept
<1>6. ASSUME NEW c \in copies, CreditWallet(c) PROVE MessageInv'
  <2>1. PICK p \in Payments : c.event = DepositInitiated(p) /\ c.event.of[1] = p
    BY <1>6, DepositInHand DEF CreditWallet, MessageInv
  <2>2. Advance(c, "handled") /\ UNCHANGED <<children, inbox, keys, dead, dropped>>
    BY <1>6 DEF CreditWallet
  <2>3. walletCredited'[p]
    BY <1>0, <1>6, <2>1 DEF CreditWallet
  <2>4. \A q \in Payments : walletCredited[q] => walletCredited'[q]
    BY <1>0, <1>6, <2>1 DEF CreditWallet
  <2>5. \A q \in Payments : credits[q] = 1 => credits'[q] = 1
    <3>1. CASE UNCHANGED credits
      BY <3>1
    <3>2. CASE ~walletCredited[p] /\ credits' = [credits EXCEPT ![p] = credits[p] + 1]
      BY <1>0, <3>2 DEF CreditedOnce
    <3>3. QED BY <1>6, <2>1, <3>1, <3>2 DEF CreditWallet
  <2>6. \E E \in {{}, {Deposited(p)}} : outbox' = outbox \cup E
    BY <1>6, <2>1 DEF CreditWallet, Saved
  <2>7. PICK E \in {{}, {Deposited(p)}} : outbox' = outbox \cup E
    BY <2>6
  <2>8. /\ \A q \in Payments : DepositInitiated(q) \notin E
        /\ \A w \in WebhookIds : WebhookReceived(w) \notin E
    BY EventShapes
  <2>9. BooksKept /\ \A q \in Payments : Accepted(q)' <=> Accepted(q)
    BY <2>2, <2>4, <2>5 DEF BooksKept, Accepted
  <2>10. /\ \A x \in copies' : \E d \in copies :
                /\ x.event = d.event /\ x.queue = d.queue
                /\ x.at = "handled" => d.at = "handled" \/ x.event = c.event
         /\ \A d \in copies : \E x \in copies' : x.event = d.event /\ x.queue = d.queue
    BY <1>0, <2>2, AdvanceKeeps
  <2>11. \A q \in Payments : c.event = DepositInitiated(q) => q = p
    BY <2>1, EventShapes
  <2>12. \A x \in copies' : \E d \in copies :
            /\ x.event = d.event /\ x.queue = d.queue
            /\ x.at = "handled" => \/ d.at = "handled"
                                   \/ \A q \in Payments :
                                         x.event = DepositInitiated(q) => walletCredited'[q]
    BY <2>3, <2>10, <2>11
  <2>13. QED BY <2>2, <2>7, <2>8, <2>9, <2>10, <2>12, MessagesKept
<1>7. ASSUME NEW c \in copies, WebhookConflicts(c) PROVE MessageInv'
  <2>1. \A x \in copies' : \E d \in copies : ComesFrom(x, d)
    BY <1>0, <1>7, RejectedComesFrom DEF WebhookConflicts
  <2>2. UNCHANGED <<paymentVars, outbox, keys, dropped>> /\ Rejected(c)
    BY <1>7 DEF WebhookConflicts
  <2>3. \A e : Failed(e) => Failed(e)'
    BY <2>2 DEF Failed, Rejected
  <2>4. \A e : InQueue(e) => InQueue(e)' \/ Failed(e)'
    <3>1. SUFFICES ASSUME NEW e, InQueue(e) PROVE InQueue(e)' \/ Failed(e)'
      OBVIOUS
    <3>2. PICK d \in copies : d.queue = "wallet" /\ d.event = e
      BY <3>1 DEF InQueue
    <3>3. "wallet" \in Bound(RetryKey("wallet"))
      BY <1>0, <3>2, BindingsOfDeposits DEF DeliveryTypeOK
    <3>4. \/ \E x \in copies' : x.queue = d.queue /\ x.event = d.event
          \/ <<d.queue, d.event>> \in dead'
      BY <1>0, <2>2, <3>2, <3>3, RejectedNotLost
    <3>5. QED BY <3>2, <3>4 DEF InQueue, Failed
  <2>5. QED BY <2>1, <2>2, <2>3, <2>4, MessagesTravel
<1>8. ASSUME DeliveryNext, UNCHANGED paymentVars PROVE MessageInv'
  <2>1. /\ \A x \in copies' : JustPublished(x) \/ \E d \in copies : ComesFrom(x, d)
        /\ outbox' \subseteq outbox
        /\ keys' \subseteq keys \cup {d.event : d \in {b \in copies : b.at = "handled"}}
    BY <1>0, <1>8, DeliveryDescent
  <2>2. ASSUME "wallet" \in Watched, NEW p \in Payments,
               \/ DepositInitiated(p) \in outbox
               \/ InQueue(DepositInitiated(p))
               \/ Failed(DepositInitiated(p))
        PROVE  \/ DepositInitiated(p) \in outbox'
               \/ InQueue(DepositInitiated(p))'
               \/ Failed(DepositInitiated(p))'
               \/ Handled(DepositInitiated(p))
    BY <1>0, <1>8, <2>2, EventShapes, DeliveryLosesNothing DEF MessageInv
  <2>3. QED BY <1>8, <2>1, <2>2, MessagesTravel
<1>9. CASE UNCHANGED payAllVars
  BY <1>1, <1>9 DEF payAllVars, paymentVars, deliveryVars
<1>10. QED
  BY <1>1, <1>2, <1>3, <1>4, <1>5, <1>6, <1>7, <1>8, <1>9
  DEF PaymentNext, deliveryVars, CreatePending, CreateAtGateway, AttachIntent, MarkParent,
      CrashInitialize, UserPays, BecomesDue, AskGateway, PassOver, StartJob, NextPage,
      CrashPaymentJob

-----------------------------------------------------------------------------
LEMMA PaymentInvInit == PaymentInit /\ DeliveryInit /\ faults \in Nat => PaymentInv
<1> SUFFICES ASSUME PaymentInit, DeliveryInit, faults \in Nat PROVE PaymentInv
  OBVIOUS
<1>1. PaymentTypeOK
  <2>1. job \in [Jobs -> JobRows]
    BY OffTyped DEF PaymentInit
  <2>2. QED
    BY <2>1 DEF PaymentInit, DeliveryInit, PaymentTypeOK, PaymentRowsTypeOK, DeliveryTypeOK, JobRows
<1>2. GatewayInv
  BY DEF PaymentInit, GatewayInv, SaidPaid, AnsweredPaid, OnlyPaid, Accepted, NoWebhook, Off,
         At, Jobs
<1>3. CreditedOnce
  BY DEF PaymentInit, CreditedOnce
<1>4. MessageInv
  BY DEF PaymentInit, DeliveryInit, MessageInv, RightQueues, Known, Asked, HandledMeansCredited,
         Traced, InQueue, Handled, Failed, Accepted
<1>5. QED BY <1>1, <1>2, <1>3, <1>4 DEF PaymentInv

LEMMA PaymentInvAlways == PaymentSpec => []PaymentInv
<1>1. PaymentInv /\ [PaymentNext]_payAllVars => PaymentInv'
  BY PaymentTypesStep, GatewayStep, CreditedOnceStep, MessageStep DEF PaymentInv, MessageInv
<1>2. QED BY <1>1, PaymentInvInit, PTL DEF PaymentSpec

\* Type correctness of the payments and of their messages.
THEOREM PaymentsAreTyped == PaymentSpec => []PaymentTypeOK
<1>1. PaymentInv => PaymentTypeOK
  BY DEF PaymentInv
<1>2. QED BY <1>1, PaymentInvAlways, PTL

\* With a wallet consumer, whatever faults, retries and publications there are:
\* an accepted deposit is in the wallet, or its message is on its way, or it lies
\* in the dead letter queue or was lost between acknowledgement and retry.
THEOREM AcceptedIsTraced ==
    ASSUME "wallet" \in Watched
    PROVE  PaymentSpec => []AcceptedIsOnItsWay
<1>1. PaymentInv => AcceptedIsOnItsWay
  <2> SUFFICES ASSUME PaymentInv, NEW p \in Payments, Accepted(p)
               PROVE  credits[p] = 1 \/ OnItsWay("wallet", DepositInitiated(p)) \/ LostDeposit(p)
    BY DEF AcceptedIsOnItsWay
  <2>1. QED
    BY DEF PaymentInv, MessageInv, Traced, InQueue, Failed, OnItsWay, LostDeposit
<1>2. QED BY <1>1, PaymentInvAlways, PTL

\* The payment flow, with its webhooks, jobs, messages, retries and crashes,
\* implements Deposits: a deposit is accepted at most once and only when the
\* gateway has the money, and then credited at most once.
THEOREM PaymentsImplementDeposits == PaymentSpec => DepositsImplemented
<1>1. PaymentInit => D!DepositInit
  BY DEF PaymentInit, D!DepositInit, Accepted
<1>2. PaymentInv /\ [PaymentNext]_payAllVars => [D!DepositNext]_(D!depositVars)
  <2> SUFFICES ASSUME PaymentInv, [PaymentNext]_payAllVars
               PROVE  [D!DepositNext]_(D!depositVars)
    OBVIOUS
  <2>1. DepositStep
    BY StepOnDeposits
  <2>2. QED
    BY <2>1 DEF DepositStep, Pays, Accepts, Credits, PaidOnes, AcceptedOnes,
                D!DepositNext, D!Pay, D!Accept, D!Credit, D!depositVars
<1>3. QED
  BY <1>1, <1>2, PaymentInvAlways, PTL DEF PaymentSpec, DepositsImplemented, D!DepositSpec
=============================================================================
