--------------------------- MODULE Notifications ---------------------------
(***************************************************************************)
(* notifications.consumer.ts: what the notifications consumer does with    *)
(* each event, one mail or in-app notification after the other, with the   *)
(* retries of Delivery around it.                                          *)
(*                                                                         *)
(* A handler is the sequence of its steps.  A step is skipped when its     *)
(* recipient is banned.  A recipient who cannot be found and a mail that   *)
(* cannot be sent both throw, and the whole message is retried, up to the  *)
(* dead letters, so that what was done before is done again (Fail of       *)
(* Delivery); an in-app notification that cannot be stored is logged.      *)
(***************************************************************************)
EXTENDS Delivery, Sequences

CONSTANTS
    Occurrences,    \* sets of events that may happen together
    Blockable       \* the roles whose user may be banned

Roles == {"seller", "bidder", "winner", "user", "buyer", "opener", "against"}
NotificationEvents == UNION Occurrences

ASSUME NotificationAssumption ==
    /\ \A e \in NotificationEvents : e.type \in NotifiedTypes
    /\ Blockable \subseteq Roles

VARIABLES
    toHappen,    \* the events that still happen
    blocked,     \* the recipients who are not eligible
    doing,       \* how many steps the handler of a message has taken
    told,        \* the steps taken for an event, with any attempt
    unstored     \* in-app notifications that could not be stored

notificationVars == <<toHappen, blocked, doing, told, unstored>>
notifyVars == <<deliveryVars, notificationVars>>

NotificationInit ==
    /\ toHappen \in Occurrences
    /\ blocked \in SUBSET Blockable
    /\ doing = {}
    /\ told = {}
    /\ unstored = {}

-----------------------------------------------------------------------------
\* The senders of notifications.service.ts; isUserEligibleForNotification.
Mail(role) == [by |-> "mail", to |-> role, checked |-> TRUE]
MailUnchecked(role) == [by |-> "mail", to |-> role, checked |-> FALSE]
InApp(role) == [by |-> "inApp", to |-> role, checked |-> TRUE]

Both(role) == <<Mail(role), InApp(role)>>

AuctionStarted == Both("seller")
AuctionCancelled == Both("seller") \o Both("bidder")
AuctionCancelledByAdmin == Both("seller") \o Both("bidder")
AuctionEnded == Both("winner") \o Both("seller")
BidPlaced == <<InApp("seller")>> \o Both("bidder")
UserRegistered == <<Mail("user")>>
EmailVerified == Both("user")
PasswordReset == <<MailUnchecked("user")>>
PasswordChanged == <<MailUnchecked("user")>>
WalletDeposited == Both("user")
WithdrawalRequested == <<Mail("user")>>
WithdrawalCompleted == Both("user")
WithdrawalRejected == Both("user")
AccountReactivationRequested == <<MailUnchecked("user")>>
AccountReactivated == Both("user")
ChatMessageSent == <<InApp("user")>>
ReviewPublished == <<InApp("user")>>
ReviewReplied == <<InApp("user")>>
AutoBidPlaced == <<InApp("bidder")>>
AutoBidExhausted == Both("user")
EscrowCreated == <<InApp("buyer"), InApp("seller")>>
EscrowReleased == <<InApp("seller"), InApp("buyer")>>
EscrowRefunded == <<InApp("buyer"), InApp("seller")>>
DisputeOpened == <<InApp("against"), InApp("opener"), Mail("against"), Mail("opener")>>
DisputeResolved == <<InApp("opener"), InApp("against"), Mail("opener"), Mail("against")>>
DisputeCancelled == <<InApp("opener"), InApp("against")>>

\* The switch of handleMessage.
Steps(type) ==
    CASE type = "AuctionStarted" -> AuctionStarted
      [] type = "AuctionCancelled" -> AuctionCancelled
      [] type = "AuctionCancelledByAdmin" -> AuctionCancelledByAdmin
      [] type = "AuctionEnded" -> AuctionEnded
      [] type = "BidPlaced" -> BidPlaced
      [] type = "UserRegistered" -> UserRegistered
      [] type = "EmailVerified" -> EmailVerified
      [] type = "PasswordReset" -> PasswordReset
      [] type = "PasswordChanged" -> PasswordChanged
      [] type = "WalletDeposited" -> WalletDeposited
      [] type = "WithdrawalRequested" -> WithdrawalRequested
      [] type = "WithdrawalCompleted" -> WithdrawalCompleted
      [] type = "WithdrawalRejected" -> WithdrawalRejected
      [] type = "AccountReactivationRequested" -> AccountReactivationRequested
      [] type = "AccountReactivated" -> AccountReactivated
      [] type = "ChatMessageSent" -> ChatMessageSent
      [] type = "ReviewPublished" -> ReviewPublished
      [] type = "ReviewReplied" -> ReviewReplied
      [] type = "AutoBidPlaced" -> AutoBidPlaced
      [] type = "AutoBidExhausted" -> AutoBidExhausted
      [] type = "EscrowCreated" -> EscrowCreated
      [] type = "EscrowReleased" -> EscrowReleased
      [] type = "EscrowRefunded" -> EscrowRefunded
      [] type = "DisputeOpened" -> DisputeOpened
      [] type = "DisputeResolved" -> DisputeResolved
      [] type = "DisputeCancelled" -> DisputeCancelled

StepsOf(e) == Steps(e.type)

-----------------------------------------------------------------------------
\* The services behind auth and chat publish without the outbox.
Direct == {"EmailVerified", "PasswordReset", "PasswordChanged", "UserRegistered",
           "AccountReactivationRequested", "AccountReactivated", "ChatMessageSent"}
FromOutbox == (NotifiedTypes \ Direct) \cup {"UserRegistered"}

Happens(e) ==
    /\ e \in toHappen
    /\ toHappen' = toHappen \ {e}
    /\ \/ /\ e.type \in FromOutbox
          /\ Saved({e})
          /\ UNCHANGED <<published, copies>>
       \/ /\ e.type \in Direct
          /\ Publication(e)
          /\ UNCHANGED outbox
    /\ UNCHANGED <<keys, dead, dropped, faults, blocked, doing, told, unstored>>

\* publish throws: logged.
NotPublished(e) ==
    /\ e \in toHappen
    /\ e.type \in Direct
    /\ faults > 0
    /\ faults' = faults - 1
    /\ toHappen' = toHappen \ {e}
    /\ UNCHANGED <<outbox, published, copies, keys, dead, dropped>>
    /\ UNCHANGED <<blocked, doing, told, unstored>>

UserBanned(role) ==
    /\ role \in Blockable \ blocked
    /\ blocked' = blocked \cup {role}
    /\ UNCHANGED <<toHappen, doing, told, unstored>>
    /\ UNCHANGED deliveryVars

-----------------------------------------------------------------------------
\* handleMessage, one step of the handler of message c.
Attempt(c) == <<c.event, c.pub, c.retry>>
Done(c) == Cardinality({i \in 1 .. Len(StepsOf(c.event)) : <<Attempt(c), i>> \in doing})

Handling(c) ==
    /\ c \in copies
    /\ c.queue = "notifications"
    /\ c.at = "checked"

Took(c, n) == doing' = doing \cup {<<Attempt(c), i>> : i \in 1 .. n}

\* A bug: an ineligible recipient ends the handler for the others too.
ReturnEarly(c) == Took(c, Len(StepsOf(c.event)))

SkipOne(c) == Took(c, Done(c) + 1)

Step(c) ==
    LET n == Done(c) + 1
        step == StepsOf(c.event)[n]
    IN
    /\ Handling(c)
    /\ n <= Len(StepsOf(c.event))
    /\ \/ /\ step.checked
          /\ step.to \in blocked
          /\ SkipOne(c)
          /\ UNCHANGED <<told, unstored, faults>>
       \/ /\ step.checked => step.to \notin blocked
          /\ told' = told \cup {<<c.event, n>>}
          /\ Took(c, n)
          /\ UNCHANGED <<unstored, faults>>
       \/ /\ step.by = "inApp"
          /\ step.to \notin blocked
          /\ faults > 0
          /\ faults' = faults - 1
          /\ unstored' = unstored \cup {<<c.event, n>>}
          /\ Took(c, n)
          /\ UNCHANGED told
    /\ UNCHANGED <<toHappen, blocked>>
    /\ UNCHANGED <<outbox, published, copies, keys, dead, dropped>>

HandlerReturns(c) ==
    /\ Handling(c)
    /\ Done(c) = Len(StepsOf(c.event))
    /\ Advance(c, "handled")
    /\ UNCHANGED <<outbox, published, keys, dead, dropped, faults>>
    /\ doing' = {d \in doing : d[1] # Attempt(c)}
    /\ UNCHANGED <<toHappen, blocked, told, unstored>>

\* What a consumer has in hand is forgotten with the message: sent to a retry
\* queue, or delivered again.
Carried ==
    doing' = {d \in doing : \E c \in copies' : c.at = "checked" /\ Attempt(c) = d[1]}

NotificationNext ==
    \/ \E e \in toHappen : Happens(e) \/ NotPublished(e)
    \/ \E role \in Blockable : UserBanned(role)
    \/ \E c \in copies : Step(c) \/ HandlerReturns(c)
    \/ /\ DeliveryNext
       /\ Carried
       /\ UNCHANGED <<toHappen, blocked, told, unstored>>

NotificationSpec ==
    NotificationInit /\ DeliveryInit /\ faults \in Nat /\ [][NotificationNext]_notifyVars

-----------------------------------------------------------------------------
NotificationTypeOK ==
    /\ toHappen \subseteq NotificationEvents
    /\ blocked \subseteq Blockable
    /\ \A d \in doing : d[1][1] \in NotificationEvents /\ d[2] \in 1 .. Len(StepsOf(d[1][1]))
    /\ told \cup unstored \subseteq NotificationEvents \X (1 .. 4)

\* Nobody who should hear of an event is forgotten, whatever fails, is delivered
\* twice or is retried: while the event is neither on its way nor in the dead
\* letter queue, each of its steps was taken, or its recipient is not eligible,
\* or the log has it.
NobodyIsForgotten ==
    \A e \in NotificationEvents : PublicationsOf(e) # {} =>
        \/ OnItsWay("notifications", e)
        \/ <<"notifications", e>> \in dead
        \/ \A i \in 1 .. Len(StepsOf(e)) :
            \/ <<e, i>> \in told \cup unstored
            \/ StepsOf(e)[i].checked /\ StepsOf(e)[i].to \in blocked
=============================================================================
