----------------------------- MODULE MCPlatform -----------------------------
(***************************************************************************)
(* Bounds for the components around the auctions.  They share no state in  *)
(* the model but the message system, so each part is checked on its own:   *)
(* part says which one moves, and the others keep their initial states.    *)
(***************************************************************************)
EXTENDS Withdrawals, Payments, Notifications, Reviews, Chat, Cache, Accounts

CONSTANT Parts    \* those to check

VARIABLE part

vars == <<part, withdrawalVars, deliveryVars, paymentVars, notificationVars, reviewVars,
          chatVars, cacheVars, accountVars>>

Sender == [c \in ClientMessages |-> IF c = "b" THEN "winner" ELSE "seller"]
MCWebhooks == {<<1, "pending">>, <<1, "paid">>, <<2, "paid">>}
EachAlone == {{}} \cup {{[type |-> t, of |-> <<1, "any">>]} : t \in NotifiedTypes}

Faulty == {"payment", "notifications", "deletions"}

PlatformInit ==
    /\ part \in Parts
    /\ faults = IF part \in Faulty THEN 1 ELSE 0
    /\ WithdrawalInit /\ DeliveryInit /\ PaymentInit /\ NotificationInit
    /\ ReviewInit /\ ChatInit /\ CacheInit /\ AccountInit
    /\ part # "notifications" => blocked = {} /\ toHappen = {}

\* The queues of another part's consumers are left alone.
OnlyQueues(Q) == \A c \in copies' : c.queue \notin Q => c.at = "ready"

PlatformNext ==
    /\ UNCHANGED part
    /\ \/ /\ part = "withdrawals"
          /\ WithdrawalNext
          /\ UNCHANGED <<deliveryVars, paymentVars, notificationVars, reviewVars,
                         chatVars, cacheVars, accountVars>>
       \/ /\ part \in {"payment", "payments", "foreign"}
          /\ PaymentNext
          /\ OnlyQueues({"webhook", "wallet"})
          /\ part = "payment" => progress'[2] = "none"
          /\ part = "payments" => inbox' = inbox
          /\ part = "foreign" => progress'[1] # "attached" /\ ~due'[1]
          /\ UNCHANGED <<withdrawalVars, notificationVars, reviewVars, chatVars, cacheVars,
                         accountVars>>
       \/ /\ part = "notifications"
          /\ NotificationNext
          /\ UNCHANGED <<withdrawalVars, paymentVars, reviewVars, chatVars, cacheVars,
                         accountVars>>
       \/ /\ part \in {"reviews", "moderation"}
          /\ ReviewNext
          /\ part = "reviews" => moderated' = {}
          /\ part = "moderation" => attempt'[2] = Idle
          /\ UNCHANGED <<withdrawalVars, deliveryVars, paymentVars, notificationVars,
                         chatVars, cacheVars, accountVars>>
       \/ /\ part = "chat"
          /\ ChatNext
          /\ UNCHANGED <<withdrawalVars, deliveryVars, paymentVars, notificationVars,
                         reviewVars, cacheVars, accountVars>>
       \/ /\ part = "cache"
          /\ CacheNext
          /\ UNCHANGED <<withdrawalVars, deliveryVars, paymentVars, notificationVars,
                         reviewVars, chatVars, accountVars>>
       \/ /\ part \in {"bans", "deletions", "banned_seller"}
          /\ AccountNext
          /\ part = "bans" => auctionIs' = auctionIs /\ \A k \in AccountCalls : call'[k].op # "delete"
          /\ part = "deletions" => \A k \in AccountCalls : call'[k].op # "ban"
          /\ part = "banned_seller" => \A k \in AccountCalls : call'[k].op # "delete"
          /\ part # "bans" => ~signingIn' /\ ~authStatus'.late
          /\ UNCHANGED <<withdrawalVars, paymentVars, notificationVars, reviewVars,
                         chatVars, cacheVars>>

\* The fairness of each part, for that part.
PaymentsMove == part \in {"payment", "payments", "foreign"}
ReviewsMove == part \in {"reviews", "moderation"}

PlatformFairness ==
    /\ \A e \in PaymentEvents :
        WF_payAllVars(PaymentsMove /\ Dispatch(e) /\ UNCHANGED paymentVars)
    /\ WF_payAllVars(PaymentsMove /\ WalletConsumerMoves)
    /\ WF_payAllVars(PaymentsMove /\ (StartJob("expire") \/ NextPage("expire")))
    /\ \A p \in Payments :
        WF_payAllVars(PaymentsMove /\ (ExpirePayment(p) \/ PassOver("expire", p)))
    /\ WF_reviewVars(ReviewsMove /\ Midnight)
    /\ \A a \in Attempts : WF_reviewVars(ReviewsMove /\ AttemptEnds(a))
    /\ WF_reviewVars(ReviewsMove /\ StartSweep)
    /\ WF_reviewVars(ReviewsMove /\ SweepGoesOn)
    /\ WF_cacheVars(part = "cache" /\ SoftExpires)
    /\ WF_cacheVars(part = "cache" /\ HardExpires)
    /\ \A s \in Servers : WF_cacheVars(part = "cache" /\ (Fetch(s) \/ Land(s)))
    /\ \A r \in Revalidations :
        WF_cacheVars(part = "cache" /\ (Refetch(r) \/ Refresh(r) \/ Release(r)))
    /\ WF_accountVars(part = "bans" /\ StatusAges)
    /\ \A r \in Checkers : WF_accountVars(part = "bans" /\ CheckGoesOn(r))

PlatformSpec == PlatformInit /\ [][PlatformNext]_vars /\ PlatformFairness

\* What every variable holds.
PlatformTypeOK ==
    /\ part \in Parts
    /\ WithdrawalTypeOK /\ NotificationTypeOK /\ ReviewTypeOK /\ ChatTypeOK
    /\ CacheTypeOK /\ AccountTypeOK
    /\ PaymentRowsTypeOK
    /\ DeliveryTypeOK(PaymentEvents \cup NotificationEvents \cup AccountEvents)
=============================================================================
