------------------------------ MODULE Accounts ------------------------------
(***************************************************************************)
(* One account that is banned, deleted and reactivated: users.service.ts,  *)
(* the parts of auth.service.ts that issue tokens, the status that         *)
(* jwt.strategy.ts caches for every request, and what the auth and the     *)
(* auction consumer do when they hear of it.  Events travel as in          *)
(* Delivery.                                                               *)
(*                                                                         *)
(* toggleBan and softDeleteUser change the document in a transaction and   *)
(* delete the cached status before it commits; a second transaction on the *)
(* same document fails.                                                    *)
(***************************************************************************)
EXTENDS Delivery

CONSTANTS
    LastCall,        \* the administrator's calls are 1 .. LastCall
    Operations,      \* which of "ban" and "delete" he makes
    Checkers,        \* the status checks under way at the same time
    SellerAuctions   \* the auctions of the user

AccountCalls == 1 .. LastCall

ASSUME AccountAssumption ==
    /\ LastCall \in Nat
    /\ Operations \subseteq {"ban", "delete"}

VARIABLES
    account,      \* the document: isBanned, and whether deletedAt is set
    call,         \* the calls of toggleBan and softDeleteUser
    authStatus,   \* user:auth-status:<id>, and whether its last minute has begun
    check,        \* each dbCheckAndCache: what it has read
    refreshLock,  \* whether the key of the background refresh is there
    signingIn,    \* a login or refresh that has read the user
    signedIn,     \* whether the user has a refresh token
    auctionIs,    \* his auctions: pending or active ("listed"), cancelled, or
                  \* listed while its cancellation failed and was logged
    listedAt      \* per event, the auctions listed when it was saved

accountVars == <<account, call, authStatus, check, refreshLock, signingIn, signedIn,
                 auctionIs, listedAt>>
accountAllVars == <<deliveryVars, accountVars>>

\* A row of the outbox has a messageId of its own.
EventPerUser(k) == [type |-> "UserSoftDeleted", of |-> <<0, "user">>]
SoftDeleted(k) == [type |-> "UserSoftDeleted", of |-> <<k, "user">>]
Banned(k) == [type |-> "UserBanned", of |-> <<k, "user">>]

AccountEvents == {SoftDeleted(k) : k \in AccountCalls} \cup {Banned(k) : k \in AccountCalls}

NotCached == [status |-> "none", late |-> FALSE]
NotCalled == [op |-> "none", stage |-> "new", bans |-> FALSE]

AccountInit ==
    /\ account = [banned |-> FALSE, deleted |-> FALSE]
    /\ call = [k \in AccountCalls |-> NotCalled]
    /\ authStatus = NotCached
    /\ check = [r \in Checkers |-> "off"]
    /\ refreshLock = FALSE
    /\ signingIn = FALSE
    /\ signedIn = TRUE
    /\ auctionIs = [x \in SellerAuctions |-> "none"]
    /\ listedAt = [e \in AccountEvents |-> {}]

Listed == {x \in SellerAuctions : auctionIs[x] \in {"listed", "refused"}}

-----------------------------------------------------------------------------
\* toggleBan and softDeleteUser: the user is read first.
Find(k, op) ==
    /\ call[k] = NotCalled
    /\ \A j \in AccountCalls : j < k => call[j] # NotCalled
    /\ ~account.deleted
    /\ call' = [call EXCEPT ![k] = [op |-> op, stage |-> "found",
                                    bans |-> op = "ban" /\ ~account.banned]]
    /\ UNCHANGED <<account, authStatus, check, refreshLock, signingIn, signedIn,
                   auctionIs, listedAt>>
    /\ UNCHANGED deliveryVars

\* The transaction updates the document, unless another one has, and deletes
\* the cached status.
Update(k) ==
    /\ call[k].stage = "found"
    /\ ~account.deleted
    /\ \A j \in AccountCalls : call[j].stage # "updated"
    /\ call' = [call EXCEPT ![k].stage = "updated"]
    /\ authStatus' = NotCached
    /\ UNCHANGED <<account, check, refreshLock, signingIn, signedIn,
                   auctionIs, listedAt>>
    /\ UNCHANGED deliveryVars

EventsSaved(k) ==
    IF call[k].op = "delete" THEN {SoftDeleted(k)}
    ELSE IF call[k].bans THEN {Banned(k)} ELSE {}

Commit(k) ==
    /\ call[k].stage = "updated"
    /\ account' = IF call[k].op = "delete" THEN [account EXCEPT !.deleted = TRUE]
                  ELSE [account EXCEPT !.banned = call[k].bans]
    /\ Saved(EventsSaved(k))
    /\ listedAt' = [e \in AccountEvents |->
            IF e \in EventsSaved(k) THEN Listed ELSE listedAt[e]]
    /\ call' = [call EXCEPT ![k].stage = "done"]
    /\ UNCHANGED <<authStatus, check, refreshLock, signingIn, signedIn, auctionIs>>
    /\ UNCHANGED <<published, copies, keys, dead, dropped, faults>>

\* The wallet is not empty, a write conflict, the server dies.
AbortCall(k) ==
    /\ call[k].stage \in {"found", "updated"}
    /\ call' = [call EXCEPT ![k].stage = "done"]
    /\ UNCHANGED <<account, authStatus, check, refreshLock, signingIn, signedIn,
                   auctionIs, listedAt>>
    /\ UNCHANGED deliveryVars

\* reactivateUser; deleting the cached status is the step after it, and the
\* entry is gone in the end either way.
Reactivate ==
    /\ account.deleted
    /\ \A k \in AccountCalls : call[k].stage # "updated"
    /\ account' = [account EXCEPT !.deleted = FALSE]
    /\ authStatus' \in {NotCached, authStatus}
    /\ UNCHANGED <<call, check, refreshLock, signingIn, signedIn, auctionIs, listedAt>>
    /\ UNCHANGED deliveryVars

-----------------------------------------------------------------------------
\* validate: a request with a valid token.  A miss waits for dbCheckAndCache;
\* in the last minute of the entry one refresh runs in the background.
DbStatus == IF account.deleted THEN "deleted" ELSE IF account.banned THEN "banned" ELSE "active"

CachedOrActive == IF authStatus.status = "none" THEN DbStatus ELSE authStatus.status

StatusInDb == DbStatus

StartCheck(r) ==
    /\ check[r] = "off"
    /\ \/ /\ authStatus = NotCached
          /\ UNCHANGED refreshLock
       \/ /\ authStatus.late
          /\ ~refreshLock
          /\ refreshLock' = TRUE
    /\ check' = [check EXCEPT ![r] = "started"]
    /\ UNCHANGED <<account, call, authStatus, signingIn, signedIn, auctionIs, listedAt>>
    /\ UNCHANGED deliveryVars

ReadStatus(r) ==
    /\ check[r] = "started"
    /\ check' = [check EXCEPT ![r] = StatusInDb]
    /\ UNCHANGED <<account, call, authStatus, refreshLock, signingIn, signedIn,
                   auctionIs, listedAt>>
    /\ UNCHANGED deliveryVars

CacheStatus(r) ==
    /\ check[r] \notin {"off", "started"}
    /\ authStatus' = [status |-> check[r], late |-> FALSE]
    /\ refreshLock' = FALSE
    /\ check' = [check EXCEPT ![r] = "off"]
    /\ UNCHANGED <<account, call, signingIn, signedIn, auctionIs, listedAt>>
    /\ UNCHANGED deliveryVars

\* The database or Redis fails, the server dies.
CheckFails(r) ==
    /\ check[r] # "off"
    /\ check' = [check EXCEPT ![r] = "off"]
    /\ refreshLock' = FALSE
    /\ UNCHANGED <<account, call, authStatus, signingIn, signedIn, auctionIs, listedAt>>
    /\ UNCHANGED deliveryVars

\* EX 300.
StatusAges ==
    /\ authStatus # NotCached
    /\ authStatus' = IF authStatus.late THEN NotCached ELSE [authStatus EXCEPT !.late = TRUE]
    /\ UNCHANGED <<account, call, check, refreshLock, signingIn, signedIn,
                   auctionIs, listedAt>>
    /\ UNCHANGED deliveryVars

-----------------------------------------------------------------------------
\* login and googleLogin: the user must not be deleted or banned.
Login ==
    /\ ~signingIn
    /\ DbStatus = "active"
    /\ signingIn' = TRUE
    /\ UNCHANGED <<account, call, authStatus, check, refreshLock, signedIn, auctionIs, listedAt>>
    /\ UNCHANGED deliveryVars

\* refreshTokens: the old token is deleted before the user is read; other
\* devices keep theirs.
RefreshTokens ==
    /\ ~signingIn
    /\ signedIn
    /\ signedIn' \in BOOLEAN
    /\ signingIn' = (DbStatus = "active")
    /\ UNCHANGED <<account, call, authStatus, check, refreshLock, auctionIs, listedAt>>
    /\ UNCHANGED deliveryVars

\* logoutAll, on request or with a new password, or logout of the last device.
LogoutAll ==
    /\ signedIn
    /\ signedIn' = FALSE
    /\ UNCHANGED <<account, call, authStatus, check, refreshLock, signingIn, auctionIs, listedAt>>
    /\ UNCHANGED deliveryVars

\* The end of both: a token is stored for the user read before.
IssueAuthTokens ==
    /\ signingIn
    /\ signingIn' = FALSE
    /\ signedIn' = TRUE
    /\ UNCHANGED <<account, call, authStatus, check, refreshLock, auctionIs, listedAt>>
    /\ UNCHANGED deliveryVars

\* createAuction, by a request whose cached status lets it through.
CreateAuction(x) ==
    /\ authStatus.status = "active"
    /\ auctionIs[x] = "none"
    /\ auctionIs' = [auctionIs EXCEPT ![x] = "listed"]
    /\ UNCHANGED <<account, call, authStatus, check, refreshLock, signingIn, signedIn, listedAt>>
    /\ UNCHANGED deliveryVars

-----------------------------------------------------------------------------
\* handleUserBanned of the auth consumer: deleteAllUserTokens.
DeleteTokens(c) ==
    /\ c \in copies
    /\ c.queue = "auth"
    /\ c.at = "checked"
    /\ signedIn' = FALSE
    /\ Advance(c, "handled")
    /\ UNCHANGED <<outbox, published, keys, dead, dropped, faults>>
    /\ UNCHANGED <<account, call, authStatus, check, refreshLock, signingIn, auctionIs, listedAt>>

Cancelled(failing) ==
    [x \in SellerAuctions |->
        IF x \in failing THEN "refused"
        ELSE IF x \in Listed THEN "cancelled" ELSE auctionIs[x]]

\* cancelAllActiveAuctionsForSeller: the error of one auction is logged and
\* the message acknowledged all the same.
CancelAuctions(c) ==
    /\ c \in copies
    /\ c.queue = "auction"
    /\ c.at = "checked"
    /\ \/ /\ auctionIs' = Cancelled({})
          /\ UNCHANGED faults
       \/ /\ faults > 0
          /\ faults' = faults - 1
          /\ \E x \in Listed : auctionIs' = Cancelled({x})
    /\ Advance(c, "handled")
    /\ UNCHANGED <<outbox, published, keys, dead, dropped>>
    /\ UNCHANGED <<account, call, authStatus, check, refreshLock, signingIn, signedIn, listedAt>>

-----------------------------------------------------------------------------
AccountNext ==
    \/ \E k \in AccountCalls :
        \/ \E op \in Operations : Find(k, op)
        \/ Update(k) \/ Commit(k) \/ AbortCall(k)
    \/ Reactivate
    \/ \E r \in Checkers : StartCheck(r) \/ ReadStatus(r) \/ CacheStatus(r) \/ CheckFails(r)
    \/ StatusAges
    \/ Login \/ RefreshTokens \/ LogoutAll \/ IssueAuthTokens
    \/ \E x \in SellerAuctions : CreateAuction(x)
    \/ \E c \in copies : DeleteTokens(c) \/ CancelAuctions(c)
    \/ DeliveryNext /\ UNCHANGED accountVars

CheckGoesOn(r) == ReadStatus(r) \/ CacheStatus(r) \/ CheckFails(r)

\* A key in Redis expires; a check that has begun ends.
AccountFairness ==
    /\ WF_accountVars(StatusAges)
    /\ \A r \in Checkers : WF_accountVars(CheckGoesOn(r))

AccountSpec ==
    /\ AccountInit /\ DeliveryInit /\ faults \in Nat
    /\ [][AccountNext]_accountAllVars /\ AccountFairness

-----------------------------------------------------------------------------
AccountTypeOK ==
    /\ account \in [banned : BOOLEAN, deleted : BOOLEAN]
    /\ call \in [AccountCalls -> [op : {"none", "ban", "delete"}, bans : BOOLEAN,
                                  stage : {"new", "found", "updated", "done"}]]
    /\ authStatus \in [status : {"none", "active", "banned", "deleted"}, late : BOOLEAN]
    /\ check \in [Checkers -> {"off", "started", "active", "banned", "deleted"}]
    /\ refreshLock \in BOOLEAN /\ signingIn \in BOOLEAN /\ signedIn \in BOOLEAN
    /\ auctionIs \in [SellerAuctions -> {"none", "listed", "cancelled", "refused"}]
    /\ listedAt \in [AccountEvents -> SUBSET SellerAuctions]

\* The status is deleted from Redis before the ban commits, and a check that
\* ran in between caches "active" again; yet a ban that stays is not
\* contradicted by the cache for ever, although the entry is refreshed before
\* it expires.
BanIsSeen == <>[]account.banned => <>[](authStatus.status # "active")

\* The event e has reached the auctions that were listed when it was saved, is
\* on its way, or somebody can see what went wrong.
Reached(e) ==
    \/ OnItsWay("auction", e)
    \/ <<"auction", e>> \in dead \cup dropped
    \/ \A x \in listedAt[e] : auctionIs[x] # "listed"

Happened(e) == e \in outbox \/ \E x \in published : x[1] = e

\* Whatever is lost, duplicated or retried, and however often the account is
\* deleted and reactivated: the auctions of a deleted user are cancelled.
DeletionReachesAuctions ==
    \A k \in AccountCalls : Happened(SoftDeleted(k)) => Reached(SoftDeleted(k))

\* README.md:698 "Listens to account lifecycle events (UserBanned,
\* UserSoftDeleted) to automatically cancel active auctions".
BanReachesAuctions ==
    \A k \in AccountCalls : Happened(Banned(k)) => Reached(Banned(k))
=============================================================================
