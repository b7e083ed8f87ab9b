-------------------------------- MODULE Escrow ------------------------------
(***************************************************************************)
(* The escrows of finalized auctions and the disputes about them:          *)
(* escrow.service.ts, disputes.service.ts, the admin mutations of          *)
(* escrow.resolver.ts and the cron job of escrow-expiration.service.ts.    *)
(*                                                                         *)
(* confirmDelivery and the cron job read the escrow in the transaction     *)
(* that pays it out: one step each.  openDispute, cancelDispute,           *)
(* updateDisputeStatus and resolveDispute check what they read before      *)
(* their transaction, which writes unconditionally: two steps, with        *)
(* anything in between.  The admin mutations pass no session at all: every *)
(* write is a step.                                                        *)
(*                                                                         *)
(* A member of Requests or Payers stands for one call.                     *)
(***************************************************************************)
EXTENDS Integers, FiniteSets

CONSTANTS
    Escrows,
    Disputes,        \* identities for disputes: bounds how many are opened
    Requests,        \* calls of the four dispute mutations
    Payers,          \* calls of the admin's releaseEscrow and refundEscrow
    Sweepers         \* runs of the cron job, of all server instances

Operations == {"open", "cancel", "review", "resolve"}
Live == {"OPEN", "UNDER_REVIEW"}
DisputeStatuses == Live \cup {"RESOLVED_BUYER_REFUNDED", "RESOLVED_SELLER_PAID", "CANCELLED"}

VARIABLES
    escrows,    \* status of each escrow document
    expired,    \* whether its inspection window is over
    disputes,   \* the dispute documents
    credited,   \* per escrow, the deposits into the two parties' wallets
    ledger,     \* per escrow, the DEPOSIT rows of their wallet transactions
    outbox,     \* per escrow, how many outbox rows of each event type
    request,    \* what each dispute call has read so far
    payer,      \* how far each admin payout has come
    sweeper,    \* the escrows each run of the cron job has still to release
    sweepLock,  \* the Redis key of the cron job, as the set of its holders
    reopened,   \* history: how often a dispute call put a paid escrow back
    byHand      \* history: disputes last written by updateDisputeStatus

\* What the properties remember of the past; no action reads it.
history == <<reopened, byHand>>

vars == <<escrows, expired, disputes, credited, ledger, outbox,
          request, payer, sweeper, sweepLock, history>>

Parties == {"buyer", "seller"}
Paid == {"RELEASED", "REFUNDED"}
EventTypes == {"EscrowReleased", "EscrowRefunded", "EscrowDisputed",
               "DisputeOpened", "DisputeCancelled", "DisputeResolved"}

Waiting == [op |-> "waiting"]
Finished == [op |-> "finished"]
Absent == [status |-> "ABSENT"]
Existing == {d \in Disputes : disputes[d] # Absent}

-----------------------------------------------------------------------------
Init ==
    /\ escrows = [e \in Escrows |-> "HELD"]
    /\ expired = [e \in Escrows |-> FALSE]
    /\ disputes = [d \in Disputes |-> Absent]
    /\ credited = [e \in Escrows |-> [p \in Parties |-> 0]]
    /\ ledger = [e \in Escrows |-> [p \in Parties |-> 0]]
    /\ outbox = [e \in Escrows |-> [t \in EventTypes |-> 0]]
    /\ request = [r \in Requests |-> Waiting]
    /\ payer = [p \in Payers |-> Waiting]
    /\ sweeper = [c \in Sweepers |-> {}]
    /\ sweepLock = {}
    /\ reopened = [e \in Escrows |-> 0]
    /\ byHand = {}

\* inspectionPeriodEndsAt passes.
WindowEnds(e) ==
    /\ ~expired[e]
    /\ expired' = [expired EXCEPT ![e] = TRUE]
    /\ UNCHANGED <<escrows, disputes, credited, ledger, outbox,
                   request, payer, sweeper, sweepLock, history>>

-----------------------------------------------------------------------------
\* The two outcomes: who is paid, the status of the escrow, its event and the
\* status of the dispute that is resolved so.
EventNameAsStatus(to) == IF to = "seller" THEN "EscrowReleased" ELSE "EscrowRefunded"

StatusFor(to) == IF to = "seller" THEN "RELEASED" ELSE "REFUNDED"

AlwaysReleasedEvent(to) == "EscrowReleased"

EventFor(to) == IF to = "seller" THEN "EscrowReleased" ELSE "EscrowRefunded"

SwappedOutcome(to) == IF to = "seller" THEN "RESOLVED_BUYER_REFUNDED" ELSE "RESOLVED_SELLER_PAID"

OutcomeFor(to) == IF to = "buyer" THEN "RESOLVED_BUYER_REFUNDED" ELSE "RESOLVED_SELLER_PAID"

Tell(e, types) == outbox' = [outbox EXCEPT ![e] = [t \in EventTypes |->
                                @[t] + (IF t \in types THEN 1 ELSE 0)]]

\* releaseEscrow or refundEscrow in a transaction: deposit, status, event.
PayOutWithoutDeposit(e, to, types) ==
    /\ UNCHANGED <<credited, ledger>>
    /\ escrows' = [escrows EXCEPT ![e] = StatusFor(to)]
    /\ Tell(e, {EventFor(to)} \cup types)

PayOut(e, to, types) ==
    /\ credited' = [credited EXCEPT ![e][to] = @ + 1]
    /\ ledger' = [ledger EXCEPT ![e][to] = @ + 1]
    /\ escrows' = [escrows EXCEPT ![e] = StatusFor(to)]
    /\ Tell(e, {EventFor(to)} \cup types)

\* What confirmDelivery, and releaseEscrow with the reference type ESCROW,
\* ask of the escrow: not RELEASED, not REFUNDED and not DISPUTED.
ReleasableUnlessPaid(e) == escrows[e] \notin Paid

ReleasableUnlessDisputed(e) == escrows[e] # "DISPUTED"

Releasable(e) == escrows[e] = "HELD"

ConfirmDelivery(e) ==
    /\ Releasable(e)
    /\ PayOut(e, "seller", {})
    /\ UNCHANGED <<expired, disputes, request, payer, sweeper, sweepLock, history>>

-----------------------------------------------------------------------------
(***************************************************************************)
(* Dispute calls.  Each checks what it has read and then opens the         *)
(* transaction that writes; nothing is checked again there, except by the  *)
(* payout of a resolution.  A check that fails ends the call.              *)
(***************************************************************************)
MayOpen(e) == escrows[e] = "HELD" /\ ~expired[e]

Unresolved(d) == disputes[d].status \in Live

Read(r, call) ==
    /\ request[r] = Waiting
    /\ request' = [request EXCEPT ![r] = call]
    /\ UNCHANGED <<escrows, expired, disputes, credited, ledger, outbox,
                   payer, sweeper, sweepLock, history>>

ReadToOpen(r, e) ==
    /\ MayOpen(e)
    /\ Read(r, [op |-> "open", escrow |-> e])

ReadDispute(r, d) ==
    /\ d \in Existing
    /\ Unresolved(d)
    /\ \E call \in {[op |-> "cancel", dispute |-> d]}
            \cup {[op |-> "review", dispute |-> d, input |-> s] : s \in DisputeStatuses}
            \cup {[op |-> "resolve", dispute |-> d, input |-> p] : p \in Parties} :
          Read(r, call)

Writing(r, op) ==
    /\ request[r].op = op
    /\ request' = [request EXCEPT ![r] = Finished]

\* updateStatus of the escrow, whatever its status is by now.
Overwrite(e, status) ==
    /\ escrows' = [escrows EXCEPT ![e] = status]
    /\ reopened' = [reopened EXCEPT ![e] = @ + (IF escrows[e] \in Paid THEN 1 ELSE 0)]

OpenDispute(r) ==
    /\ Writing(r, "open")
    /\ LET e == request[r].escrow
       IN  /\ \E d \in Disputes \ Existing :
                 disputes' = [disputes EXCEPT ![d] = [status |-> "OPEN", escrow |-> e]]
           /\ Overwrite(e, "DISPUTED")
           /\ Tell(e, {"DisputeOpened", "EscrowDisputed"})
    /\ UNCHANGED <<expired, credited, ledger, payer, sweeper, sweepLock, byHand>>

CancelWithoutThaw(r) ==
    /\ Writing(r, "cancel")
    /\ LET d == request[r].dispute
       IN  /\ disputes' = [disputes EXCEPT ![d].status = "CANCELLED"]
           /\ byHand' = byHand \ {d}
           /\ Tell(disputes[d].escrow, {"DisputeCancelled"})
    /\ UNCHANGED <<escrows, expired, credited, ledger, payer, sweeper, sweepLock, reopened>>

CancelDispute(r) ==
    /\ Writing(r, "cancel")
    /\ LET d == request[r].dispute
           e == disputes[d].escrow
       IN  /\ disputes' = [disputes EXCEPT ![d].status = "CANCELLED"]
           /\ byHand' = byHand \ {d}
           /\ Overwrite(e, "HELD")
           /\ Tell(e, {"DisputeCancelled"})
    /\ UNCHANGED <<expired, credited, ledger, payer, sweeper, sweepLock>>

\* The admin's input is stored whatever status it is; the escrow stays.
UpdateDisputeStatus(r) ==
    /\ Writing(r, "review")
    /\ disputes' = [disputes EXCEPT ![request[r].dispute].status = request[r].input]
    /\ byHand' = byHand \cup {request[r].dispute}
    /\ UNCHANGED <<escrows, expired, credited, ledger, outbox, payer, sweeper, sweepLock, reopened>>

\* releaseEscrow and refundEscrow, called with the reference type DISPUTE,
\* let a disputed escrow through and check in the transaction that the
\* escrow is not paid out.
ResolveDispute(r) ==
    /\ Writing(r, "resolve")
    /\ LET d  == request[r].dispute
           e  == disputes[d].escrow
           to == request[r].input
       IN  /\ escrows[e] \notin Paid
           /\ PayOut(e, to, {"DisputeResolved"})
           /\ disputes' = [disputes EXCEPT ![d].status = OutcomeFor(to)]
           /\ byHand' = byHand \ {d}
    /\ UNCHANGED <<expired, payer, sweeper, sweepLock, reopened>>

\* The transaction aborts, or the server dies.
AbortRequest(r) ==
    /\ request[r].op \in Operations
    /\ request' = [request EXCEPT ![r] = Finished]
    /\ UNCHANGED <<escrows, expired, disputes, credited, ledger, outbox,
                   payer, sweeper, sweepLock, history>>

-----------------------------------------------------------------------------
(***************************************************************************)
(* releaseEscrow and refundEscrow as the admin's mutations call them,      *)
(* without a session: check, credit the wallet, write the ledger row, set  *)
(* the status, save the event, each visible at once.                       *)
(***************************************************************************)
AdminReads(p, e, to) ==
    /\ payer[p] = Waiting
    /\ Releasable(e)
    /\ payer' = [payer EXCEPT ![p] = [op |-> "credit", escrow |-> e, to |-> to]]
    /\ UNCHANGED <<escrows, expired, disputes, credited, ledger, outbox,
                   request, sweeper, sweepLock, history>>

AdminCredits(p) ==
    /\ payer[p].op = "credit"
    /\ credited' = [credited EXCEPT ![payer[p].escrow][payer[p].to] = @ + 1]
    /\ payer' = [payer EXCEPT ![p].op = "record"]
    /\ UNCHANGED <<escrows, expired, disputes, ledger, outbox, request, sweeper, sweepLock, history>>

AdminRecords(p) ==
    /\ payer[p].op = "record"
    /\ ledger' = [ledger EXCEPT ![payer[p].escrow][payer[p].to] = @ + 1]
    /\ payer' = [payer EXCEPT ![p].op = "status"]
    /\ UNCHANGED <<escrows, expired, disputes, credited, outbox, request, sweeper, sweepLock, history>>

AdminSetsStatus(p) ==
    /\ payer[p].op = "status"
    /\ escrows' = [escrows EXCEPT ![payer[p].escrow] = StatusFor(payer[p].to)]
    /\ payer' = [payer EXCEPT ![p].op = "event"]
    /\ UNCHANGED <<expired, disputes, credited, ledger, outbox, request, sweeper, sweepLock, history>>

AdminTells(p) ==
    /\ payer[p].op = "event"
    /\ Tell(payer[p].escrow, {EventFor(payer[p].to)})
    /\ payer' = [payer EXCEPT ![p] = Finished]
    /\ UNCHANGED <<escrows, expired, disputes, credited, ledger, request, sweeper, sweepLock, history>>

\* A write fails or the server dies: nothing is rolled back.
AdminFails(p) ==
    /\ payer[p] \notin {Waiting, Finished}
    /\ payer' = [payer EXCEPT ![p] = Finished]
    /\ UNCHANGED <<escrows, expired, disputes, credited, ledger, outbox,
                   request, sweeper, sweepLock, history>>

-----------------------------------------------------------------------------
(***************************************************************************)
(* The cron job: take the lock, list the expired HELD escrows, then        *)
(* release each in a transaction of its own, which checks it again.  The   *)
(* lock's TTL of 600 s may run out while a run is still under way.         *)
(***************************************************************************)
ExpiredHeld == {e \in Escrows : escrows[e] = "HELD" /\ expired[e]}

\* An empty list gives the lock back at once: no step.
StartSweep(c) ==
    /\ sweepLock = {}
    /\ sweeper[c] = {}
    /\ ExpiredHeld # {}
    /\ sweeper' = [sweeper EXCEPT ![c] = ExpiredHeld]
    /\ sweepLock' = {c}
    /\ UNCHANGED <<escrows, expired, disputes, credited, ledger, outbox, request, payer, history>>

GoOn(c, e) ==
    /\ sweeper' = [sweeper EXCEPT ![c] = @ \ {e}]
    /\ sweepLock' = IF sweeper[c] = {e} THEN sweepLock \ {c} ELSE sweepLock

ReleaseExpired(c, e) ==
    /\ e \in sweeper[c]
    /\ Releasable(e)
    /\ PayOut(e, "seller", {})
    /\ GoOn(c, e)
    /\ UNCHANGED <<expired, disputes, request, payer, history>>

\* releaseEscrow throws, or its transaction aborts; the loop goes on.
SkipExpired(c, e) ==
    /\ e \in sweeper[c]
    /\ GoOn(c, e)
    /\ UNCHANGED <<escrows, expired, disputes, credited, ledger, outbox, request, payer, history>>

CrashSweep(c) ==
    /\ sweeper[c] # {}
    /\ sweeper' = [sweeper EXCEPT ![c] = {}]
    /\ UNCHANGED <<escrows, expired, disputes, credited, ledger, outbox,
                   request, payer, sweepLock, history>>

SweepLockStays == FALSE

SweepLockExpires ==
    /\ sweepLock # {}
    /\ sweepLock' = {}
    /\ UNCHANGED <<escrows, expired, disputes, credited, ledger, outbox,
                   request, payer, sweeper, history>>

-----------------------------------------------------------------------------
DisputeStep(r) ==
    \/ \E e \in Escrows : ReadToOpen(r, e)
    \/ \E d \in Disputes : ReadDispute(r, d)
    \/ OpenDispute(r) \/ CancelDispute(r) \/ UpdateDisputeStatus(r) \/ ResolveDispute(r)
    \/ AbortRequest(r)

AdminStep(p) ==
    \/ \E e \in Escrows, to \in Parties : AdminReads(p, e, to)
    \/ AdminCredits(p) \/ AdminRecords(p) \/ AdminSetsStatus(p) \/ AdminTells(p)
    \/ AdminFails(p)

SweepStep(c) ==
    \/ StartSweep(c)
    \/ \E e \in Escrows : ReleaseExpired(c, e) \/ SkipExpired(c, e)
    \/ CrashSweep(c)

Next ==
    \/ \E e \in Escrows : WindowEnds(e) \/ ConfirmDelivery(e)
    \/ \E r \in Requests : DisputeStep(r)
    \/ \E p \in Payers : AdminStep(p)
    \/ \E c \in Sweepers : SweepStep(c)
    \/ SweepLockExpires

Spec == Init /\ [][Next]_vars

\* Time passes, the scheduler starts the job again and again, a started run
\* goes on, and a transaction that is tried for ever succeeds in the end.
Fairness ==
    /\ \A e \in Escrows : WF_vars(WindowEnds(e))
    /\ \A c \in Sweepers :
          /\ WF_vars(StartSweep(c))
          /\ \A e \in Escrows : SF_vars(ReleaseExpired(c, e)) /\ WF_vars(SkipExpired(c, e))
    /\ WF_vars(SweepLockExpires)

FairSpec == Spec /\ Fairness

-----------------------------------------------------------------------------
(***************************************************************************)
(* Properties.                                                             *)
(***************************************************************************)
Counts == [Escrows -> [Parties -> Nat]]

\* Every variable has its type: the shapes the Mongoose schemas declare.
TypeOK ==
    /\ escrows \in [Escrows -> {"HELD", "DISPUTED"} \cup Paid]
    /\ expired \in [Escrows -> BOOLEAN]
    /\ disputes \in [Disputes -> {Absent} \cup [status : DisputeStatuses, escrow : Escrows]]
    /\ credited \in Counts /\ ledger \in Counts
    /\ outbox \in [Escrows -> [EventTypes -> Nat]]
    /\ request \in [Requests -> {Waiting, Finished}
                      \cup [op : {"open"}, escrow : Escrows]
                      \cup [op : {"cancel"}, dispute : Disputes]
                      \cup [op : {"review"}, dispute : Disputes, input : DisputeStatuses]
                      \cup [op : {"resolve"}, dispute : Disputes, input : Parties]]
    /\ payer \in [Payers -> {Waiting, Finished}
                    \cup [op : {"credit", "record", "status", "event"},
                          escrow : Escrows, to : Parties]]
    /\ sweeper \in [Sweepers -> SUBSET Escrows]
    /\ sweepLock \in SUBSET Sweepers
    /\ reopened \in [Escrows -> Nat]
    /\ byHand \in SUBSET Disputes

\* The money in an escrow leaves it once, to the party its status names:
\* confirmDelivery, the expiry job and resolveDispute never pay what one of
\* them has paid.  A further payout takes an openDispute or a cancelDispute
\* whose check was out of date when it put the paid escrow back, and there is
\* one for each time that happened and no more.
PaidOncePerReopening ==
    \A e \in Escrows :
        /\ credited[e]["buyer"] + credited[e]["seller"]
              = reopened[e] + (IF escrows[e] \in Paid THEN 1 ELSE 0)
        /\ \A p \in Parties : escrows[e] = StatusFor(p) => credited[e][p] > 0

\* No escrow is frozen with nobody able to settle it: however old the checks
\* of openDispute, cancelDispute and resolveDispute are, a DISPUTED escrow has
\* a dispute that can be resolved or cancelled.  Only a status that an admin
\* types into updateDisputeStatus may leave it without one.
FrozenCanBeSettled ==
    \A e \in Escrows : escrows[e] = "DISPUTED" =>
        \E d \in Existing : /\ disputes[d].escrow = e
                            /\ disputes[d].status \in Live \/ d \in byHand

\* A resolved dispute had the outcome it records: the party it names was
\* paid, unless the record is what an admin typed into updateDisputeStatus.
ResolutionWasPaid ==
    \A d \in Existing \ byHand :
        /\ disputes[d].status = "RESOLVED_BUYER_REFUNDED" => credited[disputes[d].escrow]["buyer"] > 0
        /\ disputes[d].status = "RESOLVED_SELLER_PAID" => credited[disputes[d].escrow]["seller"] > 0

\* Every deposit has its ledger row and its event: none is lost or repeated
\* when a transaction aborts or a server dies.
PayoutsRecorded ==
    \A e \in Escrows :
        /\ ledger[e] = credited[e]
        /\ outbox[e]["EscrowReleased"] = credited[e]["seller"]
        /\ outbox[e]["EscrowRefunded"] = credited[e]["buyer"]

\* Nobody is told of a payout that did not happen, and the ledger has no row
\* without its deposit, even when admin payouts stop half-way.
AnnouncedMeansPaid ==
    \A e \in Escrows :
        /\ \A p \in Parties : ledger[e][p] <= credited[e][p]
        /\ outbox[e]["EscrowReleased"] <= ledger[e]["seller"]
        /\ outbox[e]["EscrowRefunded"] <= ledger[e]["buyer"]

\* README, "absolute financial integrity": the money of an escrow is paid out
\* at most once.
NeverPaidTwice == \A e \in Escrows : credited[e]["buyer"] + credited[e]["seller"] <= 1

\* README, on openDispute: the escrow is locked in DISPUTED status "freezing
\* all direct release paths": only a resolution takes money out of it.
DisputeFreezesRelease ==
    [][\A e \in Escrows :
          (escrows[e] = "DISPUTED" /\ credited'[e] # credited[e])
              => \E d \in Existing : /\ disputes[d].escrow = e
                                     /\ disputes'[d].status \notin Live]_vars

\* An escrow whose buyer does nothing is not held for ever: it is paid out
\* or disputed, whatever runs of the cron job crash or overlap.
HeldIsSettled == \A e \in Escrows : escrows[e] = "HELD" ~> escrows[e] # "HELD"
=============================================================================
