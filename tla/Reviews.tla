------------------------------ MODULE Reviews ------------------------------
(***************************************************************************)
(* The mutual reviews of one finished auction: reviews.service.ts,         *)
(* reviews-expiration.service.ts and the review repository.                *)
(*                                                                         *)
(* Buyer and seller may each review the other for ReviewWindow days after  *)
(* endTime.  A review stays PENDING until the other party has written his  *)
(* own, or until it is as old as the window is long; an administrator may  *)
(* hide and restore it.  createReview and replyToReview are transactions   *)
(* on a snapshot: they read, and commit unless a document they write has   *)
(* been written since.                                                     *)
(*                                                                         *)
(* A day is longer than a transaction lives (a minute) and than the lock   *)
(* of the job (ten minutes): a transaction sees one midnight at most.      *)
(***************************************************************************)
EXTENDS Integers, FiniteSets

CONSTANTS
    ReviewWindow,    \* REVIEW_WINDOW_DAYS = 14
    LastReviewDay,   \* bounds the clock
    Attempts,        \* the calls under way at the same time
    Moderable        \* the parties whose review an administrator looks at

ASSUME ReviewAssumption ==
    /\ ReviewWindow \in Nat \ {0, 1}
    /\ LastReviewDay \in Nat \ {0}
    /\ 0 \notin Attempts
    /\ Moderable \subseteq {"buyer", "seller"}

Parties == {"buyer", "seller"}
Other(w) == CHOOSE v \in Parties : v # w

VARIABLES
    day,         \* days since endTime
    reviewOf,    \* the review each party wrote; createdAt while it is PENDING
    replyTo,     \* who of Attempts wrote the reply to it, 0 for none
    moderated,   \* the reviews an administrator has hidden or restored
    attempt,     \* the calls of createReview and replyToReview
    sweeps,      \* the runs of the expiration job
    reviewEvents    \* the ReviewPublished and ReviewReplied rows in the outbox

reviewVars == <<day, reviewOf, replyTo, moderated, attempt, sweeps, reviewEvents>>

NoReview == [status |-> "none", createdAt |-> 0]
Reviewed(s) == [status |-> s, createdAt |-> 0]
Idle == [op |-> "none"]

\* The auction has ended with a winner who is not the seller.
ReviewInit ==
    /\ day = 1
    /\ reviewOf = [w \in Parties |-> NoReview]
    /\ replyTo = [w \in Parties |-> 0]
    /\ moderated = {}
    /\ attempt = [a \in Attempts |-> Idle]
    /\ sweeps = {}
    /\ reviewEvents = {}

Status(w) == reviewOf[w].status

\* A write of the review of w: whoever read it before loses his transaction.
Touched(W) ==
    [a \in Attempts |->
        IF attempt[a] = Idle THEN Idle ELSE [attempt[a] EXCEPT !.lost = @ \cup W]]

Finished(a, W) == attempt' = [Touched(W) EXCEPT ![a] = Idle]

Midnight ==
    /\ day < LastReviewDay
    /\ \A a \in Attempts : attempt[a] # Idle => ~attempt[a].late
    /\ day' = day + 1
    /\ attempt' = [a \in Attempts |->
            IF attempt[a] = Idle THEN Idle ELSE [attempt[a] EXCEPT !.late = TRUE]]
    /\ sweeps' = {[s EXCEPT !.late = TRUE] : s \in sweeps}
    /\ UNCHANGED <<reviewOf, replyTo, moderated, reviewEvents>>

-----------------------------------------------------------------------------
\* createReview up to its reads: the window, then the snapshot.  The code awaits
\* between the two; they are one step here, as only midnight could tell them apart.
BeginReview(a, w) ==
    /\ attempt[a] = Idle
    /\ day <= ReviewWindow
    /\ Status(w) = "none"
    /\ attempt' = [attempt EXCEPT ![a] =
            [op |-> "review", who |-> w, saw |-> Status(Other(w)), late |-> FALSE, lost |-> {}]]
    /\ UNCHANGED <<day, reviewOf, replyTo, moderated, sweeps, reviewEvents>>

\* The documents the transaction writes: its own review, and the other one
\* when it reveals both.
Writes(t) ==
    CASE t.op = "review" -> {t.who} \cup (IF t.saw = "PENDING" THEN {Other(t.who)} ELSE {})
      [] t.op = "reply" -> {t.who}

\* A bug: the commit does not notice what has been written in between.
CommitsAlways(t) == TRUE

Commits(t) == Writes(t) \cap t.lost = {}

CommitReview(a) ==
    LET t == attempt[a]
        reveals == t.saw = "PENDING"
        mine == [status |-> IF reveals THEN "PUBLISHED" ELSE "PENDING", 
                 createdAt |-> IF reveals THEN 0 ELSE day]
    IN
    /\ t.op = "review"
    /\ Commits(t)
    /\ reviewOf' = [w \in Parties |->
            IF w = t.who THEN mine
            ELSE IF reveals THEN Reviewed("PUBLISHED")
            ELSE reviewOf[w]]
    /\ reviewEvents' = IF reveals THEN reviewEvents \cup ({"ReviewPublished"} \X Parties)
                    ELSE reviewEvents \cup {<<"ReviewCreated", t.who>>}
    /\ Finished(a, Writes(t))
    /\ UNCHANGED <<day, replyTo, moderated, sweeps>>

\* replyToReview: only the reviewed user, to a published review, once.
BeginReply(a, w) ==
    /\ attempt[a] = Idle
    /\ Status(w) = "PUBLISHED"
    /\ replyTo[w] = 0
    /\ attempt' = [attempt EXCEPT ![a] =
            [op |-> "reply", who |-> w, saw |-> "PUBLISHED", late |-> FALSE, lost |-> {}]]
    /\ UNCHANGED <<day, reviewOf, replyTo, moderated, sweeps, reviewEvents>>

CommitReply(a) ==
    LET t == attempt[a] IN
    /\ t.op = "reply"
    /\ Commits(t)
    /\ replyTo' = [replyTo EXCEPT ![t.who] = a]
    /\ reviewEvents' = reviewEvents \cup {<<"ReviewReplied", t.who>>}
    /\ Finished(a, Writes(t))
    /\ UNCHANGED <<day, reviewOf, moderated, sweeps>>

\* A write conflict, a duplicate key, an error, or the server dies.
AbortAttempt(a) ==
    /\ attempt[a] # Idle
    /\ Finished(a, {})
    /\ UNCHANGED <<day, reviewOf, replyTo, moderated, sweeps, reviewEvents>>

-----------------------------------------------------------------------------
\* hideReview, unhideReview.
Moderate(w, s) ==
    /\ w \in Moderable
    /\ Status(w) \notin {"none", s}
    /\ s \in {"HIDDEN", "PUBLISHED"}
    /\ reviewOf' = [reviewOf EXCEPT ![w] = Reviewed(s)]
    /\ moderated' = moderated \cup {w}
    /\ attempt' = Touched({w})
    /\ UNCHANGED <<day, replyTo, sweeps, reviewEvents>>

-----------------------------------------------------------------------------
\* handleExpiredPendingReviews: the lock, and the list of the reviews that are
\* as old as the window is long.  A second run starts when the first has
\* outlived its lock.
WindowFromYesterday(w) == day - reviewOf[w].createdAt >= ReviewWindow - 1

Expired(w) == day - reviewOf[w].createdAt >= ReviewWindow

LoneReviewsOlderThan ==
    {w \in Parties : Status(w) = "PENDING" /\ Expired(w) /\ Status(Other(w)) = "none"}

PendingReviewsOlderThan == {w \in Parties : Status(w) = "PENDING" /\ Expired(w)}

StartSweep ==
    /\ \A s \in sweeps : s.late
    /\ Cardinality(sweeps) < 2
    /\ PendingReviewsOlderThan # {}
    /\ sweeps' = sweeps \cup {[late |-> FALSE, todo |-> PendingReviewsOlderThan]}
    /\ UNCHANGED <<day, reviewOf, replyTo, moderated, attempt, reviewEvents>>

Swept(s, w) ==
    sweeps' = (sweeps \ {s}) \cup
        (IF s.todo = {w} THEN {} ELSE {[s EXCEPT !.todo = @ \ {w}]})

\* One review of the list: published whatever it has become.
PublishExpired(s, w) ==
    /\ w \in s.todo
    /\ reviewOf' = [reviewOf EXCEPT ![w] = Reviewed("PUBLISHED")]
    /\ reviewEvents' = reviewEvents \cup {<<"ReviewPublished", w>>}
    /\ attempt' = Touched({w})
    /\ Swept(s, w)
    /\ UNCHANGED <<day, replyTo, moderated>>

\* The transaction of a row fails and is logged, or the server dies; until
\* the last day only.
RowFails(s, w) ==
    /\ w \in s.todo
    /\ day < LastReviewDay
    /\ Swept(s, w)
    /\ UNCHANGED <<day, reviewOf, replyTo, moderated, attempt, reviewEvents>>

SweepDies(s) ==
    /\ day < LastReviewDay
    /\ sweeps' = sweeps \ {s}
    /\ UNCHANGED <<day, reviewOf, replyTo, moderated, attempt, reviewEvents>>

-----------------------------------------------------------------------------
ReviewNext ==
    \/ Midnight
    \/ \E a \in Attempts :
        \/ \E w \in Parties : BeginReview(a, w) \/ BeginReply(a, w)
        \/ CommitReview(a) \/ CommitReply(a) \/ AbortAttempt(a)
    \/ \E w \in Parties, s \in {"HIDDEN", "PUBLISHED"} : Moderate(w, s)
    \/ StartSweep
    \/ \E s \in sweeps :
        \/ SweepDies(s)
        \/ \E w \in s.todo : PublishExpired(s, w) \/ RowFails(s, w)

AttemptEnds(a) == CommitReview(a) \/ CommitReply(a) \/ AbortAttempt(a)
SweepGoesOn == \E s \in sweeps : \E w \in s.todo : PublishExpired(s, w)

\* The clock goes on, transactions end, the cron job runs.
ReviewFairness ==
    /\ WF_reviewVars(Midnight)
    /\ \A a \in Attempts : WF_reviewVars(AttemptEnds(a))
    /\ WF_reviewVars(StartSweep)
    /\ WF_reviewVars(SweepGoesOn)

ReviewSpec == ReviewInit /\ [][ReviewNext]_reviewVars /\ ReviewFairness

-----------------------------------------------------------------------------
ReviewTypeOK ==
    /\ day \in 1 .. LastReviewDay
    /\ reviewOf \in [Parties -> [status : {"none", "PENDING", "PUBLISHED", "HIDDEN"},
                                 createdAt : 0 .. LastReviewDay]]
    /\ \A w \in Parties : reviewOf[w].createdAt > 0 <=> Status(w) = "PENDING"
    /\ replyTo \in [Parties -> Attempts \cup {0}]
    /\ moderated \subseteq Parties
    /\ attempt \in [Attempts -> {Idle} \cup
            [op : {"review", "reply"}, who : Parties, late : BOOLEAN,
             saw : {"none", "PENDING", "PUBLISHED", "HIDDEN"}, lost : SUBSET Parties]]
    /\ sweeps \subseteq [late : BOOLEAN, todo : SUBSET Parties]
    /\ reviewEvents \subseteq {"ReviewCreated", "ReviewPublished", "ReviewReplied"} \X Parties

\* Reviews are blind: nobody adds his review once he can read the other one,
\* unless an administrator has restored it.  The other transaction, the job
\* and the clock all take part: a review is revealed by its age, while the
\* window to answer it counts from the end of the auction.
NoReviewAfterReveal ==
    [][\A w \in Parties :
        (Status(w) = "none" /\ reviewOf'[w].status # "none" /\ Other(w) \notin moderated)
            => Status(Other(w)) # "PUBLISHED"]_reviewVars

\* "Adds a single public reply": a reply is never replaced, even by a second
\* one that was written at the same time.
ReplyIsFinal ==
    [][\A w \in Parties : replyTo[w] # 0 => replyTo'[w] = replyTo[w]]_reviewVars

\* No review waits for ever: even when both parties wrote at the same moment
\* and neither saw the other's, the job publishes them.
PendingIsRevealed ==
    \A w \in Parties : Status(w) = "PENDING" ~> Status(w) # "PENDING"
=============================================================================
