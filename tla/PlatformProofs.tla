--------------------------- MODULE PlatformProofs ---------------------------
(***************************************************************************)
(* Proofs about the components that MCPlatform puts side by side: Cache,   *)
(* Reviews, Notifications, Chat and Accounts, and the types of all of them *)
(* together.  Every theorem is about any number of calls, messages and     *)
(* faults.                                                                 *)
(***************************************************************************)
EXTENDS MCPlatform, PaymentsProofs, WithdrawalsProofs, SequenceTheorems,
        WellFoundedInduction

-----------------------------------------------------------------------------
(***************************************************************************)
(* Cache: however refreshes, changes and expiries interleave, one worker   *)
(* at a time refreshes an entry.                                           *)
(***************************************************************************)
\* A refresh that has not outlived its lock still holds it.
LockIsHeld ==
    \A r \in Revalidations :
        revalidation[r].stage # "off" /\ ~revalidation[r].outlived => lock = r

\* Every invalidation to come belongs to a change.
ChangesInvalidate == invalidations <= version

CacheInv == CacheTypeOK /\ LockIsHeld /\ ChangesInvalidate

-----------------------------------------------------------------------------
\* The entry is empty, the lock free and no refresh under way.
LEMMA CacheInvInit == CacheInit => CacheInv
BY CacheAssumption DEF CacheInit, CacheInv, CacheTypeOK, LockIsHeld, ChangesInvalidate, NoEntry, Off0

\* What a refresh may do with the entry and keep its type.
LEMMA EntryTyped ==
    ASSUME CacheTypeOK, NEW d \in -1 .. LastVersion
    PROVE  /\ Entry(d) \in [data : -1 .. LastVersion, stale : BOOLEAN]
           /\ NoEntry \in [data : -1 .. LastVersion, stale : BOOLEAN]
           /\ [entry EXCEPT !.stale = TRUE] \in [data : -1 .. LastVersion, stale : BOOLEAN]
<1>1. -1 \in -1 .. LastVersion
  BY CacheAssumption
<1>2. \A x \in -1 .. LastVersion : \A b \in BOOLEAN :
          [data |-> x, stale |-> b] \in [data : -1 .. LastVersion, stale : BOOLEAN]
  OBVIOUS
<1>3. \A f \in [data : -1 .. LastVersion, stale : BOOLEAN] :
          [f EXCEPT !.stale = TRUE] \in [data : -1 .. LastVersion, stale : BOOLEAN]
  OBVIOUS
<1>4. QED BY <1>1, <1>2, <1>3 DEF CacheTypeOK, Entry, NoEntry

\* Every write, refresh, expiry and late worker keeps the lock with the refresh that took it.
LEMMA CacheInvStep == CacheInv /\ [CacheNext]_cacheVars => CacheInv'
<1> SUFFICES ASSUME CacheInv, [CacheNext]_cacheVars PROVE CacheInv'
  OBVIOUS
<1> USE CacheAssumption DEF CacheInv, ChangesInvalidate
<1> DEFINE Entries == [stage : {"off", "locked", "fetched", "done"},
                    data : -1 .. LastVersion, outlived : BOOLEAN]
<1>0. CacheTypeOK /\ -1 \in -1 .. LastVersion
  BY DEF CacheTypeOK
<1>a. Off0 \in Entries /\ \A r \in Revalidations : revalidation[r] \in Entries
  BY <1>0 DEF Off0, CacheTypeOK
<1>b. \A f \in Entries : /\ [f EXCEPT !.outlived = TRUE] \in Entries
                       /\ [f EXCEPT !.stage = "locked"] \in Entries
                       /\ [f EXCEPT !.stage = "done", !.data = -1] \in Entries
  BY <1>0
<1>1. ASSUME Write PROVE CacheInv'
  \* A change is followed by one invalidation, and the changes are counted.
  <2>1. version' \in 0 .. LastVersion /\ invalidations' \in 0 .. version'
    BY <1>1 DEF Write, CacheTypeOK
  <2>2. QED BY <1>1, <2>1 DEF Write, CacheTypeOK, LockIsHeld
<1>2. ASSUME Invalidate \/ InvalidateFails PROVE CacheInv'
  <2>1. invalidations' \in 0 .. LastVersion /\ invalidations' <= version'
    BY <1>2 DEF Invalidate, InvalidateFails, CacheTypeOK
  <2>2. entry' \in [data : -1 .. LastVersion, stale : BOOLEAN]
    BY <1>0, <1>2, EntryTyped DEF Invalidate, InvalidateFails, CacheTypeOK
  <2>3. QED BY <1>2, <2>1, <2>2 DEF Invalidate, InvalidateFails, CacheTypeOK, LockIsHeld
<1>3. ASSUME SoftExpires \/ HardExpires PROVE CacheInv'
  BY <1>0, <1>3, EntryTyped DEF SoftExpires, HardExpires, CacheTypeOK, LockIsHeld
<1>4. ASSUME LockExpires PROVE CacheInv'
  <2>1. \A r \in Revalidations :
            IF r = lock /\ revalidation[r] # Off0
            THEN [revalidation[r] EXCEPT !.outlived = TRUE] \in Entries
            ELSE revalidation[r] \in Entries
    BY <1>a, <1>b
  <2>2. revalidation' \in [Revalidations -> Entries]
    BY <1>4, <2>1 DEF LockExpires
  <2>3. \A r \in Revalidations : revalidation'[r].stage = "off" \/ revalidation'[r].outlived
    BY <1>4, <1>a DEF LockExpires, LockIsHeld, Off0
  <2>4. QED BY <1>4, <2>2, <2>3 DEF LockExpires, CacheTypeOK, LockIsHeld
<1>5. ASSUME NEW s \in Servers, StartFlight(s) \/ Fetch(s) PROVE CacheInv'
  BY <1>5 DEF StartFlight, Fetch, CacheTypeOK, LockIsHeld
<1>6. ASSUME NEW s \in Servers, Land(s) PROVE CacheInv'
  <2>1. Entry(flight[s].data) \in [data : -1 .. LastVersion, stale : BOOLEAN]
    BY EntryTyped DEF CacheTypeOK
  <2>2. QED BY <1>6, <2>1 DEF Land, CacheTypeOK, LockIsHeld
<1>7. ASSUME NEW r \in Revalidations, Revalidate(r) PROVE CacheInv'
  <2>1. revalidation' = [revalidation EXCEPT ![r] = [revalidation[r] EXCEPT !.stage = "locked"]]
    BY <1>7 DEF Revalidate
  <2>2. revalidation' \in [Revalidations -> Entries]
    BY <1>a, <1>b, <2>1 DEF CacheTypeOK
  <2>3. \A q \in Revalidations :
            revalidation'[q].stage # "off" /\ ~revalidation'[q].outlived => q = r
    BY <1>7, <2>1 DEF Revalidate, CacheTypeOK, LockIsHeld
  <2>4. QED BY <1>7, <2>2, <2>3 DEF Revalidate, CacheTypeOK, LockIsHeld
<1>8. ASSUME NEW r \in Revalidations, Refetch(r) \/ RefetchFails(r) PROVE CacheInv'
  BY <1>8 DEF Refetch, RefetchFails, Refetched, CacheTypeOK, LockIsHeld
<1>9. ASSUME NEW r \in Revalidations, Refresh(r) PROVE CacheInv'
  <2>1. Entry(revalidation[r].data) \in [data : -1 .. LastVersion, stale : BOOLEAN]
    BY EntryTyped DEF CacheTypeOK
  <2> DEFINE row == [revalidation[r] EXCEPT !.stage = "done", !.data = -1]
  <2>2. revalidation' = [revalidation EXCEPT ![r] = row]
    BY <1>9 DEF Refresh
  <2>3. row \in Entries /\ row.outlived = revalidation[r].outlived
    BY <1>a, <1>b
  <2> HIDE DEF row
  <2>4. revalidation' \in [Revalidations -> Entries]
    BY <2>2, <2>3 DEF CacheTypeOK
  <2>5. \A q \in Revalidations :
            revalidation'[q].stage # "off" /\ ~revalidation'[q].outlived => lock = q
    BY <1>9, <2>2, <2>3 DEF Refresh, CacheTypeOK, LockIsHeld
  <2>6. QED BY <1>9, <2>1, <2>4, <2>5 DEF Refresh, CacheTypeOK, LockIsHeld
<1>10. ASSUME NEW r \in Revalidations, Release(r) PROVE CacheInv'
  BY <1>10 DEF Release, Freed, CacheTypeOK, LockIsHeld, Off0
<1>11. ASSUME NEW r \in Revalidations, RevalidationDies(r) PROVE CacheInv'
  BY <1>11 DEF RevalidationDies, CacheTypeOK, LockIsHeld, Off0
<1>12. CASE UNCHANGED cacheVars
  BY <1>12 DEF cacheVars, CacheTypeOK, LockIsHeld
<1>13. QED
  BY <1>1, <1>2, <1>3, <1>4, <1>5, <1>6, <1>7, <1>8, <1>9, <1>10, <1>11, <1>12 DEF CacheNext

\* The cache keeps its types, and a refresh in its time holds the lock, in swr() and
\* invalidate() of CacheService in any order.
THEOREM CacheIsTyped == CacheSpec => []CacheInv
BY CacheInvInit, CacheInvStep, PTL DEF CacheSpec

\* redis.service.ts:155 "only one revalidation worker at a time": true of the
\* workers that end within the time of their lock, whoever else still runs and
\* whoever dies.  The release compares the token, which is what the proof of
\* Release(r) needs: a late worker does not free the lock of the next.
THEOREM OneWorkerAtATime == CacheSpec => []OneRevalidation
<1>1. CacheInv => OneRevalidation
  BY DEF CacheInv, LockIsHeld, OneRevalidation
<1>2. QED BY <1>1, CacheIsTyped, PTL

-----------------------------------------------------------------------------
(***************************************************************************)
(* Reviews, for any number of calls, days and moderations.                 *)
(***************************************************************************)
ReviewStatuses == {"none", "PENDING", "PUBLISHED", "HIDDEN"}
AttemptRecord ==
    [op : {"review", "reply"}, who : Parties, late : BOOLEAN,
     saw : {"none", "PENDING", "PUBLISHED", "HIDDEN"}, lost : SUBSET Parties]

Slack(t) == IF t.late THEN 1 ELSE 0

\* What a call that saw no other review can find at its commit.
NoneSeen(t) ==
    LET o == Other(t.who) IN
    /\ Status(o) = "PENDING" => reviewOf[o].createdAt >= day - Slack(t)
    /\ Status(t.who) = "none" /\ o \notin moderated => Status(o) \in {"none", "PENDING"}
    /\ \A s \in sweeps : o \notin s.todo

\* A call of createReview that has read: the clock has passed one midnight at
\* most, and unless an administrator took part, the other party's review is
\* hidden from the caller for as long as he has none.
GoodReview(t) ==
    LET o == Other(t.who) IN
    /\ day <= ReviewWindow + Slack(t)
    /\ t.saw = "PENDING" /\ o \notin t.lost => Status(o) = "PENDING"
    /\ t.saw = "none" => NoneSeen(t)
    /\ t.saw \in {"PUBLISHED", "HIDDEN"} => o \in moderated

\* A call of replyToReview that has read: a reply written since is noticed.
GoodReply(t) == replyTo[t.who] # 0 => t.who \in t.lost

\* What the job lists exists, and the window of its auction is over.
Overdue == \A s \in sweeps : \A w \in s.todo : Status(w) # "none" /\ day > ReviewWindow

HiddenByAdmin == \A w \in Parties : Status(w) = "HIDDEN" => w \in moderated

\* Without an administrator, a lone review is only shown after the window.
LoneIsLate ==
    \A w \in Parties :
        Status(w) = "PUBLISHED" /\ Status(Other(w)) = "none" /\ w \notin moderated
            => day > ReviewWindow

ReviewInv ==
    /\ ReviewTypeOK
    /\ Overdue /\ HiddenByAdmin /\ LoneIsLate
    /\ \A a \in Attempts : attempt[a].op = "review" => GoodReview(attempt[a])
    /\ \A a \in Attempts : attempt[a].op = "reply" => GoodReply(attempt[a])

-----------------------------------------------------------------------------
\* The auction has two parties, who are each other's other.
LEMMA OtherParty ==
    ASSUME NEW w \in Parties
    PROVE  /\ Other(w) \in Parties /\ Other(w) # w /\ Other(Other(w)) = w
           /\ \A v \in Parties : v = w \/ v = Other(w)
  BY DEF Other, Parties

\* A call under way is not idle.
LEMMA AttemptShape ==
    ASSUME ReviewTypeOK, NEW a \in Attempts
    PROVE  /\ attempt[a] = Idle \/ attempt[a] \in AttemptRecord
           /\ attempt[a] = Idle <=> attempt[a].op \notin {"review", "reply"}
           /\ attempt[a] = Idle <=> attempt[a].op = "none"
  BY DEF ReviewTypeOK, AttemptRecord, Idle

\* A write only adds to what the calls under way have lost.
LEMMA TouchedRow ==
    ASSUME ReviewTypeOK, NEW W \in SUBSET Parties, NEW a \in Attempts
    PROVE  /\ attempt[a] = Idle => Touched(W)[a] = Idle
           /\ attempt[a] # Idle =>
                 /\ Touched(W)[a] \in AttemptRecord
                 /\ Touched(W)[a].op = attempt[a].op /\ Touched(W)[a].who = attempt[a].who
                 /\ Touched(W)[a].late = attempt[a].late /\ Touched(W)[a].saw = attempt[a].saw
                 /\ Touched(W)[a].lost = attempt[a].lost \cup W
<1> DEFINE t == attempt[a]
           d == [t EXCEPT !.lost = t.lost \cup W]
<1>1. Touched(W)[a] = IF t = Idle THEN Idle ELSE d
  BY DEF Touched
<1>2. CASE t = Idle
  BY <1>1, <1>2
<1>3. CASE t # Idle
  <2>1. t \in AttemptRecord
    BY <1>3, AttemptShape
  <2>2. /\ d \in AttemptRecord /\ d.op = t.op /\ d.who = t.who /\ d.late = t.late
        /\ d.saw = t.saw /\ d.lost = t.lost \cup W
    BY <2>1 DEF AttemptRecord
  <2> HIDE DEF d, t
  <2>3. QED BY <1>1, <1>3, <2>2 DEF t
<1>4. QED BY <1>2, <1>3

\* Writing the row of an attempt keeps the attempts' type.
LEMMA TouchedTyped ==
    ASSUME ReviewTypeOK, NEW W \in SUBSET Parties
    PROVE  /\ Touched(W) \in [Attempts -> {Idle} \cup AttemptRecord]
           /\ \A a \in Attempts : [Touched(W) EXCEPT ![a] = Idle]
                                     \in [Attempts -> {Idle} \cup AttemptRecord]
<1>1. \A a \in Attempts : Touched(W)[a] \in {Idle} \cup AttemptRecord
  BY TouchedRow
<1>2. Touched(W) = [a \in Attempts |-> Touched(W)[a]]
  BY DEF Touched
<1>3. Touched(W) \in [Attempts -> {Idle} \cup AttemptRecord]
  BY <1>1, <1>2
<1>4. QED BY <1>3

\* Of the calls that go on after a write of W, each is one from before.
LEMMA FinishedRow ==
    ASSUME ReviewTypeOK, NEW W \in SUBSET Parties, NEW a \in Attempts, Finished(a, W), NEW b \in Attempts
    PROVE  /\ attempt' \in [Attempts -> {Idle} \cup AttemptRecord]
           /\ b = a => attempt'[b] = Idle
           /\ attempt[b] = Idle => attempt'[b] = Idle
           /\ b # a /\ attempt[b] # Idle =>
                 /\ attempt'[b].op = attempt[b].op /\ attempt'[b].who = attempt[b].who
                 /\ attempt'[b].late = attempt[b].late /\ attempt'[b].saw = attempt[b].saw
                 /\ attempt'[b].lost = attempt[b].lost \cup W
<1>1. attempt' = [Touched(W) EXCEPT ![a] = Idle]
  BY DEF Finished
<1>2. Touched(W) \in [Attempts -> {Idle} \cup AttemptRecord]
  BY TouchedTyped
<1>3. attempt' \in [Attempts -> {Idle} \cup AttemptRecord]
  BY <1>1, TouchedTyped
<1>4. attempt'[b] = IF b = a THEN Idle ELSE Touched(W)[b]
  BY <1>1, <1>2
<1>5. QED BY <1>3, <1>4, TouchedRow

-----------------------------------------------------------------------------
(***************************************************************************)
(* What each transaction writes.                                           *)
(***************************************************************************)
ReviewDoc == [status : ReviewStatuses, createdAt : 0 .. LastReviewDay]

\* The reviews of a state of the right types, and how to show it of the next.
LEMMA ReviewsTyped ==
    ASSUME ReviewTypeOK
    PROVE  /\ day \in 1 .. LastReviewDay /\ ReviewWindow \in Nat /\ ReviewWindow >= 2
           /\ LastReviewDay \in Nat
           /\ reviewOf \in [Parties -> ReviewDoc]
           /\ \A w \in Parties : /\ reviewOf[w] \in ReviewDoc /\ Status(w) \in ReviewStatuses
                                 /\ reviewOf[w].createdAt \in Nat
                                 /\ Status(w) = "PENDING" => reviewOf[w].createdAt >= 1
  BY ReviewAssumption DEF ReviewTypeOK, ReviewDoc, ReviewStatuses, Status

\* Revealing a review leaves it a review.
LEMMA RevealedDoc ==
    ASSUME NEW x \in {"PUBLISHED", "HIDDEN"}, LastReviewDay \in Nat
    PROVE  /\ Reviewed(x) \in ReviewDoc /\ Reviewed(x).status = x /\ Reviewed(x).createdAt = 0
  BY DEF Reviewed, ReviewDoc, ReviewStatuses

\* The call of createReview that saw a pending review reveals both.
LEMMA CommitReviewEffect ==
    ASSUME ReviewTypeOK, NEW a \in Attempts, CommitReview(a)
    PROVE  LET t == attempt[a] IN
           /\ t \in AttemptRecord /\ t.op = "review" /\ t.who \in Parties
           /\ Writes(t) \in SUBSET Parties /\ Writes(t) \cap t.lost = {} /\ Finished(a, Writes(t))
           /\ t.who \in Writes(t)
           /\ t.saw = "PENDING" =>
                 /\ Writes(t) = Parties
                 /\ \A w \in Parties : reviewOf'[w] = Reviewed("PUBLISHED")
           /\ t.saw # "PENDING" =>
                 /\ Writes(t) = {t.who}
                 /\ reviewOf'[t.who] = [status |-> "PENDING", createdAt |-> day]
                 /\ reviewOf'[Other(t.who)] = reviewOf[Other(t.who)]
           /\ reviewOf' = [w \in Parties |-> reviewOf'[w]]
           /\ UNCHANGED <<day, replyTo, moderated, sweeps>>
<1> DEFINE t == attempt[a]
<1>1. t.op = "review" /\ Commits(t) /\ Finished(a, Writes(t))
      /\ UNCHANGED <<day, replyTo, moderated, sweeps>>
  BY DEF CommitReview
<1>2. t \in AttemptRecord
  BY <1>1, AttemptShape
<1>3. t.who \in Parties
  BY <1>2 DEF AttemptRecord
<1>4. reviewOf' = [w \in Parties |->
            IF w = t.who
            THEN [status |-> IF t.saw = "PENDING" THEN "PUBLISHED" ELSE "PENDING",
                  createdAt |-> IF t.saw = "PENDING" THEN 0 ELSE day]
            ELSE IF t.saw = "PENDING" THEN Reviewed("PUBLISHED") ELSE reviewOf[w]]
  BY DEF CommitReview
<1> HIDE DEF t
<1>5. Writes(t) = {t.who} \cup (IF t.saw = "PENDING" THEN {Other(t.who)} ELSE {})
  BY <1>1 DEF Writes
<1>6. /\ Other(t.who) \in Parties /\ Other(t.who) # t.who
      /\ \A v \in Parties : v = t.who \/ v = Other(t.who)
  BY <1>3, OtherParty
<1>7. /\ t.saw = "PENDING" => Writes(t) = Parties /\ \A w \in Parties : reviewOf'[w] = Reviewed("PUBLISHED")
      /\ t.saw # "PENDING" => /\ Writes(t) = {t.who}
                              /\ reviewOf'[t.who] = [status |-> "PENDING", createdAt |-> day]
                              /\ reviewOf'[Other(t.who)] = reviewOf[Other(t.who)]
  BY <1>3, <1>4, <1>5, <1>6 DEF Reviewed
<1>8. Writes(t) \in SUBSET Parties /\ t.who \in Writes(t)
  BY <1>3, <1>5, <1>6
<1>9. Writes(t) \cap t.lost = {}
  BY <1>1 DEF Commits
<1>10. reviewOf' = [w \in Parties |-> reviewOf'[w]]
  BY <1>4
<1>11. QED BY <1>1, <1>2, <1>3, <1>7, <1>8, <1>9, <1>10 DEF t

\* What the commit of a reply changes: the replied review, and nothing else of the documents.
LEMMA CommitReplyEffect ==
    ASSUME ReviewTypeOK, NEW a \in Attempts, CommitReply(a)
    PROVE  LET t == attempt[a] IN
           /\ t \in AttemptRecord /\ t.op = "reply" /\ t.who \in Parties
           /\ t.who \notin t.lost /\ Finished(a, {t.who})
           /\ replyTo' = [replyTo EXCEPT ![t.who] = a]
           /\ UNCHANGED <<day, reviewOf, moderated, sweeps>>
<1> DEFINE t == attempt[a]
<1>1. t.op = "reply" /\ Commits(t) /\ Finished(a, Writes(t))
      /\ replyTo' = [replyTo EXCEPT ![t.who] = a] /\ UNCHANGED <<day, reviewOf, moderated, sweeps>>
  BY DEF CommitReply
<1>2. t \in AttemptRecord
  BY <1>1, AttemptShape
<1>3. t.who \in Parties
  BY <1>2 DEF AttemptRecord
<1> HIDE DEF t
<1>4. Writes(t) = {t.who}
  BY <1>1 DEF Writes
<1>5. t.who \notin t.lost
  BY <1>1, <1>4 DEF Commits
<1>6. QED BY <1>1, <1>2, <1>3, <1>4, <1>5 DEF t

-----------------------------------------------------------------------------
\* Every step keeps the types.
LEMMA ReviewTypesStep == ReviewTypeOK /\ [ReviewNext]_reviewVars => ReviewTypeOK'
<1> SUFFICES ASSUME ReviewTypeOK, [ReviewNext]_reviewVars PROVE ReviewTypeOK'
  OBVIOUS
<1>0. ReviewTypeOK
  OBVIOUS
<1> DEFINE DocsOK == /\ reviewOf \in [Parties -> ReviewDoc]
                     /\ \A w \in Parties : reviewOf[w].createdAt > 0 <=> Status(w) = "PENDING"
           CallsOK == attempt \in [Attempts -> {Idle} \cup AttemptRecord]
           RestOK == /\ day \in 1 .. LastReviewDay
                     /\ replyTo \in [Parties -> Attempts \cup {0}] /\ moderated \subseteq Parties
                     /\ sweeps \subseteq [late : BOOLEAN, todo : SUBSET Parties]
                     /\ reviewEvents \subseteq {"ReviewCreated", "ReviewPublished", "ReviewReplied"} \X Parties
<1>a. DocsOK /\ CallsOK /\ RestOK
  BY DEF ReviewTypeOK, ReviewDoc, ReviewStatuses, AttemptRecord
<1>b. ASSUME DocsOK', CallsOK', RestOK' PROVE ReviewTypeOK'
  BY <1>b DEF ReviewTypeOK, ReviewDoc, ReviewStatuses, AttemptRecord
<1>c. ASSUME UNCHANGED reviewOf PROVE DocsOK'
  BY <1>a, <1>c DEF Status
<1>d. ASSUME NEW w \in Parties, NEW x \in {"PUBLISHED", "HIDDEN"},
             reviewOf' = [reviewOf EXCEPT ![w] = Reviewed(x)]
      PROVE  DocsOK'
  BY <1>0, <1>a, <1>d, RevealedDoc, ReviewAssumption DEF Status
<1>e. ASSUME NEW W \in SUBSET Parties, attempt' = Touched(W) \/ \E a \in Attempts : Finished(a, W)
      PROVE  CallsOK'
  <2>1. CASE attempt' = Touched(W)
    BY <1>0, <2>1, TouchedTyped
  <2>2. CASE \E a \in Attempts : Finished(a, W)
    BY <1>0, <2>2, TouchedTyped DEF Finished
  <2>3. QED BY <1>e, <2>1, <2>2
<1>1. CASE Midnight
  <2>1. DocsOK'
    BY <1>1, <1>c DEF Midnight
  <2>2. CallsOK'
    <3>1. \A a \in Attempts : attempt[a] # Idle => [attempt[a] EXCEPT !.late = TRUE] \in AttemptRecord
      <4>1. \A t \in AttemptRecord : [t EXCEPT !.late = TRUE] \in AttemptRecord
        BY DEF AttemptRecord
      <4>2. QED BY <1>a, <4>1
    <3>2. QED BY <1>1, <3>1 DEF Midnight
  <2>3. sweeps' \subseteq [late : BOOLEAN, todo : SUBSET Parties]
    <3>1. \A s \in [late : BOOLEAN, todo : SUBSET Parties] :
              [s EXCEPT !.late = TRUE] \in [late : BOOLEAN, todo : SUBSET Parties]
      OBVIOUS
    <3>2. sweeps' = {[s EXCEPT !.late = TRUE] : s \in sweeps}
      BY <1>1 DEF Midnight
    <3>3. QED BY <1>a, <3>1, <3>2
  <2>4. RestOK'
    BY <1>a, <1>1, <2>3, ReviewAssumption DEF Midnight
  <2>5. QED BY <1>b, <2>1, <2>2, <2>4
<1>2. ASSUME NEW a \in Attempts, NEW w \in Parties, BeginReview(a, w) \/ BeginReply(a, w)
      PROVE  ReviewTypeOK'
  <2>1. PICK t \in AttemptRecord : attempt' = [attempt EXCEPT ![a] = t]
    <3>1. CASE BeginReview(a, w)
      <4> DEFINE t == [op |-> "review", who |-> w, saw |-> Status(Other(w)), late |-> FALSE, lost |-> {}]
      <4>1. t \in AttemptRecord
        BY <1>0, OtherParty, ReviewsTyped DEF AttemptRecord, ReviewStatuses
      <4>2. attempt' = [attempt EXCEPT ![a] = t]
        BY <3>1 DEF BeginReview
      <4> HIDE DEF t
      <4>3. QED BY <4>1, <4>2
    <3>2. CASE BeginReply(a, w)
      <4> DEFINE t == [op |-> "reply", who |-> w, saw |-> "PUBLISHED", late |-> FALSE, lost |-> {}]
      <4>1. t \in AttemptRecord
        BY DEF AttemptRecord
      <4>2. attempt' = [attempt EXCEPT ![a] = t]
        BY <3>2 DEF BeginReply
      <4> HIDE DEF t
      <4>3. QED BY <4>1, <4>2
    <3>3. QED BY <1>2, <3>1, <3>2
  <2>2. UNCHANGED <<day, reviewOf, replyTo, moderated, sweeps, reviewEvents>>
    BY <1>2 DEF BeginReview, BeginReply
  <2>3. DocsOK'
    BY <1>c, <2>2
  <2>4. CallsOK'
    BY <1>a, <2>1
  <2>5. RestOK'
    BY <1>a, <2>2
  <2>6. QED BY <1>b, <2>3, <2>4, <2>5
<1>3. ASSUME NEW a \in Attempts, CommitReview(a) PROVE ReviewTypeOK'
  <2> DEFINE t == attempt[a]
  <2>1. /\ t.who \in Parties /\ Writes(t) \in SUBSET Parties /\ Finished(a, Writes(t))
        /\ t.saw = "PENDING" => \A w \in Parties : reviewOf'[w] = Reviewed("PUBLISHED")
        /\ t.saw # "PENDING" => /\ reviewOf'[t.who] = [status |-> "PENDING", createdAt |-> day]
                                /\ reviewOf'[Other(t.who)] = reviewOf[Other(t.who)]
        /\ reviewOf' = [w \in Parties |-> reviewOf'[w]]
        /\ UNCHANGED <<day, replyTo, moderated, sweeps>>
    BY <1>0, <1>3, CommitReviewEffect
  <2>2. reviewEvents' \subseteq {"ReviewCreated", "ReviewPublished", "ReviewReplied"} \X Parties
    BY <1>a, <1>3, <2>1 DEF CommitReview
  <2> HIDE DEF t
  <2>3. ASSUME NEW w \in Parties
        PROVE  /\ reviewOf'[w] \in ReviewDoc
               /\ reviewOf'[w].createdAt > 0 <=> reviewOf'[w].status = "PENDING"
    <3>1. CASE t.saw = "PENDING"
      BY <2>1, <3>1, RevealedDoc, ReviewAssumption
    <3>2. CASE t.saw # "PENDING" /\ w = t.who
      <4>1. reviewOf'[w] = [status |-> "PENDING", createdAt |-> day]
        BY <2>1, <3>2
      <4>2. day > 0 /\ day \in 0 .. LastReviewDay
        BY <1>a
      <4>3. QED BY <4>1, <4>2 DEF ReviewDoc, ReviewStatuses
    <3>3. CASE t.saw # "PENDING" /\ w # t.who
      BY <1>a, <2>1, <3>3, OtherParty DEF Status
    <3>4. QED BY <3>1, <3>2, <3>3
  <2>4. DocsOK'
    BY <2>1, <2>3 DEF Status
  <2>5. CallsOK'
    BY <1>e, <2>1
  <2>6. RestOK'
    BY <1>a, <2>1, <2>2
  <2>7. QED BY <1>b, <2>4, <2>5, <2>6
<1>4. ASSUME NEW a \in Attempts, CommitReply(a) PROVE ReviewTypeOK'
  <2>1. attempt[a].who \in Parties /\ {attempt[a].who} \in SUBSET Parties /\ Finished(a, {attempt[a].who})
        /\ replyTo' = [replyTo EXCEPT ![attempt[a].who] = a] /\ UNCHANGED <<day, reviewOf, moderated, sweeps>>
    BY <1>0, <1>4, CommitReplyEffect
  <2>2. reviewEvents' \subseteq {"ReviewCreated", "ReviewPublished", "ReviewReplied"} \X Parties
    BY <1>a, <1>4, <2>1 DEF CommitReply
  <2>3. CallsOK'
    BY <1>e, <2>1
  <2>4. replyTo' \in [Parties -> Attempts \cup {0}]
    BY <1>a, <2>1
  <2>5. RestOK'
    BY <1>a, <2>1, <2>2, <2>4
  <2>6. QED BY <1>b, <1>c, <2>1, <2>3, <2>5
<1>5. ASSUME NEW a \in Attempts, AbortAttempt(a) PROVE ReviewTypeOK'
  <2>1. {} \in SUBSET Parties /\ Finished(a, {})
        /\ UNCHANGED <<day, reviewOf, replyTo, moderated, sweeps, reviewEvents>>
    BY <1>5 DEF AbortAttempt
  <2>2. CallsOK'
    BY <1>e, <2>1
  <2>3. RestOK'
    BY <1>a, <2>1
  <2>4. QED BY <1>b, <1>c, <2>1, <2>2, <2>3
<1>6. ASSUME NEW w \in Parties, NEW x \in {"HIDDEN", "PUBLISHED"}, Moderate(w, x) PROVE ReviewTypeOK'
  <2>1. /\ reviewOf' = [reviewOf EXCEPT ![w] = Reviewed(x)] /\ moderated' = moderated \cup {w}
        /\ attempt' = Touched({w}) /\ {w} \in SUBSET Parties
        /\ UNCHANGED <<day, replyTo, sweeps, reviewEvents>>
    BY <1>6 DEF Moderate
  <2>2. DocsOK'
    BY <1>d, <2>1
  <2>3. CallsOK'
    BY <1>e, <2>1
  <2>4. RestOK'
    BY <1>a, <2>1
  <2>5. QED BY <1>b, <2>2, <2>3, <2>4
<1>7. CASE StartSweep
  <2>1. UNCHANGED <<day, reviewOf, replyTo, moderated, attempt, reviewEvents>>
        /\ sweeps' = sweeps \cup {[late |-> FALSE, todo |-> PendingReviewsOlderThan]}
    BY <1>7 DEF StartSweep
  <2>2. PendingReviewsOlderThan \in SUBSET Parties
    BY DEF PendingReviewsOlderThan
  <2>3. \A T \in SUBSET Parties : [late |-> FALSE, todo |-> T] \in [late : BOOLEAN, todo : SUBSET Parties]
    OBVIOUS
  <2>4. sweeps' \subseteq [late : BOOLEAN, todo : SUBSET Parties]
    BY <1>a, <2>1, <2>2, <2>3
  <2>5. RestOK' /\ CallsOK'
    BY <1>a, <2>1, <2>4
  <2>6. QED BY <1>b, <1>c, <2>1, <2>5
<1>8. ASSUME NEW s \in sweeps, NEW w \in s.todo, PublishExpired(s, w) PROVE ReviewTypeOK'
  <2>1. /\ reviewOf' = [reviewOf EXCEPT ![w] = Reviewed("PUBLISHED")] /\ attempt' = Touched({w})
        /\ UNCHANGED <<day, replyTo, moderated>> /\ Swept(s, w)
        /\ reviewEvents' = reviewEvents \cup {<<"ReviewPublished", w>>}
    BY <1>8 DEF PublishExpired
  <2>2. w \in Parties /\ {w} \in SUBSET Parties
    BY <1>a
  <2>3. sweeps' \subseteq [late : BOOLEAN, todo : SUBSET Parties]
    BY <1>a, <2>1 DEF Swept
  <2>4. DocsOK'
    BY <1>d, <2>1, <2>2
  <2>5. CallsOK'
    BY <1>e, <2>1, <2>2
  <2>6. RestOK'
    BY <1>a, <2>1, <2>2, <2>3
  <2>7. QED BY <1>b, <2>4, <2>5, <2>6
<1>9. ASSUME NEW s \in sweeps, SweepDies(s) \/ \E w \in s.todo : RowFails(s, w) PROVE ReviewTypeOK'
  <2>1. UNCHANGED <<day, reviewOf, replyTo, moderated, attempt, reviewEvents>>
    BY <1>9 DEF SweepDies, RowFails
  <2>2. sweeps' \subseteq [late : BOOLEAN, todo : SUBSET Parties]
    BY <1>a, <1>9 DEF SweepDies, RowFails, Swept
  <2>3. RestOK' /\ CallsOK'
    BY <1>a, <2>1, <2>2
  <2>4. QED BY <1>b, <1>c, <2>1, <2>3
<1>10. CASE UNCHANGED reviewVars
  BY <1>10 DEF reviewVars, ReviewTypeOK, Status
<1>11. QED BY <1>1, <1>2, <1>3, <1>4, <1>5, <1>6, <1>7, <1>8, <1>9, <1>10 DEF ReviewNext

-----------------------------------------------------------------------------
(***************************************************************************)
(* What the job lists, what an administrator hides, and when a lone review *)
(* is shown.                                                               *)
(***************************************************************************)
\* A review that exists does not vanish: the status of none is never set.
LEMMA StandingStep ==
    ASSUME ReviewInv, [ReviewNext]_reviewVars
    PROVE  Overdue' /\ HiddenByAdmin' /\ LoneIsLate'
<1>0. /\ ReviewTypeOK /\ Overdue /\ HiddenByAdmin /\ LoneIsLate
      /\ day \in Nat /\ ReviewWindow \in Nat /\ ReviewWindow >= 2
      /\ \A w \in Parties : Status(w) \in ReviewStatuses
      /\ reviewOf \in [Parties -> ReviewDoc]
      /\ \A w \in Parties : Other(w) \in Parties /\ Other(w) # w /\ Other(Other(w)) = w
      /\ \A s \in sweeps : s.todo \subseteq Parties
  BY ReviewsTyped, OtherParty DEF ReviewInv, ReviewTypeOK
\* One review becomes x, after the window or by an administrator.
<1>a. ASSUME NEW w \in Parties, NEW x \in {"PUBLISHED", "HIDDEN"},
             reviewOf' = [reviewOf EXCEPT ![w] = Reviewed(x)], Status(w) # "none",
             day' = day, moderated \subseteq moderated',
             \A s \in sweeps' : \E q \in sweeps : s.todo \subseteq q.todo,
             w \in moderated' \/ (x = "PUBLISHED" /\ day > ReviewWindow)
      PROVE  Overdue' /\ HiddenByAdmin' /\ LoneIsLate'
  <2>1. /\ Status(w)' = x
        /\ \A v \in Parties \ {w} : Status(v)' = Status(v)
    BY <1>0, <1>a DEF Status, Reviewed
  <2>2. \A v \in Parties : Status(v)' = "none" <=> Status(v) = "none"
    BY <1>a, <2>1
  <2>3. Overdue'
    BY <1>0, <1>a, <2>2 DEF Overdue
  <2>4. HiddenByAdmin'
    BY <1>0, <1>a, <2>1 DEF HiddenByAdmin
  <2>5. LoneIsLate'
    BY <1>0, <1>a, <2>1, <2>2 DEF LoneIsLate
  <2>6. QED BY <2>3, <2>4, <2>5
\* No review changes.
<1>b. ASSUME UNCHANGED <<reviewOf, moderated>>, day' >= day, day' \in Nat,
             \A s \in sweeps' : (\E q \in sweeps : s.todo \subseteq q.todo)
                                \/ \A w \in s.todo : w \in Parties /\ Status(w) # "none" /\ day > ReviewWindow
      PROVE  Overdue' /\ HiddenByAdmin' /\ LoneIsLate'
  <2>1. \A v : Status(v)' = Status(v)
    BY <1>b DEF Status
  <2>2. Overdue'
    BY <1>0, <1>b, <2>1 DEF Overdue
  <2>3. HiddenByAdmin' /\ LoneIsLate'
    BY <1>0, <1>b, <2>1 DEF HiddenByAdmin, LoneIsLate
  <2>4. QED BY <2>2, <2>3
<1>1. CASE Midnight
  <2>1. UNCHANGED <<reviewOf, moderated>> /\ day' = day + 1
        /\ sweeps' = {[s EXCEPT !.late = TRUE] : s \in sweeps}
    BY <1>1 DEF Midnight
  <2>2. \A s \in sweeps : [s EXCEPT !.late = TRUE].todo = s.todo
    BY <1>0 DEF ReviewTypeOK
  <2>3. \A s \in sweeps' : \E q \in sweeps : s.todo \subseteq q.todo
    BY <2>1, <2>2
  <2>4. QED BY <1>0, <1>b, <2>1, <2>3
<1>2. ASSUME NEW a \in Attempts, NEW w \in Parties, BeginReview(a, w) \/ BeginReply(a, w)
      PROVE  Overdue' /\ HiddenByAdmin' /\ LoneIsLate'
  <2>1. UNCHANGED <<day, reviewOf, moderated, sweeps>>
    BY <1>2 DEF BeginReview, BeginReply
  <2>2. QED BY <1>0, <1>b, <2>1
<1>3. ASSUME NEW a \in Attempts, CommitReview(a) PROVE Overdue' /\ HiddenByAdmin' /\ LoneIsLate'
  <2>1. PICK p \in Parties : p = attempt[a].who
    BY <1>0, <1>3, CommitReviewEffect
  <2>2. /\ \/ \A w \in Parties : reviewOf'[w] = Reviewed("PUBLISHED")
           \/ /\ reviewOf'[p] = [status |-> "PENDING", createdAt |-> day]
              /\ reviewOf'[Other(p)] = reviewOf[Other(p)]
        /\ UNCHANGED <<day, moderated, sweeps>>
    BY <1>0, <1>3, <2>1, CommitReviewEffect
  <2>3. \A w \in Parties : w = p \/ w = Other(p)
    BY OtherParty
  <2>4. CASE \A w \in Parties : reviewOf'[w] = Reviewed("PUBLISHED")
    <3>1. \A w \in Parties : Status(w)' = "PUBLISHED"
      BY <2>4 DEF Status, Reviewed
    <3>2. QED BY <1>0, <2>2, <3>1 DEF Overdue, HiddenByAdmin, LoneIsLate
  <2>5. CASE /\ reviewOf'[p] = [status |-> "PENDING", createdAt |-> day]
             /\ reviewOf'[Other(p)] = reviewOf[Other(p)]
    <3>1. Status(p)' = "PENDING" /\ Status(Other(p))' = Status(Other(p))
      BY <2>5 DEF Status
    <3>2. Overdue'
      BY <1>0, <2>2, <2>3, <3>1 DEF Overdue
    <3>3. HiddenByAdmin'
      BY <1>0, <2>2, <2>3, <3>1 DEF HiddenByAdmin
    <3>4. ASSUME NEW w \in Parties, Status(w)' = "PUBLISHED" PROVE Status(Other(w))' # "none"
      BY <1>0, <2>3, <3>1, <3>4
    <3>5. QED BY <3>2, <3>3, <3>4 DEF LoneIsLate
  <2>6. QED BY <2>2, <2>4, <2>5
<1>4. ASSUME NEW a \in Attempts, CommitReply(a) \/ AbortAttempt(a)
      PROVE  Overdue' /\ HiddenByAdmin' /\ LoneIsLate'
  <2>1. UNCHANGED <<day, reviewOf, moderated, sweeps>>
    BY <1>4 DEF CommitReply, AbortAttempt
  <2>2. QED BY <1>0, <1>b, <2>1
<1>5. ASSUME NEW w \in Parties, NEW x \in {"HIDDEN", "PUBLISHED"}, Moderate(w, x)
      PROVE  Overdue' /\ HiddenByAdmin' /\ LoneIsLate'
  <2>1. /\ reviewOf' = [reviewOf EXCEPT ![w] = Reviewed(x)] /\ moderated' = moderated \cup {w}
        /\ Status(w) # "none" /\ UNCHANGED <<day, sweeps>>
    BY <1>5 DEF Moderate
  <2>2. /\ w \in moderated' /\ moderated \subseteq moderated' /\ x \in {"PUBLISHED", "HIDDEN"}
        /\ (\A s \in sweeps' : \E q \in sweeps : s.todo \subseteq q.todo) /\ day' = day
    BY <2>1
  <2>3. QED BY <1>a, <2>1, <2>2
<1>6. CASE StartSweep
  <2>1. UNCHANGED <<day, reviewOf, moderated>>
        /\ sweeps' = sweeps \cup {[late |-> FALSE, todo |-> PendingReviewsOlderThan]}
    BY <1>6 DEF StartSweep
  <2>2. \A w \in PendingReviewsOlderThan : w \in Parties /\ Status(w) # "none" /\ day > ReviewWindow
    BY <1>0, ReviewsTyped DEF PendingReviewsOlderThan, Expired
  <2>3. QED BY <1>0, <1>b, <2>1, <2>2
<1>7. ASSUME NEW s \in sweeps, NEW w \in s.todo, PublishExpired(s, w)
      PROVE  Overdue' /\ HiddenByAdmin' /\ LoneIsLate'
  <2>1. /\ reviewOf' = [reviewOf EXCEPT ![w] = Reviewed("PUBLISHED")]
        /\ UNCHANGED <<day, moderated>> /\ Swept(s, w)
    BY <1>7 DEF PublishExpired
  <2>2. w \in Parties /\ Status(w) # "none" /\ day > ReviewWindow
    BY <1>0 DEF Overdue
  <2>3. \A r \in sweeps' : \E q \in sweeps : r.todo \subseteq q.todo
    <3>1. [s EXCEPT !.todo = s.todo \ {w}].todo \subseteq s.todo
      BY <1>0 DEF ReviewTypeOK
    <3>2. QED BY <2>1, <3>1 DEF Swept
  <2>4. QED BY <1>a, <2>1, <2>2, <2>3
<1>8. ASSUME NEW s \in sweeps, SweepDies(s) \/ \E w \in s.todo : RowFails(s, w)
      PROVE  Overdue' /\ HiddenByAdmin' /\ LoneIsLate'
  <2>1. UNCHANGED <<day, reviewOf, moderated>>
    BY <1>8 DEF SweepDies, RowFails
  <2>2. \A r \in sweeps' : \E q \in sweeps : r.todo \subseteq q.todo
    <3>1. \A w \in s.todo : [s EXCEPT !.todo = s.todo \ {w}].todo \subseteq s.todo
      BY <1>0 DEF ReviewTypeOK
    <3>2. QED BY <1>8, <3>1 DEF SweepDies, RowFails, Swept
  <2>3. QED BY <1>0, <1>b, <2>1, <2>2
<1>9. CASE UNCHANGED reviewVars
  <2>1. UNCHANGED <<day, reviewOf, moderated, sweeps>>
    BY <1>9 DEF reviewVars
  <2>2. QED BY <1>0, <1>b, <2>1
<1>10. QED BY <1>1, <1>2, <1>3, <1>4, <1>5, <1>6, <1>7, <1>8, <1>9 DEF ReviewNext

-----------------------------------------------------------------------------
(***************************************************************************)
(* What a call of createReview has seen stays true of it until it commits, *)
(* or it has lost.                                                         *)
(***************************************************************************)
LEMMA GoodReviewStep ==
    ASSUME ReviewInv, [ReviewNext]_reviewVars,
           NEW b \in Attempts, NEW t, t = attempt'[b], t.op = "review"
    PROVE  GoodReview(t)'
<1>0. /\ ReviewTypeOK /\ Overdue /\ HiddenByAdmin /\ LoneIsLate
      /\ day \in Nat /\ ReviewWindow \in Nat /\ ReviewWindow >= 2
      /\ reviewOf \in [Parties -> ReviewDoc]
      /\ \A v \in Parties : Status(v) \in ReviewStatuses /\ reviewOf[v].createdAt \in Nat
      /\ \A s \in sweeps : s.todo \subseteq Parties
  BY ReviewsTyped DEF ReviewInv, ReviewTypeOK
<1>1. ReviewTypeOK'
  BY <1>0, ReviewTypesStep
<1>2. t \in AttemptRecord
  <2>1. attempt'[b] \in {Idle} \cup AttemptRecord
    BY <1>1 DEF ReviewTypeOK, AttemptRecord
  <2>2. QED BY <2>1 DEF Idle
<1>3. PICK p \in Parties : p = t.who
  BY <1>2 DEF AttemptRecord
<1>4. PICK o \in Parties : o = Other(p)
  BY <1>3, OtherParty
<1>5. o # p /\ \A v \in Parties : v = p \/ v = o
  BY <1>4, OtherParty
<1>6. PICK q : q = attempt[b]
  OBVIOUS
<1>7. q.op = "review" => q \in AttemptRecord /\ GoodReview(q) /\ q # Idle
  BY <1>0, <1>6, AttemptShape DEF ReviewInv, Idle
<1>8. Slack(t) \in {0, 1}
  BY DEF Slack
\* The call was under way before this step.
<1>a. ASSUME q.op = "review", q.who = p, q.late = t.late, q.saw = t.saw, q.lost \subseteq t.lost,
             day' = day, moderated \subseteq moderated',
             reviewOf'[o] = reviewOf[o] \/ o \in t.lost,
             t.saw = "none" => NoneSeen(t)'
      PROVE  GoodReview(t)'
  <2>1. GoodReview(q)
    BY <1>7, <1>a
  <2>2. Slack(q) = Slack(t)
    BY <1>a DEF Slack
  <2>3. /\ day <= ReviewWindow + Slack(t)
        /\ t.saw = "PENDING" /\ o \notin q.lost => Status(o) = "PENDING"
        /\ t.saw \in {"PUBLISHED", "HIDDEN"} => o \in moderated
    BY <1>4, <1>a, <2>1, <2>2 DEF GoodReview
  <2>4. o \notin t.lost => Status(o)' = Status(o)
    BY <1>a DEF Status
  <2>5. QED BY <1>3, <1>4, <1>a, <2>3, <2>4 DEF GoodReview, Slack
\* The job goes on with no more than it had, and the reviews are as before.
<1>b. ASSUME q.op = "review", q.who = p, q.late = t.late, q.saw = t.saw, t.saw = "none", day' = day,
             UNCHANGED <<reviewOf, moderated>>,
             \A s \in sweeps' : \E r \in sweeps : s.todo \subseteq r.todo
      PROVE  NoneSeen(t)'
  <2>1. NoneSeen(q) /\ Slack(q) = Slack(t)
    BY <1>7, <1>b DEF GoodReview, Slack
  <2>2. \A v : Status(v)' = Status(v)
    BY <1>b DEF Status
  <2>3. QED BY <1>3, <1>4, <1>b, <2>1, <2>2 DEF NoneSeen, Slack
\* Nothing the call depends on has changed.
<1>c. ASSUME q.op = "review", q.who = p, q.late = t.late, q.saw = t.saw, q.lost \subseteq t.lost,
             UNCHANGED <<day, reviewOf, moderated>>,
             \A s \in sweeps' : \E r \in sweeps : s.todo \subseteq r.todo
      PROVE  GoodReview(t)'
  BY <1>a, <1>b, <1>c
<1>n. q.op = "review" /\ q.saw = "none" /\ q.who = p
          => /\ Status(o) = "PENDING" => reviewOf[o].createdAt >= day - Slack(q)
             /\ Status(p) = "none" /\ o \notin moderated => Status(o) \in {"none", "PENDING"}
             /\ \A s \in sweeps : o \notin s.todo
  BY <1>4, <1>7 DEF GoodReview, NoneSeen
\* One review is shown or hidden.
<1>d. ASSUME NEW w \in Parties, NEW x \in {"PUBLISHED", "HIDDEN"},
             q.op = "review", q.who = p, q.late = t.late, q.saw = t.saw, t.saw = "none", day' = day,
             reviewOf' = [reviewOf EXCEPT ![w] = Reviewed(x)], moderated \subseteq moderated',
             w = o => o \in moderated',
             \A s \in sweeps' : \E r \in sweeps : s.todo \subseteq r.todo
      PROVE  NoneSeen(t)'
  <2>1. Slack(q) = Slack(t)
    BY <1>d DEF Slack
  <2>2. Status(w)' = x /\ \A v \in Parties \ {w} : Status(v)' = Status(v) /\ reviewOf'[v] = reviewOf[v]
    BY <1>0, <1>d DEF Status, Reviewed
  <2>3. \A s \in sweeps' : o \notin s.todo
    BY <1>n, <1>d
  <2>4. Status(o)' = "PENDING" => reviewOf'[o].createdAt >= day' - Slack(t)
    BY <1>n, <1>d, <2>1, <2>2
  <2>5. Status(p)' = "none" /\ o \notin moderated' => Status(o)' \in {"none", "PENDING"}
    BY <1>5, <1>n, <1>d, <2>2
  <2>6. QED BY <1>3, <1>4, <2>3, <2>4, <2>5 DEF NoneSeen, Slack
<1>10. CASE Midnight
  <2>1. /\ UNCHANGED <<reviewOf, moderated>> /\ day' = day + 1
        /\ sweeps' = {[s EXCEPT !.late = TRUE] : s \in sweeps}
        /\ q # Idle => ~q.late
        /\ t = IF q = Idle THEN Idle ELSE [q EXCEPT !.late = TRUE]
    BY <1>6, <1>10 DEF Midnight
  <2>2. q # Idle
    BY <2>1 DEF Idle
  <2>3. q \in AttemptRecord
    BY <1>0, <1>6, <2>2, AttemptShape
  <2>4. /\ q.op = "review" /\ q.who = p /\ t.late = TRUE /\ q.late = FALSE
        /\ q.saw = t.saw /\ q.lost = t.lost
    BY <1>3, <2>1, <2>2, <2>3 DEF AttemptRecord
  <2>5. Slack(q) = 0 /\ Slack(t) = 1 /\ GoodReview(q)
    BY <1>7, <2>4 DEF Slack
  <2>6. \A s \in sweeps' : \E r \in sweeps : s.todo = r.todo
    BY <1>0, <2>1 DEF ReviewTypeOK
  <2>7. \A v : Status(v)' = Status(v)
    BY <2>1 DEF Status
  <2>8. /\ day <= ReviewWindow + 0
        /\ t.saw = "PENDING" /\ o \notin t.lost => Status(o) = "PENDING"
        /\ t.saw \in {"PUBLISHED", "HIDDEN"} => o \in moderated
    BY <1>4, <2>4, <2>5 DEF GoodReview
  <2>9. t.saw = "none" => NoneSeen(t)'
    <3>1. ASSUME t.saw = "none"
          PROVE  /\ Status(o)' = "PENDING" => reviewOf'[o].createdAt >= day' - 1
                 /\ Status(p)' = "none" /\ o \notin moderated' => Status(o)' \in {"none", "PENDING"}
                 /\ \A s \in sweeps' : o \notin s.todo
      BY <1>0, <1>n, <2>1, <2>4, <2>5, <2>6, <2>7, <3>1
    <3>2. QED BY <1>3, <1>4, <2>4, <3>1 DEF NoneSeen, Slack
  <2>10. day' <= ReviewWindow + 1
    BY <1>0, <2>1, <2>8
  <2>11. QED BY <1>3, <1>4, <2>1, <2>4, <2>7, <2>8, <2>9, <2>10 DEF GoodReview, Slack
<1>11. ASSUME NEW w \in Parties, BeginReview(b, w) PROVE GoodReview(t)'
  <2>1. /\ day <= ReviewWindow /\ Status(w) = "none"
        /\ UNCHANGED <<day, reviewOf, replyTo, moderated, sweeps, reviewEvents>>
        /\ attempt' = [attempt EXCEPT ![b] = [op |-> "review", who |-> w, saw |-> Status(Other(w)),
                                              late |-> FALSE, lost |-> {}]]
    BY <1>11 DEF BeginReview
  <2>2. t.who = w /\ t.saw = Status(o) /\ t.late = FALSE /\ p = w
    BY <1>0, <1>3, <1>4, <2>1 DEF ReviewTypeOK
  <2>3. \A v : Status(v)' = Status(v)
    BY <2>1 DEF Status
  <2>4. Slack(t) = 0
    BY <2>2 DEF Slack
  <2>5. t.saw \in {"PUBLISHED", "HIDDEN"} => o \in moderated'
    <3>1. Other(o) = p
      BY <1>3, <1>4, OtherParty
    <3>2. QED BY <1>0, <2>1, <2>2, <3>1 DEF HiddenByAdmin, LoneIsLate
  <2>6. t.saw = "none" => NoneSeen(t)'
    <3>1. ASSUME t.saw = "none"
          PROVE  Status(o)' = "none" /\ \A s \in sweeps' : o \notin s.todo
      BY <1>0, <2>1, <2>2, <2>3, <3>1 DEF Overdue
    <3>2. QED BY <1>3, <1>4, <3>1 DEF NoneSeen
  <2>7. day' <= ReviewWindow + 0
    BY <1>0, <2>1
  <2>8. QED BY <1>3, <1>4, <2>1, <2>2, <2>3, <2>5, <2>6, <2>7 DEF GoodReview, Slack
<1>12. ASSUME NEW a \in Attempts, NEW w \in Parties, BeginReview(a, w) \/ BeginReply(a, w),
              ~ BeginReview(b, w)
       PROVE  GoodReview(t)'
  <2>1. UNCHANGED <<day, reviewOf, replyTo, moderated, sweeps, reviewEvents>>
    BY <1>12 DEF BeginReview, BeginReply
  <2>2. t = q
    <3>1. CASE a = b
      BY <1>0, <1>12, <3>1 DEF BeginReply, ReviewTypeOK
    <3>2. CASE a # b
      BY <1>0, <1>6, <1>12, <3>2 DEF BeginReview, BeginReply, ReviewTypeOK
    <3>3. QED BY <3>1, <3>2
  <2>3. QED BY <1>3, <1>c, <2>1, <2>2
\* A transaction has ended: the call is one that goes on.
<1>e. ASSUME NEW a \in Attempts, NEW W \in SUBSET Parties, Finished(a, W)
      PROVE  /\ a # b /\ q.op = "review" /\ q.who = p /\ q.late = t.late
             /\ q.saw = t.saw /\ t.lost = q.lost \cup W
  <2>1. t # Idle
    BY DEF Idle
  <2>2. /\ b = a => attempt'[b] = Idle
        /\ attempt[b] = Idle => attempt'[b] = Idle
        /\ b # a /\ attempt[b] # Idle =>
              /\ attempt'[b].op = attempt[b].op /\ attempt'[b].who = attempt[b].who
              /\ attempt'[b].late = attempt[b].late /\ attempt'[b].saw = attempt[b].saw
              /\ attempt'[b].lost = attempt[b].lost \cup W
    BY <1>0, <1>e, FinishedRow DEF Finished
  <2>3. QED BY <1>3, <1>6, <2>1, <2>2
<1>13. ASSUME NEW a \in Attempts, CommitReview(a) PROVE GoodReview(t)'
  <2>1. PICK u : u = attempt[a]
    OBVIOUS
  <2>2. /\ u.who \in Parties /\ Writes(u) \in SUBSET Parties /\ Finished(a, Writes(u))
        /\ u.saw = "PENDING" => /\ Writes(u) = Parties
                                /\ \A w \in Parties : reviewOf'[w] = Reviewed("PUBLISHED")
        /\ u.saw # "PENDING" => /\ Writes(u) = {u.who}
                                /\ reviewOf'[u.who] = [status |-> "PENDING", createdAt |-> day]
                                /\ reviewOf'[Other(u.who)] = reviewOf[Other(u.who)]
        /\ UNCHANGED <<day, replyTo, moderated, sweeps>>
    BY <1>0, <1>13, <2>1, CommitReviewEffect
  <2>3. /\ a # b /\ q.op = "review" /\ q.who = p /\ q.late = t.late
        /\ q.saw = t.saw /\ t.lost = q.lost \cup Writes(u)
    BY <1>e, <2>2
  <2>4. Other(p) = o /\ Other(o) = p
    BY <1>3, <1>4, OtherParty
  <2>5. reviewOf'[o] = reviewOf[o] \/ o \in t.lost
    BY <1>5, <2>2, <2>3, <2>4
  <2>6. Slack(q) = Slack(t)
    BY <2>3 DEF Slack
  <2>7. ASSUME t.saw = "none" PROVE NoneSeen(t)'
    <3>1. CASE u.saw = "PENDING"
      <4>1. Status(o)' = "PUBLISHED" /\ Status(p)' = "PUBLISHED"
        BY <2>2, <3>1 DEF Status, Reviewed
      <4>2. \A s \in sweeps' : o \notin s.todo
        BY <1>n, <2>2, <2>3, <2>7
      <4>3. QED BY <1>3, <1>4, <4>1, <4>2 DEF NoneSeen
    <3>2. CASE u.saw # "PENDING" /\ u.who = p
      <4>1. Status(p)' = "PENDING" /\ Status(o)' = Status(o) /\ reviewOf'[o] = reviewOf[o]
        BY <2>2, <2>4, <3>2 DEF Status
      <4>2. /\ \A s \in sweeps' : o \notin s.todo
            /\ Status(o)' = "PENDING" => reviewOf'[o].createdAt >= day' - Slack(t)
        BY <1>n, <2>2, <2>3, <2>6, <2>7, <4>1
      <4>3. QED BY <1>3, <1>4, <4>1, <4>2 DEF NoneSeen, Slack
    <3>3. CASE u.saw # "PENDING" /\ u.who = o
      <4>1. Status(o)' = "PENDING" /\ reviewOf'[o].createdAt = day
        BY <2>2, <3>3 DEF Status
      <4>2. \A s \in sweeps' : o \notin s.todo
        BY <1>n, <2>2, <2>3, <2>7
      <4>3. day >= day' - Slack(t)
        BY <1>0, <1>8, <2>2
      <4>4. QED BY <1>3, <1>4, <4>1, <4>2, <4>3 DEF NoneSeen, Slack
    <3>4. QED BY <1>5, <2>2, <3>1, <3>2, <3>3
  <2>8. QED BY <1>a, <2>2, <2>3, <2>5, <2>7
<1>14. ASSUME NEW a \in Attempts, CommitReply(a) \/ AbortAttempt(a) PROVE GoodReview(t)'
  <2>1. \E W \in SUBSET Parties : Finished(a, W)
    <3>1. CASE CommitReply(a)
      BY <1>0, <3>1, CommitReplyEffect
    <3>2. CASE AbortAttempt(a)
      BY <3>2 DEF AbortAttempt
    <3>3. QED BY <1>14, <3>1, <3>2
  <2>2. UNCHANGED <<day, reviewOf, moderated, sweeps>>
    BY <1>14 DEF CommitReply, AbortAttempt
  <2>3. q.op = "review" /\ q.who = p /\ q.late = t.late /\ q.saw = t.saw /\ q.lost \subseteq t.lost
    BY <1>e, <2>1
  <2>4. QED BY <1>c, <2>2, <2>3
\* A single write takes the review from every call that has read it.
<1>f. ASSUME NEW w \in Parties, attempt' = Touched({w})
      PROVE  /\ q.op = "review" /\ q.who = p /\ q.late = t.late
             /\ q.saw = t.saw /\ t.lost = q.lost \cup {w}
  <2>1. t # Idle
    BY DEF Idle
  <2>2. {w} \in SUBSET Parties /\ t = Touched({w})[b]
    BY <1>f
  <2>3. q # Idle
    BY <1>0, <1>6, <2>1, <2>2, TouchedRow
  <2>4. QED BY <1>0, <1>3, <1>6, <2>2, <2>3, TouchedRow
<1>15. ASSUME NEW w \in Parties, NEW x \in {"HIDDEN", "PUBLISHED"}, Moderate(w, x) PROVE GoodReview(t)'
  <2>1. /\ reviewOf' = [reviewOf EXCEPT ![w] = Reviewed(x)] /\ moderated' = moderated \cup {w}
        /\ attempt' = Touched({w}) /\ UNCHANGED <<day, replyTo, sweeps, reviewEvents>>
    BY <1>15 DEF Moderate
  <2>2. /\ q.op = "review" /\ q.who = p /\ q.late = t.late
        /\ q.saw = t.saw /\ t.lost = q.lost \cup {w}
    BY <1>f, <2>1
  <2>3. reviewOf'[o] = reviewOf[o] \/ o \in t.lost
    BY <1>0, <2>1, <2>2
  <2>4. /\ moderated \subseteq moderated' /\ (w = o => o \in moderated') /\ day' = day
        /\ \A s \in sweeps' : \E r \in sweeps : s.todo \subseteq r.todo
    BY <2>1
  <2>5. t.saw = "none" => NoneSeen(t)'
    BY <1>d, <2>1, <2>2, <2>4
  <2>6. QED BY <1>a, <2>2, <2>3, <2>4, <2>5
<1>16. CASE StartSweep
  <2>1. UNCHANGED <<day, reviewOf, replyTo, moderated, attempt, reviewEvents>>
        /\ sweeps' = sweeps \cup {[late |-> FALSE, todo |-> PendingReviewsOlderThan]}
    BY <1>16 DEF StartSweep
  <2>2. q = t
    BY <1>6, <2>1
  <2>3. ASSUME t.saw = "none" PROVE NoneSeen(t)'
    <3>1. o \notin PendingReviewsOlderThan
      <4>1. Status(o) = "PENDING" => reviewOf[o].createdAt >= day - Slack(t)
        BY <1>3, <1>n, <2>2, <2>3
      <4>2. QED BY <1>0, <1>8, <4>1 DEF PendingReviewsOlderThan, Expired
    <3>2. \A s \in sweeps' : o \notin s.todo
      BY <1>3, <1>n, <2>1, <2>2, <2>3, <3>1
    <3>3. \A v : Status(v)' = Status(v)
      BY <2>1 DEF Status
    <3>4. QED BY <1>3, <1>4, <1>n, <2>1, <2>2, <2>3, <3>2, <3>3 DEF NoneSeen, Slack
  <2>4. QED BY <1>3, <1>a, <2>1, <2>2, <2>3
<1>17. ASSUME NEW s \in sweeps, NEW w \in s.todo, PublishExpired(s, w) PROVE GoodReview(t)'
  <2>1. /\ reviewOf' = [reviewOf EXCEPT ![w] = Reviewed("PUBLISHED")] /\ attempt' = Touched({w})
        /\ UNCHANGED <<day, replyTo, moderated>> /\ Swept(s, w)
    BY <1>17 DEF PublishExpired
  <2>2. w \in Parties
    BY <1>0
  <2>3. /\ q.op = "review" /\ q.who = p /\ q.late = t.late
        /\ q.saw = t.saw /\ t.lost = q.lost \cup {w}
    BY <1>f, <2>1, <2>2
  <2>4. reviewOf'[o] = reviewOf[o] \/ o \in t.lost
    BY <1>0, <2>1, <2>2, <2>3
  <2>5. \A r \in sweeps' : \E x \in sweeps : r.todo \subseteq x.todo
    <3>1. [s EXCEPT !.todo = s.todo \ {w}].todo \subseteq s.todo
      BY <1>0 DEF ReviewTypeOK
    <3>2. QED BY <2>1, <3>1 DEF Swept
  <2>6. t.saw = "none" => w # o
    BY <1>n, <2>3
  <2>7. t.saw = "none" => NoneSeen(t)'
    BY <1>d, <2>1, <2>2, <2>3, <2>5, <2>6
  <2>8. QED BY <1>a, <2>1, <2>3, <2>4, <2>7
<1>18. ASSUME NEW s \in sweeps, SweepDies(s) \/ \E w \in s.todo : RowFails(s, w) PROVE GoodReview(t)'
  <2>1. UNCHANGED <<day, reviewOf, replyTo, moderated, attempt, reviewEvents>>
    BY <1>18 DEF SweepDies, RowFails
  <2>2. \A r \in sweeps' : \E x \in sweeps : r.todo \subseteq x.todo
    <3>1. \A w \in s.todo : [s EXCEPT !.todo = s.todo \ {w}].todo \subseteq s.todo
      BY <1>0 DEF ReviewTypeOK
    <3>2. QED BY <1>18, <3>1 DEF SweepDies, RowFails, Swept
  <2>3. q = t
    BY <1>6, <2>1
  <2>4. QED BY <1>3, <1>c, <2>1, <2>2, <2>3
<1>19. CASE UNCHANGED reviewVars
  <2>1. UNCHANGED <<day, reviewOf, replyTo, moderated, attempt, sweeps, reviewEvents>>
    BY <1>19 DEF reviewVars
  <2>2. q = t
    BY <1>6, <2>1
  <2>3. QED BY <1>3, <1>c, <2>1, <2>2
<1>20. QED BY <1>10, <1>11, <1>12, <1>13, <1>14, <1>15, <1>16, <1>17, <1>18, <1>19 DEF ReviewNext

-----------------------------------------------------------------------------
\* A call of replyToReview has read that there is no reply, or it has lost.
LEMMA GoodReplyStep ==
    ASSUME ReviewInv, [ReviewNext]_reviewVars,
           NEW b \in Attempts, NEW t, t = attempt'[b], t.op = "reply"
    PROVE  GoodReply(t)'
<1>0. ReviewTypeOK /\ replyTo \in [Parties -> Attempts \cup {0}]
  BY DEF ReviewInv, ReviewTypeOK
<1>1. t # Idle
  BY DEF Idle
<1>2. PICK q : q = attempt[b]
  OBVIOUS
<1>3. q.op = "reply" => GoodReply(q)
  BY <1>2 DEF ReviewInv
<1>a. ASSUME q.op = "reply", q.who = t.who, q.lost \subseteq t.lost,
             replyTo'[t.who] = replyTo[t.who] \/ t.who \in t.lost
      PROVE  GoodReply(t)'
  BY <1>3, <1>a DEF GoodReply
<1>e. ASSUME NEW a \in Attempts, NEW W \in SUBSET Parties, Finished(a, W)
      PROVE  q.op = "reply" /\ q.who = t.who /\ t.lost = q.lost \cup W
  <2>1. /\ b = a => attempt'[b] = Idle
        /\ attempt[b] = Idle => attempt'[b] = Idle
        /\ b # a /\ attempt[b] # Idle =>
              /\ attempt'[b].op = attempt[b].op /\ attempt'[b].who = attempt[b].who
              /\ attempt'[b].late = attempt[b].late /\ attempt'[b].saw = attempt[b].saw
              /\ attempt'[b].lost = attempt[b].lost \cup W
    BY <1>0, <1>e, FinishedRow DEF Finished
  <2>2. QED BY <1>1, <1>2, <2>1
<1>f. ASSUME NEW w \in Parties, attempt' = Touched({w})
      PROVE  q.op = "reply" /\ q.who = t.who /\ q.lost \subseteq t.lost
  <2>1. {w} \in SUBSET Parties /\ t = Touched({w})[b]
    BY <1>f
  <2>2. q # Idle
    BY <1>0, <1>1, <1>2, <2>1, TouchedRow
  <2>3. QED BY <1>0, <1>2, <2>1, <2>2, TouchedRow
<1>4. CASE Midnight
  <2>1. t = (IF q = Idle THEN Idle ELSE [q EXCEPT !.late = TRUE]) /\ UNCHANGED replyTo
    BY <1>2, <1>4 DEF Midnight
  <2>2. q # Idle /\ q \in AttemptRecord
    BY <1>0, <1>1, <1>2, <2>1, AttemptShape
  <2>3. q.op = t.op /\ q.who = t.who /\ q.lost = t.lost
    BY <2>1, <2>2 DEF AttemptRecord
  <2>4. QED BY <1>a, <2>1, <2>3
<1>5. ASSUME NEW a \in Attempts, NEW w \in Parties, BeginReview(a, w) \/ BeginReply(a, w)
      PROVE  GoodReply(t)'
  <2>1. UNCHANGED replyTo
    BY <1>5 DEF BeginReview, BeginReply
  <2>2. CASE a # b
    <3>1. t = q
      BY <1>0, <1>2, <1>5, <2>2 DEF BeginReview, BeginReply, ReviewTypeOK
    <3>2. QED BY <1>a, <2>1, <3>1
  <2>3. CASE a = b
    <3>1. BeginReply(b, w)
      BY <1>0, <1>5, <2>3 DEF BeginReview, ReviewTypeOK
    <3>2. t.who = w /\ replyTo[w] = 0
      BY <1>0, <3>1 DEF BeginReply, ReviewTypeOK
    <3>3. QED BY <2>1, <3>2 DEF GoodReply
  <2>4. QED BY <2>2, <2>3
<1>6. ASSUME NEW a \in Attempts, CommitReview(a) PROVE GoodReply(t)'
  <2>1. PICK W \in SUBSET Parties : Finished(a, W)
    BY <1>0, <1>6, CommitReviewEffect
  <2>2. UNCHANGED replyTo
    BY <1>6 DEF CommitReview
  <2>3. QED BY <1>a, <1>e, <2>1, <2>2
<1>7. ASSUME NEW a \in Attempts, CommitReply(a) PROVE GoodReply(t)'
  <2>1. PICK w \in Parties : w = attempt[a].who
    BY <1>0, <1>7, CommitReplyEffect
  <2>2. Finished(a, {w}) /\ replyTo' = [replyTo EXCEPT ![w] = a] /\ {w} \in SUBSET Parties
    BY <1>0, <1>7, <2>1, CommitReplyEffect
  <2>3. q.op = "reply" /\ q.who = t.who /\ t.lost = q.lost \cup {w}
    BY <1>e, <2>2
  <2>4. replyTo'[t.who] = replyTo[t.who] \/ t.who \in t.lost
    BY <1>0, <2>2, <2>3
  <2>5. QED BY <1>a, <2>3, <2>4
<1>8. ASSUME NEW a \in Attempts, AbortAttempt(a) PROVE GoodReply(t)'
  <2>1. Finished(a, {}) /\ {} \in SUBSET Parties /\ UNCHANGED replyTo
    BY <1>8 DEF AbortAttempt
  <2>2. QED BY <1>a, <1>e, <2>1
<1>9. ASSUME NEW w \in Parties, NEW x \in {"HIDDEN", "PUBLISHED"}, Moderate(w, x) PROVE GoodReply(t)'
  <2>1. attempt' = Touched({w}) /\ UNCHANGED replyTo
    BY <1>9 DEF Moderate
  <2>2. QED BY <1>a, <1>f, <2>1
<1>10. ASSUME NEW s \in sweeps, NEW w \in s.todo, PublishExpired(s, w) PROVE GoodReply(t)'
  <2>1. attempt' = Touched({w}) /\ UNCHANGED replyTo
    BY <1>10 DEF PublishExpired
  <2>2. w \in Parties
    BY <1>0 DEF ReviewTypeOK
  <2>3. QED BY <1>a, <1>f, <2>1, <2>2
<1>11. CASE \/ StartSweep \/ UNCHANGED reviewVars
            \/ \E s \in sweeps : SweepDies(s) \/ \E w \in s.todo : RowFails(s, w)
  <2>1. UNCHANGED <<replyTo, attempt>>
    BY <1>11 DEF StartSweep, SweepDies, RowFails, reviewVars
  <2>2. QED BY <1>2, <1>a, <2>1
<1>12. QED BY <1>4, <1>5, <1>6, <1>7, <1>8, <1>9, <1>10, <1>11 DEF ReviewNext

\* No review is written yet.
LEMMA ReviewInvInit == ReviewInit => ReviewInv
<1> SUFFICES ASSUME ReviewInit PROVE ReviewInv
  OBVIOUS
<1>1. ReviewTypeOK
  BY ReviewAssumption DEF ReviewInit, ReviewTypeOK, NoReview, Status, Parties
<1>2. \A w \in Parties : Status(w) = "none"
  BY DEF ReviewInit, NoReview, Status
<1>3. Overdue /\ HiddenByAdmin /\ LoneIsLate
  BY <1>2 DEF ReviewInit, Overdue, HiddenByAdmin, LoneIsLate
<1>4. \A a \in Attempts : attempt[a].op = "none"
  BY DEF ReviewInit, Idle
<1>5. QED BY <1>1, <1>3, <1>4 DEF ReviewInv

\* Every call and the job keep the invariant of the reviews.
LEMMA ReviewInvStep == ReviewInv /\ [ReviewNext]_reviewVars => ReviewInv'
<1> SUFFICES ASSUME ReviewInv, [ReviewNext]_reviewVars PROVE ReviewInv'
  OBVIOUS
<1>1. ReviewTypeOK'
  BY ReviewTypesStep DEF ReviewInv
<1>2. Overdue' /\ HiddenByAdmin' /\ LoneIsLate'
  BY StandingStep
<1>3. ASSUME NEW b \in Attempts, attempt'[b].op = "review" PROVE GoodReview(attempt[b])'
  <2>1. PICK t : t = attempt'[b]
    OBVIOUS
  <2>2. GoodReview(t)'
    BY <1>3, <2>1, GoodReviewStep
  <2>3. QED BY <2>1, <2>2 DEF GoodReview, NoneSeen, Slack
<1>4. ASSUME NEW b \in Attempts, attempt'[b].op = "reply" PROVE GoodReply(attempt[b])'
  <2>1. PICK t : t = attempt'[b]
    OBVIOUS
  <2>2. GoodReply(t)'
    BY <1>4, <2>1, GoodReplyStep
  <2>3. QED BY <2>1, <2>2 DEF GoodReply
<1>5. QED BY <1>1, <1>2, <1>3, <1>4 DEF ReviewInv

\* The invariant of the reviews holds always.
LEMMA ReviewInvAlways == ReviewSpec => []ReviewInv
  BY ReviewInvInit, ReviewInvStep, PTL DEF ReviewSpec

-----------------------------------------------------------------------------
(***************************************************************************)
(* Types, for any number of days, of calls under way and of runs of the    *)
(* job: reviews, replies and transactions of reviews.service.ts.           *)
(***************************************************************************)
THEOREM ReviewsAreTyped == ReviewSpec => []ReviewTypeOK
<1>1. ReviewInv => ReviewTypeOK
  BY DEF ReviewInv
<1>2. QED BY <1>1, ReviewInvAlways, PTL

(***************************************************************************)
(* replyToReview: a reply is never replaced, however many calls have read  *)
(* that there is none: the snapshot lets one of them commit.               *)
(***************************************************************************)
THEOREM RepliesAreFinal == ReviewSpec => ReplyIsFinal
<1> DEFINE Final == \A w \in Parties : replyTo[w] # 0 => replyTo'[w] = replyTo[w]
<1>1. ASSUME ReviewInv, [ReviewNext]_reviewVars PROVE [Final]_reviewVars
  <2>0. ReviewTypeOK /\ replyTo \in [Parties -> Attempts \cup {0}]
    BY <1>1 DEF ReviewInv, ReviewTypeOK
  <2>1. ASSUME NEW a \in Attempts, CommitReply(a) PROVE Final
    <3>1. PICK w \in Parties : w = attempt[a].who
      BY <2>0, <2>1, CommitReplyEffect
    <3>2. attempt[a].op = "reply" /\ w \notin attempt[a].lost /\ replyTo' = [replyTo EXCEPT ![w] = a]
      BY <2>0, <2>1, <3>1, CommitReplyEffect
    <3>3. replyTo[w] = 0
      BY <1>1, <3>1, <3>2 DEF ReviewInv, GoodReply
    <3>4. QED BY <2>0, <3>2, <3>3
  <2>2. CASE replyTo' = replyTo
    BY <2>2
  <2>3. replyTo' = replyTo \/ \E a \in Attempts : CommitReply(a)
    BY <1>1 DEF ReviewNext, reviewVars, Midnight, BeginReview, BeginReply, CommitReview, AbortAttempt,
                Moderate, StartSweep, SweepDies, PublishExpired, RowFails
  <2>4. QED BY <2>1, <2>2, <2>3
<1>2. QED BY <1>1, ReviewInvAlways, PTL DEF ReviewSpec, ReplyIsFinal

(***************************************************************************)
(* Reviews are blind: while no administrator has touched the other review, *)
(* nobody writes his own after he could read it.  It takes the window that *)
(* counts from the end of the auction, the age of the review at which the  *)
(* job shows it, and the snapshot on which createReview has read.          *)
(***************************************************************************)
THEOREM ReviewsAreBlind == ReviewSpec => NoReviewAfterReveal
<1> DEFINE Blind == \A w \in Parties :
               (Status(w) = "none" /\ reviewOf'[w].status # "none" /\ Other(w) \notin moderated)
                   => Status(Other(w)) # "PUBLISHED"
<1>1. ASSUME ReviewInv, [ReviewNext]_reviewVars PROVE Blind
  <2>0. /\ ReviewTypeOK /\ Overdue /\ reviewOf \in [Parties -> ReviewDoc]
        /\ \A s \in sweeps : s.todo \subseteq Parties
    BY <1>1, ReviewsTyped DEF ReviewInv, ReviewTypeOK
  <2>1. ASSUME NEW w \in Parties, Status(w) = "none", reviewOf'[w].status # "none",
               Other(w) \notin moderated
        PROVE  Status(Other(w)) # "PUBLISHED"
    <3>0. reviewOf'[w] # reviewOf[w]
      BY <2>1 DEF Status
    <3>1. ASSUME NEW v \in Parties, NEW x, Status(v) # "none", reviewOf' = [reviewOf EXCEPT ![v] = x]
          PROVE  FALSE
      BY <2>0, <2>1, <3>0, <3>1
    <3>2. PICK a \in Attempts : CommitReview(a)
      <4>1. ASSUME NEW v \in Parties, NEW x \in {"HIDDEN", "PUBLISHED"}, Moderate(v, x) PROVE FALSE
        BY <3>1, <4>1 DEF Moderate
      <4>2. ASSUME NEW s \in sweeps, NEW v \in s.todo, PublishExpired(s, v) PROVE FALSE
        BY <2>0, <3>1, <4>2 DEF PublishExpired, Overdue
      <4>3. QED BY <1>1, <3>0, <4>1, <4>2
              DEF ReviewNext, reviewVars, Midnight, BeginReview, BeginReply, CommitReply,
                  AbortAttempt, StartSweep, SweepDies, RowFails
    <3>3. PICK u : u = attempt[a]
      OBVIOUS
    <3>4. /\ u.op = "review" /\ u.who \in Parties /\ Writes(u) \cap u.lost = {} /\ u \in AttemptRecord
          /\ u.saw = "PENDING" => Writes(u) = Parties
          /\ u.saw # "PENDING" => reviewOf'[Other(u.who)] = reviewOf[Other(u.who)]
      BY <2>0, <3>2, <3>3, CommitReviewEffect
    <3>5. GoodReview(u)
      BY <1>1, <3>3, <3>4 DEF ReviewInv
    <3>6. PICK p \in Parties : p = u.who
      BY <3>4
    <3>7. Other(p) \in Parties /\ Other(Other(p)) = p /\ (w = p \/ w = Other(p))
      BY OtherParty
    <3>8. CASE u.saw = "PENDING"
      <4>1. Status(Other(p)) = "PENDING"
        BY <3>4, <3>5, <3>6, <3>7, <3>8 DEF GoodReview
      <4>2. w = p
        BY <2>1, <3>7, <4>1
      <4>3. QED BY <4>1, <4>2
    <3>9. CASE u.saw # "PENDING"
      <4>1. w = p
        BY <3>0, <3>4, <3>6, <3>7, <3>9
      <4>2. u.saw = "none"
        BY <2>1, <3>4, <3>5, <3>6, <3>9, <4>1 DEF GoodReview, AttemptRecord
      <4>3. QED BY <2>1, <3>5, <3>6, <4>1, <4>2 DEF GoodReview, NoneSeen
    <3>10. QED BY <3>8, <3>9
  <2>2. QED BY <2>1
<1>2. QED BY <1>1, ReviewInvAlways, PTL DEF ReviewSpec, NoReviewAfterReveal

-----------------------------------------------------------------------------
(***************************************************************************)
(* Notifications: every handler is a list of at most four steps, and a     *)
(* consumer takes them in order.                                           *)
(***************************************************************************)
StepFields == [by : {"mail", "inApp"}, to : Roles, checked : BOOLEAN]

\* A list of at most four steps.
Listing(s) == s \in Seq(StepFields) /\ Len(s) \in 1 .. 4

\* The lists the handlers are built from.
LEMMA ListingsOf ==
    ASSUME NEW r \in Roles
    PROVE  /\ Listing(<<Mail(r)>>) /\ Listing(<<MailUnchecked(r)>>) /\ Listing(<<InApp(r)>>)
           /\ Len(<<InApp(r)>>) = 1
           /\ Listing(Both(r)) /\ Len(Both(r)) = 2
<1>1. Mail(r) \in StepFields /\ MailUnchecked(r) \in StepFields /\ InApp(r) \in StepFields
  BY DEF Mail, MailUnchecked, InApp, StepFields
<1> HIDE DEF StepFields
<1>2. \A x \in StepFields : <<x>> \in Seq(StepFields) /\ Len(<<x>>) = 1
  OBVIOUS
<1>3. \A x \in StepFields, y \in StepFields : <<x, y>> \in Seq(StepFields) /\ Len(<<x, y>>) = 2
  OBVIOUS
<1>4. QED BY <1>1, <1>2, <1>3 DEF Listing, Both

\* Two lists behind each other.
LEMMA ListingsJoined ==
    ASSUME NEW s, NEW t, Listing(s), Listing(t), Len(s) + Len(t) <= 4
    PROVE  Listing(s \o t)
<1>1. s \o t \in Seq(StepFields) /\ Len(s \o t) = Len(s) + Len(t)
  BY ConcatProperties DEF Listing
<1>2. QED BY <1>1 DEF Listing

\* Every handler takes at most four steps.
LEMMA StepsListed ==
    ASSUME NEW type \in NotifiedTypes
    PROVE  Listing(Steps(type))
<1>1. \A r \in Roles, q \in Roles : Listing(Both(r) \o Both(q))
  <2>1. SUFFICES ASSUME NEW r \in Roles, NEW q \in Roles PROVE Listing(Both(r) \o Both(q))
    OBVIOUS
  <2>2. PICK s, t : s = Both(r) /\ t = Both(q)
    OBVIOUS
  <2>3. Listing(s) /\ Listing(t) /\ Len(s) = 2 /\ Len(t) = 2
    BY <2>2, ListingsOf
  <2>4. Len(s) + Len(t) <= 4
    BY <2>3
  <2>5. Listing(s \o t)
    BY <2>3, <2>4, ListingsJoined
  <2>6. QED BY <2>2, <2>5
<1>2. Listing(BidPlaced)
  <2>1. PICK r \in Roles, q \in Roles : r = "seller" /\ q = "bidder"
    BY DEF Roles
  <2>2. PICK s, t : s = <<InApp(r)>> /\ t = Both(q)
    OBVIOUS
  <2>3. Listing(s) /\ Listing(t) /\ Len(s) = 1 /\ Len(t) = 2
    BY <2>2, ListingsOf
  <2>4. Len(s) + Len(t) <= 4
    BY <2>3
  <2>5. Listing(s \o t)
    BY <2>3, <2>4, ListingsJoined
  <2>6. QED BY <2>1, <2>2, <2>5 DEF BidPlaced
<1>3. ASSUME NEW a \in StepFields, NEW b \in StepFields PROVE Listing(<<a, b>>)
  BY DEF Listing
<1>4. ASSUME NEW a \in StepFields, NEW b \in StepFields, NEW c \in StepFields, NEW d \in StepFields
      PROVE  Listing(<<a, b, c, d>>)
  BY DEF Listing
<1>5. \A r \in Roles : Mail(r) \in StepFields /\ InApp(r) \in StepFields
  BY DEF Mail, InApp, StepFields
<1> HIDE DEF Listing
<1>6. /\ Listing(EscrowCreated) /\ Listing(EscrowReleased) /\ Listing(EscrowRefunded)
      /\ Listing(DisputeCancelled) /\ Listing(DisputeOpened) /\ Listing(DisputeResolved)
  BY <1>3, <1>4, <1>5 DEF EscrowCreated, EscrowReleased, EscrowRefunded, DisputeCancelled,
                          DisputeOpened, DisputeResolved, Roles
<1>7. /\ Listing(AuctionStarted) /\ Listing(AuctionCancelled) /\ Listing(AuctionCancelledByAdmin)
      /\ Listing(AuctionEnded)
  BY <1>1, ListingsOf DEF AuctionStarted, AuctionCancelled, AuctionCancelledByAdmin, AuctionEnded, Roles
<1>8. /\ Listing(UserRegistered) /\ Listing(EmailVerified) /\ Listing(PasswordReset)
      /\ Listing(PasswordChanged) /\ Listing(WalletDeposited) /\ Listing(WithdrawalRequested)
      /\ Listing(WithdrawalCompleted) /\ Listing(WithdrawalRejected)
      /\ Listing(AccountReactivationRequested) /\ Listing(AccountReactivated)
      /\ Listing(ChatMessageSent) /\ Listing(ReviewPublished) /\ Listing(ReviewReplied)
      /\ Listing(AutoBidPlaced) /\ Listing(AutoBidExhausted)
  BY ListingsOf DEF UserRegistered, EmailVerified, PasswordReset, PasswordChanged,
     WalletDeposited, WithdrawalRequested, WithdrawalCompleted, WithdrawalRejected,
     AccountReactivationRequested, AccountReactivated, ChatMessageSent, ReviewPublished,
     ReviewReplied, AutoBidPlaced, AutoBidExhausted, Roles
<1>9. QED BY <1>2, <1>6, <1>7, <1>8 DEF Steps, NotifiedTypes

\* A try at an event: its publication and how often it was sent back.
Tries == NotificationEvents \X (1 .. MaxPublications) \X (0 .. MaxRetries)

NotificationTypes ==
    /\ DeliveryTypeOK(NotificationEvents)
    /\ toHappen \subseteq NotificationEvents
    /\ blocked \subseteq Blockable
    /\ doing \subseteq Tries \X (1 .. 4)
    /\ told \cup unstored \subseteq NotificationEvents \X (1 .. 4)

\* The i-th step of the handler of e was taken, or is not to be taken.
Heard(e, i) ==
    \/ <<e, i>> \in told \cup unstored
    \/ StepsOf(e)[i].checked /\ StepsOf(e)[i].to \in blocked

AllHeard(e) == \A i \in 1 .. Len(StepsOf(e)) : Heard(e, i)

\* The steps of a try that were taken are the first ones of its handler.
InOrder ==
    \A a \in Tries : \E k \in 0 .. Len(StepsOf(a[1])) :
        \A i \in 1 .. 4 : <<a, i>> \in doing <=> i \in 1 .. k

TakenAreHeard == \A a \in Tries, i \in 1 .. 4 : <<a, i>> \in doing => Heard(a[1], i)

\* What a consumer is done with was heard.
HandledAreHeard ==
    /\ \A c \in copies : c.queue = "notifications" /\ (c.at = "handled" => AllHeard(c.event))
    /\ \A e \in keys : AllHeard(e)

\* An event that was published is on its way, or given up, or was heard.
NoneForgotten ==
    \A e \in NotificationEvents : PublicationsOf(e) # {} =>
        OnItsWay("notifications", e) \/ <<"notifications", e>> \in dead \/ AllHeard(e)

NotificationInv ==
    NotificationTypes /\ InOrder /\ TakenAreHeard /\ HandledAreHeard /\ NoneForgotten

\* The events of the notifications and their retries go to the queue of the
\* notifications and to no other.
LEMMA BindingsOfNotifications ==
    /\ \A e \in NotificationEvents : \A q \in Bound(e.type) : q = "notifications"
    /\ \A q \in Bound(RetryKey("notifications")) : q = "notifications"
    /\ "notifications" \in Watched =>
          /\ \A e \in NotificationEvents : "notifications" \in Bound(e.type)
          /\ "notifications" \in Bound(RetryKey("notifications"))
<1>1. Queues \subseteq {"notifications", "webhook", "wallet", "auth", "auction"}
  BY DeliveryAssumption DEF Queues
<1>2. \A t \in NotifiedTypes, q \in Queues : t \in Bindings(q) <=> q = "notifications"
  BY <1>1 DEF Bindings, NotifiedTypes
<1>3. RetryKey("notifications") = "notification.retry.direct"
  BY DEF RetryKey
<1>4. \A q \in Queues : "notification.retry.direct" \in Bindings(q) <=> q = "notifications"
  BY <1>1 DEF Bindings, NotifiedTypes
<1>5. QED BY <1>2, <1>3, <1>4, NotificationAssumption DEF Bound, Queues

\* The first publication of an event puts a message in every queue bound to it.
LEMMA PublishedIsOnItsWay ==
    ASSUME NEW e, NEW f, NEW q \in Bound(e.type), Publication(f),
           PublicationsOf(e) = {}, PublicationsOf(e)' # {}
    PROVE  OnItsWay(q, e)'
<1> DEFINE n == Cardinality(PublicationsOf(f)) + 1
<1>1. /\ published' = published \cup {<<f, n>>}
      /\ copies' = copies \cup {Copy(r, f, 0, n) : r \in Bound(f.type)}
  BY DEF Publication
<1> HIDE DEF n
<1>2. f = e
  BY <1>1 DEF PublicationsOf
<1>3. Copy(q, e, 0, n).queue = q /\ Copy(q, e, 0, n).event = e
  BY DEF Copy
<1>4. QED BY <1>1, <1>2, <1>3 DEF OnItsWay

\* A step only forgets nothing: what was heard stays heard.
HearsOn == told \subseteq told' /\ unstored \subseteq unstored' /\ blocked \subseteq blocked'

\* What was heard is never unheard.
LEMMA HeardStays ==
    ASSUME HearsOn
    PROVE  /\ \A e, i : Heard(e, i) => Heard(e, i)'
           /\ \A e : AllHeard(e) => AllHeard(e)'
<1>1. \A e, i : Heard(e, i) => Heard(e, i)'
  BY DEF HearsOn, Heard
<1> HIDE DEF Heard
<1>2. QED BY <1>1 DEF AllHeard

\* The messages that follow from others keep to the queue of notifications.
LEMMA HandledStayHeard ==
    ASSUME NotificationTypes, HandledAreHeard, HearsOn,
           \A x \in copies' : \/ JustPublished(x)
                              \/ x.event \in NotificationEvents /\ x.queue \in Bound(x.event.type) /\ x.at = "ready"
                              \/ \E d \in copies : ComesFrom(x, d)
                              \/ x.queue = "notifications" /\ AllHeard(x.event),
           keys' \subseteq keys \cup {d.event : d \in {b \in copies : b.at = "handled"}}
    PROVE  HandledAreHeard'
<1>1. ASSUME NEW x \in copies'
      PROVE  x.queue = "notifications" /\ (x.at = "handled" => AllHeard(x.event)')
  <2>1. CASE JustPublished(x)
    BY <2>1, BindingsOfNotifications DEF JustPublished, NotificationTypes, DeliveryTypeOK
  <2>2. CASE x.event \in NotificationEvents /\ x.queue \in Bound(x.event.type) /\ x.at = "ready"
    BY <2>2, BindingsOfNotifications
  <2>3. CASE \E d \in copies : ComesFrom(x, d)
    <3>1. PICK d \in copies : ComesFrom(x, d)
      BY <2>3
    <3>2. d.queue = "notifications" /\ (d.at = "handled" => AllHeard(d.event))
      BY <3>1 DEF HandledAreHeard
    <3>3. x.queue = "notifications"
      BY <3>1, <3>2, BindingsOfNotifications DEF ComesFrom
    <3>4. x.at = "handled" => AllHeard(x.event)
      BY <3>1, <3>2 DEF ComesFrom
    <3>5. QED BY <3>3, <3>4, HeardStays
  <2>4. CASE x.queue = "notifications" /\ AllHeard(x.event)
    BY <2>4, HeardStays
  <2>5. QED BY <2>1, <2>2, <2>3, <2>4
<1>2. ASSUME NEW e \in keys' PROVE AllHeard(e)'
  <2>1. AllHeard(e)
    BY <1>2 DEF HandledAreHeard
  <2>2. QED BY <2>1, HeardStays
<1>3. QED BY <1>1, <1>2 DEF HandledAreHeard

\* How far a consumer is when the first k steps are taken.
LEMMA DoneIsHowFar ==
    ASSUME NotificationTypes, InOrder, NEW c \in copies
    PROVE  /\ Attempt(c) \in Tries /\ Attempt(c)[1] = c.event
           /\ Len(StepsOf(c.event)) \in 1 .. 4
           /\ Done(c) \in 0 .. Len(StepsOf(c.event))
           /\ \A i \in 1 .. 4 : <<Attempt(c), i>> \in doing <=> i \in 1 .. Done(c)
<1>1. c \in CopiesOf(NotificationEvents)
  BY DEF NotificationTypes, DeliveryTypeOK, CopiesOf
<1>2. Attempt(c) \in Tries /\ Attempt(c)[1] = c.event /\ c.event \in NotificationEvents
  BY <1>1 DEF Attempt, Tries, CopiesOf
<1>3. Len(StepsOf(c.event)) \in 1 .. 4
  BY <1>2, NotificationAssumption, StepsListed DEF StepsOf, Listing
<1>4. PICK k \in 0 .. Len(StepsOf(c.event)) :
          \A i \in 1 .. 4 : <<Attempt(c), i>> \in doing <=> i \in 1 .. k
  BY <1>2 DEF InOrder
<1>5. {i \in 1 .. Len(StepsOf(c.event)) : <<Attempt(c), i>> \in doing} = 1 .. k
  <2>1. PICK n : n = Len(StepsOf(c.event))
    OBVIOUS
  <2>2. n \in 1 .. 4 /\ k \in 0 .. n
    BY <1>3, <1>4, <2>1
  <2>3. \A i : i \in 1 .. n /\ <<Attempt(c), i>> \in doing <=> i \in 1 .. k
    BY <1>4, <2>2
  <2>4. {i \in 1 .. n : <<Attempt(c), i>> \in doing} = 1 .. k
    BY <2>3, Zenon
  <2>5. QED BY <2>1, <2>4
<1>6. Cardinality(1 .. k) = k
  BY <1>3, <1>4, FS_Interval
<1>7. Done(c) = k
  BY <1>5, <1>6 DEF Done
<1>8. QED BY <1>2, <1>3, <1>4, <1>7

\* A consumer takes one more step.
LEMMA TookOne ==
    ASSUME NotificationTypes, InOrder, NEW c \in copies,
           Done(c) + 1 <= Len(StepsOf(c.event)), Took(c, Done(c) + 1)
    PROVE  /\ doing' \subseteq Tries \X (1 .. 4)
           /\ InOrder'
           /\ \A a \in Tries, i \in 1 .. 4 :
                <<a, i>> \in doing' => <<a, i>> \in doing \/ (a = Attempt(c) /\ i = Done(c) + 1)
<1>1. /\ Attempt(c) \in Tries /\ Attempt(c)[1] = c.event
      /\ Len(StepsOf(c.event)) \in 1 .. 4
      /\ Done(c) \in 0 .. Len(StepsOf(c.event))
      /\ \A i \in 1 .. 4 : <<Attempt(c), i>> \in doing <=> i \in 1 .. Done(c)
  BY DoneIsHowFar
<1>2. PICK a, k : a = Attempt(c) /\ k = Done(c)
  OBVIOUS
<1>3. doing' = doing \cup {<<a, i>> : i \in 1 .. k + 1}
  BY <1>2 DEF Took
<1>4. a \in Tries /\ k \in 0 .. 3 /\ k + 1 <= Len(StepsOf(a[1])) /\ Len(StepsOf(a[1])) \in 1 .. 4
  <2>1. PICK n : n = Len(StepsOf(c.event))
    OBVIOUS
  <2>2. Len(StepsOf(a[1])) = n
    BY <1>1, <1>2, <2>1
  <2>3. n \in 1 .. 4 /\ k \in 0 .. n /\ k + 1 <= n
    BY <1>1, <1>2, <2>1
  <2>4. a \in Tries
    BY <1>1, <1>2
  <2>5. QED BY <2>2, <2>3, <2>4
<1>5. \A i \in 1 .. 4 : <<a, i>> \in doing <=> i \in 1 .. k
  BY <1>1, <1>2
<1>6. \A b, i : <<b, i>> \in doing' <=> <<b, i>> \in doing \/ (b = a /\ i \in 1 .. k + 1)
  BY <1>3
<1>7. doing' \subseteq Tries \X (1 .. 4)
  BY <1>3, <1>4 DEF NotificationTypes
<1>8. ASSUME NEW b \in Tries
      PROVE  \E j \in 0 .. Len(StepsOf(b[1])) : \A i \in 1 .. 4 : <<b, i>> \in doing' <=> i \in 1 .. j
  <2>1. CASE b = a
    <3>1. \A i \in 1 .. 4 : <<b, i>> \in doing' <=> i \in 1 .. k + 1
      BY <1>4, <1>5, <1>6, <2>1
    <3>2. k + 1 \in 0 .. Len(StepsOf(b[1]))
      BY <1>4, <2>1
    <3>3. QED BY <3>1, <3>2
  <2>2. CASE b # a
    BY <1>6, <2>2 DEF InOrder
  <2>3. QED BY <2>1, <2>2
<1>9. ASSUME NEW b \in Tries, NEW i \in 1 .. 4, <<b, i>> \in doing'
      PROVE  <<b, i>> \in doing \/ (b = a /\ i = k + 1)
  BY <1>4, <1>5, <1>6, <1>9
<1>10. InOrder'
  BY <1>8 DEF InOrder, StepsOf
<1>11. QED BY <1>2, <1>7, <1>9, <1>10

\* Tries that are over are forgotten as a whole.
LEMMA ForgotTries ==
    ASSUME NotificationTypes, InOrder, NEW Kept, doing' = {d \in doing : d[1] \in Kept}
    PROVE  doing' \subseteq doing /\ InOrder'
<1>1. doing' \subseteq doing
  OBVIOUS
<1>2. \A a, i : <<a, i>> \in doing' <=> <<a, i>> \in doing /\ a \in Kept
  OBVIOUS
<1>3. ASSUME NEW a \in Tries
      PROVE  \E k \in 0 .. Len(StepsOf(a[1])) : \A i \in 1 .. 4 : <<a, i>> \in doing' <=> i \in 1 .. k
  <2>0. PICK k \in 0 .. Len(StepsOf(a[1])) : \A i \in 1 .. 4 : <<a, i>> \in doing <=> i \in 1 .. k
    BY DEF InOrder
  <2>1. CASE a \in Kept
    BY <1>2, <2>0, <2>1
  <2>2. CASE a \notin Kept
    <3>1. \A i \in 1 .. 4 : <<a, i>> \in doing' <=> i \in 1 .. 0
      BY <1>2, <2>2
    <3>2. a[1] \in NotificationEvents
      BY DEF Tries
    <3>3. 0 \in 0 .. Len(StepsOf(a[1]))
      BY <3>2, NotificationAssumption, StepsListed DEF StepsOf, Listing
    <3>4. QED BY <3>1, <3>3
  <2>3. QED BY <2>1, <2>2
<1>4. QED BY <1>1, <1>3 DEF InOrder, StepsOf

\* Every event that was published is accounted for after a step, if no message
\* is lost without being handled.
LEMMA NoneForgottenStays ==
    ASSUME NotificationTypes, HandledAreHeard, NoneForgotten, HearsOn, dead \subseteq dead',
           \A e \in NotificationEvents :
              \/ PublicationsOf(e)' # {} => PublicationsOf(e) # {}
              \/ OnItsWay("notifications", e)',
           \A e \in NotificationEvents :
              OnItsWay("notifications", e) => \/ OnItsWay("notifications", e)'
                                              \/ <<"notifications", e>> \in dead'
                                              \/ Handled(e)
    PROVE  NoneForgotten'
<1>1. \A e : Handled(e) => AllHeard(e)
  BY DEF Handled, HandledAreHeard
<1>2. \A e : AllHeard(e) => AllHeard(e)'
  BY HeardStays
<1>3. QED BY <1>1, <1>2 DEF NoneForgotten

\* A step that leaves the tries alone.
LEMMA TakenAreHeardStays ==
    ASSUME TakenAreHeard, HearsOn, doing' \subseteq doing
    PROVE  TakenAreHeard'
BY HeardStays DEF TakenAreHeard

\* Publishing, requeueing and losing messages keep the invariant.
LEMMA NotificationDelivers ==
    ASSUME "notifications" \in Watched, NotificationInv,
           DeliveryNext, Carried, UNCHANGED <<toHappen, blocked, told, unstored>>
    PROVE  NotificationInv'
<1>0. /\ NotificationTypes /\ InOrder /\ TakenAreHeard /\ HandledAreHeard /\ NoneForgotten
      /\ DeliveryTypeOK(NotificationEvents)
  BY DEF NotificationInv, NotificationTypes
<1>a. HearsOn
  BY DEF HearsOn
<1>b. doing' \subseteq doing /\ InOrder'
  <2> DEFINE Kept == {a \in Tries : \E c \in copies' : c.at = "checked" /\ Attempt(c) = a}
  <2>1. doing \subseteq Tries \X (1 .. 4)
    BY <1>0 DEF NotificationTypes
  <2>2. doing' = {d \in doing : d[1] \in Kept}
    BY <2>1 DEF Carried
  <2> HIDE DEF Kept
  <2>3. QED BY <1>0, <2>2, ForgotTries
<1>1. NotificationTypes'
  <2>1. DeliveryTypeOK(NotificationEvents)'
    BY <1>0, DeliveryTyped
  <2>2. QED BY <1>0, <1>b, <2>1 DEF NotificationTypes, Tries
<1>2. TakenAreHeard'
  BY <1>0, <1>a, <1>b, TakenAreHeardStays
<1>3. HandledAreHeard'
  <2>1. /\ \A x \in copies' : JustPublished(x) \/ \E d \in copies : ComesFrom(x, d)
        /\ keys' \subseteq keys \cup {d.event : d \in {b \in copies : b.at = "handled"}}
    BY <1>0, DeliveryDescent
  <2>2. QED BY <1>0, <1>a, <2>1, HandledStayHeard
<1>4. NoneForgotten'
  <2>1. dead \subseteq dead'
    BY LossesStayKnown
  <2>2. ASSUME NEW e \in NotificationEvents, OnItsWay("notifications", e)
        PROVE  \/ OnItsWay("notifications", e)' \/ <<"notifications", e>> \in dead'
               \/ Handled(e)
    <3>1. "notifications" \in Bound(e.type) /\ "notifications" \in Bound(RetryKey("notifications"))
      BY BindingsOfNotifications
    <3>2. "notifications" \notin AcksFirst
      BY DEF AcksFirst
    <3>3. QED BY <1>0, <2>2, <3>1, <3>2, NothingIsLost
  <2>3. ASSUME NEW e \in NotificationEvents, PublicationsOf(e)' # {}, PublicationsOf(e) = {}
        PROVE  OnItsWay("notifications", e)'
    <3>1. "notifications" \in Bound(e.type)
      BY BindingsOfNotifications
    <3>2. published' # published
      BY <2>3 DEF PublicationsOf
    <3>3. PICK f \in outbox : Publication(f)
      BY <3>2 DEF DeliveryNext, Dispatch, DispatchUnmarked, Take, SkipDuplicate, Acknowledge,
                  Fail, FailHalfway, CrashConsumers, KeyExpires
    <3>4. QED BY <2>3, <3>1, <3>3, PublishedIsOnItsWay
  <2>4. QED BY <1>0, <1>a, <2>1, <2>2, <2>3, NoneForgottenStays
<1>5. QED BY <1>b, <1>1, <1>2, <1>3, <1>4 DEF NotificationInv

\* An event that happens is on its way, and nobody has taken a step of it.
LEMMA NotificationHappens ==
    ASSUME "notifications" \in Watched, NotificationInv, NEW e \in toHappen, Happens(e)
    PROVE  NotificationInv'
<1>0. /\ NotificationTypes /\ InOrder /\ TakenAreHeard /\ HandledAreHeard /\ NoneForgotten
      /\ DeliveryTypeOK(NotificationEvents)
      /\ e \in NotificationEvents
  BY DEF NotificationInv, NotificationTypes
<1>a. UNCHANGED <<keys, dead, dropped, faults, blocked, doing, told, unstored>> /\ HearsOn
  BY DEF Happens, HearsOn
<1>b. CASE /\ outbox' = outbox \cup {e}
           /\ UNCHANGED <<published, copies>>
  <2>1. DeliveryTypeOK(NotificationEvents)'
    BY <1>0, <1>a, <1>b DEF DeliveryTypeOK, Queues
  <2>2. NotificationTypes'
    BY <1>0, <1>a, <2>1 DEF NotificationTypes, Happens, Tries
  <2>3. InOrder' /\ TakenAreHeard' /\ HandledAreHeard'
    <3>1. \A a, i : Heard(a, i)' <=> Heard(a, i)
      BY <1>a DEF Heard
    <3>2. \A a : AllHeard(a)' <=> AllHeard(a)
      BY <3>1 DEF AllHeard, StepsOf
    <3>3. QED BY <1>0, <1>a, <1>b, <3>1, <3>2 DEF InOrder, TakenAreHeard, HandledAreHeard, Tries, StepsOf
  <2>4. NoneForgotten'
    <3>1. \A f : PublicationsOf(f)' = PublicationsOf(f)
      BY <1>b DEF PublicationsOf
    <3>2. \A f : OnItsWay("notifications", f) => OnItsWay("notifications", f)'
      BY <1>b DEF OnItsWay
    <3>3. QED BY <1>0, <1>a, <3>1, <3>2, NoneForgottenStays
  <2>5. QED BY <2>2, <2>3, <2>4 DEF NotificationInv
<1>c. CASE Publication(e) /\ UNCHANGED outbox
  <2> DEFINE n == Cardinality(PublicationsOf(e)) + 1
  <2>0. copies' = copies \cup {Copy(q, e, 0, n) : q \in Bound(e.type)}
    BY <1>c DEF Publication
  <2> HIDE DEF n
  <2>1. DeliveryTypeOK(NotificationEvents)'
    <3>1. /\ published' \subseteq NotificationEvents \X (1 .. MaxPublications)
          /\ copies' \subseteq CopiesOf(NotificationEvents)
      BY <1>0, <1>c, PublicationTyped
    <3>2. QED BY <1>0, <1>a, <1>c, <3>1 DEF DeliveryTypeOK, CopiesOf
  <2>2. NotificationTypes'
    BY <1>0, <1>a, <2>1 DEF NotificationTypes, Happens, Tries
  <2>3. InOrder'
    BY <1>0, <1>a DEF InOrder, Tries, StepsOf
  <2>4. TakenAreHeard'
    BY <1>0, <1>a, TakenAreHeardStays
  <2>5. HandledAreHeard'
    <3>1. \A q \in Bound(e.type) : /\ Copy(q, e, 0, n).event = e /\ Copy(q, e, 0, n).queue = q
                                   /\ Copy(q, e, 0, n).at = "ready"
      BY DEF Copy
    <3>2. \A x \in copies : ComesFrom(x, x)
      BY DEF ComesFrom
    <3>3. \A x \in copies' :
            \/ x.event \in NotificationEvents /\ x.queue \in Bound(x.event.type) /\ x.at = "ready"
            \/ \E d \in copies : ComesFrom(x, d)
      BY <1>0, <2>0, <3>1, <3>2
    <3>4. keys' \subseteq keys \cup {d.event : d \in {b \in copies : b.at = "handled"}}
      BY <1>a
    <3>5. QED BY <1>0, <1>a, <3>3, <3>4, HandledStayHeard
  <2>6. NoneForgotten'
    <3>1. \A f : OnItsWay("notifications", f) => OnItsWay("notifications", f)'
      BY <1>c, <2>0 DEF OnItsWay
    <3>2. ASSUME NEW f \in NotificationEvents, PublicationsOf(f) = {}, PublicationsOf(f)' # {}
          PROVE  OnItsWay("notifications", f)'
      <4>1. "notifications" \in Bound(f.type)
        BY BindingsOfNotifications
      <4>2. QED BY <1>c, <3>2, <4>1, PublishedIsOnItsWay
    <3>3. QED BY <1>0, <1>a, <3>1, <3>2, NoneForgottenStays
  <2>7. QED BY <2>2, <2>3, <2>4, <2>5, <2>6 DEF NotificationInv
<1>d. QED BY <1>b, <1>c DEF Happens, Saved

\* A step that touches nothing of the message system but the faults.
LEMMA NothingTravels ==
    ASSUME NotificationInv, HearsOn,
           UNCHANGED <<outbox, published, copies, keys, dead, dropped>>, faults' \in Nat,
           toHappen' \subseteq NotificationEvents, blocked' \subseteq Blockable,
           doing' \subseteq Tries \X (1 .. 4),
           told' \cup unstored' \subseteq NotificationEvents \X (1 .. 4),
           InOrder', TakenAreHeard'
    PROVE  NotificationInv'
<1>0. /\ NotificationTypes /\ InOrder /\ TakenAreHeard /\ HandledAreHeard /\ NoneForgotten
      /\ DeliveryTypeOK(NotificationEvents)
  BY DEF NotificationInv, NotificationTypes
<1>1. NotificationTypes'
  <2>1. DeliveryTypeOK(NotificationEvents)'
    BY <1>0 DEF DeliveryTypeOK, Queues
  <2>2. QED BY <2>1 DEF NotificationTypes, Tries
<1>2. HandledAreHeard'
  BY <1>0, HeardStays DEF HandledAreHeard
<1>3. NoneForgotten'
  <2>1. \A e : PublicationsOf(e)' = PublicationsOf(e)
    BY DEF PublicationsOf
  <2>2. \A e : OnItsWay("notifications", e)' <=> OnItsWay("notifications", e)
    BY DEF OnItsWay
  <2>3. QED BY <1>0, <2>1, <2>2, NoneForgottenStays
<1>4. QED BY <1>1, <1>2, <1>3 DEF NotificationInv

\* One step of a handler keeps the invariant.
LEMMA NotificationStepTaken ==
    ASSUME NotificationInv, NEW c \in copies, Step(c)
    PROVE  NotificationInv'
<1>0. /\ NotificationTypes /\ InOrder /\ TakenAreHeard
      /\ DeliveryTypeOK(NotificationEvents)
  BY DEF NotificationInv, NotificationTypes
<1>1. PICK n : n = Done(c) + 1
  OBVIOUS
<1>2. PICK e : e = c.event
  OBVIOUS
<1>3. /\ Attempt(c) \in Tries /\ Attempt(c)[1] = e
      /\ n \in 1 .. 4 /\ n <= Len(StepsOf(e))
  <2>1. /\ Attempt(c) \in Tries /\ Attempt(c)[1] = e
        /\ Len(StepsOf(e)) \in 1 .. 4 /\ Done(c) \in 0 .. Len(StepsOf(e))
    BY <1>0, <1>2, DoneIsHowFar
  <2>2. n <= Len(StepsOf(e))
    BY <1>1, <1>2 DEF Step
  <2>3. PICK k, m : k = Done(c) /\ m = Len(StepsOf(e))
    OBVIOUS
  <2>4. k \in 0 .. m /\ m \in 1 .. 4 /\ n = k + 1 /\ n <= m
    BY <1>1, <2>1, <2>2, <2>3
  <2>5. n \in 1 .. 4
    BY <2>4
  <2>6. QED BY <2>1, <2>2, <2>5
<1>4. e \in NotificationEvents
  BY <1>0, <1>2 DEF DeliveryTypeOK
<1>5. /\ Took(c, n)
      /\ \/ /\ StepsOf(e)[n].checked /\ StepsOf(e)[n].to \in blocked
            /\ UNCHANGED <<told, unstored, faults>>
         \/ told' = told \cup {<<e, n>>} /\ UNCHANGED <<unstored, faults>>
         \/ /\ faults > 0 /\ faults' = faults - 1
            /\ unstored' = unstored \cup {<<e, n>>} /\ UNCHANGED told
  BY <1>1, <1>2 DEF Step, SkipOne
<1>6. UNCHANGED <<toHappen, blocked>> /\ UNCHANGED <<outbox, published, copies, keys, dead, dropped>>
  BY DEF Step
<1>7. /\ doing' \subseteq Tries \X (1 .. 4)
      /\ InOrder'
      /\ \A a \in Tries, i \in 1 .. 4 :
            <<a, i>> \in doing' => <<a, i>> \in doing \/ (a = Attempt(c) /\ i = n)
  BY <1>0, <1>1, <1>2, <1>3, <1>5, TookOne
<1>8. HearsOn
  BY <1>5, <1>6 DEF HearsOn
<1>9. Heard(e, n)'
  BY <1>5, <1>6 DEF Heard, StepsOf
<1>10. TakenAreHeard'
  <2>1. SUFFICES ASSUME NEW a \in Tries, NEW i \in 1 .. 4, <<a, i>> \in doing'
                 PROVE  Heard(a[1], i)'
    BY DEF TakenAreHeard, Tries
  <2>2. CASE <<a, i>> \in doing
    BY <1>0, <1>8, <2>2, HeardStays DEF TakenAreHeard
  <2>3. CASE a = Attempt(c) /\ i = n
    BY <1>3, <1>9, <2>3
  <2>4. QED BY <1>7, <2>1, <2>2, <2>3
<1>11. faults' \in Nat
  BY <1>0, <1>5 DEF DeliveryTypeOK
<1>12. told' \cup unstored' \subseteq NotificationEvents \X (1 .. 4)
  BY <1>0, <1>3, <1>4, <1>5 DEF NotificationTypes
<1>13. toHappen' \subseteq NotificationEvents /\ blocked' \subseteq Blockable
  BY <1>0, <1>6 DEF NotificationTypes
<1>14. QED BY <1>6, <1>7, <1>8, <1>10, <1>11, <1>12, <1>13, NothingTravels

\* The end of a handler keeps the invariant: all its steps have been taken.
LEMMA NotificationHandled ==
    ASSUME NotificationInv, NEW c \in copies, HandlerReturns(c)
    PROVE  NotificationInv'
<1>0. /\ NotificationTypes /\ InOrder /\ TakenAreHeard /\ HandledAreHeard /\ NoneForgotten
      /\ DeliveryTypeOK(NotificationEvents) /\ copies \subseteq CopiesOf(NotificationEvents)
  BY DEF NotificationInv, NotificationTypes, DeliveryTypeOK, CopiesOf
<1>a. /\ UNCHANGED <<outbox, published, keys, dead, dropped, faults>>
      /\ UNCHANGED <<toHappen, blocked, told, unstored>> /\ HearsOn
  BY DEF HandlerReturns, HearsOn
<1>b. /\ copies' = (copies \ {c}) \cup {[c EXCEPT !.at = "handled"]}
      /\ [c EXCEPT !.at = "handled"] \in CopiesOf(NotificationEvents)
      /\ [c EXCEPT !.at = "handled"].queue = c.queue
      /\ [c EXCEPT !.at = "handled"].event = c.event
  BY <1>0, AdvanceTyped DEF HandlerReturns, Advance
<1>c. doing' \subseteq doing /\ InOrder'
  <2>1. doing' = {d \in doing : d[1] \in Tries \ {Attempt(c)}}
    BY <1>0 DEF HandlerReturns, NotificationTypes
  <2>2. QED BY <1>0, <2>1, ForgotTries
<1>d. AllHeard(c.event)
  <2>1. /\ Attempt(c) \in Tries /\ Attempt(c)[1] = c.event
        /\ Len(StepsOf(c.event)) \in 1 .. 4
        /\ \A i \in 1 .. 4 : <<Attempt(c), i>> \in doing <=> i \in 1 .. Done(c)
    BY <1>0, DoneIsHowFar
  <2>2. Done(c) = Len(StepsOf(c.event))
    BY DEF HandlerReturns
  <2>3. \A i \in 1 .. Len(StepsOf(c.event)) : i \in 1 .. 4 /\ <<Attempt(c), i>> \in doing
    <3>1. PICK m : m = Len(StepsOf(c.event))
      OBVIOUS
    <3>2. m \in 1 .. 4 /\ \A i \in 1 .. 4 : <<Attempt(c), i>> \in doing <=> i \in 1 .. m
      BY <2>1, <2>2, <3>1
    <3>3. \A i \in 1 .. m : i \in 1 .. 4 /\ <<Attempt(c), i>> \in doing
      BY <3>2
    <3>4. QED BY <3>1, <3>3
  <2>4. QED BY <1>0, <2>1, <2>3 DEF TakenAreHeard, AllHeard
<1>1. NotificationTypes'
  <2>1. DeliveryTypeOK(NotificationEvents)'
    BY <1>0, <1>a, <1>b DEF DeliveryTypeOK, CopiesOf, Queues
  <2>2. QED BY <1>0, <1>a, <1>c, <2>1 DEF NotificationTypes, Tries
<1>2. TakenAreHeard'
  BY <1>0, <1>a, <1>c, TakenAreHeardStays
<1>3. HandledAreHeard'
  <2>1. c.queue = "notifications"
    BY DEF HandlerReturns, Handling
  <2>2. \A x \in copies : ComesFrom(x, x)
    BY DEF ComesFrom
  <2>3. \A x \in copies' : \/ \E d \in copies : ComesFrom(x, d)
                           \/ x.queue = "notifications" /\ AllHeard(x.event)
    BY <1>b, <1>d, <2>1, <2>2
  <2>4. keys' \subseteq keys \cup {d.event : d \in {b \in copies : b.at = "handled"}}
    BY <1>a
  <2>5. QED BY <1>0, <1>a, <2>3, <2>4, HandledStayHeard
<1>4. NoneForgotten'
  <2>1. \A e : PublicationsOf(e)' = PublicationsOf(e)
    BY <1>a DEF PublicationsOf
  <2>2. \A e : OnItsWay("notifications", e) => OnItsWay("notifications", e)'
    BY <1>a, <1>b DEF OnItsWay
  <2>3. QED BY <1>0, <1>a, <2>1, <2>2, NoneForgottenStays
<1>5. QED BY <1>c, <1>1, <1>2, <1>3, <1>4 DEF NotificationInv

\* Every step of the notifications keeps their invariant.
LEMMA NotificationInvStep ==
    ASSUME "notifications" \in Watched, NotificationInv, [NotificationNext]_notifyVars
    PROVE  NotificationInv'
<1>0. /\ NotificationTypes /\ InOrder /\ TakenAreHeard
      /\ DeliveryTypeOK(NotificationEvents)
  BY DEF NotificationInv, NotificationTypes
<1>t. /\ faults \in Nat /\ toHappen \subseteq NotificationEvents /\ blocked \subseteq Blockable
      /\ doing \subseteq Tries \X (1 .. 4)
      /\ told \cup unstored \subseteq NotificationEvents \X (1 .. 4)
  BY <1>0 DEF NotificationTypes, DeliveryTypeOK
<1>1. ASSUME UNCHANGED doing PROVE InOrder'
  BY <1>0, <1>1 DEF InOrder, Tries, StepsOf
<1>2. ASSUME NEW e \in toHappen, NotPublished(e) PROVE NotificationInv'
  <2>1. /\ UNCHANGED <<outbox, published, copies, keys, dead, dropped>> /\ faults' = faults - 1
        /\ faults > 0 /\ toHappen' \subseteq toHappen /\ UNCHANGED <<blocked, doing, told, unstored>>
    BY <1>2 DEF NotPublished
  <2>2. HearsOn /\ faults' \in Nat
    BY <1>t, <2>1 DEF HearsOn
  <2>3. TakenAreHeard'
    BY <1>0, <2>1, <2>2, TakenAreHeardStays
  <2>4. /\ toHappen' \subseteq NotificationEvents /\ blocked' \subseteq Blockable
        /\ doing' \subseteq Tries \X (1 .. 4)
        /\ told' \cup unstored' \subseteq NotificationEvents \X (1 .. 4)
    BY <1>t, <2>1
  <2>5. InOrder'
    BY <1>1, <2>1
  <2>6. QED BY <2>1, <2>2, <2>3, <2>4, <2>5, NothingTravels
<1>3. ASSUME NEW role \in Blockable, UserBanned(role) PROVE NotificationInv'
  <2>1. /\ UNCHANGED deliveryVars /\ UNCHANGED <<toHappen, doing, told, unstored>>
        /\ blocked' = blocked \cup {role}
    BY <1>3 DEF UserBanned
  <2>2. HearsOn /\ faults' \in Nat /\ UNCHANGED <<outbox, published, copies, keys, dead, dropped>>
    BY <1>t, <2>1 DEF HearsOn, deliveryVars
  <2>3. TakenAreHeard'
    BY <1>0, <2>1, <2>2, TakenAreHeardStays
  <2>4. /\ toHappen' \subseteq NotificationEvents /\ blocked' \subseteq Blockable
        /\ doing' \subseteq Tries \X (1 .. 4)
        /\ told' \cup unstored' \subseteq NotificationEvents \X (1 .. 4)
    BY <1>t, <2>1
  <2>5. InOrder'
    BY <1>1, <2>1
  <2>6. QED BY <2>2, <2>3, <2>4, <2>5, NothingTravels
<1>4. CASE UNCHANGED notifyVars
  <2>1. UNCHANGED deliveryVars /\ UNCHANGED notificationVars
    BY <1>4 DEF notifyVars
  <2>2. /\ HearsOn /\ faults' \in Nat /\ UNCHANGED <<outbox, published, copies, keys, dead, dropped>>
        /\ UNCHANGED <<toHappen, blocked, doing, told, unstored>>
    BY <1>t, <2>1 DEF HearsOn, deliveryVars, notificationVars
  <2>3. TakenAreHeard'
    BY <1>0, <2>2, TakenAreHeardStays
  <2>4. /\ toHappen' \subseteq NotificationEvents /\ blocked' \subseteq Blockable
        /\ doing' \subseteq Tries \X (1 .. 4)
        /\ told' \cup unstored' \subseteq NotificationEvents \X (1 .. 4)
    BY <1>t, <2>2
  <2>5. InOrder'
    BY <1>1, <2>2
  <2>6. QED BY <2>2, <2>3, <2>4, <2>5, NothingTravels
<1>5. QED
  BY <1>2, <1>3, <1>4, NotificationHappens, NotificationDelivers, NotificationStepTaken,
     NotificationHandled DEF NotificationNext

\* At first nothing has happened.
LEMMA NotificationInvInit ==
    ASSUME NotificationInit, DeliveryInit, faults \in Nat
    PROVE  NotificationInv
<1>1. NotificationTypes
  BY DEF NotificationInit, DeliveryInit, NotificationTypes, DeliveryTypeOK, NotificationEvents
<1>2. InOrder
  <2>1. SUFFICES ASSUME NEW a \in Tries
                 PROVE  \E k \in 0 .. Len(StepsOf(a[1])) :
                            \A i \in 1 .. 4 : <<a, i>> \in doing <=> i \in 1 .. k
    BY DEF InOrder
  <2>2. 0 \in 0 .. Len(StepsOf(a[1]))
    BY NotificationAssumption, StepsListed DEF StepsOf, Listing, Tries
  <2>3. \A i \in 1 .. 4 : <<a, i>> \in doing <=> i \in 1 .. 0
    BY DEF NotificationInit
  <2>4. QED BY <2>2, <2>3
<1>3. TakenAreHeard /\ HandledAreHeard /\ NoneForgotten
  BY DEF NotificationInit, DeliveryInit, TakenAreHeard, HandledAreHeard, NoneForgotten, PublicationsOf
<1>4. QED BY <1>1, <1>2, <1>3 DEF NotificationInv

\* The invariant of the notifications holds always.
LEMMA NotificationInvAlways ==
    ASSUME "notifications" \in Watched
    PROVE  NotificationSpec => []NotificationInv
<1>1. NotificationInit /\ DeliveryInit /\ faults \in Nat => NotificationInv
  BY NotificationInvInit
<1>2. NotificationInv /\ [NotificationNext]_notifyVars => NotificationInv'
  BY NotificationInvStep
<1>3. QED BY <1>1, <1>2, PTL DEF NotificationSpec

\* Whose steps are in order are steps of his handler.
LEMMA NotificationInvTyped ==
    NotificationInv => NotificationTypeOK /\ DeliveryTypeOK(NotificationEvents)
<1>1. SUFFICES ASSUME NotificationInv PROVE NotificationTypeOK /\ DeliveryTypeOK(NotificationEvents)
  OBVIOUS
<1>2. NotificationTypes /\ InOrder
  BY <1>1 DEF NotificationInv
<1>3. ASSUME NEW d \in doing
      PROVE  d[1][1] \in NotificationEvents /\ d[2] \in 1 .. Len(StepsOf(d[1][1]))
  <2>1. PICK a \in Tries, i \in 1 .. 4 : d = <<a, i>>
    BY <1>2 DEF NotificationTypes
  <2>2. PICK k \in 0 .. Len(StepsOf(a[1])) : \A j \in 1 .. 4 : <<a, j>> \in doing <=> j \in 1 .. k
    BY <1>2 DEF InOrder
  <2>3. i \in 1 .. k
    BY <2>1, <2>2
  <2>4. a[1] \in NotificationEvents
    BY DEF Tries
  <2>5. Len(StepsOf(a[1])) \in 1 .. 4
    BY <2>4, NotificationAssumption, StepsListed DEF StepsOf, Listing
  <2>6. i \in 1 .. Len(StepsOf(a[1]))
    BY <2>2, <2>3, <2>5
  <2>7. QED BY <2>1, <2>4, <2>6
<1>4. QED BY <1>2, <1>3 DEF NotificationTypes, NotificationTypeOK

\* Type correctness of the notifications.
THEOREM NotificationsAreTyped ==
    ASSUME "notifications" \in Watched
    PROVE  NotificationSpec => []NotificationTypeOK
BY NotificationInvTyped, NotificationInvAlways, PTL

\* With a consumer of notifications, whatever faults, retries and publications
\* there are: nobody who should hear of an event is forgotten.
THEOREM NobodyForgotten ==
    ASSUME "notifications" \in Watched
    PROVE  NotificationSpec => []NobodyIsForgotten
<1>1. NotificationInv => NobodyIsForgotten
  BY DEF NotificationInv, NoneForgotten, NobodyIsForgotten, AllHeard, Heard
<1>2. QED BY <1>1, NotificationInvAlways, PTL

-----------------------------------------------------------------------------
(***************************************************************************)
(* Chat: the pages of a room, in the order of time and _id.                *)
(***************************************************************************)
\* A finite set that is in an order has a first element: the smallest set
\* without one would lose it with any of its elements.
LEMMA OrderedHasFirst ==
    ASSUME NEW S, IsFiniteSet(S), S # {}, NEW R,
           \A x \in S : \A y \in S : x = y \/ <<x, y>> \in R \/ <<y, x>> \in R,
           \A x \in S : \A y \in S : \A z \in S :
              <<x, y>> \in R /\ <<y, z>> \in R => <<x, z>> \in R
    PROVE  \E t \in S : \A x \in S : x = t \/ <<t, x>> \in R
<1> DEFINE HasFirst(X) == \E t \in X : \A x \in X : x = t \/ <<t, x>> \in R
           Bad == {X \in SUBSET S : X # {} /\ ~HasFirst(X)}
<1>1. SUFFICES ASSUME S \in Bad PROVE FALSE
  OBVIOUS
<1>2. PICK X \in Bad : \A Y \in Bad : <<Y, X>> \notin StrictSubsetOrdering(S)
  <2>1. Bad \subseteq FiniteSubsetsOf(S)
    BY FS_FiniteSubsetsOfFinite
  <2> HIDE DEF Bad
  <2>2. QED BY <1>1, <2>1, FS_StrictSubsetOrderingWellFounded, WFMin
<1>3. \A Y \in SUBSET X : Y # {} /\ Y # X => HasFirst(Y)
  BY <1>2 DEF StrictSubsetOrdering
<1>4. PICK x \in X : TRUE
  BY <1>2
<1>5. X \subseteq S /\ ~HasFirst(X)
  BY <1>2
<1>6. CASE X \ {x} = {}
  BY <1>4, <1>5, <1>6
<1>7. CASE X \ {x} # {}
  <2>1. PICK t \in X \ {x} : \A y \in X \ {x} : y = t \/ <<t, y>> \in R
    <3>1. X \ {x} \in SUBSET X /\ X \ {x} # X
      BY <1>4
    <3> HIDE DEF HasFirst
    <3>2. HasFirst(X \ {x})
      BY <1>3, <1>7, <3>1
    <3>3. QED BY <3>2 DEF HasFirst
  <2>2. CASE <<t, x>> \in R
    BY <1>5, <2>1, <2>2
  <2>3. CASE <<x, t>> \in R
    <3>1. \A y \in X : y = x \/ <<x, y>> \in R
      BY <1>4, <1>5, <2>1, <2>3
    <3>2. QED BY <1>4, <1>5, <3>1
  <2>4. QED BY <1>4, <1>5, <2>1, <2>2, <2>3
<1>8. QED BY <1>6, <1>7

\* The order of a room, on messages whose _ids differ.
Apart(M) == \A m \in M : \A n \in M : m.id = n.id => m = n

\* Of two messages one is newer: the sort by time and _id leaves no ties.
LEMMA NewerIsAnOrder ==
    ASSUME NEW M, M \subseteq Message, Apart(M)
    PROVE  /\ \A m \in M : \A n \in M : m = n \/ Newer(m, Place(n)) \/ Newer(n, Place(m))
           /\ \A m \in M : ~Newer(m, Place(m))
           /\ \A m \in M : \A n \in M : \A k \in M :
                Newer(m, Place(n)) /\ Newer(n, Place(k)) => Newer(m, Place(k))
<1>1. \A m \in M : m.id \in Int /\ m.createdAt \in Int
  BY ChatAssumption DEF Message, MessageIds
<1>2. \A m \in M : \A n \in M :
        Newer(m, Place(n)) <=> m.createdAt > n.createdAt \/ (m.createdAt = n.createdAt /\ m.id > n.id)
  BY DEF Newer, Place
<1>3. \A m \in M : \A n \in M : m = n \/ Newer(m, Place(n)) \/ Newer(n, Place(m))
  <2>1. SUFFICES ASSUME NEW m \in M, NEW n \in M, m # n
                 PROVE  Newer(m, Place(n)) \/ Newer(n, Place(m))
    OBVIOUS
  <2>2. m.id # n.id
    BY <2>1 DEF Apart
  <2>3. QED BY <1>1, <1>2, <2>2
<1>4. \A m \in M : ~Newer(m, Place(m))
  BY <1>1, <1>2
<1>5. \A m \in M : \A n \in M : \A k \in M :
        Newer(m, Place(n)) /\ Newer(n, Place(k)) => Newer(m, Place(k))
  BY <1>1, <1>2
<1>6. QED BY <1>3, <1>4, <1>5

\* A room that is not empty has a newest message, and an oldest one.
LEMMA RoomHasEnds ==
    ASSUME NEW M, M \subseteq Message, Apart(M), IsFiniteSet(M), M # {}
    PROVE  /\ \E t \in M : \A n \in M : n = t \/ Newer(t, Place(n))
           /\ Last(M) \in M
           /\ \A n \in M : n = Last(M) \/ Newer(n, Place(Last(M)))
<1> DEFINE R == {p \in M \X M : Newer(p[1], Place(p[2]))}
           B == {p \in M \X M : Newer(p[2], Place(p[1]))}
<1>1. \A m \in M : \A n \in M : /\ <<m, n>> \in R <=> Newer(m, Place(n))
                                /\ <<m, n>> \in B <=> Newer(n, Place(m))
  OBVIOUS
<1> HIDE DEF R, B
<1>2. \E t \in M : \A x \in M : x = t \/ <<t, x>> \in R
  <2>1. /\ \A x \in M : \A y \in M : x = y \/ <<x, y>> \in R \/ <<y, x>> \in R
        /\ \A x \in M : \A y \in M : \A z \in M : <<x, y>> \in R /\ <<y, z>> \in R => <<x, z>> \in R
    BY <1>1, NewerIsAnOrder
  <2>2. QED BY <2>1, OrderedHasFirst
<1>3. \E t \in M : \A x \in M : x = t \/ <<t, x>> \in B
  <2>1. /\ \A x \in M : \A y \in M : x = y \/ <<x, y>> \in B \/ <<y, x>> \in B
        /\ \A x \in M : \A y \in M : \A z \in M : <<x, y>> \in B /\ <<y, z>> \in B => <<x, z>> \in B
    BY <1>1, NewerIsAnOrder
  <2>2. QED BY <2>1, OrderedHasFirst
<1>4. \E t \in M : \A n \in M : n = t \/ Newer(n, Place(t))
  BY <1>1, <1>3
<1>5. \E t \in M : \A n \in M : n = t \/ Newer(t, Place(n))
  BY <1>1, <1>2
<1>6. QED BY <1>4, <1>5 DEF Last

\* What is newer than a message of a finite set is less than the set.
LEMMA NewerThan ==
    ASSUME NEW M, M \subseteq Message, Apart(M), IsFiniteSet(M), NEW m \in M
    PROVE  /\ IsFiniteSet({n \in M : Newer(n, Place(m))})
           /\ Cardinality({n \in M : Newer(n, Place(m))}) < Cardinality(M)
<1>1. {n \in M : Newer(n, Place(m))} \subseteq M \ {m}
  BY NewerIsAnOrder
<1>2. IsFiniteSet(M \ {m}) /\ Cardinality(M \ {m}) = Cardinality(M) - 1 /\ Cardinality(M) \in Nat
  BY FS_RemoveElement, FS_CardinalityType
<1>3. /\ IsFiniteSet({n \in M : Newer(n, Place(m))})
      /\ Cardinality({n \in M : Newer(n, Place(m))}) <= Cardinality(M \ {m})
      /\ Cardinality({n \in M : Newer(n, Place(m))}) \in Nat
  BY <1>1, <1>2, FS_Subset, FS_CardinalityType
<1>4. QED BY <1>2, <1>3

\* A page is the newest part of what it is taken from: it is empty only when
\* that is, it is all of it when there are not more messages than fit, and what
\* is not on it is older than its last message.
LEMMA PageIsTheNewest ==
    ASSUME NEW M, M \subseteq Message, Apart(M), IsFiniteSet(M)
    PROVE  /\ M # {} => FirstPage(M) # {}
           /\ Cardinality(M) <= PageLimit => FirstPage(M) = M
           /\ FirstPage(M) # {} =>
                /\ Last(FirstPage(M)) \in FirstPage(M)
                /\ \A m \in FirstPage(M) : m = Last(FirstPage(M)) \/ Newer(m, Place(Last(FirstPage(M))))
                /\ \A m \in M \ FirstPage(M) : Newer(Last(FirstPage(M)), Place(m))
<1>0. PageLimit \in Nat /\ PageLimit > 0
  BY ChatAssumption
<1>1. ASSUME M # {} PROVE FirstPage(M) # {}
  <2>1. PICK t \in M : \A n \in M : n = t \/ Newer(t, Place(n))
    BY <1>1, RoomHasEnds
  <2>2. {n \in M : Newer(n, Place(t))} = {}
    <3>1. ASSUME NEW n \in M, Newer(n, Place(t)) PROVE FALSE
      BY <2>1, <3>1, NewerIsAnOrder
    <3>2. QED BY <3>1
  <2>3. Cardinality({n \in M : Newer(n, Place(t))}) < PageLimit
    BY <1>0, <2>2, FS_EmptySet
  <2>4. QED BY <2>3 DEF FirstPage
<1>2. ASSUME Cardinality(M) <= PageLimit PROVE FirstPage(M) = M
  <2>1. ASSUME NEW m \in M PROVE Cardinality({n \in M : Newer(n, Place(m))}) < PageLimit
    <3>1. PICK k, j : k = Cardinality({n \in M : Newer(n, Place(m))}) /\ j = Cardinality(M)
      OBVIOUS
    <3>2. k \in Nat /\ j \in Nat /\ k < j /\ j <= PageLimit
      BY <1>2, <3>1, NewerThan, FS_CardinalityType
    <3>3. QED BY <1>0, <3>1, <3>2
  <2>2. QED BY <2>1 DEF FirstPage
<1>3. ASSUME FirstPage(M) # {}
      PROVE  /\ Last(FirstPage(M)) \in FirstPage(M)
             /\ \A m \in FirstPage(M) : m = Last(FirstPage(M)) \/ Newer(m, Place(Last(FirstPage(M))))
             /\ \A m \in M \ FirstPage(M) : Newer(Last(FirstPage(M)), Place(m))
  <2>1. PICK P : P = FirstPage(M)
    OBVIOUS
  <2>2. P \subseteq M /\ P # {} /\ IsFiniteSet(P) /\ P \subseteq Message /\ Apart(P)
    BY <1>3, <2>1, FS_Subset DEF FirstPage, Apart
  <2>3. PICK l : l = Last(P)
    OBVIOUS
  <2>4. l \in P /\ \A m \in P : m = l \/ Newer(m, Place(l))
    BY <2>2, <2>3, RoomHasEnds
  <2>5. ASSUME NEW m \in M \ P PROVE Newer(l, Place(m))
    <3>1. SUFFICES ASSUME ~Newer(l, Place(m)) PROVE FALSE
      OBVIOUS
    <3>2. l \in M /\ m \in M /\ m # l
      BY <2>2, <2>4
    <3>3. Newer(m, Place(l))
      BY <3>1, <3>2, NewerIsAnOrder
    <3>4. {n \in M : Newer(n, Place(m))} \subseteq {n \in M : Newer(n, Place(l))}
      BY <3>2, <3>3, NewerIsAnOrder
    <3>5. /\ IsFiniteSet({n \in M : Newer(n, Place(l))}) /\ IsFiniteSet({n \in M : Newer(n, Place(m))})
      BY <3>2, NewerThan
    <3>6. PICK A, B : A = {n \in M : Newer(n, Place(m))} /\ B = {n \in M : Newer(n, Place(l))}
      OBVIOUS
    <3>7. Cardinality(A) <= Cardinality(B) /\ Cardinality(A) \in Nat /\ Cardinality(B) \in Nat
      BY <3>4, <3>5, <3>6, FS_Subset, FS_CardinalityType
    <3>8. Cardinality(B) < PageLimit
      BY <2>1, <2>4, <3>6 DEF FirstPage
    <3>9. Cardinality(A) < PageLimit
      BY <1>0, <3>7, <3>8
    <3>10. m \in P
      BY <2>1, <3>2, <3>6, <3>9 DEF FirstPage
    <3>11. QED BY <2>5, <3>10
  <2>6. QED BY <2>1, <2>3, <2>4, <2>5
<1>4. QED BY <1>1, <1>2, <1>3

Cursors == {<<>>} \cup ((0 .. LastMinute) \X MessageIds)
Readers == [on : BOOLEAN, more : BOOLEAN, cursor : Cursors,
            seen : SUBSET MessageIds, wanted : SUBSET MessageIds]

IdsOf(M) == {m.id : m \in M}

\* What is being sent and what is in the room; no two messages have one _id.
RoomTypes ==
    /\ minute \in 0 .. LastMinute
    /\ sending \subseteq Message
    /\ chat \subseteq Message
    /\ IsFiniteSet(chat)
    /\ Apart(sending) /\ Apart(chat)
    /\ \A m \in sending : \A n \in chat : m.id # n.id

\* What the reader has seen or wants is in the room.
ReaderInv ==
    /\ paging \in Readers
    /\ paging.seen \subseteq IdsOf(chat)
    /\ paging.wanted \subseteq IdsOf(chat)
    /\ PagesFitTogether

ChatInv == RoomTypes /\ ReaderInv

\* What a cursor leaves to be read.
LEMMA OlderIsInTheRoom ==
    ASSUME RoomTypes, NEW cursor
    PROVE  /\ OlderThan(cursor) \subseteq chat /\ OlderThan(cursor) \subseteq Message
           /\ Apart(OlderThan(cursor)) /\ IsFiniteSet(OlderThan(cursor))
<1>1. OlderThan(cursor) \subseteq chat
  BY DEF OlderThan
<1> HIDE DEF OlderThan
<1>2. QED BY <1>1, FS_Subset DEF RoomTypes, Apart

\* Behind a message of a page there is less to be read than before the page.
LEMMA CursorMovesOn ==
    ASSUME RoomTypes, NEW cursor \in Cursors, NEW l \in OlderThan(cursor)
    PROVE  /\ Place(l) \in Cursors
           /\ OlderThan(Place(l)) = {m \in chat : Newer(l, Place(m))}
           /\ OlderThan(Place(l)) \subseteq OlderThan(cursor)
<1>1. l \in chat /\ \A m \in chat : /\ m.createdAt \in 0 .. LastMinute /\ m.createdAt \in Int
                                    /\ m.id \in MessageIds /\ m.id \in Int
  BY ChatAssumption DEF OlderThan, RoomTypes, Message, MessageIds
<1>2. PICK t, i : t = l.createdAt /\ i = l.id
  OBVIOUS
<1>3. Place(l) = <<t, i>> /\ <<t, i>>[1] = t /\ <<t, i>>[2] = i
  BY <1>2 DEF Place
<1>4. <<t, i>> # <<>>
  OBVIOUS
<1>5. OlderThan(Place(l)) = {m \in chat : m.createdAt < t \/ (m.createdAt = t /\ m.id < i)}
  BY <1>3, <1>4 DEF OlderThan
<1>6. Place(l) \in Cursors
  BY <1>1, <1>2, <1>3 DEF Cursors
<1>7. \A m \in chat : Newer(l, Place(m)) <=> m.createdAt < t \/ (m.createdAt = t /\ m.id < i)
  BY <1>1, <1>2 DEF Newer, Place
<1>8. OlderThan(Place(l)) \subseteq OlderThan(cursor)
  <2>1. CASE cursor = <<>>
    BY <1>5, <2>1 DEF OlderThan
  <2>2. CASE cursor # <<>>
    <3>1. cursor[1] \in Int /\ cursor[2] \in Int
      BY <2>2, ChatAssumption DEF Cursors, MessageIds
    <3>2. t < cursor[1] \/ (t = cursor[1] /\ i < cursor[2])
      BY <1>2, <2>2 DEF OlderThan
    <3>3. ASSUME NEW m \in chat, m.createdAt < t \/ (m.createdAt = t /\ m.id < i)
          PROVE  m.createdAt < cursor[1] \/ (m.createdAt = cursor[1] /\ m.id < cursor[2])
      BY <1>1, <1>2, <3>1, <3>2, <3>3
    <3>4. QED BY <1>5, <2>2, <3>3 DEF OlderThan
  <2>3. QED BY <2>1, <2>2
<1>9. QED BY <1>5, <1>6, <1>7, <1>8

\* A room that only gets new messages, and whose messages keep their places,
\* does not disturb a reader.
LEMMA ReaderUndisturbed ==
    ASSUME ReaderInv, UNCHANGED paging,
           \A m \in chat : \E n \in chat' : n.id = m.id /\ n.createdAt = m.createdAt,
           \A n \in chat' : \/ \E m \in chat : n.id = m.id /\ n.createdAt = m.createdAt
                            \/ n.id \notin IdsOf(chat)
    PROVE  ReaderInv'
<1>1. IdsOf(chat) \subseteq IdsOf(chat')
  BY DEF IdsOf
<1>2. \A m \in chat, n \in chat' : n.id = m.id /\ n.createdAt = m.createdAt =>
         (m \in OlderThan(paging.cursor) <=> n \in OlderThan(paging.cursor)')
  BY DEF OlderThan
<1>3. OlderThan(paging.cursor) \subseteq chat /\ OlderThan(paging.cursor)' \subseteq chat'
  BY DEF OlderThan
<1> HIDE DEF OlderThan
<1>4. PICK A, B : A = IdsOf(OlderThan(paging.cursor)) /\ B = IdsOf(OlderThan(paging.cursor)')
  OBVIOUS
<1>5. A \subseteq B
  BY <1>2, <1>3, <1>4 DEF IdsOf
<1>6. \A i \in B : i \in A \/ i \notin IdsOf(chat)
  BY <1>2, <1>3, <1>4 DEF IdsOf
<1>7. PagesFitTogether <=>
        (paging.on => /\ paging.seen \cap A = {}
                      /\ paging.wanted \subseteq paging.seen \cup A
                      /\ ~paging.more => paging.wanted \subseteq paging.seen)
  BY <1>4 DEF PagesFitTogether, IdsOf
<1>8. PagesFitTogether' <=>
        (paging.on => /\ paging.seen \cap B = {}
                      /\ paging.wanted \subseteq paging.seen \cup B
                      /\ ~paging.more => paging.wanted \subseteq paging.seen)
  BY <1>4 DEF PagesFitTogether, IdsOf
<1>9. PagesFitTogether'
  BY <1>5, <1>6, <1>7, <1>8 DEF ReaderInv
<1>10. QED BY <1>1, <1>9 DEF ReaderInv, Readers, Cursors, MessageIds, IdsOf

\* The page a reader gets follows the ones it has.
LEMMA ReaderGetsPage ==
    ASSUME ChatInv, GetChatMessages
    PROVE  ReaderInv'
<1>0. RoomTypes /\ ReaderInv /\ UNCHANGED chat
  BY DEF ChatInv, GetChatMessages
<1>1. PICK c, older, page : c = paging.cursor /\ older = OlderThan(c) /\ page = FirstPage(older)
  OBVIOUS
<1>2. PICK d : d = IF page = {} THEN c ELSE Place(Last(page))
  OBVIOUS
<1>3. /\ paging.on /\ paging.more
      /\ paging' = [paging EXCEPT !.more = Cardinality(older) > PageLimit,
                                  !.cursor = d,
                                  !.seen = paging.seen \cup IdsOf(page)]
  BY <1>1, <1>2 DEF GetChatMessages, IdsOf
<1>4. /\ older \subseteq chat /\ older \subseteq Message /\ Apart(older) /\ IsFiniteSet(older)
      /\ page \subseteq older
  BY <1>0, <1>1, OlderIsInTheRoom DEF FirstPage
<1>5. /\ older # {} => page # {}
      /\ Cardinality(older) <= PageLimit => page = older
      /\ page # {} =>
            /\ Last(page) \in page
            /\ \A m \in page : m = Last(page) \/ Newer(m, Place(Last(page)))
            /\ \A m \in older \ page : Newer(Last(page), Place(m))
  BY <1>1, <1>4, PageIsTheNewest
<1>6. PICK more : more = (Cardinality(older) > PageLimit)
  OBVIOUS
<1>7. more \in BOOLEAN /\ (~more => page = older)
  <2>1. Cardinality(older) \in Nat /\ PageLimit \in Nat
    BY <1>4, FS_CardinalityType, ChatAssumption
  <2>2. PICK k : k = Cardinality(older)
    OBVIOUS
  <2>3. ~(k > PageLimit) => k <= PageLimit
    BY <2>1, <2>2
  <2>4. more \in BOOLEAN
    BY <1>6
  <2>5. ~more => ~(k > PageLimit)
    BY <1>6, <2>2
  <2>6. ~more => page = older
    BY <1>5, <2>2, <2>3, <2>5
  <2>7. QED BY <2>4, <2>6
<1>8. paging \in Readers /\ c \in Cursors
  BY <1>0, <1>1 DEF ReaderInv, Readers
\* What lies behind the page: nothing of the page, and all the rest.
<1>9. /\ d \in Cursors
      /\ OlderThan(d) \subseteq older
      /\ OlderThan(d) \cap page = {}
      /\ older \subseteq page \cup OlderThan(d)
  <2>1. CASE page = {}
    BY <1>1, <1>2, <1>5, <1>8, <2>1
  <2>2. CASE page # {}
    <3>1. PICK l : l = Last(page)
      OBVIOUS
    <3>2. l \in page /\ l \in older /\ l \in chat /\ d = Place(l)
      BY <1>2, <1>4, <1>5, <2>2, <3>1
    <3>3. /\ d \in Cursors
          /\ OlderThan(d) = {m \in chat : Newer(l, Place(m))}
          /\ OlderThan(d) \subseteq older
      BY <1>0, <1>1, <1>8, <3>2, CursorMovesOn
    <3>4. ASSUME NEW m \in page, m \in OlderThan(d) PROVE FALSE
      <4>1. m \in older /\ Newer(l, Place(m)) /\ (m = l \/ Newer(m, Place(l)))
        BY <1>4, <1>5, <2>2, <3>1, <3>3, <3>4
      <4>2. ~Newer(l, Place(l)) /\ ~(Newer(l, Place(m)) /\ Newer(m, Place(l)))
        BY <1>4, <3>2, <4>1, NewerIsAnOrder
      <4>3. QED BY <4>1, <4>2
    <3>5. \A m \in older \ page : m \in OlderThan(d)
      BY <1>4, <1>5, <2>2, <3>1, <3>3
    <3>6. QED BY <3>3, <3>4, <3>5
  <2>3. QED BY <2>1, <2>2
<1>10. PICK seen, wanted : seen = paging.seen /\ wanted = paging.wanted
  OBVIOUS
<1>11. /\ seen \cap IdsOf(older) = {} /\ wanted \subseteq seen \cup IdsOf(older)
       /\ seen \subseteq IdsOf(chat) /\ wanted \subseteq IdsOf(chat)
  BY <1>0, <1>1, <1>3, <1>10 DEF ReaderInv, PagesFitTogether, IdsOf
<1>12. /\ paging'.on /\ paging'.more = more /\ paging'.cursor = d
       /\ paging'.seen = seen \cup IdsOf(page) /\ paging'.wanted = wanted
  BY <1>3, <1>6, <1>8, <1>10 DEF Readers
<1>13. IdsOf(page) \subseteq IdsOf(chat) /\ IdsOf(chat) \subseteq MessageIds
  BY <1>0, <1>4 DEF IdsOf, RoomTypes, Message
<1>14. paging' \in Readers
  BY <1>3, <1>6, <1>7, <1>8, <1>9, <1>13 DEF Readers
<1>15. OlderThan(paging.cursor)' = OlderThan(d)
  BY <1>0, <1>12 DEF OlderThan
<1>16. IdsOf(OlderThan(d)) \cap IdsOf(page) = {}
  <2>1. SUFFICES ASSUME NEW m \in OlderThan(d), NEW n \in page, m.id = n.id PROVE FALSE
    BY DEF IdsOf
  <2>2. m = n
    BY <1>4, <1>9, <2>1 DEF Apart
  <2>3. QED BY <1>9, <2>1, <2>2
<1>17. IdsOf(OlderThan(d)) \subseteq IdsOf(older) /\ IdsOf(older) \subseteq IdsOf(page) \cup IdsOf(OlderThan(d))
  BY <1>9 DEF IdsOf
<1>18. PagesFitTogether'
  <2>1. (seen \cup IdsOf(page)) \cap IdsOf(OlderThan(d)) = {}
    BY <1>11, <1>16, <1>17
  <2>2. wanted \subseteq (seen \cup IdsOf(page)) \cup IdsOf(OlderThan(d))
    BY <1>11, <1>17
  <2>3. ~more => wanted \subseteq seen \cup IdsOf(page)
    BY <1>7, <1>11
  <2>4. QED BY <1>12, <1>15, <2>1, <2>2, <2>3 DEF PagesFitTogether, IdsOf
<1>19. QED BY <1>0, <1>11, <1>12, <1>13, <1>14, <1>18 DEF ReaderInv, IdsOf

\* Every step of the chat keeps its invariant.
LEMMA ChatInvStep ==
    ASSUME ChatInv, [ChatNext]_chatVars
    PROVE  ChatInv'
<1>0. RoomTypes /\ ReaderInv
  BY DEF ChatInv
<1>1. ASSUME UNCHANGED <<sending, chat>>, minute' \in 0 .. LastMinute PROVE RoomTypes'
  BY <1>0, <1>1 DEF RoomTypes, Message, MessageIds, Apart
<1>2. ASSUME UNCHANGED <<chat, paging>> PROVE ReaderInv'
  BY <1>0, <1>2, ReaderUndisturbed
<1>3. CASE ClockTicks
  <2>1. minute' \in 0 .. LastMinute
    BY <1>0, <1>3, ChatAssumption DEF ClockTicks, RoomTypes
  <2>2. QED BY <1>1, <1>2, <1>3, <2>1 DEF ClockTicks, ChatInv
<1>4. ASSUME NEW c \in ClientMessages, Send(c) PROVE ChatInv'
  <2>1. PICK id \in MessageIds \ UsedIds :
           sending' = sending \cup {[id |-> id, client |-> c, createdAt |-> minute, deleted |-> FALSE]}
    BY <1>4 DEF Send
  <2>2. UNCHANGED <<minute, chat, paging>>
    BY <1>4 DEF Send
  <2>3. PICK m : m = [id |-> id, client |-> c, createdAt |-> minute, deleted |-> FALSE]
    OBVIOUS
  <2>4. m \in Message /\ m.id = id
    BY <1>0, <2>3 DEF Message, RoomTypes
  <2>5. \A n \in sending \cup chat : n.id # id
    BY <2>1 DEF UsedIds
  <2>6. sending' = sending \cup {m}
    BY <2>1, <2>3
  <2>7. /\ sending' \subseteq Message /\ Apart(sending)'
        /\ \A x \in sending' : \A n \in chat : x.id # n.id
    BY <1>0, <2>4, <2>5, <2>6 DEF RoomTypes, Apart
  <2>8. RoomTypes'
    BY <1>0, <2>2, <2>7 DEF RoomTypes, Message, MessageIds, Apart
  <2>9. QED BY <1>2, <2>2, <2>8 DEF ChatInv
<1>5. ASSUME NEW m \in sending, Insert(m) PROVE ChatInv'
  <2>1. chat' = chat \cup {m} /\ sending' = sending \ {m} /\ UNCHANGED <<minute, paging>>
    BY <1>5 DEF Insert
  <2>2. m \in Message /\ \A n \in chat : n.id # m.id
    BY <1>0 DEF RoomTypes
  <2>3. IsFiniteSet(chat')
    BY <1>0, <2>1, FS_AddElement DEF RoomTypes
  <2>4. Apart(chat)' /\ Apart(sending)'
    BY <1>0, <2>1, <2>2 DEF RoomTypes, Apart
  <2>5. \A x \in sending' : \A n \in chat' : x.id # n.id
    BY <1>0, <2>1 DEF RoomTypes, Apart
  <2>6. RoomTypes'
    BY <1>0, <2>1, <2>2, <2>3, <2>4, <2>5 DEF RoomTypes, Message, MessageIds
  <2>7. m.id \notin IdsOf(chat)
    BY <2>2 DEF IdsOf
  <2>8. ReaderInv'
    BY <1>0, <2>1, <2>7, ReaderUndisturbed
  <2>9. QED BY <2>6, <2>8 DEF ChatInv
<1>6. ASSUME NEW m \in sending, ReturnExisting(m) \/ LoseSend(m) PROVE ChatInv'
  <2>1. sending' = sending \ {m} /\ UNCHANGED <<minute, chat, paging>>
    BY <1>6 DEF ReturnExisting, LoseSend
  <2>2. RoomTypes'
    BY <1>0, <2>1 DEF RoomTypes, Message, MessageIds, Apart
  <2>3. QED BY <1>2, <2>1, <2>2 DEF ChatInv
<1>7. ASSUME NEW m \in chat, Delete(m) PROVE ChatInv'
  <2>1. PICK n : n = [m EXCEPT !.deleted = TRUE]
    OBVIOUS
  <2>2. m \in Message
    BY <1>0 DEF RoomTypes
  <2>3. n \in Message /\ n.id = m.id /\ n.createdAt = m.createdAt
    BY <2>1, <2>2 DEF Message
  <2>4. chat' = (chat \ {m}) \cup {n} /\ UNCHANGED <<minute, sending, paging>>
    BY <1>7, <2>1 DEF Delete
  <2>5. IsFiniteSet(chat')
    <3>1. IsFiniteSet(chat \ {m})
      BY <1>0, FS_RemoveElement DEF RoomTypes
    <3>2. QED BY <2>4, <3>1, FS_AddElement
  <2>6. Apart(chat)' /\ \A x \in sending : \A y \in chat' : x.id # y.id
    BY <1>0, <2>3, <2>4 DEF RoomTypes, Apart
  <2>7. RoomTypes'
    BY <1>0, <2>3, <2>4, <2>5, <2>6 DEF RoomTypes, Message, MessageIds, Apart
  <2>8. ReaderInv'
    BY <1>0, <2>3, <2>4, ReaderUndisturbed
  <2>9. QED BY <2>7, <2>8 DEF ChatInv
<1>8. CASE OpenRoom
  <2>1. /\ UNCHANGED <<minute, sending, chat>>
        /\ paging' = [NotPaging EXCEPT !.on = TRUE, !.more = TRUE, !.wanted = IdsOf(chat)]
    BY <1>8 DEF OpenRoom, IdsOf
  <2>2. /\ paging'.on /\ paging'.more /\ paging'.cursor = <<>>
        /\ paging'.seen = {} /\ paging'.wanted = IdsOf(chat)
    BY <2>1 DEF NotPaging
  <2>3. paging' \in Readers
    <3>1. IdsOf(chat) \subseteq MessageIds
      BY <1>0 DEF IdsOf, RoomTypes, Message
    <3>2. QED BY <2>1, <3>1 DEF NotPaging, Readers, Cursors
  <2>4. OlderThan(paging.cursor)' = chat'
    BY <2>2 DEF OlderThan
  <2>5. PagesFitTogether'
    BY <2>1, <2>2, <2>4 DEF PagesFitTogether, IdsOf
  <2>6. ReaderInv'
    BY <2>1, <2>2, <2>3, <2>5 DEF ReaderInv, IdsOf
  <2>7. minute' \in 0 .. LastMinute
    BY <1>0, <2>1 DEF RoomTypes
  <2>8. QED BY <1>1, <2>1, <2>6, <2>7 DEF ChatInv
<1>9. CASE GetChatMessages
  <2>1. UNCHANGED <<sending, chat>> /\ minute' \in 0 .. LastMinute
    BY <1>0, <1>9 DEF GetChatMessages, RoomTypes
  <2>2. QED BY <1>1, <1>9, <2>1, ReaderGetsPage DEF ChatInv
<1>10. CASE LeaveRoom
  <2>1. UNCHANGED <<sending, chat>> /\ minute' \in 0 .. LastMinute /\ paging' = NotPaging
    BY <1>0, <1>10 DEF LeaveRoom, RoomTypes
  <2>2. ReaderInv'
    BY <2>1 DEF ReaderInv, NotPaging, Readers, Cursors, PagesFitTogether
  <2>3. QED BY <1>1, <2>1, <2>2 DEF ChatInv
<1>11. CASE UNCHANGED chatVars
  <2>1. UNCHANGED <<minute, sending, chat, paging>> /\ minute' \in 0 .. LastMinute
    BY <1>0, <1>11 DEF chatVars, RoomTypes
  <2>2. QED BY <1>1, <1>2, <2>1 DEF ChatInv
<1>12. QED
  BY <1>3, <1>4, <1>5, <1>6, <1>7, <1>8, <1>9, <1>10, <1>11 DEF ChatNext

\* At first no message is sent and no page is read.
LEMMA ChatInvInit == ChatInit => ChatInv
<1> SUFFICES ASSUME ChatInit PROVE ChatInv
  OBVIOUS
<1>1. RoomTypes
  BY FS_EmptySet, ChatAssumption DEF ChatInit, RoomTypes, Apart
<1>2. ReaderInv
  BY DEF ChatInit, ReaderInv, NotPaging, Readers, Cursors, PagesFitTogether
<1>3. QED BY <1>1, <1>2 DEF ChatInv

\* The invariant of the chat holds always.
LEMMA ChatInvAlways == ChatSpec => []ChatInv
BY ChatInvInit, ChatInvStep, PTL DEF ChatSpec

\* Type correctness of the chat.
THEOREM ChatIsTyped == ChatSpec => []ChatTypeOK
<1>1. ChatInv => ChatTypeOK
  BY DEF ChatInv, RoomTypes, ReaderInv, Readers, Cursors, ChatTypeOK
<1>2. QED BY <1>1, ChatInvAlways, PTL

\* Any number of messages, deletions and pages, and any page size: a reader who
\* pages through the room gets every message that was there when he began, and
\* none twice.
THEOREM PagesAlwaysFit == ChatSpec => []PagesFitTogether
<1>1. ChatInv => PagesFitTogether
  BY DEF ChatInv, ReaderInv
<1>2. QED BY <1>1, ChatInvAlways, PTL

-----------------------------------------------------------------------------
(***************************************************************************)
(* Accounts: what becomes of the auctions of a deleted user.               *)
(***************************************************************************)
\* The rows of two deletions differ, and only the auction consumer hears of them.
LEMMA DeletionShapes ==
    /\ \A k \in AccountCalls : /\ SoftDeleted(k) \in AccountEvents /\ Banned(k) \in AccountEvents
                               /\ SoftDeleted(k).type = "UserSoftDeleted"
                               /\ Banned(k).type = "UserBanned"
    /\ \A j \in AccountCalls, k \in AccountCalls : /\ SoftDeleted(j) = SoftDeleted(k) => j = k
                                                   /\ SoftDeleted(j) # Banned(k)
<1>1. \A k \in AccountCalls : /\ SoftDeleted(k) \in AccountEvents /\ Banned(k) \in AccountEvents
                               /\ SoftDeleted(k).type = "UserSoftDeleted"
                               /\ Banned(k).type = "UserBanned"
                               /\ SoftDeleted(k).of[1] = k
  BY DEF AccountEvents, SoftDeleted, Banned
<1>2. "UserSoftDeleted" # "UserBanned"
  OBVIOUS
<1>3. QED BY <1>1, <1>2

\* The event of a deletion and its retries go to the auction queue and to no other.
LEMMA BindingsOfDeletions ==
    /\ \A q \in Bound("UserSoftDeleted") : q = "auction"
    /\ \A q \in Bound(RetryKey("auction")) : q = "auction"
    /\ "auction" \in Watched => /\ "auction" \in Bound("UserSoftDeleted")
                                /\ "auction" \in Bound(RetryKey("auction"))
<1>1. Queues \subseteq {"notifications", "webhook", "wallet", "auth", "auction"}
  BY DeliveryAssumption DEF Queues
<1>2. \A q \in Queues : "UserSoftDeleted" \in Bindings(q) <=> q = "auction"
  BY <1>1 DEF Bindings, NotifiedTypes
<1>3. RetryKey("auction") = "auction.retry.direct"
  BY DEF RetryKey
<1>4. \A q \in Queues : "auction.retry.direct" \in Bindings(q) <=> q = "auction"
  BY <1>1 DEF Bindings, NotifiedTypes
<1>5. QED BY <1>2, <1>3, <1>4 DEF Bound, Queues

AccountTypes == AccountTypeOK /\ DeliveryTypeOK(AccountEvents)

\* The auctions listed when an account was deleted are not any more.
Settled(k) == \A x \in listedAt[SoftDeleted(k)] : auctionIs[x] # "listed"

\* The row of a deletion was saved and somebody has heard of it.
Heeded(k) ==
    \/ SoftDeleted(k) \in outbox
    \/ \E c \in copies : c.event = SoftDeleted(k)
    \/ SoftDeleted(k) \in keys

DeletionTraced(k) ==
    /\ \A c \in copies : c.event = SoftDeleted(k) =>
          c.queue = "auction" /\ (c.at = "handled" => Settled(k))
    /\ SoftDeleted(k) \in keys => Settled(k)
    /\ \A x \in listedAt[SoftDeleted(k)] : auctionIs[x] # "none"
    /\ Heeded(k) => call[k].stage = "done"
    /\ Happened(SoftDeleted(k)) => Reached(SoftDeleted(k))

AccountInv == AccountTypes /\ \A k \in AccountCalls : DeletionTraced(k)

\* No auction is listed again, and none is there that was not.
AuctionsGoOn ==
    \A x \in SellerAuctions :
        auctionIs[x] # "none" =>
            auctionIs'[x] # "none" /\ (auctionIs[x] # "listed" => auctionIs'[x] # "listed")

\* What the auction consumer has cancelled for a deletion stays cancelled, and what it
\* was to cancel stays known.
LEMMA SettledStays ==
    ASSUME AccountTypes, NEW k \in AccountCalls, DeletionTraced(k), AuctionsGoOn,
           listedAt'[SoftDeleted(k)] = listedAt[SoftDeleted(k)]
    PROVE  /\ Settled(k) => Settled(k)'
           /\ \A x \in listedAt'[SoftDeleted(k)] : auctionIs'[x] # "none"
<1>1. listedAt[SoftDeleted(k)] \subseteq SellerAuctions
  BY DeletionShapes DEF AccountTypes, AccountTypeOK
<1>2. SoftDeleted(k)' = SoftDeleted(k)
  BY DEF SoftDeleted
<1>3. QED BY <1>1, <1>2 DEF Settled, DeletionTraced, AuctionsGoOn

\* A deletion stays traced while its messages travel.
LEMMA DeletionTravels ==
    ASSUME AccountTypes, NEW k \in AccountCalls, DeletionTraced(k), AuctionsGoOn,
           listedAt'[SoftDeleted(k)] = listedAt[SoftDeleted(k)],
           call[k].stage = "done" => call'[k].stage = "done",
           SoftDeleted(k) \in outbox' => SoftDeleted(k) \in outbox,
           \A x \in copies' : \/ JustPublished(x)
                              \/ \E d \in copies : ComesFrom(x, d)
                              \/ Settled(k)' /\ \E d \in copies : x.event = d.event /\ x.queue = d.queue,
           keys' \subseteq keys \cup {d.event : d \in {b \in copies : b.at = "handled"}},
           Happened(SoftDeleted(k))' => Happened(SoftDeleted(k)),
           dead \subseteq dead', dropped \subseteq dropped',
           OnItsWay("auction", SoftDeleted(k)) =>
              \/ OnItsWay("auction", SoftDeleted(k))'
              \/ <<"auction", SoftDeleted(k)>> \in dead' \cup dropped'
              \/ Handled(SoftDeleted(k))
    PROVE  DeletionTraced(k)'
<1>0. /\ SoftDeleted(k)' = SoftDeleted(k)
      /\ SoftDeleted(k).type = "UserSoftDeleted"
  BY DeletionShapes DEF SoftDeleted
<1>1. PICK e : e = SoftDeleted(k)
  OBVIOUS
<1>a. SoftDeleted(k) = e /\ SoftDeleted(k)' = e /\ e.type = "UserSoftDeleted"
  BY <1>0, <1>1
<1>2. /\ Settled(k) => Settled(k)'
      /\ \A x \in listedAt'[e] : auctionIs'[x] # "none"
  BY <1>1, SettledStays
<1>3. Handled(e) => Settled(k)
  BY <1>a DEF Handled, DeletionTraced
<1> HIDE DEF Settled
<1>4. ASSUME NEW x \in copies', x.event = e
      PROVE  /\ x.queue = "auction" /\ (x.at = "handled" => Settled(k)')
             /\ e \in outbox \/ \E d \in copies : d.event = e
  <2>1. CASE JustPublished(x)
    <3>1. e \in outbox /\ x.queue \in Bound("UserSoftDeleted") /\ x.at = "ready"
      BY <1>a, <1>4, <2>1 DEF JustPublished
    <3>2. QED BY <3>1, BindingsOfDeletions
  <2>2. CASE \E d \in copies : ComesFrom(x, d)
    <3>1. PICK d \in copies : ComesFrom(x, d)
      BY <2>2
    <3>2. d.event = e /\ d.queue = "auction" /\ (d.at = "handled" => Settled(k))
      BY <1>a, <1>4, <3>1 DEF ComesFrom, DeletionTraced
    <3>3. x.queue = "auction"
      BY <3>1, <3>2, BindingsOfDeletions DEF ComesFrom
    <3>4. x.at = "handled" => Settled(k)
      BY <3>1, <3>2 DEF ComesFrom
    <3>5. QED BY <1>2, <3>2, <3>3, <3>4
  <2>3. CASE Settled(k)' /\ \E d \in copies : x.event = d.event /\ x.queue = d.queue
    BY <1>a, <1>4, <2>3 DEF DeletionTraced
  <2>4. QED BY <2>1, <2>2, <2>3
<1>5. e \in keys' => Handled(e)
  BY DEF Handled
<1>6. Heeded(k)' => call'[k].stage = "done"
  <2>1. Heeded(k)' <=> e \in outbox' \/ (\E x \in copies' : x.event = e) \/ e \in keys'
    BY <1>a DEF Heeded
  <2>2. Heeded(k) <=> e \in outbox \/ (\E x \in copies : x.event = e) \/ e \in keys
    BY <1>a DEF Heeded
  <2>3. Handled(e) => Heeded(k)
    BY <2>2 DEF Handled
  <2>4. Heeded(k)' => Heeded(k)
    BY <1>a, <1>4, <1>5, <2>1, <2>2, <2>3
  <2>5. QED BY <2>4 DEF DeletionTraced
<1>7. Happened(e)' => Reached(e)'
  <2>1. SUFFICES ASSUME Happened(e)' PROVE Reached(e)'
    OBVIOUS
  <2>2. Reached(e)
    BY <1>a, <2>1 DEF DeletionTraced
  <2>3. Settled(k)' => Reached(e)'
    BY <1>a DEF Settled, Reached
  <2>4. Reached(e) <=> OnItsWay("auction", e) \/ <<"auction", e>> \in dead \cup dropped \/ Settled(k)
    BY <1>a DEF Settled, Reached
  <2>5. OnItsWay("auction", e)' \/ <<"auction", e>> \in dead' \cup dropped' => Reached(e)'
    BY DEF Reached
  <2>6. QED BY <1>a, <1>2, <1>3, <2>2, <2>3, <2>4, <2>5
<1>8. /\ \A c \in copies' : c.event = e => c.queue = "auction" /\ (c.at = "handled" => Settled(k)')
      /\ e \in keys' => Settled(k)'
      /\ \A x \in listedAt'[e] : auctionIs'[x] # "none"
      /\ Heeded(k)' => call'[k].stage = "done"
      /\ Happened(e)' => Reached(e)'
  BY <1>2, <1>3, <1>4, <1>5, <1>6, <1>7
<1>9. QED BY <1>a, <1>8 DEF DeletionTraced

\* The account's variables keep their types, and no call that is done goes on.
LEMMA AccountTypesStep ==
    ASSUME AccountTypes, [AccountNext]_accountAllVars
    PROVE  /\ AccountTypes'
           /\ \A k \in AccountCalls : call[k].stage = "done" => call'[k].stage = "done"
<1>0. AccountTypeOK /\ DeliveryTypeOK(AccountEvents) /\ copies \subseteq CopiesOf(AccountEvents)
  BY DEF AccountTypes, DeliveryTypeOK, CopiesOf
<1> DEFINE Goal == AccountTypeOK' /\ \A k \in AccountCalls : call[k].stage = "done" => call'[k].stage = "done"
<1>a. ASSUME UNCHANGED deliveryVars PROVE DeliveryTypeOK(AccountEvents)'
  BY <1>0, <1>a DEF deliveryVars, DeliveryTypeOK, AccountEvents, AccountCalls, Queues, SoftDeleted, Banned
<1> USE DEF AccountTypeOK, AccountCalls
<1>1. ASSUME NEW k \in AccountCalls, NEW op \in Operations, Find(k, op) PROVE Goal
  <2>1. op \in {"ban", "delete"} /\ call[k] = NotCalled
    BY <1>1, AccountAssumption DEF Find
  <2>2. PICK r : r = [op |-> op, stage |-> "found", bans |-> op = "ban" /\ ~account.banned]
    OBVIOUS
  <2>3. r \in [op : {"none", "ban", "delete"}, bans : BOOLEAN, stage : {"new", "found", "updated", "done"}]
    BY <2>1, <2>2
  <2>4. call' = [call EXCEPT ![k] = r]
    BY <1>1, <2>2 DEF Find
  <2>5. call[k].stage # "done"
    BY <2>1 DEF NotCalled
  <2>6. QED
    BY <1>0, <1>1, <2>3, <2>4, <2>5 DEF Find, AccountEvents, SoftDeleted, Banned
<1>2. ASSUME NEW k \in AccountCalls, Update(k) PROVE Goal
  BY <1>0, <1>2 DEF Update, NotCached, AccountEvents, SoftDeleted, Banned
<1>3. ASSUME NEW k \in AccountCalls, AbortCall(k) PROVE Goal
  BY <1>0, <1>3 DEF AbortCall, AccountEvents, SoftDeleted, Banned
<1>4. ASSUME NEW k \in AccountCalls, Commit(k) PROVE Goal
  <2>1. Listed \subseteq SellerAuctions
    BY DEF Listed
  <2>2. listedAt' \in [AccountEvents -> SUBSET SellerAuctions]
    BY <1>0, <1>4, <2>1 DEF Commit
  <2>3. AccountEvents' = AccountEvents
    BY DEF AccountEvents, SoftDeleted, Banned
  <2>4. account' \in [banned : BOOLEAN, deleted : BOOLEAN]
    BY <1>0, <1>4 DEF Commit
  <2>5. QED BY <1>0, <1>4, <2>2, <2>3, <2>4 DEF Commit
<1>5. ASSUME Reactivate PROVE Goal
  <2>1. NotCached \in [status : {"none", "active", "banned", "deleted"}, late : BOOLEAN]
    BY DEF NotCached
  <2>2. authStatus' \in [status : {"none", "active", "banned", "deleted"}, late : BOOLEAN]
    BY <1>0, <1>5, <2>1 DEF Reactivate
  <2>3. account' \in [banned : BOOLEAN, deleted : BOOLEAN]
    BY <1>0, <1>5 DEF Reactivate
  <2>4. QED BY <1>0, <1>5, <2>2, <2>3 DEF Reactivate, AccountEvents, SoftDeleted, Banned
<1>6. ASSUME NEW r \in Checkers, StartCheck(r) PROVE Goal
  BY <1>0, <1>6 DEF StartCheck, AccountEvents, SoftDeleted, Banned
<1>7. ASSUME NEW r \in Checkers, ReadStatus(r) PROVE Goal
  BY <1>0, <1>7 DEF ReadStatus, StatusInDb, DbStatus, AccountEvents, SoftDeleted, Banned
<1>8. ASSUME NEW r \in Checkers, CacheStatus(r) PROVE Goal
  <2>1. check[r] \in {"active", "banned", "deleted"}
    BY <1>0, <1>8 DEF CacheStatus
  <2>2. QED BY <1>0, <1>8, <2>1 DEF CacheStatus, AccountEvents, SoftDeleted, Banned
<1>9. ASSUME NEW r \in Checkers, CheckFails(r) PROVE Goal
  BY <1>0, <1>9 DEF CheckFails, AccountEvents, SoftDeleted, Banned
<1>10. ASSUME StatusAges PROVE Goal
  BY <1>0, <1>10 DEF StatusAges, NotCached, AccountEvents, SoftDeleted, Banned
<1>11. ASSUME Login \/ RefreshTokens \/ LogoutAll \/ IssueAuthTokens PROVE Goal
  <2>1. /\ UNCHANGED <<account, call, authStatus, check, refreshLock, auctionIs, listedAt>>
        /\ signingIn' \in BOOLEAN /\ signedIn' \in BOOLEAN
    BY <1>0, <1>11 DEF Login, RefreshTokens, LogoutAll, IssueAuthTokens
  <2>2. QED BY <1>0, <2>1 DEF AccountEvents, SoftDeleted, Banned
<1>12. ASSUME NEW x \in SellerAuctions, CreateAuction(x) PROVE Goal
  BY <1>0, <1>12 DEF CreateAuction, AccountEvents, SoftDeleted, Banned
<1>13. ASSUME NEW c \in copies, DeleteTokens(c) PROVE Goal
  BY <1>0, <1>13 DEF DeleteTokens, AccountEvents, SoftDeleted, Banned
<1>14. ASSUME NEW c \in copies, CancelAuctions(c) PROVE Goal
  <2>1. \A F : Cancelled(F) \in [SellerAuctions -> {"none", "listed", "cancelled", "refused"}]
    BY <1>0 DEF Cancelled
  <2>2. auctionIs' \in [SellerAuctions -> {"none", "listed", "cancelled", "refused"}]
    BY <1>14, <2>1 DEF CancelAuctions
  <2>3. QED BY <1>0, <1>14, <2>2 DEF CancelAuctions, AccountEvents, SoftDeleted, Banned
<1>15. ASSUME UNCHANGED accountVars PROVE Goal
  BY <1>0, <1>15 DEF accountVars, AccountEvents, SoftDeleted, Banned
<1>16. ASSUME NEW c \in copies, Advance(c, "handled"), faults' \in Nat,
              UNCHANGED <<outbox, published, keys, dead, dropped>>
       PROVE  DeliveryTypeOK(AccountEvents)'
  <2>1. [c EXCEPT !.at = "handled"] \in CopiesOf(AccountEvents)
    BY <1>0, AdvanceTyped
  <2>2. copies' \subseteq CopiesOf(AccountEvents)
    BY <1>0, <1>16, <2>1 DEF Advance
  <2>3. AccountEvents' = AccountEvents
    BY DEF AccountEvents, SoftDeleted, Banned
  <2>4. QED BY <1>0, <1>16, <2>2, <2>3 DEF DeliveryTypeOK, CopiesOf, Queues
<1>17. DeliveryTypeOK(AccountEvents)'
  <2>1. ASSUME NEW k \in AccountCalls, Commit(k) PROVE DeliveryTypeOK(AccountEvents)'
    <3>1. EventsSaved(k) \subseteq AccountEvents
      BY DeletionShapes DEF EventsSaved
    <3>2. AccountEvents' = AccountEvents
      BY DEF AccountEvents, SoftDeleted, Banned
    <3>3. QED BY <1>0, <2>1, <3>1, <3>2 DEF Commit, Saved, DeliveryTypeOK, Queues
  <2>2. ASSUME NEW c \in copies, DeleteTokens(c) \/ CancelAuctions(c)
        PROVE  DeliveryTypeOK(AccountEvents)'
    <3>1. faults' \in Nat
      BY <1>0, <2>2 DEF DeleteTokens, CancelAuctions, DeliveryTypeOK
    <3>2. QED BY <1>16, <2>2, <3>1 DEF DeleteTokens, CancelAuctions
  <2>3. CASE DeliveryNext
    <3>1. DeliveryTypeOK(AccountEvents)'
      BY <1>0, <2>3, DeliveryTyped
    <3>2. QED BY <3>1
  <2>4. CASE UNCHANGED deliveryVars
    BY <1>a, <2>4
  <2>5. QED
    BY <2>1, <2>2, <2>3, <2>4
    DEF AccountNext, Find, Update, AbortCall, Reactivate, StartCheck, ReadStatus, CacheStatus,
        CheckFails, StatusAges, Login, RefreshTokens, LogoutAll, IssueAuthTokens, CreateAuction,
        accountAllVars
<1> HIDE DEF Goal
<1>18. Goal
  BY <1>1, <1>2, <1>3, <1>4, <1>5, <1>6, <1>7, <1>8, <1>9, <1>10, <1>11, <1>12, <1>13, <1>14, <1>15
  DEF AccountNext, accountAllVars
<1>19. QED BY <1>17, <1>18 DEF Goal, AccountTypes

\* A step that moves no message.
LEMMA DeletionRests ==
    ASSUME AccountTypes, NEW k \in AccountCalls, DeletionTraced(k), AuctionsGoOn,
           listedAt'[SoftDeleted(k)] = listedAt[SoftDeleted(k)],
           call[k].stage = "done" => call'[k].stage = "done",
           NEW E, outbox' = outbox \cup E, SoftDeleted(k) \notin E,
           UNCHANGED <<published, copies, keys, dead, dropped>>
    PROVE  DeletionTraced(k)'
<1>1. \A x \in copies' : \E d \in copies : ComesFrom(x, d)
  BY DEF ComesFrom
<1>2. Happened(SoftDeleted(k))' => Happened(SoftDeleted(k))
  BY DEF Happened, SoftDeleted
<1>3. OnItsWay("auction", SoftDeleted(k)) => OnItsWay("auction", SoftDeleted(k))'
  BY DEF OnItsWay, SoftDeleted
<1>4. QED BY <1>1, <1>2, <1>3, DeletionTravels

\* The commit of a deletion puts its event on its way.
LEMMA DeletionCommits ==
    ASSUME AccountTypes, NEW k \in AccountCalls, DeletionTraced(k), NEW j \in AccountCalls, Commit(j),
           call[k].stage = "done" => call'[k].stage = "done"
    PROVE  DeletionTraced(k)'
<1>0. /\ outbox' = outbox \cup EventsSaved(j)
      /\ UNCHANGED <<published, copies, keys, dead, dropped, auctionIs>>
      /\ listedAt' = [e \in AccountEvents |-> IF e \in EventsSaved(j) THEN Listed ELSE listedAt[e]]
  BY DEF Commit, Saved
<1>1. CASE SoftDeleted(k) \notin EventsSaved(j)
  <2>1. listedAt'[SoftDeleted(k)] = listedAt[SoftDeleted(k)]
    BY <1>0, <1>1, DeletionShapes
  <2>2. AuctionsGoOn
    BY <1>0 DEF AuctionsGoOn
  <2>3. QED BY <1>0, <1>1, <2>1, <2>2, DeletionRests
<1>2. CASE SoftDeleted(k) \in EventsSaved(j)
  <2>1. j = k
    BY <1>2, DeletionShapes DEF EventsSaved
  <2>2. ~Heeded(k)
    <3>1. call[k].stage = "updated"
      BY <2>1 DEF Commit
    <3>2. QED BY <3>1 DEF DeletionTraced
  <2>3. SoftDeleted(k)' = SoftDeleted(k)
    BY DEF SoftDeleted
  <2>4. (\A c \in copies' : c.event # SoftDeleted(k)) /\ SoftDeleted(k) \notin keys'
    BY <1>0, <2>2 DEF Heeded
  <2>5. listedAt'[SoftDeleted(k)] = Listed
    BY <1>0, <1>2, DeletionShapes
  <2>6. \A x \in listedAt'[SoftDeleted(k)] : auctionIs'[x] # "none"
    BY <1>0, <2>5 DEF Listed
  <2>7. call'[k].stage = "done"
    BY <2>1 DEF Commit, AccountTypes, AccountTypeOK
  <2>8. Reached(SoftDeleted(k))'
    BY <1>0, <1>2, <2>3 DEF Reached, OnItsWay
  <2>9. QED BY <2>3, <2>4, <2>6, <2>7, <2>8 DEF DeletionTraced
<1>3. QED BY <1>1, <1>2

\* The consumers of the account's events.
LEMMA DeletionIsHandled ==
    ASSUME AccountTypes, NEW k \in AccountCalls, DeletionTraced(k),
           NEW c \in copies, DeleteTokens(c) \/ CancelAuctions(c)
    PROVE  DeletionTraced(k)'
<1>0. /\ UNCHANGED <<outbox, published, keys, dead, dropped, call, listedAt>>
      /\ copies' = (copies \ {c}) \cup {[c EXCEPT !.at = "handled"]}
  BY DEF DeleteTokens, CancelAuctions, Advance
<1>1. /\ [c EXCEPT !.at = "handled"].queue = c.queue
      /\ [c EXCEPT !.at = "handled"].event = c.event
  BY AdvanceTyped DEF AccountTypes, DeliveryTypeOK, CopiesOf
<1>2. AuctionsGoOn
  <2>1. CASE DeleteTokens(c)
    BY <2>1 DEF DeleteTokens, AuctionsGoOn
  <2>2. CASE CancelAuctions(c)
    BY <2>2 DEF CancelAuctions, AuctionsGoOn, Cancelled, Listed
  <2>3. QED BY <2>1, <2>2
<1>3. c.event = SoftDeleted(k) => Settled(k)'
  <2>1. SUFFICES ASSUME c.event = SoftDeleted(k) PROVE Settled(k)'
    OBVIOUS
  <2>2. c.queue = "auction"
    BY <2>1 DEF DeletionTraced
  <2>3. CancelAuctions(c)
    BY <2>2 DEF DeleteTokens
  <2>4. \A x \in SellerAuctions : auctionIs'[x] # "listed"
    <3>1. \A F : \A x \in SellerAuctions : Cancelled(F)[x] # "listed"
      BY DEF Cancelled, Listed
    <3>2. QED BY <2>3, <3>1 DEF CancelAuctions
  <2>5. listedAt'[SoftDeleted(k)] \subseteq SellerAuctions
    BY <1>0, DeletionShapes DEF AccountTypes, AccountTypeOK
  <2>6. SoftDeleted(k)' = SoftDeleted(k)
    BY DEF SoftDeleted
  <2>7. QED BY <2>4, <2>5, <2>6 DEF Settled
<1>4. CASE c.event = SoftDeleted(k)
  <2>1. \A x \in copies' : Settled(k)' /\ \E d \in copies : x.event = d.event /\ x.queue = d.queue
    BY <1>0, <1>1, <1>3, <1>4
  <2>2. Happened(SoftDeleted(k))' => Happened(SoftDeleted(k))
    BY <1>0 DEF Happened, SoftDeleted
  <2>3. OnItsWay("auction", SoftDeleted(k)) => OnItsWay("auction", SoftDeleted(k))'
    BY <1>0, <1>1 DEF OnItsWay, SoftDeleted
  <2>4. QED BY <1>0, <1>2, <2>1, <2>2, <2>3, DeletionTravels
<1>5. CASE c.event # SoftDeleted(k)
  <2>0. SoftDeleted(k)' = SoftDeleted(k)
    BY DEF SoftDeleted
  <2>1. /\ Settled(k) => Settled(k)'
        /\ \A x \in listedAt'[SoftDeleted(k)] : auctionIs'[x] # "none"
    BY <1>0, <1>2, SettledStays
  <2>2. \A x \in copies' : x.event = SoftDeleted(k) => x \in copies
    BY <1>0, <1>1, <1>5
  <2>3. Heeded(k)' => Heeded(k)
    BY <1>0, <2>0, <2>2 DEF Heeded
  <2>4. Happened(SoftDeleted(k))' => Happened(SoftDeleted(k))
    BY <1>0, <2>0 DEF Happened
  <2>5. OnItsWay("auction", SoftDeleted(k)) => OnItsWay("auction", SoftDeleted(k))'
    BY <1>0, <1>1, <2>0 DEF OnItsWay
  <2>6. Reached(SoftDeleted(k)) => Reached(SoftDeleted(k))'
    BY <1>0, <2>0, <2>1, <2>5 DEF Reached, Settled
  <2> HIDE DEF Settled
  <2>7. QED BY <1>0, <2>0, <2>1, <2>2, <2>3, <2>4, <2>6 DEF DeletionTraced
<1>6. QED BY <1>4, <1>5

\* The message system.
LEMMA DeletionDelivers ==
    ASSUME "auction" \in Watched, AccountTypes, NEW k \in AccountCalls, DeletionTraced(k),
           DeliveryNext, UNCHANGED accountVars
    PROVE  DeletionTraced(k)'
<1>0. DeliveryTypeOK(AccountEvents)
  BY DEF AccountTypes
<1>1. /\ \A x \in copies' : JustPublished(x) \/ \E d \in copies : ComesFrom(x, d)
      /\ outbox' \subseteq outbox
      /\ keys' \subseteq keys \cup {d.event : d \in {b \in copies : b.at = "handled"}}
  BY <1>0, DeliveryDescent
<1>2. dead \subseteq dead' /\ dropped \subseteq dropped'
  BY LossesStayKnown
<1>3. OnItsWay("auction", SoftDeleted(k)) =>
        \/ OnItsWay("auction", SoftDeleted(k))'
        \/ <<"auction", SoftDeleted(k)>> \in dead' \cup dropped'
        \/ Handled(SoftDeleted(k))
  <2>1. PICK e : e = SoftDeleted(k)
    OBVIOUS
  <2>2. e.type = "UserSoftDeleted"
    BY <2>1, DeletionShapes
  <2>3. "auction" \in Bound(e.type) /\ "auction" \in Bound(RetryKey("auction"))
    BY <2>2, BindingsOfDeletions
  <2>4. OnItsWay("auction", e) =>
          \/ OnItsWay("auction", e)' \/ <<"auction", e>> \in dead'
          \/ "auction" \in AcksFirst /\ <<"auction", e>> \in dropped'
          \/ Handled(e)
    BY <1>0, <2>3, NothingIsLost
  <2>5. SoftDeleted(k)' = SoftDeleted(k) /\ (OnItsWay("auction", SoftDeleted(k))' <=> OnItsWay("auction", e)')
    BY <2>1 DEF SoftDeleted, OnItsWay
  <2>6. QED BY <2>1, <2>4, <2>5
<1>4. Happened(SoftDeleted(k))' => Happened(SoftDeleted(k))
  <2>1. \A p \in published' : p \in published \/ p[1] \in outbox
    BY DEF DeliveryNext, Dispatch, DispatchUnmarked, Publication, Take, SkipDuplicate, Acknowledge,
           Fail, FailHalfway, CrashConsumers, KeyExpires
  <2>2. QED BY <1>1, <2>1 DEF Happened, SoftDeleted
<1>5. AuctionsGoOn /\ UNCHANGED <<call, listedAt>>
  BY DEF accountVars, AuctionsGoOn
<1>6. QED BY <1>1, <1>2, <1>3, <1>4, <1>5, DeletionTravels

\* Every step of the accounts keeps their invariant.
LEMMA AccountInvStep ==
    ASSUME "auction" \in Watched, AccountInv, [AccountNext]_accountAllVars
    PROVE  AccountInv'
<1>0. AccountTypes /\ \A k \in AccountCalls : DeletionTraced(k)
  BY DEF AccountInv
<1>1. /\ AccountTypes'
      /\ \A k \in AccountCalls : call[k].stage = "done" => call'[k].stage = "done"
  BY <1>0, AccountTypesStep
<1>2. ASSUME NEW k \in AccountCalls PROVE DeletionTraced(k)'
  <2>1. DeletionTraced(k) /\ (call[k].stage = "done" => call'[k].stage = "done")
    BY <1>0, <1>1
  <2>2. ASSUME UNCHANGED deliveryVars, UNCHANGED listedAt, AuctionsGoOn PROVE DeletionTraced(k)'
    <3>1. PICK E : E = {}
      OBVIOUS
    <3>2. outbox' = outbox \cup E /\ SoftDeleted(k) \notin E
      BY <2>2, <3>1 DEF deliveryVars
    <3>3. UNCHANGED <<published, copies, keys, dead, dropped>>
      BY <2>2 DEF deliveryVars
    <3>4. listedAt'[SoftDeleted(k)] = listedAt[SoftDeleted(k)]
      BY <2>2
    <3>5. QED BY <1>0, <2>1, <2>2, <3>2, <3>3, <3>4, DeletionRests
  <2>3. UNCHANGED auctionIs => AuctionsGoOn
    BY DEF AuctionsGoOn
  <2>4. ASSUME NEW x \in SellerAuctions, CreateAuction(x) PROVE DeletionTraced(k)'
    <3>1. AuctionsGoOn
      BY <1>0, <2>4 DEF CreateAuction, AuctionsGoOn, AccountTypes, AccountTypeOK
    <3>2. QED BY <2>2, <2>4, <3>1 DEF CreateAuction
  <2>5. ASSUME NEW j \in AccountCalls, Commit(j) PROVE DeletionTraced(k)'
    BY <1>0, <2>1, <2>5, DeletionCommits
  <2>6. ASSUME NEW c \in copies, DeleteTokens(c) \/ CancelAuctions(c) PROVE DeletionTraced(k)'
    BY <1>0, <2>1, <2>6, DeletionIsHandled
  <2>7. ASSUME DeliveryNext, UNCHANGED accountVars PROVE DeletionTraced(k)'
    BY <1>0, <2>1, <2>7, DeletionDelivers
  <2>8. ASSUME UNCHANGED <<deliveryVars, listedAt, auctionIs>> PROVE DeletionTraced(k)'
    BY <2>2, <2>3, <2>8
  <2> HIDE DEF DeletionTraced
  <2>9. QED
    BY <2>4, <2>5, <2>6, <2>7, <2>8
    DEF AccountNext, Find, Update, AbortCall, Reactivate, StartCheck, ReadStatus, CacheStatus,
        CheckFails, StatusAges, Login, RefreshTokens, LogoutAll, IssueAuthTokens,
        accountAllVars, accountVars
<1>3. QED BY <1>1, <1>2 DEF AccountInv, AccountCalls

\* At first nobody is deleted.
LEMMA AccountInvInit ==
    ASSUME AccountInit, DeliveryInit, faults \in Nat
    PROVE  AccountInv
<1>1. AccountTypes
  BY DEF AccountInit, DeliveryInit, AccountTypes, AccountTypeOK, DeliveryTypeOK, NotCalled, NotCached
<1>2. ASSUME NEW k \in AccountCalls PROVE DeletionTraced(k)
  BY DeletionShapes DEF AccountInit, DeliveryInit, DeletionTraced, Heeded, Settled, Happened
<1>3. QED BY <1>1, <1>2 DEF AccountInv

\* The invariant of the accounts holds always.
LEMMA AccountInvAlways ==
    ASSUME "auction" \in Watched
    PROVE  AccountSpec => []AccountInv
<1>1. AccountInit /\ DeliveryInit /\ faults \in Nat => AccountInv
  BY AccountInvInit
<1>2. AccountInv /\ [AccountNext]_accountAllVars => AccountInv'
  BY AccountInvStep
<1>3. QED BY <1>1, <1>2, PTL DEF AccountSpec

\* Type correctness of the account.
THEOREM AccountIsTyped ==
    ASSUME "auction" \in Watched
    PROVE  AccountSpec => []AccountTypeOK
<1>1. AccountInv => AccountTypeOK
  BY DEF AccountInv, AccountTypes
<1>2. QED BY <1>1, AccountInvAlways, PTL

\* With an auction consumer, whatever faults, retries, publications, deletions
\* and reactivations there are: the auctions of a deleted user are cancelled, or
\* the event is on its way, or one can see what went wrong.
THEOREM DeletionsReachAuctions ==
    ASSUME "auction" \in Watched
    PROVE  AccountSpec => []DeletionReachesAuctions
<1>1. AccountInv => DeletionReachesAuctions
  BY DEF AccountInv, DeletionTraced, DeletionReachesAuctions
<1>2. QED BY <1>1, AccountInvAlways, PTL

-----------------------------------------------------------------------------
(***************************************************************************)
(* All parts together: MCPlatform, where each part moves alone.            *)
(***************************************************************************)
PlatformEvents == PaymentEvents \cup NotificationEvents \cup AccountEvents

AccountsMove == part \in {"bans", "deletions", "banned_seller"}

\* The parts that send no events keep their invariants whatever else moves; the
\* message system is that of the part that moves.
PartsInv ==
    /\ part \in Parts
    /\ WithdrawalInv /\ ReviewInv /\ ChatInv /\ CacheInv
    /\ IF PaymentsMove THEN PaymentInv ELSE PaymentRowsTypeOK
    /\ IF part = "notifications" THEN NotificationInv ELSE NotificationTypeOK
    /\ IF AccountsMove THEN AccountInv ELSE AccountTypeOK
    /\ PaymentsMove \/ part = "notifications" \/ AccountsMove \/ DeliveryTypeOK(PlatformEvents)

\* A message of one part is a message of the platform.
LEMMA MoreEvents ==
    ASSUME NEW E, NEW F, DeliveryTypeOK(E), E \subseteq F
    PROVE  DeliveryTypeOK(F)
<1>1. CopiesOf(E) \subseteq CopiesOf(F)
  BY DEF CopiesOf
<1>2. copies \subseteq CopiesOf(F)
  BY <1>1 DEF DeliveryTypeOK, CopiesOf
<1>3. QED BY <1>2 DEF DeliveryTypeOK, CopiesOf

\* Each part starts in its invariant.
LEMMA PartsInvInit == PlatformInit => PartsInv
<1> SUFFICES ASSUME PlatformInit PROVE PartsInv
  OBVIOUS
<1>1. /\ WithdrawalInit /\ DeliveryInit /\ PaymentInit /\ NotificationInit
      /\ ReviewInit /\ ChatInit /\ CacheInit /\ AccountInit /\ part \in Parts /\ faults \in Nat
  BY DEF PlatformInit
<1>2. WithdrawalInv /\ ReviewInv /\ ChatInv /\ CacheInv
  BY <1>1, WithdrawalInvInit, ReviewInvInit, ChatInvInit, CacheInvInit
<1>3. PaymentInv /\ NotificationInv /\ AccountInv
  BY <1>1, PaymentInvInit, NotificationInvInit, AccountInvInit
<1>4. PaymentRowsTypeOK /\ NotificationTypeOK /\ AccountTypeOK
  BY <1>3, NotificationInvTyped DEF PaymentInv, PaymentTypeOK, AccountInv, AccountTypes
<1>5. DeliveryTypeOK(PlatformEvents)
  BY <1>1 DEF DeliveryInit, DeliveryTypeOK
<1>6. QED BY <1>1, <1>2, <1>3, <1>4, <1>5 DEF PartsInv

\* A step of one part keeps its invariant and leaves the other parts alone.
LEMMA PartsInvStep ==
    ASSUME "notifications" \in Watched, "auction" \in Watched, PartsInv, [PlatformNext]_vars
    PROVE  PartsInv'
<1>1. /\ [WithdrawalNext]_withdrawalVars /\ [ReviewNext]_reviewVars
      /\ [ChatNext]_chatVars /\ [CacheNext]_cacheVars /\ UNCHANGED part
  BY DEF PlatformNext, vars
<1>2. WithdrawalInv'
  BY <1>1, WithdrawalTypesStep, OneRequestStep, BooksStep DEF PartsInv, WithdrawalInv
<1>3. ReviewInv' /\ ChatInv' /\ CacheInv'
  BY <1>1, ReviewInvStep, ChatInvStep, CacheInvStep DEF PartsInv
<1>4. /\ UNCHANGED paymentVars \/ (PaymentsMove /\ [PaymentNext]_payAllVars)
      /\ UNCHANGED notificationVars \/ (part = "notifications" /\ [NotificationNext]_notifyVars)
      /\ \/ UNCHANGED accountVars
         \/ AccountsMove /\ [AccountNext]_accountAllVars
      /\ \/ UNCHANGED deliveryVars
         \/ PaymentsMove
         \/ part = "notifications"
         \/ AccountsMove
  BY DEF PlatformNext, vars, PaymentsMove, AccountsMove
<1>5. /\ PaymentsMove => [PaymentNext]_payAllVars
      /\ part = "notifications" => [NotificationNext]_notifyVars
      /\ AccountsMove => [AccountNext]_accountAllVars
  BY DEF PlatformNext, vars, PaymentsMove, AccountsMove, payAllVars, notifyVars, accountAllVars
<1>6. PaymentsMove => PaymentInv'
  BY <1>5, PaymentTypesStep, GatewayStep, CreditedOnceStep, MessageStep DEF PartsInv, PaymentInv, MessageInv
<1>7. part = "notifications" => NotificationInv'
  BY <1>5, NotificationInvStep DEF PartsInv
<1>8. AccountsMove => AccountInv'
  BY <1>5, AccountInvStep DEF PartsInv
<1>9. PaymentsMove \/ PaymentRowsTypeOK'
  BY <1>4 DEF PartsInv, PaymentRowsTypeOK, paymentVars
<1>10. part = "notifications" \/ NotificationTypeOK'
  BY <1>4 DEF PartsInv, NotificationTypeOK, notificationVars, NotificationEvents, StepsOf
<1>11. AccountsMove \/ AccountTypeOK'
  BY <1>4 DEF PartsInv, AccountTypeOK, accountVars, AccountEvents, AccountCalls, SoftDeleted, Banned
<1>12. PaymentsMove \/ part = "notifications" \/ AccountsMove \/ DeliveryTypeOK(PlatformEvents)'
  BY <1>4 DEF PartsInv, DeliveryTypeOK, deliveryVars, Queues
<1>13. UNCHANGED part /\ PaymentsMove' = PaymentsMove /\ AccountsMove' = AccountsMove
  BY <1>1 DEF PaymentsMove, AccountsMove
<1>14. QED
  BY <1>2, <1>3, <1>6, <1>7, <1>8, <1>9, <1>10, <1>11, <1>12, <1>13 DEF PartsInv

\* Every variable of every part keeps its type, whichever part moves.
THEOREM PlatformIsTyped ==
    ASSUME "notifications" \in Watched, "auction" \in Watched
    PROVE  PlatformSpec => []PlatformTypeOK
<1>1. PartsInv /\ [PlatformNext]_vars => PartsInv'
  BY PartsInvStep
<1>2. PartsInv => PlatformTypeOK
  <2> SUFFICES ASSUME PartsInv PROVE PlatformTypeOK
    OBVIOUS
  <2>1. /\ NotificationInv => NotificationTypeOK /\ DeliveryTypeOK(NotificationEvents)
        /\ AccountInv => AccountTypeOK /\ DeliveryTypeOK(AccountEvents)
        /\ PaymentInv => PaymentRowsTypeOK /\ DeliveryTypeOK(PaymentEvents)
    BY NotificationInvTyped DEF AccountInv, AccountTypes, PaymentInv, PaymentTypeOK
  <2>2. /\ DeliveryTypeOK(NotificationEvents) => DeliveryTypeOK(PlatformEvents)
        /\ DeliveryTypeOK(AccountEvents) => DeliveryTypeOK(PlatformEvents)
        /\ DeliveryTypeOK(PaymentEvents) => DeliveryTypeOK(PlatformEvents)
    BY MoreEvents DEF PlatformEvents
  <2>3. PaymentRowsTypeOK /\ NotificationTypeOK /\ AccountTypeOK /\ DeliveryTypeOK(PlatformEvents)
    BY <2>1, <2>2 DEF PartsInv
  <2>4. part \in Parts /\ WithdrawalTypeOK /\ ReviewTypeOK /\ CacheTypeOK
    BY DEF PartsInv, WithdrawalInv, ReviewInv, CacheInv
  <2>5. ChatTypeOK
    BY DEF PartsInv, ChatInv, RoomTypes, ReaderInv, Readers, Cursors, ChatTypeOK
  <2>6. QED BY <2>3, <2>4, <2>5 DEF PlatformTypeOK, PlatformEvents
<1>3. QED BY <1>1, <1>2, PartsInvInit, PTL DEF PlatformSpec
=============================================================================
