----------------------------- MODULE EscrowProofs ---------------------------
(***************************************************************************)
(* Proofs about Escrow, for any sets of escrows, disputes, calls and runs. *)
(***************************************************************************)
EXTENDS Escrow, FiniteSetTheorems, TLAPS

\* The dispute a call has read is there: disputes are never deleted.
NamesExisting ==
    \A r \in Requests :
        request[r].op \in {"cancel", "review", "resolve"} => request[r].dispute \in Existing

Typed == TypeOK /\ NamesExisting

-----------------------------------------------------------------------------
(***************************************************************************)
(* Type correctness.                                                       *)
(***************************************************************************)
LEMMA StatusForPaid == \A to \in Parties : StatusFor(to) \in Paid
BY DEF StatusFor, Paid, Parties

\* Counting events keeps the counters natural numbers.
LEMMA TellTyped ==
    ASSUME outbox \in [Escrows -> [EventTypes -> Nat]],
           NEW e \in Escrows, NEW types, Tell(e, types)
    PROVE  outbox' \in [Escrows -> [EventTypes -> Nat]]
<1> DEFINE row == [t \in EventTypes |-> outbox[e][t] + (IF t \in types THEN 1 ELSE 0)]
<1>1. row \in [EventTypes -> Nat]
  OBVIOUS
<1>2. outbox' = [outbox EXCEPT ![e] = row]
  BY DEF Tell
<1>3. QED BY <1>1, <1>2

\* A payout keeps the types of everything it writes.
LEMMA PayOutTyped ==
    ASSUME TypeOK, NEW e \in Escrows, NEW to \in Parties, NEW types, PayOut(e, to, types)
    PROVE  /\ credited' \in Counts /\ ledger' \in Counts
           /\ escrows' \in [Escrows -> {"HELD", "DISPUTED"} \cup Paid]
           /\ outbox' \in [Escrows -> [EventTypes -> Nat]]
<1>1. credited' \in Counts /\ ledger' \in Counts
  <2>1. credited[e] \in [Parties -> Nat] /\ ledger[e] \in [Parties -> Nat]
    BY DEF TypeOK, Counts
  <2>2. QED BY <2>1 DEF PayOut, TypeOK, Counts
<1>2. escrows' \in [Escrows -> {"HELD", "DISPUTED"} \cup Paid]
  BY StatusForPaid DEF PayOut, TypeOK
<1>3. outbox' \in [Escrows -> [EventTypes -> Nat]]
  BY TellTyped DEF PayOut, TypeOK
<1>4. QED BY <1>1, <1>2, <1>3

\* So does a dispute call that writes the escrow's status.
LEMMA OverwriteTyped ==
    ASSUME TypeOK, NEW e \in Escrows, NEW s \in {"HELD", "DISPUTED"}, Overwrite(e, s)
    PROVE  /\ escrows' \in [Escrows -> {"HELD", "DISPUTED"} \cup Paid]
           /\ reopened' \in [Escrows -> Nat]
BY DEF Overwrite, TypeOK

\* The first state has the types.
LEMMA TypedInit == Init => Typed
BY DEF Init, Typed, TypeOK, NamesExisting, Counts, Waiting, Paid

\* Every step keeps the types, and dispute calls name existing disputes.
LEMMA TypedStep == Typed /\ [Next]_vars => Typed'
<1> SUFFICES ASSUME Typed, [Next]_vars PROVE Typed'
  OBVIOUS
<1> USE DEF Typed, history
<1>1. ASSUME NEW e \in Escrows, WindowEnds(e) PROVE Typed'
  BY <1>1 DEF WindowEnds, TypeOK, NamesExisting, Existing
<1>2. ASSUME NEW e \in Escrows, ConfirmDelivery(e) PROVE Typed'
  BY <1>2, PayOutTyped DEF ConfirmDelivery, TypeOK, NamesExisting, Existing, Parties
<1>3. ASSUME NEW r \in Requests, NEW e \in Escrows, ReadToOpen(r, e) PROVE Typed'
  BY <1>3 DEF ReadToOpen, Read, TypeOK, NamesExisting, Existing
<1>4. ASSUME NEW r \in Requests, NEW d \in Disputes, ReadDispute(r, d) PROVE Typed'
  BY <1>4 DEF ReadDispute, Read, TypeOK, NamesExisting, Existing
<1>5. ASSUME NEW r \in Requests, OpenDispute(r) PROVE Typed'
  <2>1. request[r] \in [op : {"open"}, escrow : Escrows]
    BY <1>5 DEF OpenDispute, Writing, TypeOK, Waiting, Finished
  <2>2. PICK d \in Disputes \ Existing :
           disputes' = [disputes EXCEPT ![d] = [status |-> "OPEN", escrow |-> request[r].escrow]]
    BY <1>5 DEF OpenDispute
  <2>3. TypeOK'
    BY <1>5, <2>1, <2>2, TellTyped, OverwriteTyped
       DEF OpenDispute, Writing, TypeOK, DisputeStatuses, Live, Finished
  <2>4. Existing \subseteq Existing'
    BY <2>2 DEF Existing, Absent, TypeOK
  <2>5. NamesExisting'
    BY <1>5, <2>4 DEF OpenDispute, Writing, NamesExisting, TypeOK, Finished
  <2>6. QED BY <2>3, <2>5
<1>6. ASSUME NEW r \in Requests, CancelDispute(r) PROVE Typed'
  <2>1. request[r] \in [op : {"cancel"}, dispute : Disputes] /\ request[r].dispute \in Existing
    BY <1>6 DEF CancelDispute, Writing, TypeOK, NamesExisting, Waiting, Finished
  <2>2. TypeOK'
    BY <1>6, <2>1, TellTyped, OverwriteTyped
       DEF CancelDispute, Writing, TypeOK, DisputeStatuses, Finished, Existing, Absent
  <2>3. NamesExisting'
    BY <1>6, <2>1 DEF CancelDispute, Writing, NamesExisting, TypeOK, Finished, Existing, Absent
  <2>4. QED BY <2>2, <2>3
<1>7. ASSUME NEW r \in Requests, UpdateDisputeStatus(r) PROVE Typed'
  <2>1. /\ request[r] \in [op : {"review"}, dispute : Disputes, input : DisputeStatuses]
        /\ request[r].dispute \in Existing
    BY <1>7 DEF UpdateDisputeStatus, Writing, TypeOK, NamesExisting, Waiting, Finished
  <2>2. TypeOK'
    <3>1. disputes' \in [Disputes -> {Absent} \cup [status : DisputeStatuses, escrow : Escrows]]
      BY <1>7, <2>1 DEF UpdateDisputeStatus, TypeOK, Existing, Absent
    <3>2. byHand' \in SUBSET Disputes
      BY <1>7, <2>1 DEF UpdateDisputeStatus, TypeOK, Existing
    <3>3. QED BY <1>7, <3>1, <3>2 DEF UpdateDisputeStatus, Writing, TypeOK
  <2>3. Existing \subseteq Existing'
    BY <1>7, <2>1 DEF UpdateDisputeStatus, TypeOK, Existing, Absent
  <2>4. NamesExisting'
    BY <1>7, <2>3 DEF UpdateDisputeStatus, Writing, NamesExisting, TypeOK, Finished
  <2>5. QED BY <2>2, <2>4
<1>8. ASSUME NEW r \in Requests, ResolveDispute(r) PROVE Typed'
  <2>1. /\ request[r] \in [op : {"resolve"}, dispute : Disputes, input : Parties]
        /\ request[r].dispute \in Existing
    BY <1>8 DEF ResolveDispute, Writing, TypeOK, NamesExisting, Waiting, Finished
  <2>2. TypeOK'
    BY <1>8, <2>1, PayOutTyped
       DEF ResolveDispute, Writing, TypeOK, OutcomeFor, DisputeStatuses, Finished, Existing, Absent
  <2>3. NamesExisting'
    BY <1>8, <2>1 DEF ResolveDispute, Writing, NamesExisting, TypeOK, Finished, Existing, Absent
  <2>4. QED BY <2>2, <2>3
<1>9. ASSUME NEW r \in Requests, AbortRequest(r) PROVE Typed'
  BY <1>9 DEF AbortRequest, TypeOK, NamesExisting, Existing, Finished
<1>10. ASSUME NEW p \in Payers, AdminStep(p) PROVE Typed'
  <2>1. NamesExisting'
    BY <1>10 DEF AdminStep, AdminReads, AdminCredits, AdminRecords, AdminSetsStatus, AdminTells,
                 AdminFails, NamesExisting, Existing
  <2>2. ASSUME NEW e \in Escrows, NEW to \in Parties, AdminReads(p, e, to) PROVE TypeOK'
    BY <2>2 DEF AdminReads, TypeOK
  <2>3. ASSUME payer[p].op \in {"credit", "record", "status", "event"}
        PROVE  payer[p] \in [op : {"credit", "record", "status", "event"},
                             escrow : Escrows, to : Parties]
    BY <2>3 DEF TypeOK, Waiting, Finished
  <2>4. ASSUME AdminCredits(p) PROVE TypeOK'
    <3>1. payer[p].escrow \in Escrows /\ payer[p].to \in Parties
      BY <2>3, <2>4 DEF AdminCredits
    <3>2. credited' \in Counts
      BY <2>4, <3>1 DEF AdminCredits, TypeOK, Counts
    <3>3. QED BY <2>3, <2>4, <3>2 DEF AdminCredits, TypeOK
  <2>5. ASSUME AdminRecords(p) PROVE TypeOK'
    <3>1. payer[p].escrow \in Escrows /\ payer[p].to \in Parties
      BY <2>3, <2>5 DEF AdminRecords
    <3>2. ledger' \in Counts
      BY <2>5, <3>1 DEF AdminRecords, TypeOK, Counts
    <3>3. QED BY <2>3, <2>5, <3>2 DEF AdminRecords, TypeOK
  <2>6. ASSUME AdminSetsStatus(p) PROVE TypeOK'
    BY <2>3, <2>6, StatusForPaid DEF AdminSetsStatus, TypeOK
  <2>7. ASSUME AdminTells(p) PROVE TypeOK'
    <3>1. payer[p].escrow \in Escrows
      BY <2>3, <2>7 DEF AdminTells
    <3>2. outbox' \in [Escrows -> [EventTypes -> Nat]]
      BY <2>7, <3>1, TellTyped DEF AdminTells, TypeOK
    <3>3. QED BY <2>7, <3>2 DEF AdminTells, TypeOK
  <2>8. ASSUME AdminFails(p) PROVE TypeOK'
    BY <2>8 DEF AdminFails, TypeOK
  <2>9. QED BY <1>10, <2>1, <2>2, <2>4, <2>5, <2>6, <2>7, <2>8 DEF AdminStep
<1>11. ASSUME NEW c \in Sweepers, SweepStep(c) PROVE Typed'
  <2>1. NamesExisting'
    BY <1>11 DEF SweepStep, StartSweep, ReleaseExpired, SkipExpired, CrashSweep, NamesExisting, Existing
  <2>2. ASSUME StartSweep(c) PROVE TypeOK'
    BY <2>2 DEF StartSweep, TypeOK, ExpiredHeld
  <2>3. ASSUME NEW e \in Escrows, ReleaseExpired(c, e) PROVE TypeOK'
    BY <2>3, PayOutTyped DEF ReleaseExpired, GoOn, TypeOK, Parties
  <2>4. ASSUME NEW e \in Escrows, SkipExpired(c, e) PROVE TypeOK'
    BY <2>4 DEF SkipExpired, GoOn, TypeOK
  <2>5. ASSUME CrashSweep(c) PROVE TypeOK'
    BY <2>5 DEF CrashSweep, TypeOK
  <2>6. QED BY <1>11, <2>1, <2>2, <2>3, <2>4, <2>5 DEF SweepStep
<1>12. CASE SweepLockExpires
  BY <1>12 DEF SweepLockExpires, TypeOK, NamesExisting, Existing
<1>13. CASE UNCHANGED vars
  BY <1>13 DEF vars, TypeOK, NamesExisting, Existing
<1>14. QED
  BY <1>1, <1>2, <1>3, <1>4, <1>5, <1>6, <1>7, <1>8, <1>9, <1>10, <1>11, <1>12, <1>13
     DEF Next, DisputeStep

\* The typing invariant the other proofs rest on.
THEOREM TypedAlways == Spec => []Typed
BY TypedInit, TypedStep, PTL DEF Spec

\* Every variable keeps its type, whatever calls, runs and payouts interleave.
THEOREM TypeCorrect == Spec => []TypeOK
BY TypedAlways, PTL DEF Typed

\* What a call of openDispute has read is an escrow.
LEMMA OpenTyped ==
    ASSUME TypeOK, NEW r \in Requests, request[r].op = "open"
    PROVE  request[r].escrow \in Escrows
<1>1. request[r] \in [op : {"open"}, escrow : Escrows]
  BY DEF TypeOK, Waiting, Finished
<1>2. QED BY <1>1

\* What a cancel, review or resolve call has read are an existing dispute and a legal input.
LEMMA CallTyped ==
    ASSUME Typed, NEW r \in Requests, request[r].op \in {"cancel", "review", "resolve"}
    PROVE  /\ request[r].dispute \in Existing
           /\ disputes[request[r].dispute] \in [status : DisputeStatuses, escrow : Escrows]
           /\ request[r].op = "review" => request[r].input \in DisputeStatuses
           /\ request[r].op = "resolve" => request[r].input \in Parties
<1>1. request[r].dispute \in Existing
  BY DEF Typed, NamesExisting
<1>2. request[r] \in [op : {"cancel"}, dispute : Disputes]
                   \cup [op : {"review"}, dispute : Disputes, input : DisputeStatuses]
                   \cup [op : {"resolve"}, dispute : Disputes, input : Parties]
  BY DEF Typed, TypeOK, Waiting, Finished
<1>3. QED BY <1>1, <1>2 DEF Typed, TypeOK, Existing

-----------------------------------------------------------------------------
(***************************************************************************)
(* Books, resolutions and the freeze.                                      *)
(***************************************************************************)
LEMMA PayOutCounts ==
    ASSUME TypeOK, NEW e \in Escrows, NEW to \in Parties,
           NEW types, types \cap {"EscrowReleased", "EscrowRefunded"} = {},
           PayOut(e, to, types)
    PROVE  /\ \A f \in Escrows \ {e} : /\ credited'[f] = credited[f]
                                       /\ ledger'[f] = ledger[f]
                                       /\ escrows'[f] = escrows[f]
                                       /\ outbox'[f] = outbox[f]
           /\ \A p \in Parties :
                 /\ credited'[e][p] = credited[e][p] + (IF p = to THEN 1 ELSE 0)
                 /\ ledger'[e][p] = ledger[e][p] + (IF p = to THEN 1 ELSE 0)
           /\ escrows'[e] = StatusFor(to)
           /\ outbox'[e]["EscrowReleased"]
                = outbox[e]["EscrowReleased"] + (IF to = "seller" THEN 1 ELSE 0)
           /\ outbox'[e]["EscrowRefunded"]
                = outbox[e]["EscrowRefunded"] + (IF to = "buyer" THEN 1 ELSE 0)
<1>1. credited[e] \in [Parties -> Nat] /\ ledger[e] \in [Parties -> Nat]
  BY DEF TypeOK, Counts
<1>2. /\ \A f \in Escrows \ {e} : /\ credited'[f] = credited[f]
                                  /\ ledger'[f] = ledger[f]
                                  /\ escrows'[f] = escrows[f]
      /\ \A p \in Parties :
            /\ credited'[e][p] = credited[e][p] + (IF p = to THEN 1 ELSE 0)
            /\ ledger'[e][p] = ledger[e][p] + (IF p = to THEN 1 ELSE 0)
      /\ escrows'[e] = StatusFor(to)
  BY <1>1 DEF PayOut, TypeOK, Counts
<1> DEFINE row == [t \in EventTypes |->
                     outbox[e][t] + (IF t \in {EventFor(to)} \cup types THEN 1 ELSE 0)]
<1>3. outbox' = [outbox EXCEPT ![e] = row]
  BY DEF PayOut, Tell
<1>4. /\ row["EscrowReleased"]
           = outbox[e]["EscrowReleased"] + (IF to = "seller" THEN 1 ELSE 0)
      /\ row["EscrowRefunded"]
           = outbox[e]["EscrowRefunded"] + (IF to = "buyer" THEN 1 ELSE 0)
  BY DEF EventFor, EventTypes, Parties
<1>5. /\ outbox'[e] = row
      /\ \A f \in Escrows \ {e} : outbox'[f] = outbox[f]
  <2> HIDE DEF row
  <2> QED BY <1>3 DEF TypeOK
<1>6. QED BY <1>2, <1>4, <1>5

\* Without admin payouts each deposit comes with its row and its event.
LEMMA BooksStep ==
    ASSUME Payers = {}, Typed, PayoutsRecorded, [Next]_vars
    PROVE  PayoutsRecorded'
<1> USE DEF Typed
<1>1. ASSUME NEW e \in Escrows, NEW to \in Parties,
             NEW types, types \cap {"EscrowReleased", "EscrowRefunded"} = {},
             PayOut(e, to, types)
      PROVE  PayoutsRecorded'
  <2> SUFFICES ASSUME NEW f \in Escrows
               PROVE  /\ ledger'[f] = credited'[f]
                      /\ outbox'[f]["EscrowReleased"] = credited'[f]["seller"]
                      /\ outbox'[f]["EscrowRefunded"] = credited'[f]["buyer"]
    BY DEF PayoutsRecorded
  <2>1. /\ ledger[f] = credited[f]
        /\ outbox[f]["EscrowReleased"] = credited[f]["seller"]
        /\ outbox[f]["EscrowRefunded"] = credited[f]["buyer"]
    BY DEF PayoutsRecorded
  <2>2. CASE f # e
    BY <1>1, <2>1, <2>2, PayOutCounts
  <2>3. CASE f = e
    <3>1. ledger' \in Counts /\ credited' \in Counts
      BY <1>1, PayOutTyped
    <3>2. \A p \in Parties : ledger'[f][p] = credited'[f][p]
      BY <1>1, <2>1, <2>3, PayOutCounts
    <3>3. ledger'[f] = credited'[f]
      BY <3>1, <3>2 DEF Counts
    <3>4. /\ outbox'[f]["EscrowReleased"] = credited'[f]["seller"]
          /\ outbox'[f]["EscrowRefunded"] = credited'[f]["buyer"]
      BY <1>1, <2>1, <2>3, PayOutCounts DEF Parties
    <3>5. QED BY <3>3, <3>4
  <2>4. QED BY <2>2, <2>3
<1>2. ASSUME NEW e \in Escrows, NEW types,
             types \cap {"EscrowReleased", "EscrowRefunded"} = {},
             Tell(e, types), UNCHANGED <<credited, ledger>>
      PROVE  PayoutsRecorded'
  <2> DEFINE row == [t \in EventTypes |-> outbox[e][t] + (IF t \in types THEN 1 ELSE 0)]
  <2>1. outbox' = [outbox EXCEPT ![e] = row]
    BY <1>2 DEF Tell
  <2>2. /\ row["EscrowReleased"] = outbox[e]["EscrowReleased"]
        /\ row["EscrowRefunded"] = outbox[e]["EscrowRefunded"]
    BY <1>2 DEF EventTypes, TypeOK
  <2> HIDE DEF row
  <2>3. QED BY <1>2, <2>1, <2>2 DEF PayoutsRecorded, TypeOK
<1>3. ASSUME NEW r \in Requests, OpenDispute(r) PROVE PayoutsRecorded'
  <2>1. request[r].escrow \in Escrows
    BY <1>3, OpenTyped DEF OpenDispute, Writing
  <2>2. QED BY <1>2, <1>3, <2>1 DEF OpenDispute
<1>4. ASSUME NEW r \in Requests, CancelDispute(r) PROVE PayoutsRecorded'
  <2>1. disputes[request[r].dispute].escrow \in Escrows
    BY <1>4, CallTyped DEF CancelDispute, Writing
  <2>2. QED BY <1>2, <1>4, <2>1 DEF CancelDispute
<1>5. ASSUME NEW r \in Requests, ResolveDispute(r) PROVE PayoutsRecorded'
  <2>1. /\ request[r].input \in Parties
        /\ disputes[request[r].dispute].escrow \in Escrows
    BY <1>5, CallTyped DEF ResolveDispute, Writing
  <2>2. QED BY <1>1, <1>5, <2>1 DEF ResolveDispute
<1>6. ASSUME UNCHANGED <<credited, ledger, outbox>> PROVE PayoutsRecorded'
  BY <1>6 DEF PayoutsRecorded
<1>7. ASSUME NEW e \in Escrows, ConfirmDelivery(e) PROVE PayoutsRecorded'
  BY <1>1, <1>7 DEF ConfirmDelivery, Parties
<1>8. ASSUME NEW c \in Sweepers, SweepStep(c) PROVE PayoutsRecorded'
  <2>1. ASSUME NEW e \in Escrows, ReleaseExpired(c, e) PROVE PayoutsRecorded'
    BY <1>1, <2>1 DEF ReleaseExpired, Parties
  <2>2. QED BY <1>6, <1>8, <2>1 DEF SweepStep, StartSweep, SkipExpired, CrashSweep
<1>9. QED
  BY <1>3, <1>4, <1>5, <1>6, <1>7, <1>8
     DEF Next, DisputeStep, WindowEnds, ReadToOpen, ReadDispute, Read, UpdateDisputeStatus,
         AbortRequest, SweepLockExpires, vars, history

\* As long as no admin pays out by hand, every deposit has exactly one ledger
\* row and one event: confirmDelivery, resolveDispute and the cron job write
\* the three in one transaction.
THEOREM EveryPayoutRecorded ==
    ASSUME Payers = {}
    PROVE  Spec => []PayoutsRecorded
<1>1. Init => PayoutsRecorded
  BY DEF Init, PayoutsRecorded, EventTypes, Parties
<1>2. Typed /\ PayoutsRecorded /\ [Next]_vars => PayoutsRecorded'
  BY SMTT(20), BooksStep
<1>3. QED BY <1>1, <1>2, TypedAlways, PTL DEF Spec

\* No step takes a deposit back.
LEMMA CreditedGrows ==
    ASSUME Typed, [Next]_vars, NEW e \in Escrows, NEW p \in Parties
    PROVE  credited'[e][p] >= credited[e][p]
<1> USE DEF Typed
<1>1. credited[e][p] \in Nat
  BY DEF TypeOK, Counts
<1>2. ASSUME NEW f \in Escrows, NEW to \in Parties, NEW types, PayOut(f, to, types)
      PROVE  credited'[e][p] >= credited[e][p]
  BY <1>1, <1>2 DEF PayOut, TypeOK, Counts
<1>3. ASSUME NEW r \in Requests, ResolveDispute(r)
      PROVE  credited'[e][p] >= credited[e][p]
  <2>1. /\ request[r].input \in Parties
        /\ disputes[request[r].dispute].escrow \in Escrows
    BY <1>3, CallTyped DEF ResolveDispute, Writing
  <2>2. QED BY <1>2, <1>3, <2>1 DEF ResolveDispute
<1>4. ASSUME NEW q \in Payers, AdminCredits(q)
      PROVE  credited'[e][p] >= credited[e][p]
  <2>1. payer[q].escrow \in Escrows /\ payer[q].to \in Parties
    BY <1>4 DEF AdminCredits, TypeOK, Waiting, Finished
  <2>2. QED BY <1>1, <1>4, <2>1 DEF AdminCredits, TypeOK, Counts
<1>5. ASSUME NEW f \in Escrows, ConfirmDelivery(f)
      PROVE  credited'[e][p] >= credited[e][p]
  BY <1>2, <1>5 DEF ConfirmDelivery, Parties
<1>6. ASSUME NEW c \in Sweepers, NEW f \in Escrows, ReleaseExpired(c, f)
      PROVE  credited'[e][p] >= credited[e][p]
  BY <1>2, <1>6 DEF ReleaseExpired, Parties
<1>7. ASSUME UNCHANGED credited
      PROVE  credited'[e][p] >= credited[e][p]
  BY <1>1, <1>7
<1>8. QED
  BY <1>3, <1>4, <1>5, <1>6, <1>7
     DEF Next, DisputeStep, AdminStep, SweepStep, WindowEnds, ReadToOpen, ReadDispute, Read,
         OpenDispute, CancelDispute, UpdateDisputeStatus, AbortRequest, AdminReads, AdminRecords,
         AdminSetsStatus, AdminTells, AdminFails, StartSweep, SkipExpired, CrashSweep,
         SweepLockExpires, vars, history

\* A dispute whose status resolveDispute wrote got it in the step that paid
\* its party.
LEMMA ResolutionStep ==
    ASSUME Typed, ResolutionWasPaid, [Next]_vars
    PROVE  ResolutionWasPaid'
<1> USE DEF Typed
<1> DEFINE Won(d, to) == d \in Existing \ byHand /\ disputes[d].status = OutcomeFor(to)
<1>1. \A d \in Disputes : \A to \in Parties :
         Won(d, to) => /\ disputes[d].escrow \in Escrows
                       /\ credited[disputes[d].escrow][to] > 0
  BY DEF ResolutionWasPaid, OutcomeFor, Parties, TypeOK, Existing
<1>2. SUFFICES ASSUME NEW d \in Disputes, NEW to \in Parties, Won(d, to)'
               PROVE  credited'[disputes'[d].escrow][to] > 0
  BY <1>2 DEF ResolutionWasPaid, OutcomeFor, Parties, Existing
<1>3. CASE disputes'[d] = disputes[d] /\ d \notin byHand
  <2>1. Won(d, to)
    BY <1>2, <1>3 DEF Existing
  <2>2. /\ credited[disputes[d].escrow][to] \in Nat
        /\ credited'[disputes[d].escrow][to] \in Nat
    <3>1. disputes[d].escrow \in Escrows
      BY <1>1, <2>1
    <3>2. credited \in Counts /\ credited' \in Counts
      BY TypedStep DEF TypeOK
    <3>3. QED BY SMTT(20), <3>1, <3>2 DEF Counts
  <2>3. QED BY <1>1, <1>3, <2>1, <2>2, CreditedGrows
<1>4. CASE disputes'[d] # disputes[d] \/ d \in byHand
  <2>1. ASSUME NEW r \in Requests, ResolveDispute(r)
        PROVE  credited'[disputes'[d].escrow][to] > 0
    <3>1. /\ request[r].input \in Parties /\ request[r].dispute \in Disputes
          /\ disputes[request[r].dispute].escrow \in Escrows
          /\ disputes[request[r].dispute] \in [status : DisputeStatuses, escrow : Escrows]
      BY <2>1, CallTyped DEF ResolveDispute, Writing, Existing
    <3>2. /\ d = request[r].dispute
          /\ disputes'[d].escrow = disputes[d].escrow
          /\ disputes'[d].status = OutcomeFor(request[r].input)
      BY <1>2, <1>4, <2>1, <3>1 DEF ResolveDispute, TypeOK
    <3>3. to = request[r].input
      BY <1>2, <3>1, <3>2 DEF OutcomeFor, Parties
    <3>4. credited[disputes[d].escrow][to] \in Nat
      BY <3>1, <3>2, <3>3 DEF TypeOK, Counts
    <3>5. QED BY <2>1, <3>1, <3>2, <3>3, <3>4 DEF ResolveDispute, PayOut, TypeOK, Counts
  <2>2. disputes'[d].status \notin {"OPEN", "CANCELLED"} /\ d \notin byHand'
    BY <1>2 DEF OutcomeFor
  <2>3. ASSUME NEW r \in Requests, OpenDispute(r) PROVE FALSE
    BY <1>4, <2>2, <2>3 DEF OpenDispute, TypeOK
  <2>4. ASSUME NEW r \in Requests, CancelDispute(r) \/ UpdateDisputeStatus(r) PROVE FALSE
    <3>1. /\ request[r].dispute \in Disputes
          /\ disputes[request[r].dispute] \in [status : DisputeStatuses, escrow : Escrows]
      BY <2>4, CallTyped DEF CancelDispute, UpdateDisputeStatus, Writing, Existing
    <3>2. QED BY <1>4, <2>2, <2>4, <3>1 DEF CancelDispute, UpdateDisputeStatus, TypeOK
  <2>5. QED
    BY <1>4, <2>1, <2>2, <2>3, <2>4
       DEF Next, DisputeStep, AdminStep, SweepStep, WindowEnds, ConfirmDelivery, ReadToOpen,
           ReadDispute, Read, AbortRequest, AdminReads, AdminCredits, AdminRecords,
           AdminSetsStatus, AdminTells, AdminFails, StartSweep, ReleaseExpired, SkipExpired,
           CrashSweep, SweepLockExpires, vars, history
<1>5. QED BY <1>3, <1>4

\* A dispute that resolveDispute has resolved was paid as it says, however
\* old the checks of concurrent calls are, whatever admin payouts interfere
\* and whatever admins type into updateDisputeStatus.
THEOREM ResolutionsArePaid == Spec => []ResolutionWasPaid
<1>1. Init => ResolutionWasPaid
  BY DEF Init, ResolutionWasPaid, Existing
<1>2. Typed /\ ResolutionWasPaid /\ [Next]_vars => ResolutionWasPaid'
  BY ResolutionStep
<1>3. QED BY <1>1, <1>2, TypedAlways, PTL DEF Spec

\* A step that pays a disputed escrow resolves one of its disputes.
LEMMA FreezeStep ==
    ASSUME Payers = {}, Typed, [Next]_vars, NEW e \in Escrows,
           escrows[e] = "DISPUTED", credited'[e] # credited[e]
    PROVE  \E d \in Existing : disputes[d].escrow = e /\ disputes'[d].status \notin Live
<1> USE DEF Typed
<1>1. \E r \in Requests : ResolveDispute(r)
  <2>1. ASSUME NEW f \in Escrows, Releasable(f), PayOut(f, "seller", {}) PROVE FALSE
    BY <2>1 DEF Releasable, PayOut, TypeOK, Counts
  <2>2. QED
    BY <2>1
       DEF Next, DisputeStep, SweepStep, WindowEnds, ConfirmDelivery, ReadToOpen, ReadDispute,
           Read, OpenDispute, CancelDispute, UpdateDisputeStatus, AbortRequest, StartSweep,
           ReleaseExpired, SkipExpired, CrashSweep, SweepLockExpires, vars, history
<1>2. PICK r \in Requests : ResolveDispute(r)
  BY <1>1
<1> DEFINE d == request[r].dispute
<1>3. /\ d \in Existing /\ request[r].input \in Parties
      /\ disputes[d] \in [status : DisputeStatuses, escrow : Escrows]
  <2>1. request[r].op = "resolve"
    BY <1>2 DEF ResolveDispute, Writing
  <2>2. QED BY <2>1, CallTyped
<1>4. disputes[d].escrow = e
  BY <1>2, <1>3 DEF ResolveDispute, PayOut, TypeOK, Counts
<1>5. disputes'[d].status \notin Live
  BY <1>2, <1>3 DEF ResolveDispute, TypeOK, Existing, OutcomeFor, Live
<1>6. QED BY <1>3, <1>4, <1>5

\* As long as no admin pays out by hand, only the resolution of a dispute
\* moves the money of a disputed escrow: confirmDelivery and the cron job are
\* frozen, however old the checks of dispute calls are.
THEOREM DisputesFreeze ==
    ASSUME Payers = {}
    PROVE  Spec => DisputeFreezesRelease
<1>1. Typed /\ [Next]_vars =>
         [\A e \in Escrows :
             (escrows[e] = "DISPUTED" /\ credited'[e] # credited[e])
                 => \E d \in Existing : /\ disputes[d].escrow = e
                                        /\ disputes'[d].status \notin Live]_vars
  BY FreezeStep
<1>2. QED BY <1>1, TypedAlways, PTL DEF Spec, DisputeFreezesRelease

-----------------------------------------------------------------------------
(***************************************************************************)
(* Payouts and reopenings.  Nothing is assumed of how old the check of a   *)
(* dispute call is when it writes: a payout leaves from an unpaid status   *)
(* only, and what puts a paid escrow back is counted.                      *)
(***************************************************************************)
\* The books of one escrow.
Accounted(e) ==
    /\ credited[e]["buyer"] + credited[e]["seller"]
          = reopened[e] + (IF escrows[e] \in Paid THEN 1 ELSE 0)
    /\ \A p \in Parties : escrows[e] = StatusFor(p) => credited[e][p] > 0

\* A payout of an unpaid escrow is the one its new status stands for.
LEMMA PayOutAccounted ==
    ASSUME TypeOK, PaidOncePerReopening,
           NEW e \in Escrows, NEW to \in Parties, NEW types,
           types \cap {"EscrowReleased", "EscrowRefunded"} = {},
           escrows[e] \notin Paid, PayOut(e, to, types), UNCHANGED reopened
    PROVE  PaidOncePerReopening'
<1>1. \A f \in Escrows : Accounted(f)
  BY DEF PaidOncePerReopening, Accounted
<1>2. SUFFICES ASSUME NEW f \in Escrows PROVE Accounted(f)'
  BY <1>2 DEF PaidOncePerReopening, Accounted
<1>3. CASE f # e
  BY <1>1, <1>3, PayOutCounts DEF Accounted
<1>4. CASE f = e
  <2>1. \A p \in Parties : credited[e][p] \in Nat
    BY DEF TypeOK, Counts
  <2>2. credited[e]["buyer"] + credited[e]["seller"] = reopened[e]
    BY <1>1 DEF Accounted, TypeOK
  <2>3. /\ \A p \in Parties : credited'[e][p] = credited[e][p] + (IF p = to THEN 1 ELSE 0)
        /\ escrows'[e] = StatusFor(to)
    BY PayOutCounts
  <2>4. credited'[e]["buyer"] + credited'[e]["seller"] = reopened[e] + 1
    BY <2>1, <2>2, <2>3 DEF Parties
  <2>5. \A p \in Parties : escrows'[e] = StatusFor(p) => credited'[e][p] > 0
    BY <2>1, <2>3 DEF Parties, StatusFor
  <2>6. QED BY <1>4, <2>3, <2>4, <2>5, StatusForPaid DEF Accounted
<1>5. QED BY <1>3, <1>4

\* A dispute call that writes HELD or DISPUTED is counted if the escrow was paid.
LEMMA OverwriteAccounted ==
    ASSUME TypeOK, PaidOncePerReopening, NEW e \in Escrows, NEW s \in {"HELD", "DISPUTED"},
           Overwrite(e, s), UNCHANGED credited
    PROVE  PaidOncePerReopening'
<1>1. \A f \in Escrows : Accounted(f)
  BY DEF PaidOncePerReopening, Accounted
<1>2. SUFFICES ASSUME NEW f \in Escrows PROVE Accounted(f)'
  BY <1>2 DEF PaidOncePerReopening, Accounted
<1>3. CASE f # e
  BY <1>1, <1>3 DEF Accounted, Overwrite, TypeOK
<1>4. CASE f = e
  <2>1. escrows'[e] = s /\ reopened'[e] = reopened[e] + (IF escrows[e] \in Paid THEN 1 ELSE 0)
    BY DEF Overwrite, TypeOK
  <2>2. reopened[e] \in Nat /\ s \notin Paid
    BY DEF TypeOK, Paid
  <2>3. credited'[e]["buyer"] + credited'[e]["seller"] = reopened'[e] + 0
    BY <1>1, <2>1, <2>2 DEF Accounted
  <2>4. \A p \in Parties : escrows'[e] # StatusFor(p)
    BY <2>1, <2>2, StatusForPaid
  <2>5. QED BY <1>4, <2>1, <2>2, <2>3, <2>4 DEF Accounted
<1>5. QED BY <1>3, <1>4

\* Every step keeps the account of payouts and reopenings.
LEMMA AccountedStep ==
    ASSUME Payers = {}, Typed, PaidOncePerReopening, [Next]_vars
    PROVE  PaidOncePerReopening'
<1> USE DEF Typed, history
<1>1. ASSUME NEW e \in Escrows, Releasable(e), PayOut(e, "seller", {}), UNCHANGED reopened
      PROVE  PaidOncePerReopening'
  <2>1. escrows[e] \notin Paid
    BY <1>1 DEF Releasable, Paid
  <2>2. QED BY <1>1, <2>1, PayOutAccounted DEF Parties
<1>2. ASSUME NEW r \in Requests, OpenDispute(r) PROVE PaidOncePerReopening'
  <2>1. request[r].escrow \in Escrows
    BY <1>2, OpenTyped DEF OpenDispute, Writing
  <2>2. QED BY <1>2, <2>1, OverwriteAccounted DEF OpenDispute
<1>3. ASSUME NEW r \in Requests, CancelDispute(r) PROVE PaidOncePerReopening'
  <2>1. disputes[request[r].dispute].escrow \in Escrows
    BY <1>3, CallTyped DEF CancelDispute, Writing
  <2>2. QED BY <1>3, <2>1, OverwriteAccounted DEF CancelDispute
<1>4. ASSUME NEW r \in Requests, ResolveDispute(r) PROVE PaidOncePerReopening'
  <2>1. disputes[request[r].dispute].escrow \in Escrows /\ request[r].input \in Parties
    BY <1>4, CallTyped DEF ResolveDispute, Writing
  <2>2. QED BY <1>4, <2>1, PayOutAccounted DEF ResolveDispute
<1>5. ASSUME UNCHANGED <<escrows, credited, reopened>> PROVE PaidOncePerReopening'
  BY <1>5 DEF PaidOncePerReopening
<1>6. QED
  BY <1>1, <1>2, <1>3, <1>4, <1>5
     DEF Next, DisputeStep, SweepStep, WindowEnds, ConfirmDelivery, ReadToOpen, ReadDispute, Read,
         UpdateDisputeStatus, AbortRequest, StartSweep, ReleaseExpired, SkipExpired, CrashSweep,
         SweepLockExpires, vars, history

\* As long as no admin pays out by hand, confirmation, expiry and resolution
\* never pay again what one of them has paid: every payout after the first
\* follows an openDispute or cancelDispute that put the paid escrow back, one
\* payout for each, for any number of escrows, disputes and calls with checks
\* of any age, and overlapping or crashing runs of the cron job.
THEOREM PayoutsFollowReopenings ==
    ASSUME Payers = {}
    PROVE  Spec => []PaidOncePerReopening
<1>1. Init => PaidOncePerReopening
  BY DEF Init, PaidOncePerReopening, Paid, Parties, StatusFor
<1>2. Typed /\ PaidOncePerReopening /\ [Next]_vars => PaidOncePerReopening'
  BY AccountedStep
<1>3. QED BY <1>1, <1>2, TypedAlways, PTL DEF Spec

-----------------------------------------------------------------------------
(***************************************************************************)
(* Who can end a freeze.                                                   *)
(***************************************************************************)
\* Dispute d is about e, and can be resolved or cancelled, unless an admin
\* typed its status.
Settles(d, e) ==
    d \in Existing /\ disputes[d].escrow = e /\ (disputes[d].status \in Live \/ d \in byHand)

\* A step keeps such a dispute about every DISPUTED escrow.
LEMMA FrozenStep ==
    ASSUME Typed, FrozenCanBeSettled, [Next]_vars
    PROVE  FrozenCanBeSettled'
<1> USE DEF Typed, history
<1>1. \A e \in Escrows : escrows[e] = "DISPUTED" => \E d \in Disputes : Settles(d, e)
  BY DEF FrozenCanBeSettled, Settles, Existing
<1>2. SUFFICES ASSUME NEW e \in Escrows, escrows'[e] = "DISPUTED"
               PROVE  \E d \in Disputes : Settles(d, e)'
  BY <1>2 DEF FrozenCanBeSettled, Settles, Existing
<1>3. ASSUME UNCHANGED <<disputes, byHand>>, escrows[e] = "DISPUTED"
      PROVE  \E d \in Disputes : Settles(d, e)'
  BY <1>1, <1>3 DEF Settles, Existing
\* A payout leaves DISPUTED, whichever escrow it is about.
<1>4. ASSUME NEW f \in Escrows, NEW to \in Parties, escrows' = [escrows EXCEPT ![f] = StatusFor(to)]
      PROVE  e # f /\ escrows[e] = "DISPUTED"
  BY <1>2, <1>4, StatusForPaid DEF TypeOK, Paid
<1>5. ASSUME NEW r \in Requests, OpenDispute(r) PROVE \E d \in Disputes : Settles(d, e)'
  <2> DEFINE f == request[r].escrow
  <2>1. f \in Escrows
    BY <1>5, OpenTyped DEF OpenDispute, Writing
  <2>2. PICK d \in Disputes \ Existing :
           disputes' = [disputes EXCEPT ![d] = [status |-> "OPEN", escrow |-> f]]
    BY <1>5 DEF OpenDispute
  <2>3. CASE e = f
    BY <2>1, <2>2, <2>3 DEF Settles, Existing, Absent, Live, TypeOK
  <2>4. CASE e # f
    <3>1. escrows[e] = "DISPUTED"
      BY <1>2, <1>5, <2>1, <2>4 DEF OpenDispute, Overwrite, TypeOK
    <3>2. PICK x \in Disputes : Settles(x, e)
      BY <1>1, <3>1
    <3>3. x # d /\ disputes'[x] = disputes[x] /\ byHand' = byHand
      BY <1>5, <2>2, <3>2 DEF OpenDispute, Settles, TypeOK
    <3>4. QED BY <3>2, <3>3 DEF Settles, Existing
  <2>5. QED BY <2>3, <2>4
<1>6. ASSUME NEW r \in Requests, CancelDispute(r) \/ ResolveDispute(r)
      PROVE  \E d \in Disputes : Settles(d, e)'
  <2> DEFINE d == request[r].dispute
             f == disputes[d].escrow
  <2>1. /\ d \in Disputes /\ f \in Escrows
        /\ request[r].op = "resolve" => request[r].input \in Parties
    BY <1>6, CallTyped DEF CancelDispute, ResolveDispute, Writing, Existing
  <2>2. e # f /\ escrows[e] = "DISPUTED"
    <3>1. CASE CancelDispute(r)
      <4>1. escrows' = [escrows EXCEPT ![f] = "HELD"]
        BY <3>1 DEF CancelDispute, Overwrite
      <4>2. QED BY <1>2, <2>1, <4>1 DEF TypeOK
    <3>2. CASE ResolveDispute(r)
      <4>1. /\ request[r].op = "resolve"
            /\ escrows' = [escrows EXCEPT ![f] = StatusFor(request[r].input)]
        BY <3>2 DEF ResolveDispute, Writing, PayOut
      <4>2. QED BY <1>4, <2>1, <4>1
    <3>3. QED BY <1>6, <3>1, <3>2
  <2>3. PICK x \in Disputes : Settles(x, e)
    BY <1>1, <2>2
  <2>4. x # d
    BY <2>2, <2>3 DEF Settles
  <2>5. disputes'[x] = disputes[x] /\ (x \in byHand' <=> x \in byHand)
    BY <1>6, <2>1, <2>3, <2>4 DEF CancelDispute, ResolveDispute, TypeOK
  <2>6. QED BY <2>3, <2>5 DEF Settles, Existing
<1>7. ASSUME NEW r \in Requests, UpdateDisputeStatus(r) PROVE \E d \in Disputes : Settles(d, e)'
  <2> DEFINE d == request[r].dispute
  <2>1. d \in Disputes /\ disputes[d] \in [status : DisputeStatuses, escrow : Escrows]
    BY <1>7, CallTyped DEF UpdateDisputeStatus, Writing, Existing
  <2>2. PICK x \in Disputes : Settles(x, e)
    BY <1>1, <1>2, <1>7 DEF UpdateDisputeStatus
  <2>3. CASE x = d
    BY <1>7, <2>1, <2>2, <2>3 DEF UpdateDisputeStatus, Settles, Existing, Absent, TypeOK
  <2>4. CASE x # d
    <3>1. disputes'[x] = disputes[x] /\ (x \in byHand => x \in byHand')
      BY <1>7, <2>1, <2>2, <2>4 DEF UpdateDisputeStatus, TypeOK
    <3>2. QED BY <2>2, <3>1 DEF Settles, Existing
  <2>5. QED BY <2>3, <2>4
<1>8. ASSUME NEW f \in Escrows, ConfirmDelivery(f) PROVE \E d \in Disputes : Settles(d, e)'
  BY <1>3, <1>4, <1>8 DEF ConfirmDelivery, PayOut, Parties
<1>9. ASSUME NEW c \in Sweepers, SweepStep(c) PROVE \E d \in Disputes : Settles(d, e)'
  <2>1. ASSUME NEW f \in Escrows, ReleaseExpired(c, f) PROVE \E d \in Disputes : Settles(d, e)'
    BY <1>3, <1>4, <2>1 DEF ReleaseExpired, PayOut, Parties
  <2>2. QED BY <1>2, <1>3, <1>9, <2>1 DEF SweepStep, StartSweep, SkipExpired, CrashSweep
<1>10. ASSUME NEW p \in Payers, AdminStep(p) PROVE \E d \in Disputes : Settles(d, e)'
  <2>1. CASE AdminSetsStatus(p)
    <3>1. payer[p].escrow \in Escrows /\ payer[p].to \in Parties
      BY <2>1 DEF AdminSetsStatus, TypeOK, Waiting, Finished
    <3>2. QED BY <1>3, <1>4, <2>1, <3>1 DEF AdminSetsStatus
  <2>2. QED
    BY <1>2, <1>3, <1>10, <2>1
       DEF AdminStep, AdminReads, AdminCredits, AdminRecords, AdminTells, AdminFails
<1>11. ASSUME UNCHANGED <<escrows, disputes, byHand>> PROVE \E d \in Disputes : Settles(d, e)'
  BY <1>2, <1>3, <1>11
<1>12. QED
  BY <1>5, <1>6, <1>7, <1>8, <1>9, <1>10, <1>11
     DEF Next, DisputeStep, WindowEnds, ReadToOpen, ReadDispute, Read, AbortRequest,
         SweepLockExpires, vars, history

\* Without any assumption: openDispute, cancelDispute, resolveDispute, the
\* job and the admin's payouts, in any order and with checks of any age, leave
\* no escrow DISPUTED without a dispute that can be resolved or cancelled;
\* only a status typed into updateDisputeStatus does.
THEOREM FrozenEscrowsCanBeSettled == Spec => []FrozenCanBeSettled
<1>1. Init => FrozenCanBeSettled
  BY DEF Init, FrozenCanBeSettled
<1>2. Typed /\ FrozenCanBeSettled /\ [Next]_vars => FrozenCanBeSettled'
  BY FrozenStep
<1>3. QED BY <1>1, <1>2, TypedAlways, PTL DEF Spec

-----------------------------------------------------------------------------
(***************************************************************************)
(* Admin payouts, which stop anywhere.  Every payout between two of its    *)
(* writes accounts for one unit of the difference it leaves.               *)
(***************************************************************************)
Call(op, e, to) == [op |-> op, escrow |-> e, to |-> to]

Pending(calls, op, e, to) == Cardinality({p \in Payers : calls[p] = Call(op, e, to)})

InOrder ==
    \A e \in Escrows, to \in Parties :
        /\ ledger[e][to] + Pending(payer, "record", e, to) <= credited[e][to]
        /\ outbox[e][EventFor(to)] + Pending(payer, "status", e, to) + Pending(payer, "event", e, to)
               <= ledger[e][to]

One(call, op, e, to) == IF call = Call(op, e, to) THEN 1 ELSE 0

\* One is 1 for the call it counts and 0 for any other.
LEMMA OneValues ==
    /\ \A a, b, c, op, e, to :
          One(Call(a, b, c), op, e, to) = IF a = op /\ b = e /\ c = to THEN 1 ELSE 0
    /\ \A op \in {"record", "status", "event"} : \A e, to :
          One(Waiting, op, e, to) = 0 /\ One(Finished, op, e, to) = 0
    /\ \A call, op, e, to : One(call, op, e, to) \in {0, 1}
<1>1. ASSUME NEW a, NEW b, NEW c
      PROVE  Call(a, b, c).op = a /\ Call(a, b, c).escrow = b /\ Call(a, b, c).to = c
  BY DEF Call
<1>2. Waiting.op = "waiting" /\ Finished.op = "finished"
  BY DEF Waiting, Finished
<1>3. \A a, b, c, x, y, z : Call(a, b, c) = Call(x, y, z) <=> a = x /\ b = y /\ c = z
  BY <1>1
<1>4. \A op \in {"record", "status", "event"} : \A e, to :
         Waiting # Call(op, e, to) /\ Finished # Call(op, e, to)
  BY <1>1, <1>2
<1>5. QED BY <1>3, <1>4 DEF One

\* When one admin payout moves, the counts change by what it leaves and enters.
LEMMA PendingMoves ==
    ASSUME IsFiniteSet(Payers)
    PROVE  \A calls, next, op, e, to : \A q \in Payers :
              (\A p \in Payers \ {q} : next[p] = calls[p]) =>
                 /\ Pending(calls, op, e, to) \in Nat
                 /\ Pending(next, op, e, to) = Pending(calls, op, e, to)
                       + One(next[q], op, e, to) - One(calls[q], op, e, to)
<1> SUFFICES ASSUME NEW calls, NEW next, NEW op, NEW e, NEW to, NEW q \in Payers,
                    \A p \in Payers \ {q} : next[p] = calls[p]
             PROVE  /\ Pending(calls, op, e, to) \in Nat
                    /\ Pending(next, op, e, to) = Pending(calls, op, e, to)
                          + One(next[q], op, e, to) - One(calls[q], op, e, to)
  OBVIOUS
<1> DEFINE Before == {p \in Payers : calls[p] = Call(op, e, to)}
           After == {p \in Payers : next[p] = Call(op, e, to)}
           Rest == Before \ {q}
<1>1. Before = IF calls[q] = Call(op, e, to) THEN Rest \cup {q} ELSE Rest
  OBVIOUS
<1>2. After = IF next[q] = Call(op, e, to) THEN Rest \cup {q} ELSE Rest
  OBVIOUS
<1>3. IsFiniteSet(Rest)
  BY FS_Subset
<1>4. q \notin Rest
  OBVIOUS
<1>5. Pending(calls, op, e, to) = Cardinality(Before) /\ Pending(next, op, e, to) = Cardinality(After)
  BY DEF Pending
<1> HIDE DEF Before, After, Rest
<1>6. Cardinality(Rest) \in Nat /\ Cardinality(Rest \cup {q}) = Cardinality(Rest) + 1
  BY <1>3, <1>4, FS_CardinalityType, FS_AddElement
<1>7. QED BY <1>1, <1>2, <1>5, <1>6 DEF One

\* Each write of an admin payout is preceded by the ones before it in the code.
LEMMA InOrderStep ==
    ASSUME IsFiniteSet(Payers), Typed, InOrder, [Next]_vars
    PROVE  InOrder'
<1> USE DEF Typed
<1>1. \A op, e, to : Pending(payer, op, e, to) \in Nat
  <2> TAKE op, e, to
  <2>1. IsFiniteSet({p \in Payers : payer[p] = Call(op, e, to)})
    BY FS_Subset
  <2>2. QED BY <2>1, FS_CardinalityType DEF Pending
<1>2. \A e \in Escrows, to \in Parties :
         credited[e][to] \in Nat /\ ledger[e][to] \in Nat /\ outbox[e][EventFor(to)] \in Nat
  BY DEF TypeOK, Counts, EventFor, EventTypes
<1>3. ASSUME UNCHANGED payer,
             NEW e \in Escrows, NEW to \in Parties, NEW types,
             types \cap {"EscrowReleased", "EscrowRefunded"} = {}, PayOut(e, to, types)
      PROVE  InOrder'
  <2> SUFFICES ASSUME NEW f \in Escrows, NEW p \in Parties
               PROVE  /\ ledger'[f][p] + Pending(payer', "record", f, p) <= credited'[f][p]
                      /\ outbox'[f][EventFor(p)] + Pending(payer', "status", f, p)
                            + Pending(payer', "event", f, p) <= ledger'[f][p]
    BY DEF InOrder
  <2>1. \A op : Pending(payer', op, f, p) = Pending(payer, op, f, p)
    BY <1>3 DEF Pending
  <2>2. \/ /\ credited'[f][p] = credited[f][p] /\ ledger'[f][p] = ledger[f][p]
           /\ outbox'[f][EventFor(p)] = outbox[f][EventFor(p)]
        \/ /\ credited'[f][p] = credited[f][p] + 1 /\ ledger'[f][p] = ledger[f][p] + 1
           /\ outbox'[f][EventFor(p)] = outbox[f][EventFor(p)] + 1
    <3>1. CASE f # e
      BY <1>3, <3>1, PayOutCounts
    <3>2. CASE f = e
      BY <1>2, <1>3, <3>2, PayOutCounts DEF EventFor, Parties
    <3>3. QED BY <3>1, <3>2
  <2>3. /\ ledger[f][p] + Pending(payer, "record", f, p) <= credited[f][p]
        /\ outbox[f][EventFor(p)] + Pending(payer, "status", f, p) + Pending(payer, "event", f, p)
               <= ledger[f][p]
    BY DEF InOrder
  <2>4. QED BY <1>1, <1>2, <2>1, <2>2, <2>3
<1>4. ASSUME UNCHANGED <<payer, credited, ledger>>,
             NEW e \in Escrows, NEW types,
             types \cap {"EscrowReleased", "EscrowRefunded"} = {}, Tell(e, types)
      PROVE  InOrder'
  <2> DEFINE row == [t \in EventTypes |-> outbox[e][t] + (IF t \in types THEN 1 ELSE 0)]
  <2>1. outbox' = [outbox EXCEPT ![e] = row]
    BY <1>4 DEF Tell
  <2>2. \A p \in Parties : row[EventFor(p)] = outbox[e][EventFor(p)]
    BY <1>4 DEF EventTypes, EventFor, TypeOK
  <2>3. \A op, f, p : Pending(payer', op, f, p) = Pending(payer, op, f, p)
    BY <1>4 DEF Pending
  <2> HIDE DEF row
  <2>4. \A f \in Escrows, p \in Parties : outbox'[f][EventFor(p)] = outbox[f][EventFor(p)]
    BY <2>1, <2>2 DEF TypeOK
  <2>5. QED BY <1>4, <2>3, <2>4 DEF InOrder
<1>5. ASSUME UNCHANGED <<payer, credited, ledger, outbox>> PROVE InOrder'
  BY <1>5 DEF InOrder
<1>6. ASSUME NEW e \in Escrows, ConfirmDelivery(e) PROVE InOrder'
  BY <1>3, <1>6 DEF ConfirmDelivery, Parties
<1>7. ASSUME NEW c \in Sweepers, SweepStep(c) PROVE InOrder'
  <2>1. ASSUME NEW e \in Escrows, ReleaseExpired(c, e) PROVE InOrder'
    BY <1>3, <2>1 DEF ReleaseExpired, Parties
  <2>2. QED BY <1>5, <1>7, <2>1 DEF SweepStep, StartSweep, SkipExpired, CrashSweep
<1>8. ASSUME NEW r \in Requests, DisputeStep(r) PROVE InOrder'
  <2>1. CASE OpenDispute(r)
    <3>1. request[r].escrow \in Escrows
      BY <2>1, OpenTyped DEF OpenDispute, Writing
    <3>2. QED BY <1>4, <2>1, <3>1 DEF OpenDispute
  <2>2. CASE CancelDispute(r)
    <3>1. disputes[request[r].dispute].escrow \in Escrows
      BY <2>2, CallTyped DEF CancelDispute, Writing
    <3>2. QED BY <1>4, <2>2, <3>1 DEF CancelDispute
  <2>3. CASE ResolveDispute(r)
    <3>1. disputes[request[r].dispute].escrow \in Escrows /\ request[r].input \in Parties
      BY <2>3, CallTyped DEF ResolveDispute, Writing
    <3>2. QED BY <1>3, <2>3, <3>1 DEF ResolveDispute
  <2>4. QED
    BY <1>5, <1>8, <2>1, <2>2, <2>3
       DEF DisputeStep, ReadToOpen, ReadDispute, Read, UpdateDisputeStatus, AbortRequest
<1>9. ASSUME NEW q \in Payers, AdminStep(q) PROVE InOrder'
  <2> SUFFICES ASSUME NEW f \in Escrows, NEW p \in Parties
               PROVE  /\ ledger'[f][p] + Pending(payer', "record", f, p) <= credited'[f][p]
                      /\ outbox'[f][EventFor(p)] + Pending(payer', "status", f, p)
                            + Pending(payer', "event", f, p) <= ledger'[f][p]
    BY DEF InOrder
  <2> DEFINE e == payer[q].escrow
             to == payer[q].to
             mine == IF e = f /\ to = p THEN 1 ELSE 0
  <2>1. /\ ledger[f][p] + Pending(payer, "record", f, p) <= credited[f][p]
        /\ outbox[f][EventFor(p)] + Pending(payer, "status", f, p) + Pending(payer, "event", f, p)
               <= ledger[f][p]
    BY DEF InOrder
  <2>2. \A op : Pending(payer', op, f, p) = Pending(payer, op, f, p)
                    + One(payer'[q], op, f, p) - One(payer[q], op, f, p)
    <3>1. \A x \in Payers \ {q} : payer'[x] = payer[x]
      BY <1>9 DEF AdminStep, AdminReads, AdminCredits, AdminRecords, AdminSetsStatus, AdminTells,
                  AdminFails, TypeOK
    <3>2. QED BY <3>1, PendingMoves
  <2>3. ASSUME payer[q].op \in {"credit", "record", "status", "event"}
        PROVE  /\ payer[q] = Call(payer[q].op, e, to)
               /\ e \in Escrows /\ to \in Parties
    <3>1. payer[q] \in [op : {"credit", "record", "status", "event"},
                        escrow : Escrows, to : Parties]
      BY <2>3 DEF TypeOK, Waiting, Finished
    <3>2. QED BY <3>1 DEF Call
  <2>4. mine \in {0, 1}
    OBVIOUS
  <2>5. CASE \E x \in Escrows, t \in Parties : AdminReads(q, x, t)
    <3>1. PICK x \in Escrows, t \in Parties : AdminReads(q, x, t)
      BY <2>5
    <3>2. payer[q] = Waiting /\ payer'[q] = Call("credit", x, t)
      BY <3>1 DEF AdminReads, Call, TypeOK
    <3>3. \A op \in {"record", "status", "event"} :
             Pending(payer', op, f, p) = Pending(payer, op, f, p)
      BY <1>1, <2>2, <3>2, OneValues
    <3>4. QED BY <2>1, <3>1, <3>3 DEF AdminReads
  <2>6. CASE AdminCredits(q)
    <3>1. payer[q] = Call("credit", e, to) /\ e \in Escrows /\ to \in Parties
      BY <2>3, <2>6 DEF AdminCredits
    <3>2. payer'[q] = Call("record", e, to)
      BY <2>6, <3>1 DEF AdminCredits, TypeOK, Call
    <3>3. /\ Pending(payer', "record", f, p) = Pending(payer, "record", f, p) + mine
          /\ \A op \in {"status", "event"} : Pending(payer', op, f, p) = Pending(payer, op, f, p)
      BY <1>1, <2>2, <3>1, <3>2, OneValues
    <3>4. credited'[f][p] = credited[f][p] + mine
      BY <1>2, <2>6, <3>1 DEF AdminCredits, TypeOK, Counts
    <3> HIDE DEF mine
    <3>5. QED BY <1>1, <1>2, <2>1, <2>4, <2>6, <3>3, <3>4 DEF AdminCredits
  <2>7. CASE AdminRecords(q)
    <3>1. payer[q] = Call("record", e, to) /\ e \in Escrows /\ to \in Parties
      BY <2>3, <2>7 DEF AdminRecords
    <3>2. payer'[q] = Call("status", e, to)
      BY <2>7, <3>1 DEF AdminRecords, TypeOK, Call
    <3>3. /\ Pending(payer', "record", f, p) = Pending(payer, "record", f, p) - mine
          /\ Pending(payer', "status", f, p) = Pending(payer, "status", f, p) + mine
          /\ Pending(payer', "event", f, p) = Pending(payer, "event", f, p)
      BY <1>1, <2>2, <3>1, <3>2, OneValues
    <3>4. ledger'[f][p] = ledger[f][p] + mine
      BY <1>2, <2>7, <3>1 DEF AdminRecords, TypeOK, Counts
    <3> HIDE DEF mine
    <3>5. QED BY <1>1, <1>2, <2>1, <2>4, <2>7, <3>3, <3>4 DEF AdminRecords
  <2>8. CASE AdminSetsStatus(q)
    <3>1. payer[q] = Call("status", e, to)
      BY <2>3, <2>8 DEF AdminSetsStatus
    <3>2. payer'[q] = Call("event", e, to)
      BY <2>8, <3>1 DEF AdminSetsStatus, TypeOK, Call
    <3>3. /\ Pending(payer', "record", f, p) = Pending(payer, "record", f, p)
          /\ Pending(payer', "status", f, p) = Pending(payer, "status", f, p) - mine
          /\ Pending(payer', "event", f, p) = Pending(payer, "event", f, p) + mine
      BY <1>1, <2>2, <3>1, <3>2, OneValues
    <3> HIDE DEF mine
    <3>4. QED BY <1>1, <1>2, <2>1, <2>4, <2>8, <3>3 DEF AdminSetsStatus
  <2>9. CASE AdminTells(q)
    <3>1. payer[q] = Call("event", e, to) /\ e \in Escrows /\ to \in Parties
      BY <2>3, <2>9 DEF AdminTells
    <3>2. payer'[q] = Finished
      BY <2>9 DEF AdminTells, TypeOK
    <3>3. /\ Pending(payer', "record", f, p) = Pending(payer, "record", f, p)
          /\ Pending(payer', "status", f, p) = Pending(payer, "status", f, p)
          /\ Pending(payer', "event", f, p) = Pending(payer, "event", f, p) - mine
      BY <1>1, <2>2, <3>1, <3>2, OneValues
    <3> DEFINE row == [t \in EventTypes |->
                         outbox[e][t] + (IF t \in {EventFor(to)} THEN 1 ELSE 0)]
    <3>4. outbox' = [outbox EXCEPT ![e] = row]
      BY <2>9 DEF AdminTells, Tell
    <3>5. row[EventFor(p)] = outbox[e][EventFor(p)] + (IF to = p THEN 1 ELSE 0)
      BY <3>1 DEF EventFor, EventTypes, Parties
    <3> HIDE DEF row
    <3>6. outbox'[f][EventFor(p)] = outbox[f][EventFor(p)] + mine
      BY <1>2, <3>1, <3>4, <3>5 DEF TypeOK
    <3> HIDE DEF mine
    <3>7. QED BY <1>1, <1>2, <2>1, <2>4, <2>9, <3>3, <3>6 DEF AdminTells
  <2>10. CASE AdminFails(q)
    <3>1. payer'[q] = Finished
      BY <2>10 DEF AdminFails, TypeOK
    <3>2. \A op \in {"record", "status", "event"} :
             Pending(payer', op, f, p) <= Pending(payer, op, f, p) /\ Pending(payer', op, f, p) \in Int
      BY <1>1, <2>2, <3>1, OneValues
    <3>3. QED BY <1>1, <1>2, <2>1, <2>10, <3>2 DEF AdminFails
  <2>11. QED BY <1>9, <2>5, <2>6, <2>7, <2>8, <2>9, <2>10 DEF AdminStep
<1>10. QED
  BY <1>5, <1>6, <1>7, <1>8, <1>9 DEF Next, WindowEnds, SweepLockExpires, vars, history

\* Whatever admin payouts stop half-way and whatever dispute calls act on old
\* checks, no ledger row lacks its deposit and no event its row: the
\* code writes them in that order on every path.
THEOREM AnnouncementsArePaid ==
    ASSUME IsFiniteSet(Payers)
    PROVE  Spec => []AnnouncedMeansPaid
<1>1. Init => InOrder
  <2> SUFFICES ASSUME Init PROVE InOrder
    OBVIOUS
  <2>1. \A op, e, to : Pending(payer, op, e, to) = 0
    BY FS_EmptySet DEF Init, Pending, Call, Waiting
  <2>2. \A to \in Parties : EventFor(to) \in EventTypes
    BY DEF EventFor, EventTypes
  <2>3. ASSUME NEW e \in Escrows, NEW to \in Parties
        PROVE  ledger[e][to] = 0 /\ credited[e][to] = 0 /\ outbox[e][EventFor(to)] = 0
    BY <2>2 DEF Init
  <2>4. QED BY <2>1, <2>3 DEF InOrder
<1>2. Typed /\ InOrder /\ [Next]_vars => InOrder'
  BY InOrderStep
<1>3. Typed /\ InOrder => AnnouncedMeansPaid
  <2> SUFFICES ASSUME Typed, InOrder, NEW e \in Escrows
               PROVE  /\ \A p \in Parties : ledger[e][p] <= credited[e][p]
                      /\ outbox[e]["EscrowReleased"] <= ledger[e]["seller"]
                      /\ outbox[e]["EscrowRefunded"] <= ledger[e]["buyer"]
    BY DEF AnnouncedMeansPaid
  <2>1. \A op, f, to : Pending(payer, op, f, to) \in Nat
    <3> TAKE op, f, to
    <3>1. IsFiniteSet({p \in Payers : payer[p] = Call(op, f, to)})
      BY FS_Subset
    <3>2. QED BY <3>1, FS_CardinalityType DEF Pending
  <2>2. \A p \in Parties :
           /\ credited[e][p] \in Nat /\ ledger[e][p] \in Nat /\ outbox[e][EventFor(p)] \in Nat
           /\ ledger[e][p] + Pending(payer, "record", e, p) <= credited[e][p]
           /\ outbox[e][EventFor(p)] + Pending(payer, "status", e, p) + Pending(payer, "event", e, p)
                 <= ledger[e][p]
    BY DEF InOrder, Typed, TypeOK, Counts, EventFor, EventTypes
  <2>3. \A p \in Parties : /\ ledger[e][p] <= credited[e][p]
                           /\ outbox[e][EventFor(p)] <= ledger[e][p]
    BY <2>1, <2>2
  <2>4. QED BY <2>3 DEF EventFor, Parties
<1>4. QED BY <1>1, <1>2, <1>3, TypedAlways, PTL DEF Spec
=============================================================================
