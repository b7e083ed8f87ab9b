------------------------------ MODULE Deposits ------------------------------
(***************************************************************************)
(* What the payment flow promises of a deposit, whatever webhooks, jobs,   *)
(* messages and crashes it takes: it is decided once, only for what the    *)
(* gateway says, and its amount reaches the wallet at most once and only   *)
(* after it was accepted.                                                  *)
(***************************************************************************)
CONSTANT Deposits

VARIABLES
    paid,       \* the deposits the gateway has the money of
    accepted,   \* those the ledger has a SUCCESS row for
    credited    \* per deposit, how often its amount was added to the wallet

depositVars == <<paid, accepted, credited>>

DepositInit ==
    /\ paid = {}
    /\ accepted = {}
    /\ credited = [d \in Deposits |-> 0]

Pay(d) ==
    /\ d \notin paid
    /\ paid' = paid \cup {d}
    /\ UNCHANGED <<accepted, credited>>

Accept(d) ==
    /\ d \in paid \ accepted
    /\ accepted' = accepted \cup {d}
    /\ UNCHANGED <<paid, credited>>

Credit(d) ==
    /\ d \in accepted
    /\ credited[d] = 0
    /\ credited' = [credited EXCEPT ![d] = 1]
    /\ UNCHANGED <<paid, accepted>>

DepositNext == \E d \in Deposits : Pay(d) \/ Accept(d) \/ Credit(d)

DepositSpec == DepositInit /\ [][DepositNext]_depositVars
=============================================================================
