------------------------------- MODULE MCEscrow -----------------------------
(***************************************************************************)
(* Small instances of Escrow for TLC.                                      *)
(***************************************************************************)
EXTENDS Escrow, TLC

\* Escrows, disputes and calls that differ only by name are interchangeable.
Interchangeable ==
    Permutations(Escrows) \cup Permutations(Disputes) \cup Permutations(Requests)
        \cup Permutations(Payers) \cup Permutations(Sweepers)
=============================================================================
