------------------------------- MODULE Wallet -------------------------------
(***************************************************************************)
(* The wallet document of wallet/: a total balance and the part of it that *)
(* is held.  Each operation of MongoWalletRepository is one conditional    *)
(* findOneAndUpdate: a guard on the stored document (the operator Can...)  *)
(* and an increment of its fields.  A guard that fails makes               *)
(* WalletService throw, and with it the transaction the call is part of.   *)
(* Amounts are whole units of the currency.                                *)
(***************************************************************************)
EXTENDS Integers

WalletDoc == [balance : Nat, held : Nat]

Available(w) == w.balance - w.held

\* WalletService.validateAmount: every operation refuses an amount <= 0.
ValidAmount(n) == n > 0

\* creditBalance: unconditional.
Credited(w, n) == [w EXCEPT !.balance = @ + n]

\* debitBalance.
CanDebit(w, n) == ValidAmount(n) /\ Available(w) >= n
Debited(w, n) == [w EXCEPT !.balance = @ - n]

\* holdBalance.
CanHoldGross(w, n) == ValidAmount(n) /\ w.balance >= n

CanHold(w, n) == ValidAmount(n) /\ Available(w) >= n
WithHold(w, n) == [w EXCEPT !.held = @ + n]

\* releaseBalance: guarded by the hold of the whole wallet, not by the hold
\* of the auction or request the amount was held for.
CanRelease(w, n) == ValidAmount(n) /\ w.held >= n
ReleasedTwice(w, n) == [w EXCEPT !.held = @ - 2 * n]

Released(w, n) == [w EXCEPT !.held = @ - n]

\* captureHeldBalance.
CanCapture(w, n) == ValidAmount(n) /\ w.held >= n
CapturedFromHeldOnly(w, n) == [w EXCEPT !.held = @ - n]

Captured(w, n) == [w EXCEPT !.balance = @ - n, !.held = @ - n]

\* What every operation above keeps: nothing held that is not there.
SoundWallet(w) == w \in WalletDoc /\ w.held <= w.balance
=============================================================================
