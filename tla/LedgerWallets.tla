---------------------------- MODULE LedgerWallets ----------------------------
(***************************************************************************)
(* The bucket arithmetic on the wallets of the credit ledger.              *)
(***************************************************************************)
EXTENDS CreditLedger, BucketReference

Wallets == {account[a].bucket : a \in Accounts}

(* debit picks, of all ways to split an amount, the one that spares the credit
   that expires last, the empty, the exact and the short wallet included.  *)
DebitIsThriftiest ==
  \A b \in Wallets : \A n \in 0 .. Available(b) + 1 : Thriftiest(b, n)

(* A hold is a spend that can be undone: captureHold, which debits the reservation,
   takes from each bucket what spendCredits would have taken, and with no
   boundary in between releaseHold cancels holdCredits: the clamp of
   creditBack costs nothing inside a day.                                  *)
ReservationIsNeutral ==
  \A b \in Wallets : \A n \in 0 .. Available(b) :
    /\ \A m \in 0 .. n : CaptureIsSpend(b, n, m)
    /\ ReturnCancels(b, n, Allowance)
=============================================================================
