--------------------------- MODULE MCCreditLedger ---------------------------
(***************************************************************************)
(* Small instances of CreditLedger for TLC.                                *)
(***************************************************************************)
EXTENDS LedgerWallets, TLC

(* Allowances: none, as in production today; some units a day and a month. *)
NoAllowance   == [daily |-> 0, period |-> 0]
Daily1        == [daily |-> 1, period |-> 0]
Daily2Period1 == [daily |-> 2, period |-> 1]

Symmetry == Permutations(EntryKeys) \cup Permutations(HoldKeys)
              \cup Permutations(Tx) \cup Permutations(Sweepers)
=============================================================================
