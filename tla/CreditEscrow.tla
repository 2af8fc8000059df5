---------------------------- MODULE CreditEscrow ----------------------------
(***************************************************************************)
(* What the ledger promises about permanent (bought) credit, with no       *)
(* database, no time buckets and no idempotency keys: each account has a   *)
(* balance, and each hold is an escrow that opens with credit taken from   *)
(* one balance and closes exactly once, giving back the part that was not  *)
(* spent to that same balance.                                             *)
(***************************************************************************)
EXTENDS Integers

CONSTANTS Accounts, Escrows, None

VARIABLES
  paid,     \* the permanent balance of each account
  escrow    \* each escrow: its state, the account it draws on, what it has left

vars == <<paid, escrow>>

Unopened == [state |-> "unopened", owner |-> None, amount |-> 0]

Init == /\ paid \in [Accounts -> Nat]
        /\ escrow = [e \in Escrows |-> Unopened]

(* A balance changes by a grant, a direct spend or an administrator's reset:
   no other balance and no escrow moves.                                   *)
Adjust(a) ==
  /\ paid'[a] \in Nat
  /\ paid' = [paid EXCEPT ![a] = paid'[a]]
  /\ UNCHANGED escrow

(* An escrow opens: what leaves the balance is what the escrow has.        *)
OpenEscrow(e, a) ==
  /\ escrow[e] = Unopened
  /\ paid'[a] \in 0 .. paid[a]
  /\ paid' = [paid EXCEPT ![a] = paid'[a]]
  /\ escrow' = [escrow EXCEPT ![e] =
                  [state |-> "open", owner |-> a, amount |-> paid[a] - paid'[a]]]

Shut(e, state) == escrow' = [escrow EXCEPT ![e].state = state, ![e].amount = 0]

(* A settlement spends a part of the escrow, possibly none of the permanent
   credit in it, and gives the rest back.                                  *)
SettleEscrow(e) ==
  LET a == escrow[e].owner
  IN  /\ escrow[e].state = "open"
      /\ paid'[a] \in paid[a] .. paid[a] + escrow[e].amount
      /\ paid' = [paid EXCEPT ![a] = paid'[a]]
      /\ Shut(e, "settled")

(* A release or an expiry gives all of it back.                            *)
ReturnEscrow(e) ==
  /\ escrow[e].state = "open"
  /\ paid' = [paid EXCEPT ![escrow[e].owner] = @ + escrow[e].amount]
  /\ Shut(e, "returned")

Next ==
  \/ \E a \in Accounts : Adjust(a)
  \/ \E e \in Escrows, a \in Accounts : OpenEscrow(e, a)
  \/ \E e \in Escrows : SettleEscrow(e) \/ ReturnEscrow(e)

Spec == Init /\ [][Next]_vars
=============================================================================
