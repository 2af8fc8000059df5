------------------------------ MODULE Purchase -------------------------------
(***************************************************************************)
(* What the payment service promises about the credit of an order, with no *)
(* handlers, events or failures: credit is given before the order counts   *)
(* as paid, taken back before it counts as refunded, each of them once,    *)
(* and what is taken back is what was given.                               *)
(***************************************************************************)
EXTENDS Integers

CONSTANT Orders

VARIABLES
  state,   \* "open", "paid" or "refunded"
  given,   \* the credit each order has moved to its team
  taken    \* the credit each order has taken back

vars == <<state, given, taken>>

Init == /\ state = [o \in Orders |-> "open"]
        /\ given = [o \in Orders |-> 0]
        /\ taken = [o \in Orders |-> 0]

Give(o) ==
  /\ state[o] = "open" /\ given[o] = 0
  /\ given'[o] \in Nat \ {0}
  /\ given' = [given EXCEPT ![o] = given'[o]]
  /\ UNCHANGED <<state, taken>>

Pay(o) ==
  /\ state[o] = "open" /\ given[o] > 0
  /\ state' = [state EXCEPT ![o] = "paid"]
  /\ UNCHANGED <<given, taken>>

Take(o) ==
  /\ state[o] = "paid" /\ taken[o] = 0
  /\ taken' = [taken EXCEPT ![o] = given[o]]
  /\ UNCHANGED <<state, given>>

Refund(o) ==
  /\ state[o] = "paid" /\ taken[o] = given[o]
  /\ state' = [state EXCEPT ![o] = "refunded"]
  /\ UNCHANGED <<given, taken>>

Next == \E o \in Orders : Give(o) \/ Pay(o) \/ Take(o) \/ Refund(o)

Spec == Init /\ [][Next]_vars
=============================================================================
