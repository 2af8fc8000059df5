------------------------------- MODULE MCAdmin -------------------------------
(***************************************************************************)
(* Small instances of Approvals and Receipts for TLC.  The two share no    *)
(* state, and a behaviour is of one of three scenes: requests that decide  *)
(* at once; one request at a time while another one changes an operator or *)
(* a role; and the commands of sign-in.                                    *)
(***************************************************************************)
EXTENDS Approvals, Receipts, TLC
CONSTANTS o1, o2, o3, x1, x2, c1, c2, c3, c4

KindOf == (x1 :> "dangerMutation") @@ (x2 :> "mutation")
RequiredOf == [a \in Actions |-> "act"]
Given == {{"act", "manage"}, {"manage"}}
Reach == {{}, {All}}
MaxAudit == 1   \* bound on the log where operators and roles change

(* c1 creates a token, c2 consumes it; c3 reuses the key of c2 and c4 the whole
   identity of c2, both for another operation.                             *)
IdOf == (c1 :> 1) @@ (c2 :> 2) @@ (c3 :> 3) @@ (c4 :> 2)
KeyOf == (c1 :> 1) @@ (c2 :> 2) @@ (c3 :> 2) @@ (c4 :> 2)
OperationOf == (c1 :> "create") @@ (c2 :> "consume") @@ (c3 :> "create") @@ (c4 :> "event")
TargetOf == [c \in Commands |-> "t"]

VARIABLE scene

Managing == {p \in Workers : At(p, "manage")}
Busy == {p \in Workers : job[p] # Idle} \ Managing

Decisions ==
  /\ scene = "decisions" /\ UNCHANGED <<receiptVars, scene>>
  /\ \E p \in Workers : Requesting(p)
  /\ \A p \in Workers : job'[p].at = "prepare" =>
       job'[p].action = x1 /\ job'[p].site # None /\ ~job'[p].big

StaffChanges ==
  /\ scene = "staff" /\ UNCHANGED <<receiptVars, scene>>
  /\ Next
  /\ Cardinality(Busy') <= 1 /\ Cardinality(Managing') <= 1 /\ Cardinality(audit') <= MaxAudit
  /\ \A p \in Workers : /\ job'[p].operator # o3
                        /\ job'[p].action = x1 => ~job'[p].big
                        /\ job'[p].action = x2 => job'[p].site # None

SigningIn == scene = "receipts" /\ UNCHANGED <<vars, scene>> /\ NextReceipts

MCInit ==
  /\ Init /\ InitReceipts
  /\ scene \in {"decisions", "staff", "receipts"}
  /\ operator[o1].scope = {All} /\ operator[o3].scope = {All}
  /\ scene # "staff" => /\ \A o \in Operators : operator[o].scope = {All}
                        /\ \A r \in Roles : role[r] = {"act", "manage"}
MCSpec == MCInit /\ [][Decisions \/ StaffChanges \/ SigningIn]_<<vars, receiptVars, scene>>

Symmetry == Permutations(Workers)
=============================================================================
