------------------------------- MODULE MCUsage -------------------------------
(***************************************************************************)
(* Small instances of UsageBilling and ActiveChecks for TLC.  The two      *)
(* share no state: a behaviour of the empty scene makes checks only, the   *)
(* others bill runs only, and where prices change no time passes (no hold  *)
(* expires and no quota is set there).                                     *)
(***************************************************************************)
EXTENDS UsageBilling, TLC
CONSTANTS s1, s2, a1, a2, r1, r2

Site == (a1 :> s1) @@ (a2 :> s2)
Id == [a \in Accounts |-> 1]
Payer == [r \in Runs |-> a1]
Label == [r \in Runs |-> None]
Unit == <<1>>
Tokens == (r1 :> <<3>>) @@ (r2 :> <<0>>)
Expected == <<2>>
Mixes == {{}, {"hold", "settle", "price"}, {"hold", "settle", "quota", "sweep"}, {"hold", "release"}, {"gift"}}
Symmetry == Permutations(Workers)

Init ==
  /\ InitUsage /\ InitChecks
  /\ ops = {} => \A i \in Lines : rule[None][i] = 1
  /\ \A s \in Subjects : ops # {} \/ s \notin Switched => up[s]
Next ==
  \/ ops = {} /\ NextChecks /\ UNCHANGED usageVars
  \/ ops # {} /\ NextUsage /\ UNCHANGED checkVars /\ ("price" \in ops => time' = 0)
Spec == Init /\ [][Next]_<<usageVars, checkVars>>
=============================================================================
