------------------------------- MODULE MCTeams -------------------------------
(***************************************************************************)
(* A small instance of Teams for TLC: two users of one site, and one of    *)
(* another site with the address of the second.  A behaviour is one of two *)
(* scenes: the members of a team, two requests of whom overlap, and a life *)
(* with operators, who delete and restore between the halves of a request. *)
(***************************************************************************)
EXTENDS Teams, TLC
CONSTANTS u1, u2, u3, t1, s1, s2, a1, a2, x1

SitesOf == [z \in AllTeams |-> IF z = u3 THEN s2 ELSE s1]
EmailsOf == [u \in Users |-> CHOOSE e \in Emails : (u = u1) = (e = a1) \/ Emails = {e}]
Hosts == [a \in Accounts |-> t1]
Keepers == [a \in Accounts |-> u3]

VARIABLE scene

Members ==
  /\ scene = "members" /\ UNCHANGED <<scene, account>>
  /\ Next
  /\ \A p \in Workers : job'[p].at # "set"
  /\ \A u \in Users : user'[u].status # "disabled" /\ ~user'[u].deleted
  /\ \A t \in AllTeams : ~team'[t].deleted
  /\ user # user' => \A p \in Workers : job[p] = Idle

Lifecycle ==
  /\ scene = "lifecycle" /\ UNCHANGED scene
  /\ Next
  /\ Cardinality({p \in Workers : job'[p] # Idle}) <= 1
  /\ \A p \in Workers : job'[p].role # "admin"
  /\ user'[u3].status # "disabled"

MCInit == Init /\ scene \in {"members", "lifecycle"}
MCSpec == MCInit /\ [][Members \/ Lifecycle]_<<vars, scene>>

Symmetry == Permutations(Workers) \cup Permutations(Invites)
=============================================================================
