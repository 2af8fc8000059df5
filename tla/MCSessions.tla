----------------------------- MODULE MCSessions ------------------------------
(***************************************************************************)
(* A small instance of Sessions for TLC.  A behaviour is one of three      *)
(* scenes: links that are asked for at one site and used, links that are   *)
(* asked for at two sites with the limiter's counts in Redis, and sessions *)
(* of a person or a team that are opened, refreshed and closed.            *)
(***************************************************************************)
EXTENDS Sessions, TLC

VARIABLE scene

E == CHOOSE e \in Emails : TRUE   \* who logs in; the others only ask for links
MCAddressOf == [e \in Emails |-> CHOOSE a \in Addresses : TRUE]

R == INSTANCE Sessions WITH Backend <- "redis"

LastFailure == 1       \* bound on the requests that Redis fails for
LastRefresh == 3       \* bounds on the clock where tokens are refreshed, of a
LastTeamRefresh == 2   \* person's sessions and of a team's

Asking(p) == job'[p].at = "issue" \/ job'[p].link # None
Linking ==
  /\ scene = "links" /\ UNCHANGED scene
  /\ Next
  /\ \A p \in Workers : job'[p] # Idle => Asking(p) /\ job'[p].email \in {E, None}

Unmetered == {l \in Links : link[l].email # None /\ ~link[l].metered} \cup
             {p \in Workers : job[p].at = "issue" /\ ~job[p].flag}
Metering ==
  /\ scene = "redis" /\ UNCHANGED scene
  /\ \/ Tick
     \/ \E p \in Workers : R!AskLink(p) \/ IssueLink(p) \/ Throws(p)
  /\ Cardinality(Unmetered') <= LastFailure
  /\ \A p \in Workers : job'[p].nonce = None

InUse == ({job[p].namespace : p \in Workers} \cup {token[t].namespace : t \in Tokens}) \ {None}
Refreshing ==
  /\ scene = "tokens" /\ UNCHANGED <<scene, window, link>>
  /\ Next
  /\ \A p \in Workers : ~Asking(p)
  /\ Cardinality(InUse') <= 1 /\ InUse' \subseteq Teams \cup {E}
  /\ clock' <= IF InUse' \cap Teams = {} THEN LastRefresh ELSE LastTeamRefresh

MCInit == Init /\ scene \in {"links", "redis", "tokens"}
MCSpec == MCInit /\ [][Linking \/ Metering \/ Refreshing]_<<vars, scene>>

(* Links and Tokens are one set: one exchange stands for both.              *)
Symmetry == Permutations(Workers) \cup Permutations(Links)
=============================================================================
