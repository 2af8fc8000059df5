-------------------------------- MODULE Teams --------------------------------
(***************************************************************************)
(* Users, teams, memberships, invites and service accounts of kokoro-user  *)
(* (kokoro-user/src/infrastructure/prisma/prisma-user-repository.ts, its   *)
(* services and routes).                                                   *)
(*                                                                         *)
(* The self-service operations run in transactions that read without       *)
(* locking (REPEATABLE READ): each is two steps of a job, one that makes   *)
(* all its checks on a snapshot and one that writes to the rows as they    *)
(* are by then.  Setting a role reads outside any transaction, with the    *)
(* same effect.  Operations that only test the row they lock, or whose     *)
(* first write locks what they read, are one step.                         *)
(***************************************************************************)
EXTENDS Integers, FiniteSets

CONSTANTS
  Users, Teams,  \* users and shared teams; a user also names their personal team
  Sites, Emails,
  Invites,       \* rows of invites
  Accounts,      \* service accounts
  Workers,       \* requests that may run at once
  None,          \* NULL
  SiteOf,        \* of each user and shared team: part of its identity
  EmailOf,       \* of each user
  Host, Keeper,  \* of each service account: its team and the user who owns it
  Named,         \* the teams requests name
  Subjects,      \* the users operators act on
  Asked,         \* the roles requests ask for
  Registered,    \* the users who have logged in before
  Ops            \* what users and operators do

AllTeams == Teams \cup Users
OpNames == {"ensure", "upsert", "set", "invite", "accept", "decline", "change",
            "remove", "status", "user", "team", "account"}

ASSUME TeamsAssumption ==
  /\ Users \cap (Teams \cup Invites) = {} /\ None \notin AllTeams \cup Emails \cup Invites
  /\ SiteOf \in [AllTeams -> Sites]
  /\ EmailOf \in [Users -> Emails]
  /\ Host \in [Accounts -> AllTeams \cup {None}]
  /\ Keeper \in [Accounts -> Users \cup {None}]
  /\ Named \subseteq AllTeams /\ Subjects \cup Registered \subseteq Users
  /\ Ops \subseteq OpNames
  /\ Asked \subseteq {"owner", "admin", "member"}

VARIABLES
  user,     \* users
  team,     \* teams
  member,   \* memberships
  invite,   \* invites
  account,  \* service_accounts
  job       \* what each request in flight is about to write

rows == <<user, team, member, invite, account>>
vars == <<rows, job>>

-----------------------------------------------------------------------------
(* Rows.                                                                   *)
Roles == {"owner", "admin", "member"}
Status == {"none", "active", "disabled"}
UserRow == [status : Status, deleted : BOOLEAN]
TeamRow == [status : Status, owner : Users \cup {None}, deleted : BOOLEAN]
MemberRow == [role : Roles \cup {"none"}, active : BOOLEAN, deleted : BOOLEAN]
InviteRow == [team : AllTeams \cup {None}, email : Emails \cup {None},
              role : Roles \cup {"none"}, lapsed : BOOLEAN, deleted : BOOLEAN,
              status : {"none", "pending", "accepted", "revoked", "expired"}]

NoUser == [status |-> "none", deleted |-> FALSE]
NoTeam == [status |-> "none", owner |-> None, deleted |-> FALSE]
NoMember == [role |-> "none", active |-> FALSE, deleted |-> FALSE]
NoInvite == [team |-> None, email |-> None, role |-> "none", lapsed |-> FALSE,
             deleted |-> FALSE, status |-> "none"]
Member(role) == [role |-> role, active |-> TRUE, deleted |-> FALSE]

(* A job that passed its checks.  new: the row it will write was not in its
   snapshot.  raced (no part of the code): a row of its team has changed since. *)
Job == [at : OpNames \cup {"idle", "again", "expire"}, team : AllTeams \cup {None},
        user : Users \cup {None}, email : Emails \cup {None}, role : Roles \cup {"none"},
        invite : Invites \cup {None}, new : BOOLEAN, raced : BOOLEAN]
Idle == [at |-> "idle", team |-> None, user |-> None, email |-> None, role |-> "none",
         invite |-> None, new |-> FALSE, raced |-> FALSE]

Changed(t) ==
  \/ member'[t] # member[t]
  \/ \E i \in Invites : invite'[i] # invite[i] /\ t \in {invite[i].team, invite'[i].team}

(* jobs, after a step that changed rows.                                   *)
Noticing(jobs) ==
  [q \in Workers |->
     IF jobs[q].team = None THEN jobs[q]
     ELSE [jobs[q] EXCEPT !.raced = @ \/ Changed(jobs[q].team)]]

Snapshot(p, fields) ==
  /\ job[p] = Idle
  /\ job' = [job EXCEPT ![p] = fields]
  /\ UNCHANGED rows
At(p, op) == job[p].at = op
Commit(p) == job' = Noticing([job EXCEPT ![p] = Idle])
AtOnce == job' = Noticing(job)

-----------------------------------------------------------------------------
(* Who may do what.                                                        *)
LiveUser(u) == user[u].status = "active" /\ ~user[u].deleted
LiveTeam(t) == team[t].status = "active" /\ ~team[t].deleted
Active(t, u) == member[t][u].role # "none" /\ member[t][u].active /\ ~member[t][u].deleted
IsRole(t, u, roles) == Active(t, u) /\ member[t][u].role \in roles
Owners(t) == {u \in Users : IsRole(t, u, {"owner"})}

(* checkMembership, resolveMemberTeamContext and resolveOwnerActive: what other
   services and the team switch go by.                                     *)
CheckMembership(t, u) == Active(t, u) /\ LiveTeam(t)
MayOpenSession(t, u) == CheckMembership(t, u) /\ LiveUser(u)

(* What a user is shown: their teams, the people and invites of one of them, and the
   teams they are invited to.                                              *)
TeamsOf(u) == {t \in AllTeams : CheckMembership(t, u)}
TeamDetail(t, viewer) ==
  IF ~CheckMembership(t, viewer) THEN {}
  ELSE {u \in Users : Active(t, u)}
       \cup {i \in Invites : invite[i].team = t /\ invite[i].status = "pending"
                             /\ ~invite[i].deleted /\ IsRole(t, viewer, {"owner", "admin"})}
PendingInvites(u) ==
  {i \in Invites : /\ LiveUser(u) /\ invite[i].email = EmailOf[u]
                   /\ invite[i].status = "pending" /\ ~invite[i].deleted /\ ~invite[i].lapsed
                   /\ LiveTeam(invite[i].team) /\ SiteOf[invite[i].team] = SiteOf[u]}

-----------------------------------------------------------------------------
(* ensureUserWithPersonalTeam: at login.  The user's status is left alone, the
   personal team's is not.                                                 *)
Ensure(u) ==
  /\ "ensure" \in Ops
  /\ ~user[u].deleted /\ ~team[u].deleted
  /\ user' = [user EXCEPT ![u].status = IF @ = "none" THEN "active" ELSE @]
  /\ team' = [team EXCEPT ![u] = [status |-> "active", owner |-> u, deleted |-> FALSE]]
  /\ member' = [member EXCEPT ![u][u] = Member("owner")]
  /\ UNCHANGED <<invite, account>>
  /\ AtOnce

(* upsertTeam: by (site, slug); requireWritableOwnerUser.                  *)
MayOwn(t, u) == LiveUser(u) /\ SiteOf[u] = SiteOf[t]

UpsertTeam(t, u) ==
  /\ "upsert" \in Ops
  /\ t \in Teams
  /\ MayOwn(t, u) /\ ~team[t].deleted
  /\ team' = [team EXCEPT ![t] = [status |-> "active", owner |-> u, deleted |-> FALSE]]
  /\ member' = [member EXCEPT ![t][u] = Member("owner")]
  /\ UNCHANGED <<user, invite, account>>
  /\ AtOnce

(* setMembershipRole: by an operator; whoever owns the team now.           *)
MaySet_AnySite(t, u) == LiveTeam(t) /\ LiveUser(u)
MaySet(t, u) == LiveTeam(t) /\ LiveUser(u) /\ SiteOf[t] = SiteOf[u]

SetRole(p) ==
  \E t \in Named, u \in Subjects, r \in Asked :
    /\ "set" \in Ops
    /\ MaySet(t, u)
    /\ Snapshot(p, [Idle EXCEPT !.at = "set", !.team = t, !.user = u, !.role = r])

SetRoleWrite(p) ==
  /\ At(p, "set")
  /\ member' = [member EXCEPT ![job[p].team][job[p].user] = Member(job[p].role)]
  /\ UNCHANGED <<user, team, invite, account>>
  /\ Commit(p)

-----------------------------------------------------------------------------
(* createInvite: by an owner or an admin; the pending invite of the address is
   renewed, or one is made.                                                *)
PendingFor(t, e) ==
  {i \in Invites : /\ invite[i].team = t /\ invite[i].email = e
                   /\ invite[i].status = "pending" /\ ~invite[i].deleted}

CreateInvite(p) ==
  \E t \in Named, u \in Users, e \in Emails, r \in Asked \ {"owner"}, i \in Invites :
    /\ "invite" \in Ops
    /\ LiveTeam(t) /\ IsRole(t, u, {"owner", "admin"})
    /\ i \in PendingFor(t, e) \/ (PendingFor(t, e) = {} /\ invite[i] = NoInvite)
    /\ Snapshot(p, [Idle EXCEPT !.at = "invite", !.team = t, !.email = e, !.role = r,
                                !.invite = i, !.new = invite[i] = NoInvite])

CreateInviteWrite(p) ==
  LET i == job[p].invite
  IN  /\ At(p, "invite")
      /\ job[p].new => invite[i] = NoInvite
      /\ invite' = [invite EXCEPT ![i] =
           IF job[p].new
           THEN [NoInvite EXCEPT !.team = job[p].team, !.email = job[p].email,
                                 !.role = job[p].role, !.status = "pending"]
           ELSE [@ EXCEPT !.role = job[p].role, !.lapsed = FALSE]]
      /\ UNCHANGED <<user, team, member, account>>
      /\ Commit(p)

(* Time passes its expiresAt; nothing is written.                          *)
Lapse(i) ==
  /\ invite[i].status = "pending" /\ ~invite[i].lapsed
  /\ invite' = [invite EXCEPT ![i].lapsed = TRUE]
  /\ UNCHANGED <<user, team, member, account, job>>

(* acceptInvite: by a live user of the team's site whose address it bears.  An
   accepted one is accepted again, its role left as it is.                 *)
Invitee(i, u) == invite[i].email = EmailOf[u]
MayJoin(i, u) ==
  /\ LiveUser(u) /\ LiveTeam(invite[i].team) /\ Invitee(i, u)
  /\ SiteOf[invite[i].team] = SiteOf[u]

Acceptance_Revocable(i) ==
  CASE invite[i].status = "accepted" -> "again"
    [] invite[i].lapsed              -> "expire"
    [] OTHER                         -> "accept"
Acceptance(i) ==
  CASE invite[i].status = "accepted"                     -> "again"
    [] invite[i].status = "pending" /\ invite[i].lapsed  -> "expire"
    [] invite[i].status = "pending" /\ ~invite[i].lapsed -> "accept"
    [] OTHER                                             -> "idle"

AcceptInvite(p) ==
  \E i \in Invites, u \in Users :
    /\ "accept" \in Ops
    /\ invite[i] # NoInvite /\ ~invite[i].deleted
    /\ MayJoin(i, u)
    /\ Acceptance(i) # "idle"
    /\ Snapshot(p, [Idle EXCEPT !.at = Acceptance(i), !.team = invite[i].team,
                                !.user = u, !.role = invite[i].role, !.invite = i,
                                !.new = member[invite[i].team][u] = NoMember])

(* upsertActiveMembership: a row that was not in the snapshot must still not be
   there (the unique key).                                                 *)
Join(p, overwrite) ==
  LET t == job[p].team
      u == job[p].user
  IN  /\ job[p].new => member[t][u] = NoMember
      /\ member' = [member EXCEPT ![t][u] =
           Member(IF job[p].new \/ overwrite THEN job[p].role ELSE @.role)]

SetInvite(i, status) == invite' = [invite EXCEPT ![i].status = status]

AcceptWrite(p) ==
  /\ At(p, "accept")
  /\ Join(p, TRUE)
  /\ SetInvite(job[p].invite, "accepted")
  /\ UNCHANGED <<user, team, account>>
  /\ Commit(p)

AcceptAgain(p) ==
  /\ At(p, "again")
  /\ Join(p, FALSE)
  /\ UNCHANGED <<user, team, invite, account>>
  /\ Commit(p)

ExpireInvite(p) ==
  /\ At(p, "expire")
  /\ SetInvite(job[p].invite, "expired")
  /\ UNCHANGED <<user, team, member, account>>
  /\ Commit(p)

(* declineInvite.                                                          *)
DeclineInvite(p) ==
  \E i \in Invites, u \in Users :
    /\ "decline" \in Ops
    /\ user[u] # NoUser /\ ~invite[i].deleted /\ Invitee(i, u)
    /\ invite[i].status = "pending"
    /\ Snapshot(p, [Idle EXCEPT !.at = "decline", !.team = invite[i].team, !.invite = i])

DeclineWrite(p) ==
  /\ At(p, "decline")
  /\ SetInvite(job[p].invite, "revoked")
  /\ UNCHANGED <<user, team, member, account>>
  /\ Commit(p)

-----------------------------------------------------------------------------
(* changeMemberRole and removeMember: not if it takes the last owner.      *)
LastOwner_OffByOne(t, u) == u \in Owners(t) /\ Cardinality(Owners(t)) < 1
LastOwner(t, u) == u \in Owners(t) /\ Cardinality(Owners(t)) <= 1

ChangeRole(p) ==
  \E t \in Named, actor, u \in Users, r \in Asked :
    /\ "change" \in Ops
    /\ LiveTeam(t) /\ IsRole(t, actor, {"owner"}) /\ Active(t, u)
    /\ r = "owner" \/ ~LastOwner(t, u)
    /\ Snapshot(p, [Idle EXCEPT !.at = "change", !.team = t, !.user = u, !.role = r])

ChangeRoleWrite(p) ==
  /\ At(p, "change")
  /\ member' = [member EXCEPT ![job[p].team][job[p].user].role = job[p].role]
  /\ UNCHANGED <<user, team, invite, account>>
  /\ Commit(p)

(* An admin may only remove a plain member.                                *)
MayRemove(t, actor, u) ==
  \/ IsRole(t, actor, {"owner"}) /\ Active(t, u)
  \/ IsRole(t, actor, {"admin"}) /\ IsRole(t, u, {"member"})

RemoveMember(p) ==
  \E t \in Named, actor, u \in Users :
    /\ "remove" \in Ops
    /\ LiveTeam(t) /\ MayRemove(t, actor, u) /\ ~LastOwner(t, u)
    /\ Snapshot(p, [Idle EXCEPT !.at = "remove", !.team = t, !.user = u])

RemoveMemberWrite(p) ==
  /\ At(p, "remove")
  /\ member' = [member EXCEPT ![job[p].team][job[p].user].active = FALSE]
  /\ UNCHANGED <<user, team, invite, account>>
  /\ Commit(p)

-----------------------------------------------------------------------------
(* Operators.                                                              *)

(* setUserStatus: the personal team follows.                               *)
SetUserStatus(u, status) ==
  /\ "status" \in Ops
  /\ user[u] # NoUser /\ status \in {"active", "disabled"}
  /\ user' = [user EXCEPT ![u].status = status]
  /\ team' = [team EXCEPT ![u].status = IF team[u] = NoTeam THEN @ ELSE status]
  /\ UNCHANGED <<member, invite, account>>
  /\ AtOnce

(* A row that is not there stays so.                                       *)
Marked_Hard(row, none, deleted) == IF deleted THEN none ELSE row
Marked(row, none, deleted) == IF row = none THEN row ELSE [row EXCEPT !.deleted = deleted]

(* deleteUser and restoreUser: with the personal team, every membership of
   either, and every service account of either.                            *)
MarkUser(u, deleted) ==
  /\ user[u] # NoUser /\ user[u].deleted # deleted
  /\ user' = [user EXCEPT ![u].deleted = deleted]
  /\ team' = [team EXCEPT ![u] = Marked(@, NoTeam, deleted)]
  /\ member' = [t \in AllTeams |-> [v \in Users |->
       IF u \in {t, v} THEN Marked(member[t][v], NoMember, deleted) ELSE member[t][v]]]
  /\ account' = [a \in Accounts |->
       IF u \in {Host[a], Keeper[a]} THEN deleted ELSE account[a]]
  /\ UNCHANGED invite
  /\ AtOnce

DeleteUser(u) == "user" \in Ops /\ MarkUser(u, TRUE)
RestoreUser(u) == "user" \in Ops /\ MarkUser(u, FALSE)

(* deleteTeam and restoreTeam, with updateTeamSubresources: a restore brings back
   every row of the team, those deleted for another reason too.            *)
MarkTeam(t, deleted) ==
  /\ team[t] # NoTeam /\ team[t].deleted # deleted
  /\ team' = [team EXCEPT ![t].deleted = deleted]
  /\ member' = [member EXCEPT ![t] = [v \in Users |-> Marked(@[v], NoMember, deleted)]]
  /\ invite' = [i \in Invites |->
       IF invite[i].team = t THEN Marked(invite[i], NoInvite, deleted) ELSE invite[i]]
  /\ account' = [a \in Accounts |-> IF Host[a] = t THEN deleted ELSE account[a]]
  /\ UNCHANGED user
  /\ AtOnce

DeleteTeam(t) == "team" \in Ops /\ MarkTeam(t, TRUE)
RestoreTeam(t) == "team" \in Ops /\ MarkTeam(t, FALSE)

DeleteServiceAccount(a) ==
  /\ "account" \in Ops
  /\ ~account[a]
  /\ account' = [account EXCEPT ![a] = TRUE]
  /\ UNCHANGED <<user, team, member, invite, job>>

(* A transaction fails or its process dies before it commits.              *)
Rollback(p) ==
  /\ job[p] # Idle
  /\ job' = [job EXCEPT ![p] = Idle]
  /\ UNCHANGED rows

-----------------------------------------------------------------------------
Init ==
  /\ user = [u \in Users |-> IF u \in Registered THEN [NoUser EXCEPT !.status = "active"]
                              ELSE NoUser]
  /\ team = [t \in AllTeams |-> IF t \in Registered
                THEN [status |-> "active", owner |-> t, deleted |-> FALSE] ELSE NoTeam]
  /\ member = [t \in AllTeams |-> [u \in Users |->
                IF t = u /\ u \in Registered THEN Member("owner") ELSE NoMember]]
  /\ invite = [i \in Invites |-> NoInvite]
  /\ account = [a \in Accounts |-> FALSE]
  /\ job = [p \in Workers |-> Idle]

(* The routes: what each family of requests may do.                        *)
UserRequests ==
  \/ \E u \in Users : Ensure(u)
  \/ \E u \in Subjects : DeleteUser(u) \/ RestoreUser(u)
TeamRequests ==
  \/ \E t \in Teams, u \in Users : UpsertTeam(t, u)
  \/ \E t \in Named : DeleteTeam(t) \/ RestoreTeam(t)
AccountRequests == \E a \in Accounts : DeleteServiceAccount(a)
StatusRequests == \E u \in Subjects, status \in Status : SetUserStatus(u, status)
RoleRequests(p) == SetRole(p) \/ SetRoleWrite(p)
InviteRequests(p) ==
  \/ CreateInvite(p) \/ CreateInviteWrite(p)
  \/ AcceptInvite(p) \/ AcceptWrite(p) \/ AcceptAgain(p) \/ ExpireInvite(p)
  \/ DeclineInvite(p) \/ DeclineWrite(p)
MemberRequests(p) ==
  \/ ChangeRole(p) \/ ChangeRoleWrite(p)
  \/ RemoveMember(p) \/ RemoveMemberWrite(p)

Next ==
  \/ UserRequests \/ TeamRequests \/ AccountRequests \/ StatusRequests
  \/ \E i \in Invites : Lapse(i)
  \/ \E p \in Workers :
       RoleRequests(p) \/ InviteRequests(p) \/ MemberRequests(p) \/ Rollback(p)

Spec == Init /\ [][Next]_vars

-----------------------------------------------------------------------------
(* Type correctness.                                                       *)
TypeOK ==
  /\ user \in [Users -> UserRow]
  /\ team \in [AllTeams -> TeamRow]
  /\ member \in [AllTeams -> [Users -> MemberRow]]
  /\ invite \in [Invites -> InviteRow]
  /\ account \in [Accounts -> BOOLEAN]
  /\ job \in [Workers -> Job]

(* Users and teams of different sites never meet, although people have accounts
   with one address on several sites and every operation names its team and its
   users by bare ids: no membership and no owner joins two sites, nobody is shown
   a team of another site or who is in it, and whoever is shown an invite may
   accept it.                                                              *)
SiteIsolation ==
  /\ \A t \in AllTeams, u \in Users : member[t][u] # NoMember => SiteOf[u] = SiteOf[t]
  /\ \A u \in Users : \A t \in TeamsOf(u) :
       SiteOf[u] = SiteOf[t] /\ \A v \in TeamDetail(t, u) \cap Users : SiteOf[v] = SiteOf[u]
  /\ \A u \in Users : \A i \in PendingInvites(u) : MayJoin(i, u) /\ Acceptance(i) = "accept"
  /\ \A t \in AllTeams : team[t].owner # None => SiteOf[team[t].owner] = SiteOf[t]

(* An accepted invite has made someone it was addressed to a member: the two rows
   are written together, whatever ran in between (acceptInvite).           *)
AcceptedHasMember ==
  \A i \in Invites : invite[i].status = "accepted" =>
    \E u \in Users : Invitee(i, u) /\ member[invite[i].team][u] # NoMember

(* An invite that was accepted, revoked or has expired stays so, unless two
   answers to it overlap (declineInvite: what was accepted cannot be taken
   back).                                                                  *)
SettledInvitesStay ==
  [][\A i \in Invites :
       /\ invite[i].status \in {"accepted", "revoked", "expired"}
       /\ invite'[i].status # invite[i].status
       => \E p \in Workers : job[p].invite = i /\ job[p].raced]_vars

(* No member changes a role or removes a member so that the team is left without
   an owner, unless another write to the team overlaps (changeMemberRole,
   removeMember: last_owner).                                              *)
LastOwnerStays ==
  [][\A p \in Workers, t \in AllTeams :
       /\ job[p].at \in {"change", "remove"} /\ job[p].team = t
       /\ job'[p] = Idle /\ ~job[p].raced
       => (Owners(t) # {} => Owners(t)' # {})]_vars

=============================================================================
