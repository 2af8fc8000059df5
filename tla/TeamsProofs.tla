----------------------------- MODULE TeamsProofs -----------------------------
(***************************************************************************)
(* Proofs about Teams: the sites stay apart, an accepted invite has its    *)
(* member, a settled invite stays settled and the last owner stays, for    *)
(* any users, teams, sites, invites and number of requests at once.        *)
(***************************************************************************)
EXTENDS Teams, FiniteSetTheorems, TLAPS

(* A membership row has a role, and joins a user and a team of one site.   *)
MembersWhole ==
  \A t \in AllTeams, u \in Users :
    IF member[t][u].role = "none" THEN member[t][u] = NoMember ELSE SiteOf[u] = SiteOf[t]

(* A team's owner is of its site.                                          *)
OwnersWhole == \A t \in AllTeams : team[t].owner # None => SiteOf[team[t].owner] = SiteOf[t]

(* An invite has a team, an address and a role.                            *)
InvitesWhole ==
  \A i \in Invites :
    IF invite[i].status = "none" THEN invite[i] = NoInvite
    ELSE /\ invite[i].team \in AllTeams /\ invite[i].email \in Emails
         /\ invite[i].role \in Roles

(* What a request that passed its checks may rely on, however late it writes: rows
   do not vanish, and no invite changes its team or its address.           *)
JobWhole(j) ==
  /\ j.at # "idle" => j.team \in AllTeams
  /\ j.at \in {"set", "accept", "again", "change", "remove"} =>
       j.user \in Users /\ SiteOf[j.user] = SiteOf[j.team]
  /\ j.at \in {"set", "invite", "accept", "again", "change"} => j.role \in Roles
  /\ j.at \in {"invite", "accept", "again", "expire", "decline"} => j.invite \in Invites
  /\ j.at = "invite" => j.email \in Emails
  /\ j.at \in {"accept", "again", "expire", "decline"} \/ (j.at = "invite" /\ ~j.new) =>
       invite[j.invite].status # "none" /\ invite[j.invite].team = j.team
  /\ j.at = "accept" => invite[j.invite].email = EmailOf[j.user]
  /\ j.at \in {"change", "remove"} \/ (j.at \in {"accept", "again"} /\ ~j.new) =>
       member[j.team][j.user].role # "none"

(* What it may rely on as long as nobody else has written to its team.     *)
JobFresh(j) ==
  ~j.raced =>
    /\ j.at \in {"accept", "expire", "decline"} => invite[j.invite].status = "pending"
    /\ j.at \in {"change", "remove"} =>
         ~LastOwner(j.team, j.user) \/ (j.at = "change" /\ j.role = "owner")

JobsWhole == \A p \in Workers : JobWhole(job[p]) /\ JobFresh(job[p])

RowsWhole == MembersWhole /\ OwnersWhole /\ InvitesWhole /\ AcceptedHasMember

IInv == TypeOK /\ RowsWhole /\ JobsWhole

(* No row vanishes, no invite changes its team or its address.             *)
MembersGrow ==
  \A t \in AllTeams, u \in Users :
    member[t][u].role # "none" => member'[t][u].role # "none"
InvitesGrow ==
  \A i \in Invites : invite[i].status # "none" =>
    /\ invite'[i].status # "none"
    /\ invite'[i].team = invite[i].team /\ invite'[i].email = invite[i].email

-----------------------------------------------------------------------------
(* Requests in flight.                                                     *)

(* A request that notices, or does not, is otherwise as it was.            *)
LEMMA RacedSet ==
  ASSUME NEW j \in Job, NEW x \in BOOLEAN, NEW k, k = [j EXCEPT !.raced = x]
  PROVE  /\ k \in Job /\ k.at = j.at /\ k.team = j.team /\ k.user = j.user
         /\ k.email = j.email /\ k.role = j.role /\ k.invite = j.invite /\ k.new = j.new
         /\ k.raced = x
BY DEF Job

(* A job that read the rows before a write of another no longer counts on them. *)
LEMMA Noticed ==
  ASSUME NEW jobs \in [Workers -> Job], job' = Noticing(jobs), NEW q \in Workers
  PROVE  /\ job'[q] \in Job
         /\ job'[q].at = jobs[q].at /\ job'[q].team = jobs[q].team
         /\ job'[q].user = jobs[q].user /\ job'[q].email = jobs[q].email
         /\ job'[q].role = jobs[q].role /\ job'[q].invite = jobs[q].invite
         /\ job'[q].new = jobs[q].new
         /\ jobs[q].raced => job'[q].raced
         /\ jobs[q].team # None /\ Changed(jobs[q].team) => job'[q].raced
<1>1. CASE jobs[q].team = None
  <2>1. job'[q] = jobs[q]
    BY <1>1 DEF Noticing
  <2>2. QED
    BY <1>1, <2>1
<1>2. CASE jobs[q].team # None
  <2> DEFINE x == jobs[q].raced \/ Changed(jobs[q].team)
  <2>1. job'[q] = [jobs[q] EXCEPT !.raced = x]
    BY <1>2 DEF Noticing
  <2>2. x \in BOOLEAN /\ jobs[q] \in Job
    BY DEF Changed, Job
  <2>3. (jobs[q].raced => x) /\ (Changed(jobs[q].team) => x)
    OBVIOUS
  <2> HIDE DEF x
  <2>4. QED
    BY <2>1, <2>2, <2>3, RacedSet
<1>3. QED
  BY <1>1, <1>2

(* Who owns a team is a matter of its membership rows.                     *)
LEMMA OwnersStay ==
  ASSUME NEW t, member'[t] = member[t]
  PROVE  Owners(t)' = Owners(t)
BY DEF Owners, IsRole, Active

(* What a request relies on survives every write that lets no row vanish, and what it
   relies on while it is alone survives the writes it does not notice.     *)
LEMMA JobsKept ==
  ASSUME JobsWhole, MembersGrow, InvitesGrow, InvitesWhole,
         NEW jobs \in [Workers -> Job], job' = Noticing(jobs),
         \A q \in Workers : jobs[q] = job[q] \/ jobs[q] = Idle
  PROVE  job' \in [Workers -> Job] /\ JobsWhole'
<1>1. job' \in [Workers -> Job]
  <2>1. \A q \in Workers : job'[q] \in Job
    BY Noticed
  <2>2. job' = [q \in Workers |-> job'[q]]
    BY DEF Noticing
  <2>3. QED
    BY <2>1, <2>2
<1>2. ASSUME NEW q \in Workers
      PROVE  JobWhole(job[q])' /\ JobFresh(job[q])'
  <2>1. /\ job'[q].at = jobs[q].at /\ job'[q].team = jobs[q].team
        /\ job'[q].user = jobs[q].user /\ job'[q].email = jobs[q].email
        /\ job'[q].role = jobs[q].role /\ job'[q].invite = jobs[q].invite
        /\ job'[q].new = jobs[q].new
    BY Noticed
  <2>2. /\ jobs[q].raced => job'[q].raced
        /\ jobs[q].team # None /\ Changed(jobs[q].team) => job'[q].raced
    BY Noticed
  <2>3. CASE jobs[q] = Idle
    <3>1. job'[q].at = "idle"
      BY <2>1, <2>3 DEF Idle
    <3>2. QED
      BY <3>1 DEF JobWhole, JobFresh
  <2>4. CASE jobs[q] = job[q]
    <3>1. JobWhole(job[q]) /\ JobFresh(job[q])
      BY DEF JobsWhole
    <3>2. JobWhole(job[q])'
      BY <2>1, <2>4, <3>1 DEF JobWhole, MembersGrow, InvitesGrow
    <3>3. JobFresh(job[q])'
      <4> SUFFICES ASSUME ~job'[q].raced,
                          job'[q].at \in {"accept", "expire", "decline", "change", "remove"}
                   PROVE  JobFresh(job[q])'
        BY DEF JobFresh
      <4>0. PICK t, u, i : t = job[q].team /\ u = job[q].user /\ i = job[q].invite
        OBVIOUS
      <4>1. ~job[q].raced /\ t \in AllTeams
        BY <2>1, <2>2, <2>4, <3>1, <4>0 DEF JobWhole
      <4>2. ~Changed(t)
        BY <2>2, <2>4, <4>0, <4>1, TeamsAssumption
      <4>3. member'[t] = member[t] /\ \A g \in Invites : invite[g].team = t => invite'[g] = invite[g]
        BY <4>2 DEF Changed
      <4>4. CASE job[q].at \in {"accept", "expire", "decline"}
        <5>1. i \in Invites /\ invite[i].team = t
          BY <3>1, <4>0, <4>4 DEF JobWhole
        <5>2. invite'[job'[q].invite].status = "pending"
          BY <2>1, <2>4, <3>1, <4>0, <4>1, <4>3, <4>4, <5>1 DEF JobFresh
        <5>3. QED
          BY <2>1, <2>4, <4>4, <5>2 DEF JobFresh
      <4>5. CASE job[q].at \in {"change", "remove"}
        <5>1. ~LastOwner(t, u) \/ (job[q].at = "change" /\ job[q].role = "owner")
          BY <3>1, <4>0, <4>1, <4>5 DEF JobFresh
        <5>2. Owners(t)' = Owners(t)
          BY <4>3, OwnersStay
        <5>3. LastOwner(t, u)' = LastOwner(t, u)
          BY <5>2 DEF LastOwner
        <5>4. job'[q].user = u /\ job'[q].team = t /\ job'[q].at = job[q].at /\ job'[q].role = job[q].role
          BY <2>1, <2>4, <4>0
        <5>5. QED
          BY <4>5, <5>1, <5>3, <5>4 DEF JobFresh
      <4>6. QED
        BY <2>1, <2>4, <4>4, <4>5
    <3>4. QED
      BY <3>2, <3>3
  <2>5. QED
    BY <2>3, <2>4
<1>3. QED
  BY <1>1, <1>2 DEF JobsWhole

-----------------------------------------------------------------------------
(* Rows.                                                                   *)

(* One membership row is written.                                          *)
LEMMA MemberWritten ==
  ASSUME TypeOK, MembersWhole, NEW t \in AllTeams, NEW u \in Users, NEW m \in MemberRow,
         m.role # "none", SiteOf[u] = SiteOf[t], member' = [member EXCEPT ![t][u] = m]
  PROVE  /\ member' \in [AllTeams -> [Users -> MemberRow]]
         /\ MembersWhole' /\ MembersGrow /\ member'[t][u] = m
<1>1. member' \in [AllTeams -> [Users -> MemberRow]]
  BY DEF TypeOK
<1>2. \A s \in AllTeams, v \in Users :
        member'[s][v] = IF s = t /\ v = u THEN m ELSE member[s][v]
  BY DEF TypeOK
<1>3. QED
  BY <1>1, <1>2 DEF MembersWhole, MembersGrow

(* Rows are marked deleted, or no longer.                                  *)
LEMMA MembersMarked ==
  ASSUME TypeOK, MembersWhole, NEW d \in BOOLEAN,
         member' = [t \in AllTeams |-> [u \in Users |-> member'[t][u]]],
         \A t \in AllTeams, u \in Users :
           member'[t][u] \in {member[t][u], Marked(member[t][u], NoMember, d)}
  PROVE  /\ member' \in [AllTeams -> [Users -> MemberRow]]
         /\ MembersWhole' /\ MembersGrow
<1>1. ASSUME NEW t \in AllTeams, NEW u \in Users
      PROVE  /\ member'[t][u] \in MemberRow
             /\ member'[t][u].role = member[t][u].role
             /\ member[t][u] = NoMember => member'[t][u] = NoMember
  <2>1. PICK m : m = member[t][u]
    OBVIOUS
  <2>2. m \in MemberRow
    BY <2>1 DEF TypeOK
  <2>3. PICK k : k = [m EXCEPT !.deleted = d]
    OBVIOUS
  <2>4. k \in MemberRow /\ k.role = m.role
    BY <2>2, <2>3 DEF MemberRow
  <2>5. member'[t][u] \in {m, k} /\ (m = NoMember => member'[t][u] = m)
    BY <2>1, <2>3 DEF Marked
  <2>6. QED
    BY <2>1, <2>2, <2>4, <2>5
<1>2. member' \in [AllTeams -> [Users -> MemberRow]]
  BY <1>1
<1>3. QED
  BY <1>1, <1>2 DEF MembersWhole, MembersGrow

(* One invite is written.                                                  *)
LEMMA InviteWritten ==
  ASSUME TypeOK, InvitesWhole, NEW i \in Invites, NEW v \in InviteRow, v.status # "none",
         v.team \in AllTeams, v.email \in Emails, v.role \in Roles,
         invite[i].status # "none" => v.team = invite[i].team /\ v.email = invite[i].email,
         invite' = [invite EXCEPT ![i] = v]
  PROVE  /\ invite' \in [Invites -> InviteRow] /\ InvitesWhole' /\ InvitesGrow
         /\ \A g \in Invites : invite'[g] = IF g = i THEN v ELSE invite[g]
<1>1. \A g \in Invites : invite'[g] = IF g = i THEN v ELSE invite[g]
  BY DEF TypeOK
<1>2. invite' \in [Invites -> InviteRow]
  BY DEF TypeOK
<1>3. QED
  BY <1>1, <1>2 DEF InvitesWhole, InvitesGrow

(* The status of an invite is written.                                     *)
LEMMA InviteSettled ==
  ASSUME TypeOK, InvitesWhole, NEW i \in Invites, invite[i].status # "none",
         NEW st \in {"pending", "accepted", "revoked", "expired"}, SetInvite(i, st)
  PROVE  /\ invite' \in [Invites -> InviteRow] /\ InvitesWhole' /\ InvitesGrow
         /\ \A g \in Invites : invite'[g].status = IF g = i THEN st ELSE invite[g].status
<1>1. PICK w : w = invite[i]
  OBVIOUS
<1>2. w \in InviteRow
  BY <1>1 DEF TypeOK
<1>3. PICK v : v = [w EXCEPT !.status = st]
  OBVIOUS
<1>4. /\ v \in InviteRow /\ v.status = st /\ v.team = w.team /\ v.email = w.email
      /\ v.role = w.role
  BY <1>2, <1>3 DEF InviteRow
<1>5. invite' = [invite EXCEPT ![i] = v]
  BY <1>1, <1>3 DEF SetInvite
<1>6. v.team \in AllTeams /\ v.email \in Emails /\ v.role \in Roles
  BY <1>1, <1>4 DEF InvitesWhole
<1>7. QED
  BY <1>1, <1>4, <1>5, <1>6, InviteWritten

(* Untouched rows are whole and have not vanished.                         *)
LEMMA RowsStay ==
  /\ MembersWhole /\ member' = member => MembersWhole' /\ MembersGrow
  /\ OwnersWhole /\ team' = team => OwnersWhole'
  /\ InvitesWhole /\ invite' = invite => InvitesWhole' /\ InvitesGrow
BY DEF MembersWhole, MembersGrow, OwnersWhole, InvitesWhole, InvitesGrow

(* Those who accepted stay members.                                        *)
LEMMA AcceptedStay ==
  ASSUME RowsWhole, TypeOK, MembersGrow, InvitesGrow, MembersWhole',
         NEW i \in Invites, invite[i].status = "accepted"
  PROVE  \E u \in Users : Invitee(i, u)' /\ member'[invite'[i].team][u] # NoMember
<1>1. PICK u \in Users : Invitee(i, u) /\ member[invite[i].team][u] # NoMember
  BY DEF RowsWhole, AcceptedHasMember
<1>2. /\ invite'[i].team = invite[i].team /\ invite'[i].email = invite[i].email
      /\ invite[i].team \in AllTeams
  BY DEF InvitesGrow, InvitesWhole, RowsWhole
<1>3. member[invite[i].team][u].role # "none"
  BY <1>1, <1>2 DEF RowsWhole, MembersWhole
<1>4. member'[invite[i].team][u].role # "none"
  BY <1>2, <1>3 DEF MembersGrow
<1>5. NoMember.role = "none"
  BY DEF NoMember
<1>6. Invitee(i, u)'
  BY <1>1, <1>2 DEF Invitee
<1>7. QED
  BY <1>2, <1>4, <1>5, <1>6

(* A write to rows that keeps them whole.                                  *)
Sound ==
  /\ user' \in [Users -> UserRow]
  /\ team' \in [AllTeams -> TeamRow] /\ OwnersWhole'
  /\ member' \in [AllTeams -> [Users -> MemberRow]] /\ MembersWhole' /\ MembersGrow
  /\ invite' \in [Invites -> InviteRow] /\ InvitesWhole' /\ InvitesGrow
  /\ account' \in [Accounts -> BOOLEAN]
  /\ \A i \in Invites : invite'[i].status = "accepted" =>
       \/ invite[i].status = "accepted"
       \/ \E u \in Users : Invitee(i, u)' /\ member'[invite'[i].team][u] # NoMember

(* The rows stay sound when each new one is, and none of them vanishes.   *)
LEMMA SoundKeeps ==
  ASSUME IInv, Sound, job' \in [Workers -> Job], JobsWhole'
  PROVE  IInv'
<1>1. AcceptedHasMember'
  <2> SUFFICES ASSUME NEW i \in Invites, invite'[i].status = "accepted"
               PROVE  \E u \in Users : Invitee(i, u)' /\ member'[invite'[i].team][u] # NoMember
    BY DEF AcceptedHasMember
  <2>1. QED
    BY AcceptedStay DEF Sound, IInv
<1>2. QED
  BY <1>1 DEF IInv, RowsWhole, Sound, TypeOK

(* It is written by a request, or at once.                                 *)
LEMMA CommitKeeps ==
  ASSUME IInv, Sound, NEW p \in Workers, Commit(p)
  PROVE  IInv'
<1> DEFINE jobs == [job EXCEPT ![p] = Idle]
<1>1. Idle \in Job
  BY DEF Idle, Job
<1>2. jobs \in [Workers -> Job] /\ \A q \in Workers : jobs[q] = job[q] \/ jobs[q] = Idle
  BY <1>1 DEF IInv, TypeOK
<1>3. job' = Noticing(jobs)
  BY DEF Commit
<1> HIDE DEF jobs
<1>4. job' \in [Workers -> Job] /\ JobsWhole'
  BY <1>2, <1>3, JobsKept DEF IInv, RowsWhole, Sound
<1>5. QED
  BY <1>4, SoundKeeps

(* A transaction that writes at once and leaves the jobs alone.           *)
LEMMA AtOnceKeeps ==
  ASSUME IInv, Sound, AtOnce
  PROVE  IInv'
<1>1. job' \in [Workers -> Job] /\ JobsWhole'
  BY JobsKept DEF IInv, RowsWhole, Sound, TypeOK, AtOnce
<1>2. QED
  BY <1>1, SoundKeeps

-----------------------------------------------------------------------------
(* Requests that make their checks.                                        *)

(* A transaction that only takes its snapshot.                            *)
LEMMA SnapshotKeeps ==
  ASSUME IInv, NEW p \in Workers, NEW j \in Job, Snapshot(p, j), JobWhole(j), JobFresh(j)
  PROVE  IInv'
<1>1. /\ job' = [job EXCEPT ![p] = j]
      /\ UNCHANGED <<user, team, member, invite, account>>
  BY DEF Snapshot, rows
<1>2. \A q \in Workers : job'[q] = IF q = p THEN j ELSE job[q]
  BY <1>1 DEF IInv, TypeOK
<1>3. job' \in [Workers -> Job]
  BY <1>1 DEF IInv, TypeOK
<1>4. ASSUME NEW q \in Workers PROVE JobWhole(job[q])' /\ JobFresh(job[q])'
  <2>1. PICK k : k = job'[q]
    OBVIOUS
  <2>2. JobWhole(k) /\ JobFresh(k)
    BY <1>2, <2>1 DEF IInv, JobsWhole
  <2>3. JobWhole(job[q])'
    BY <1>1, <2>1, <2>2 DEF JobWhole
  <2>4. LastOwner(job[q].team, job[q].user)' = LastOwner(k.team, k.user)
    BY <1>1, <2>1 DEF LastOwner, Owners, IsRole, Active
  <2>5. JobFresh(job[q])'
    BY <1>1, <2>1, <2>2, <2>4 DEF JobFresh
  <2>6. QED
    BY <2>3, <2>5
<1>5. RowsWhole'
  BY <1>1 DEF IInv, RowsWhole, MembersWhole, OwnersWhole, InvitesWhole, AcceptedHasMember, Invitee
<1>6. QED
  BY <1>1, <1>3, <1>4, <1>5 DEF IInv, TypeOK, JobsWhole

(* setTeamMemberRole reads the members.                                   *)
LEMMA SetRoleKeeps == ASSUME IInv, NEW p \in Workers, SetRole(p) PROVE IInv'
<1>1. PICK t \in Named, u \in Subjects, r \in Asked :
        /\ MaySet(t, u)
        /\ Snapshot(p, [Idle EXCEPT !.at = "set", !.team = t, !.user = u, !.role = r])
  BY DEF SetRole
<1>2. PICK j : j = [Idle EXCEPT !.at = "set", !.team = t, !.user = u, !.role = r]
  OBVIOUS
<1>3. t \in AllTeams /\ u \in Users /\ r \in Roles
  BY TeamsAssumption DEF Roles
<1>4. j \in Job /\ j.at = "set" /\ j.team = t /\ j.user = u /\ j.role = r
  BY <1>2, <1>3 DEF Idle, Job, OpNames
<1>5. JobWhole(j) /\ JobFresh(j)
  BY <1>1, <1>3, <1>4 DEF JobWhole, JobFresh, MaySet
<1>6. QED
  BY <1>1, <1>2, <1>4, <1>5, SnapshotKeeps

(* createTeamInvite reads the team and the open invites.                  *)
LEMMA CreateInviteKeeps == ASSUME IInv, NEW p \in Workers, CreateInvite(p) PROVE IInv'
<1>1. PICK t \in Named, u \in Users, e \in Emails, r \in Asked \ {"owner"}, i \in Invites :
        /\ i \in PendingFor(t, e) \/ (PendingFor(t, e) = {} /\ invite[i] = NoInvite)
        /\ Snapshot(p, [Idle EXCEPT !.at = "invite", !.team = t, !.email = e, !.role = r,
                                    !.invite = i, !.new = invite[i] = NoInvite])
  BY DEF CreateInvite
<1>2. PICK n \in BOOLEAN : n = (invite[i] = NoInvite)
  OBVIOUS
<1>3. PICK j : j = [Idle EXCEPT !.at = "invite", !.team = t, !.email = e, !.role = r,
                                !.invite = i, !.new = n]
  OBVIOUS
<1>4. t \in AllTeams /\ r \in Roles
  BY TeamsAssumption DEF Roles
<1>5. /\ j \in Job /\ j.at = "invite" /\ j.team = t /\ j.email = e /\ j.role = r
      /\ j.invite = i /\ j.new = n
  BY <1>3, <1>4 DEF Idle, Job, OpNames
<1>6. ~n => invite[i].status # "none" /\ invite[i].team = t
  BY <1>1, <1>2 DEF PendingFor
<1>7. JobWhole(j) /\ JobFresh(j)
  BY <1>4, <1>5, <1>6 DEF JobWhole, JobFresh
<1>8. Snapshot(p, j)
  BY <1>1, <1>2, <1>3
<1>9. QED
  BY <1>5, <1>7, <1>8, SnapshotKeeps

(* acceptTeamInvite reads the invite and the membership.                  *)
LEMMA AcceptInviteKeeps == ASSUME IInv, NEW p \in Workers, AcceptInvite(p) PROVE IInv'
<1>1. PICK i \in Invites, u \in Users :
        /\ invite[i] # NoInvite /\ MayJoin(i, u) /\ Acceptance(i) # "idle"
        /\ Snapshot(p, [Idle EXCEPT !.at = Acceptance(i), !.team = invite[i].team,
                                    !.user = u, !.role = invite[i].role, !.invite = i,
                                    !.new = member[invite[i].team][u] = NoMember])
  BY DEF AcceptInvite
<1>2. PICK n \in BOOLEAN : n = (member[invite[i].team][u] = NoMember)
  OBVIOUS
<1>3. PICK w : w = invite[i]
  OBVIOUS
<1>4. PICK x : x = Acceptance(i)
  OBVIOUS
<1>5. PICK j : j = [Idle EXCEPT !.at = x, !.team = w.team, !.user = u, !.role = w.role,
                                !.invite = i, !.new = n]
  OBVIOUS
<1>6. w.status # "none" /\ w.team \in AllTeams /\ w.role \in Roles
  BY <1>1, <1>3 DEF IInv, RowsWhole, InvitesWhole
<1>7. x \in {"again", "expire", "accept"} /\ (x \in {"accept", "expire"} => w.status = "pending")
  BY <1>1, <1>3, <1>4 DEF Acceptance
<1>8. /\ j \in Job /\ j.at = x /\ j.team = w.team /\ j.user = u /\ j.role = w.role
      /\ j.invite = i /\ j.new = n
  BY <1>5, <1>6, <1>7 DEF Idle, Job, OpNames
<1>9. ~n => member[w.team][u].role # "none"
  BY <1>2, <1>3, <1>6 DEF IInv, RowsWhole, MembersWhole
<1>10. w.email = EmailOf[u] /\ SiteOf[u] = SiteOf[w.team]
  BY <1>1, <1>3 DEF MayJoin, Invitee
<1>11. JobWhole(j)
  BY <1>3, <1>6, <1>7, <1>8, <1>9, <1>10 DEF JobWhole
<1>12. JobFresh(j)
  BY <1>3, <1>7, <1>8 DEF JobFresh
<1>13. Snapshot(p, j)
  BY <1>1, <1>2, <1>3, <1>4, <1>5
<1>14. QED
  BY <1>8, <1>11, <1>12, <1>13, SnapshotKeeps

(* declineTeamInvite reads the invite.                                    *)
LEMMA DeclineInviteKeeps == ASSUME IInv, NEW p \in Workers, DeclineInvite(p) PROVE IInv'
<1>1. PICK i \in Invites :
        /\ invite[i].status = "pending"
        /\ Snapshot(p, [Idle EXCEPT !.at = "decline", !.team = invite[i].team, !.invite = i])
  BY DEF DeclineInvite
<1>2. PICK t : t = invite[i].team
  OBVIOUS
<1>3. PICK j : j = [Idle EXCEPT !.at = "decline", !.team = t, !.invite = i]
  OBVIOUS
<1>4. t \in AllTeams
  BY <1>1, <1>2 DEF IInv, RowsWhole, InvitesWhole
<1>5. j \in Job /\ j.at = "decline" /\ j.team = t /\ j.invite = i
  BY <1>3, <1>4 DEF Idle, Job, OpNames
<1>6. JobWhole(j) /\ JobFresh(j)
  BY <1>1, <1>2, <1>4, <1>5 DEF JobWhole, JobFresh
<1>7. QED
  BY <1>1, <1>2, <1>3, <1>5, <1>6, SnapshotKeeps

(* updateTeamMember reads the member and counts the owners.               *)
LEMMA ChangeRoleKeeps == ASSUME IInv, NEW p \in Workers, ChangeRole(p) PROVE IInv'
<1>1. PICK t \in Named, u \in Users, r \in Asked :
        /\ Active(t, u) /\ (r = "owner" \/ ~LastOwner(t, u))
        /\ Snapshot(p, [Idle EXCEPT !.at = "change", !.team = t, !.user = u, !.role = r])
  BY DEF ChangeRole
<1>2. PICK j : j = [Idle EXCEPT !.at = "change", !.team = t, !.user = u, !.role = r]
  OBVIOUS
<1>3. t \in AllTeams /\ r \in Roles
  BY TeamsAssumption DEF Roles
<1>4. j \in Job /\ j.at = "change" /\ j.team = t /\ j.user = u /\ j.role = r
  BY <1>2, <1>3 DEF Idle, Job, OpNames
<1>5. member[t][u].role # "none" /\ SiteOf[u] = SiteOf[t]
  BY <1>1, <1>3 DEF Active, IInv, RowsWhole, MembersWhole
<1>6. JobWhole(j) /\ JobFresh(j)
  BY <1>1, <1>3, <1>4, <1>5 DEF JobWhole, JobFresh
<1>7. QED
  BY <1>1, <1>2, <1>4, <1>6, SnapshotKeeps

(* removeTeamMember reads the member and counts the owners.               *)
LEMMA RemoveMemberKeeps == ASSUME IInv, NEW p \in Workers, RemoveMember(p) PROVE IInv'
<1>1. PICK t \in Named, u \in Users :
        /\ member[t][u].role # "none" /\ ~LastOwner(t, u)
        /\ Snapshot(p, [Idle EXCEPT !.at = "remove", !.team = t, !.user = u])
  BY DEF RemoveMember, MayRemove, IsRole, Active
<1>2. PICK j : j = [Idle EXCEPT !.at = "remove", !.team = t, !.user = u]
  OBVIOUS
<1>3. t \in AllTeams
  BY TeamsAssumption
<1>4. j \in Job /\ j.at = "remove" /\ j.team = t /\ j.user = u
  BY <1>2, <1>3 DEF Idle, Job, OpNames
<1>5. SiteOf[u] = SiteOf[t]
  BY <1>1, <1>3 DEF IInv, RowsWhole, MembersWhole
<1>6. JobWhole(j) /\ JobFresh(j)
  BY <1>1, <1>3, <1>4, <1>5 DEF JobWhole, JobFresh
<1>7. QED
  BY <1>1, <1>2, <1>4, <1>6, SnapshotKeeps

-----------------------------------------------------------------------------
(* Requests that write.                                                    *)

(* A write to one membership, of a request that may rely on it.            *)
LEMMA MembershipSound ==
  ASSUME IInv, NEW t \in AllTeams, NEW u \in Users, NEW m \in MemberRow,
         m.role # "none", SiteOf[u] = SiteOf[t], member' = [member EXCEPT ![t][u] = m],
         UNCHANGED <<user, team, invite, account>>
  PROVE  Sound
<1>1. /\ member' \in [AllTeams -> [Users -> MemberRow]] /\ MembersWhole' /\ MembersGrow
  BY MemberWritten DEF IInv, RowsWhole
<1>2. OwnersWhole' /\ InvitesWhole' /\ InvitesGrow
  BY RowsStay DEF IInv, RowsWhole
<1>3. QED
  BY <1>1, <1>2 DEF Sound, IInv, TypeOK

(* Setting the status of an invite, other than to accepted.                *)
LEMMA SettlingSound ==
  ASSUME IInv, NEW i \in Invites, invite[i].status # "none",
         NEW st \in {"revoked", "expired"}, SetInvite(i, st),
         UNCHANGED <<user, team, member, account>>
  PROVE  Sound
<1>1. /\ invite' \in [Invites -> InviteRow] /\ InvitesWhole' /\ InvitesGrow
      /\ \A g \in Invites : invite'[g].status = IF g = i THEN st ELSE invite[g].status
  BY InviteSettled DEF IInv, RowsWhole
<1>2. OwnersWhole' /\ MembersWhole' /\ MembersGrow
  BY RowsStay DEF IInv, RowsWhole
<1>3. QED
  BY <1>1, <1>2 DEF Sound, IInv, TypeOK

(* setTeamMemberRole writes the membership it read.                       *)
LEMMA SetRoleWriteKeeps == ASSUME IInv, NEW p \in Workers, SetRoleWrite(p) PROVE IInv'
<1> DEFINE t == job[p].team
           u == job[p].user
           m == Member(job[p].role)
<1>1. t \in AllTeams /\ u \in Users /\ SiteOf[u] = SiteOf[t] /\ job[p].role \in Roles
  BY DEF SetRoleWrite, At, IInv, JobsWhole, JobWhole
<1>2. m \in MemberRow /\ m.role # "none"
  BY <1>1 DEF Member, MemberRow, Roles
<1>3. /\ member' = [member EXCEPT ![t][u] = m]
      /\ UNCHANGED <<user, team, invite, account>> /\ Commit(p)
  BY DEF SetRoleWrite
<1> HIDE DEF t, u, m
<1>4. QED
  BY <1>1, <1>2, <1>3, MembershipSound, CommitKeeps

(* The membership a request joins with, and the row it leaves.             *)
LEMMA JoinWrites ==
  ASSUME IInv, NEW p \in Workers, job[p].at \in {"accept", "again"}, NEW over \in BOOLEAN,
         Join(p, over)
  PROVE  /\ job[p].team \in AllTeams /\ job[p].user \in Users
         /\ SiteOf[job[p].user] = SiteOf[job[p].team]
         /\ \E m \in MemberRow : /\ m.role # "none"
                                 /\ member' = [member EXCEPT ![job[p].team][job[p].user] = m]
<1> DEFINE t == job[p].team
           u == job[p].user
           role == IF job[p].new \/ over THEN job[p].role ELSE member[t][u].role
<1>1. /\ t \in AllTeams /\ u \in Users /\ SiteOf[u] = SiteOf[t] /\ job[p].role \in Roles
      /\ ~job[p].new => member[t][u].role # "none"
  BY DEF IInv, JobsWhole, JobWhole
<1>2. member[t][u].role \in Roles \cup {"none"}
  BY <1>1 DEF IInv, TypeOK, MemberRow
<1>3. role \in Roles /\ Member(role) \in MemberRow /\ Member(role).role # "none"
  BY <1>1, <1>2 DEF Member, MemberRow, Roles
<1>4. member' = [member EXCEPT ![t][u] = Member(role)]
  BY DEF Join
<1> HIDE DEF role, t, u
<1>5. QED
  BY <1>1, <1>3, <1>4 DEF t, u

(* A replayed accept answers what the first one wrote.                    *)
LEMMA AcceptAgainKeeps == ASSUME IInv, NEW p \in Workers, AcceptAgain(p) PROVE IInv'
<1>1. /\ job[p].team \in AllTeams /\ job[p].user \in Users
      /\ SiteOf[job[p].user] = SiteOf[job[p].team]
      /\ \E m \in MemberRow : /\ m.role # "none"
                              /\ member' = [member EXCEPT ![job[p].team][job[p].user] = m]
  BY JoinWrites DEF AcceptAgain, At
<1>2. UNCHANGED <<user, team, invite, account>> /\ Commit(p)
  BY DEF AcceptAgain
<1>3. Sound
  BY <1>1, <1>2, MembershipSound
<1>4. QED
  BY <1>2, <1>3, CommitKeeps

(* acceptTeamInvite writes the membership, then claims the invite.        *)
LEMMA AcceptWriteKeeps == ASSUME IInv, NEW p \in Workers, AcceptWrite(p) PROVE IInv'
<1>0. PICK t, u, i : t = job[p].team /\ u = job[p].user /\ i = job[p].invite
  OBVIOUS
<1>1. /\ t \in AllTeams /\ u \in Users /\ SiteOf[u] = SiteOf[t]
      /\ \E m \in MemberRow : m.role # "none" /\ member' = [member EXCEPT ![t][u] = m]
  BY <1>0, JoinWrites DEF AcceptWrite, At
<1>2. /\ i \in Invites /\ invite[i].status # "none" /\ invite[i].team = t
      /\ invite[i].email = EmailOf[u]
  BY <1>0 DEF AcceptWrite, At, IInv, JobsWhole, JobWhole
<1>3. SetInvite(i, "accepted") /\ UNCHANGED <<user, team, account>> /\ Commit(p)
  BY <1>0 DEF AcceptWrite
<1>4. PICK m \in MemberRow : m.role # "none" /\ member' = [member EXCEPT ![t][u] = m]
  BY <1>1
<1>5. /\ member' \in [AllTeams -> [Users -> MemberRow]] /\ MembersWhole' /\ MembersGrow
      /\ member'[t][u] = m
  BY <1>1, <1>4, MemberWritten DEF IInv, RowsWhole
<1>6. /\ invite' \in [Invites -> InviteRow] /\ InvitesWhole' /\ InvitesGrow
      /\ \A g \in Invites : invite'[g].status = IF g = i THEN "accepted" ELSE invite[g].status
  BY <1>2, <1>3, InviteSettled DEF IInv, RowsWhole
<1>7. OwnersWhole'
  BY <1>3, RowsStay DEF IInv, RowsWhole
<1>8. Invitee(i, u)' /\ member'[invite'[i].team][u] # NoMember
  <2>1. invite'[i].team = t /\ invite'[i].email = EmailOf[u]
    BY <1>2, <1>6 DEF InvitesGrow
  <2>2. Invitee(i, u)'
    BY <2>1 DEF Invitee
  <2>3. QED
    BY <1>4, <1>5, <2>1, <2>2 DEF NoMember
<1>9. Sound
  BY <1>1, <1>3, <1>5, <1>6, <1>7, <1>8 DEF Sound, IInv, TypeOK
<1>10. QED
  BY <1>3, <1>9, CommitKeeps

(* An accept that comes too late marks the invite expired.                *)
LEMMA ExpireInviteKeeps == ASSUME IInv, NEW p \in Workers, ExpireInvite(p) PROVE IInv'
<1>1. job[p].invite \in Invites /\ invite[job[p].invite].status # "none"
  BY DEF ExpireInvite, At, IInv, JobsWhole, JobWhole
<1>2. QED
  BY <1>1, SettlingSound, CommitKeeps DEF ExpireInvite

(* declineTeamInvite settles the invite.                                  *)
LEMMA DeclineWriteKeeps == ASSUME IInv, NEW p \in Workers, DeclineWrite(p) PROVE IInv'
<1>1. job[p].invite \in Invites /\ invite[job[p].invite].status # "none"
  BY DEF DeclineWrite, At, IInv, JobsWhole, JobWhole
<1>2. QED
  BY <1>1, SettlingSound, CommitKeeps DEF DeclineWrite

(* createTeamInvite writes the invite.                                    *)
LEMMA CreateInviteWriteKeeps == ASSUME IInv, NEW p \in Workers, CreateInviteWrite(p) PROVE IInv'
<1>1. PICK i, r, t, e, w : i = job[p].invite /\ r = job[p].role /\ t = job[p].team
                           /\ e = job[p].email /\ w = invite[i]
  OBVIOUS
<1>2. /\ i \in Invites /\ r \in Roles /\ t \in AllTeams /\ e \in Emails
      /\ ~job[p].new => w.status # "none"
      /\ job[p].new => w = NoInvite
  BY <1>1 DEF CreateInviteWrite, At, IInv, JobsWhole, JobWhole
<1>3. w \in InviteRow
  BY <1>1, <1>2 DEF IInv, TypeOK
<1>4. PICK made : made = [NoInvite EXCEPT !.team = t, !.email = e, !.role = r, !.status = "pending"]
  OBVIOUS
<1>5. /\ made \in InviteRow /\ made.status = "pending" /\ made.team = t /\ made.email = e
      /\ made.role = r
  BY <1>2, <1>4 DEF NoInvite, InviteRow
<1>6. PICK half : half = [w EXCEPT !.role = r]
  OBVIOUS
<1>7. half \in InviteRow /\ half.status = w.status /\ half.team = w.team /\ half.email = w.email
      /\ half.role = r
  BY <1>2, <1>3, <1>6 DEF InviteRow
<1>8. PICK kept : kept = [half EXCEPT !.lapsed = FALSE]
  OBVIOUS
<1>9. kept \in InviteRow /\ kept.status = w.status /\ kept.team = w.team /\ kept.email = w.email
      /\ kept.role = r
  BY <1>7, <1>8 DEF InviteRow
<1>10. PICK v : v = IF job[p].new THEN made ELSE kept
  OBVIOUS
<1>11. /\ v \in InviteRow /\ v.status \in {"pending", w.status} /\ v.status # "none"
       /\ v.role \in Roles /\ v.team \in AllTeams /\ v.email \in Emails
       /\ w.status # "none" => v.team = w.team /\ v.email = w.email
  <2>1. CASE job[p].new
    BY <1>2, <1>5, <1>10, <2>1 DEF NoInvite
  <2>2. CASE ~job[p].new
    <3>1. w.team \in AllTeams /\ w.email \in Emails
      BY <1>1, <1>2, <2>2 DEF IInv, RowsWhole, InvitesWhole
    <3>2. QED
      BY <1>2, <1>9, <1>10, <2>2, <3>1
  <2>3. QED
    BY <2>1, <2>2
<1>12. invite' = [invite EXCEPT ![i] = v]
  <2>1. invite' = [invite EXCEPT ![i] =
           IF job[p].new
           THEN [NoInvite EXCEPT !.team = t, !.email = e, !.role = r, !.status = "pending"]
           ELSE [w EXCEPT !.role = r, !.lapsed = FALSE]]
    BY <1>1 DEF CreateInviteWrite
  <2>2. QED
    BY <1>4, <1>6, <1>8, <1>10, <2>1
<1>13. UNCHANGED <<user, team, member, account>> /\ Commit(p)
  BY DEF CreateInviteWrite
<1>14. /\ invite' \in [Invites -> InviteRow] /\ InvitesWhole' /\ InvitesGrow
       /\ \A g \in Invites : invite'[g] = IF g = i THEN v ELSE invite[g]
  BY <1>1, <1>2, <1>11, <1>12, InviteWritten DEF IInv, RowsWhole
<1>15. OwnersWhole' /\ MembersWhole' /\ MembersGrow
  BY <1>13, RowsStay DEF IInv, RowsWhole
<1>16. \A g \in Invites : invite'[g].status = "accepted" => invite[g].status = "accepted"
  BY <1>1, <1>11, <1>14
<1>17. Sound
  BY <1>13, <1>14, <1>15, <1>16 DEF Sound, IInv, TypeOK
<1>18. QED
  BY <1>13, <1>17, CommitKeeps

(* updateTeamMember writes the role.                                      *)
LEMMA ChangeRoleWriteKeeps == ASSUME IInv, NEW p \in Workers, ChangeRoleWrite(p) PROVE IInv'
<1>1. PICK t, u, r, w : t = job[p].team /\ u = job[p].user /\ r = job[p].role /\ w = member[t][u]
  OBVIOUS
<1>2. t \in AllTeams /\ u \in Users /\ SiteOf[u] = SiteOf[t] /\ r \in Roles
  BY <1>1 DEF ChangeRoleWrite, At, IInv, JobsWhole, JobWhole
<1>3. PICK m : m = [w EXCEPT !.role = r]
  OBVIOUS
<1>4. w \in MemberRow
  BY <1>1, <1>2 DEF IInv, TypeOK
<1>5. m \in MemberRow /\ m.role = r /\ r # "none"
  BY <1>2, <1>3, <1>4 DEF MemberRow, Roles
<1>6. member' = [member EXCEPT ![t][u] = m]
  BY <1>1, <1>2, <1>3 DEF ChangeRoleWrite, IInv, TypeOK
<1>7. UNCHANGED <<user, team, invite, account>> /\ Commit(p)
  BY DEF ChangeRoleWrite
<1>8. QED
  BY <1>2, <1>5, <1>6, <1>7, MembershipSound, CommitKeeps

(* removeTeamMember writes the removal.                                   *)
LEMMA RemoveMemberWriteKeeps == ASSUME IInv, NEW p \in Workers, RemoveMemberWrite(p) PROVE IInv'
<1>1. PICK t, u, w : t = job[p].team /\ u = job[p].user /\ w = member[t][u]
  OBVIOUS
<1>2. t \in AllTeams /\ u \in Users /\ SiteOf[u] = SiteOf[t] /\ w.role # "none"
  BY <1>1 DEF RemoveMemberWrite, At, IInv, JobsWhole, JobWhole
<1>3. PICK m : m = [w EXCEPT !.active = FALSE]
  OBVIOUS
<1>4. w \in MemberRow
  BY <1>1, <1>2 DEF IInv, TypeOK
<1>5. m \in MemberRow /\ m.role # "none"
  BY <1>2, <1>3, <1>4 DEF MemberRow
<1>6. member' = [member EXCEPT ![t][u] = m]
  BY <1>1, <1>2, <1>3 DEF RemoveMemberWrite, IInv, TypeOK
<1>7. UNCHANGED <<user, team, invite, account>> /\ Commit(p)
  BY DEF RemoveMemberWrite
<1>8. QED
  BY <1>2, <1>5, <1>6, <1>7, MembershipSound, CommitKeeps

-----------------------------------------------------------------------------
(* Logins, operators, time and failures.                                   *)

(* ensureUser writes the user, its own team and the owner of it.          *)
LEMMA EnsureKeeps == ASSUME IInv, NEW u \in Users, Ensure(u) PROVE IInv'
<1>1. PICK w, o : w = user[u] /\ o = [status |-> "active", owner |-> u, deleted |-> FALSE]
  OBVIOUS
<1>2. w \in UserRow /\ u \in AllTeams /\ o \in TeamRow /\ o.owner = u
  BY <1>1 DEF IInv, TypeOK, AllTeams, TeamRow, Status
<1>3. PICK v : v = [w EXCEPT !.status = IF w.status = "none" THEN "active" ELSE w.status]
  OBVIOUS
<1>4. v \in UserRow
  BY <1>2, <1>3 DEF UserRow, Status
<1>5. /\ user' = [user EXCEPT ![u] = v] /\ team' = [team EXCEPT ![u] = o]
      /\ member' = [member EXCEPT ![u][u] = Member("owner")]
      /\ UNCHANGED <<invite, account>> /\ AtOnce
  BY <1>1, <1>3 DEF Ensure
<1>6. Member("owner") \in MemberRow /\ Member("owner").role # "none"
  BY DEF Member, MemberRow, Roles
<1>7. user' \in [Users -> UserRow] /\ team' \in [AllTeams -> TeamRow] /\ OwnersWhole'
  BY <1>2, <1>4, <1>5 DEF IInv, TypeOK, RowsWhole, OwnersWhole
<1>8. member' \in [AllTeams -> [Users -> MemberRow]] /\ MembersWhole' /\ MembersGrow
  BY <1>2, <1>5, <1>6, MemberWritten DEF IInv, RowsWhole
<1>9. InvitesWhole' /\ InvitesGrow
  BY <1>5, RowsStay DEF IInv, RowsWhole
<1>10. Sound
  BY <1>5, <1>7, <1>8, <1>9 DEF Sound, IInv, TypeOK
<1>11. QED
  BY <1>5, <1>10, AtOnceKeeps

(* upsertTeam writes the team and its owner.                              *)
LEMMA UpsertTeamKeeps == ASSUME IInv, NEW t \in Teams, NEW u \in Users, UpsertTeam(t, u) PROVE IInv'
<1>1. PICK o : o = [status |-> "active", owner |-> u, deleted |-> FALSE]
  OBVIOUS
<1>2. t \in AllTeams /\ o \in TeamRow /\ o.owner = u /\ SiteOf[u] = SiteOf[t]
  BY <1>1 DEF AllTeams, TeamRow, Status, UpsertTeam, MayOwn
<1>3. /\ team' = [team EXCEPT ![t] = o]
      /\ member' = [member EXCEPT ![t][u] = Member("owner")]
      /\ UNCHANGED <<user, invite, account>> /\ AtOnce
  BY <1>1 DEF UpsertTeam
<1>4. Member("owner") \in MemberRow /\ Member("owner").role # "none"
  BY DEF Member, MemberRow, Roles
<1>5. team' \in [AllTeams -> TeamRow] /\ OwnersWhole'
  BY <1>2, <1>3 DEF IInv, TypeOK, RowsWhole, OwnersWhole
<1>6. member' \in [AllTeams -> [Users -> MemberRow]] /\ MembersWhole' /\ MembersGrow
  BY <1>2, <1>3, <1>4, MemberWritten DEF IInv, RowsWhole
<1>7. InvitesWhole' /\ InvitesGrow
  BY <1>3, RowsStay DEF IInv, RowsWhole
<1>8. Sound
  BY <1>3, <1>5, <1>6, <1>7 DEF Sound, IInv, TypeOK
<1>9. QED
  BY <1>3, <1>8, AtOnceKeeps

(* updateUser changes the status of a user.                               *)
LEMMA SetUserStatusKeeps ==
  ASSUME IInv, NEW u \in Users, NEW status, SetUserStatus(u, status)
  PROVE  IInv'
<1>1. PICK w, c : w = user[u] /\ c = team[u]
  OBVIOUS
<1>2. u \in AllTeams /\ w \in UserRow /\ c \in TeamRow /\ status \in Status
  BY <1>1 DEF IInv, TypeOK, AllTeams, SetUserStatus, Status
<1>3. PICK v : v = [w EXCEPT !.status = status]
  OBVIOUS
<1>4. PICK o : o = [c EXCEPT !.status = IF c = NoTeam THEN c.status ELSE status]
  OBVIOUS
<1>5. v \in UserRow /\ o \in TeamRow /\ o.owner = c.owner
  BY <1>2, <1>3, <1>4 DEF UserRow, TeamRow
<1>6. /\ user' = [user EXCEPT ![u] = v] /\ team' = [team EXCEPT ![u] = o]
      /\ UNCHANGED <<member, invite, account>> /\ AtOnce
  BY <1>1, <1>3, <1>4 DEF SetUserStatus
<1>7. user' \in [Users -> UserRow] /\ team' \in [AllTeams -> TeamRow] /\ OwnersWhole'
  BY <1>1, <1>2, <1>5, <1>6 DEF IInv, TypeOK, RowsWhole, OwnersWhole
<1>8. MembersWhole' /\ MembersGrow /\ InvitesWhole' /\ InvitesGrow
  BY <1>6, RowsStay DEF IInv, RowsWhole
<1>9. Sound
  BY <1>6, <1>7, <1>8 DEF Sound, IInv, TypeOK
<1>10. QED
  BY <1>6, <1>9, AtOnceKeeps

(* A team that is marked keeps its owner.                                  *)
LEMMA TeamMarked ==
  ASSUME IInv, NEW t \in AllTeams, NEW d \in BOOLEAN, NEW o,
         o \in {team[t], [team[t] EXCEPT !.deleted = d]}, team' = [team EXCEPT ![t] = o]
  PROVE  team' \in [AllTeams -> TeamRow] /\ OwnersWhole'
<1>1. PICK c : c = team[t]
  OBVIOUS
<1>2. c \in TeamRow
  BY <1>1 DEF IInv, TypeOK
<1>3. o \in TeamRow /\ o.owner = c.owner
  BY <1>1, <1>2 DEF TeamRow
<1>4. QED
  BY <1>1, <1>3 DEF IInv, TypeOK, RowsWhole, OwnersWhole

(* deleteUser and restoreUser, with the rows they take along.             *)
LEMMA MarkUserKeeps ==
  ASSUME IInv, NEW u \in Users, NEW d \in BOOLEAN, MarkUser(u, d)
  PROVE  IInv'
<1>1. PICK w : w = user[u]
  OBVIOUS
<1>2. PICK v : v = [w EXCEPT !.deleted = d]
  OBVIOUS
<1>3. v \in UserRow
  BY <1>1, <1>2 DEF IInv, TypeOK, UserRow
<1>4. user' = [user EXCEPT ![u] = v]
  BY <1>1, <1>2 DEF MarkUser
<1>5. user' \in [Users -> UserRow]
  BY <1>3, <1>4 DEF IInv, TypeOK
<1>6. team' \in [AllTeams -> TeamRow] /\ OwnersWhole'
  <2>1. u \in AllTeams
    BY DEF AllTeams
  <2>2. team' = [team EXCEPT ![u] = Marked(team[u], NoTeam, d)]
    BY DEF MarkUser
  <2>3. Marked(team[u], NoTeam, d) \in {team[u], [team[u] EXCEPT !.deleted = d]}
    BY DEF Marked
  <2>4. QED
    BY <2>1, <2>2, <2>3, TeamMarked
<1>7. member' \in [AllTeams -> [Users -> MemberRow]] /\ MembersWhole' /\ MembersGrow
  <2>1. member' = [t \in AllTeams |-> [x \in Users |->
           IF u \in {t, x} THEN Marked(member[t][x], NoMember, d) ELSE member[t][x]]]
    BY DEF MarkUser
  <2>2. member' = [t \in AllTeams |-> [x \in Users |-> member'[t][x]]]
    BY <2>1
  <2>3. \A t \in AllTeams, x \in Users :
          member'[t][x] \in {member[t][x], Marked(member[t][x], NoMember, d)}
    BY <2>1
  <2>4. QED
    BY <2>2, <2>3, MembersMarked DEF IInv, RowsWhole
<1>8. invite' = invite /\ AtOnce
  BY DEF MarkUser
<1>9. account' \in [Accounts -> BOOLEAN]
  BY DEF MarkUser, IInv, TypeOK
<1>10. InvitesWhole' /\ InvitesGrow
  BY <1>8, RowsStay DEF IInv, RowsWhole
<1>11. Sound
  BY <1>5, <1>6, <1>7, <1>8, <1>9, <1>10 DEF Sound, IInv, TypeOK
<1>12. QED
  BY <1>8, <1>11, AtOnceKeeps

(* deleteTeam and restoreTeam, with the rows they take along.             *)
LEMMA MarkTeamKeeps ==
  ASSUME IInv, NEW t \in AllTeams, NEW d \in BOOLEAN, MarkTeam(t, d)
  PROVE  IInv'
<1>1. team' \in [AllTeams -> TeamRow] /\ OwnersWhole'
  BY TeamMarked DEF MarkTeam
<1>2. member' \in [AllTeams -> [Users -> MemberRow]] /\ MembersWhole' /\ MembersGrow
  <2>1. member' = [member EXCEPT ![t] = [x \in Users |-> Marked(member[t][x], NoMember, d)]]
    BY DEF MarkTeam
  <2>2. \A s \in AllTeams, x \in Users :
          member'[s][x] \in {member[s][x], Marked(member[s][x], NoMember, d)}
    BY <2>1 DEF IInv, TypeOK
  <2>3. member' = [s \in AllTeams |-> [x \in Users |-> member'[s][x]]]
    BY <2>1 DEF IInv, TypeOK
  <2>4. QED
    BY <2>2, <2>3, MembersMarked DEF IInv, RowsWhole
<1>3. ASSUME NEW i \in Invites
      PROVE  /\ invite'[i] \in InviteRow
             /\ invite[i] = NoInvite => invite'[i] = NoInvite
             /\ invite'[i].status = invite[i].status /\ invite'[i].team = invite[i].team
             /\ invite'[i].email = invite[i].email /\ invite'[i].role = invite[i].role
  <2>1. PICK w : w = invite[i]
    OBVIOUS
  <2>2. w \in InviteRow
    BY <2>1 DEF IInv, TypeOK
  <2>3. PICK v : v = [w EXCEPT !.deleted = d]
    OBVIOUS
  <2>4. /\ v \in InviteRow /\ v.status = w.status /\ v.team = w.team /\ v.email = w.email
        /\ v.role = w.role
    BY <2>2, <2>3 DEF InviteRow
  <2>5. invite'[i] \in {w, v} /\ (w = NoInvite => invite'[i] = w)
    BY <2>1, <2>3 DEF MarkTeam, Marked
  <2>6. QED
    BY <2>1, <2>2, <2>4, <2>5
<1>4. invite' \in [Invites -> InviteRow]
  BY <1>3 DEF MarkTeam
<1>5. InvitesWhole' /\ InvitesGrow
  BY <1>3 DEF IInv, RowsWhole, InvitesWhole, InvitesGrow
<1>6. account' \in [Accounts -> BOOLEAN] /\ user' = user /\ AtOnce
  BY DEF MarkTeam, IInv, TypeOK
<1>7. Sound
  BY <1>1, <1>2, <1>3, <1>4, <1>5, <1>6 DEF Sound, IInv, TypeOK
<1>8. QED
  BY <1>6, <1>7, AtOnceKeeps

(* What no request in flight notices.                                      *)
LEMMA Unnoticed ==
  ASSUME IInv, Sound, job' = job, member' = member,
         \A i \in Invites : invite'[i].status = invite[i].status
  PROVE  IInv'
<1>1. ASSUME NEW q \in Workers PROVE JobWhole(job[q])' /\ JobFresh(job[q])'
  <2>1. PICK k : k = job[q] /\ k = job'[q]
    OBVIOUS
  <2>2. JobWhole(k) /\ JobFresh(k)
    BY <2>1 DEF IInv, JobsWhole
  <2>3. JobWhole(job[q])'
    BY <2>1, <2>2 DEF JobWhole, Sound, MembersGrow, InvitesGrow
  <2>4. LastOwner(job[q].team, job[q].user)' = LastOwner(k.team, k.user)
    BY <2>1 DEF LastOwner, Owners, IsRole, Active
  <2>5. k.at \in {"accept", "expire", "decline"} => k.invite \in Invites
    BY <2>2 DEF JobWhole
  <2>6. JobFresh(job[q])'
    BY <2>1, <2>2, <2>4, <2>5 DEF JobFresh
  <2>7. QED
    BY <2>3, <2>6
<1>2. QED
  BY <1>1, SoundKeeps DEF JobsWhole, IInv, TypeOK

(* An invite whose time is over.                                          *)
LEMMA LapseKeeps == ASSUME IInv, NEW i \in Invites, Lapse(i) PROVE IInv'
<1>1. PICK w : w = invite[i]
  OBVIOUS
<1>2. w \in InviteRow /\ w.status # "none"
  BY <1>1 DEF IInv, TypeOK, Lapse
<1>3. PICK v : v = [w EXCEPT !.lapsed = TRUE]
  OBVIOUS
<1>4. /\ v \in InviteRow /\ v.status = w.status /\ v.team = w.team /\ v.email = w.email
      /\ v.role = w.role
  BY <1>2, <1>3 DEF InviteRow
<1>5. invite' = [invite EXCEPT ![i] = v] /\ UNCHANGED <<user, team, member, account, job>>
  BY <1>1, <1>3 DEF Lapse
<1>6. w.team \in AllTeams /\ w.email \in Emails /\ w.role \in Roles
  BY <1>1, <1>2 DEF IInv, RowsWhole, InvitesWhole
<1>7. /\ invite' \in [Invites -> InviteRow] /\ InvitesWhole' /\ InvitesGrow
      /\ \A g \in Invites : invite'[g] = IF g = i THEN v ELSE invite[g]
  BY <1>1, <1>2, <1>4, <1>5, <1>6, InviteWritten DEF IInv, RowsWhole
<1>8. \A g \in Invites : invite'[g].status = invite[g].status
  BY <1>1, <1>4, <1>7
<1>9. OwnersWhole' /\ MembersWhole' /\ MembersGrow
  BY <1>5, RowsStay DEF IInv, RowsWhole
<1>10. Sound
  BY <1>5, <1>7, <1>8, <1>9 DEF Sound, IInv, TypeOK
<1>11. QED
  BY <1>5, <1>8, <1>10, Unnoticed

(* deleteServiceAccount marks the row.                                    *)
LEMMA DeleteServiceAccountKeeps ==
  ASSUME IInv, NEW a \in Accounts, DeleteServiceAccount(a)
  PROVE  IInv'
<1>1. /\ account' \in [Accounts -> BOOLEAN]
      /\ UNCHANGED <<user, team, member, invite, job>>
  BY DEF DeleteServiceAccount, IInv, TypeOK
<1>2. OwnersWhole' /\ MembersWhole' /\ MembersGrow /\ InvitesWhole' /\ InvitesGrow
  BY <1>1, RowsStay DEF IInv, RowsWhole
<1>3. Sound
  BY <1>1, <1>2 DEF Sound, IInv, TypeOK
<1>4. QED
  BY <1>1, <1>3, Unnoticed

(* A transaction that MySQL rolls back.                                   *)
LEMMA RollbackKeeps == ASSUME IInv, NEW p \in Workers, Rollback(p) PROVE IInv'
<1>1. \A q \in Workers : job'[q] = job[q] \/ job'[q] = Idle
  BY DEF Rollback, IInv, TypeOK
<1>2. job' \in [Workers -> Job] /\ UNCHANGED <<user, team, member, invite, account>>
  BY DEF Rollback, IInv, TypeOK, Idle, Job, rows
<1>3. ASSUME NEW q \in Workers PROVE JobWhole(job[q])' /\ JobFresh(job[q])'
  <2>1. PICK k : k = job'[q]
    OBVIOUS
  <2>2. CASE k = Idle
    BY <2>1, <2>2 DEF JobWhole, JobFresh, Idle
  <2>3. CASE k = job[q]
    <3>1. JobWhole(k) /\ JobFresh(k)
      BY <2>3 DEF IInv, JobsWhole
    <3>2. JobWhole(job[q])'
      BY <1>2, <2>1, <3>1 DEF JobWhole
    <3>3. LastOwner(job[q].team, job[q].user)' = LastOwner(k.team, k.user)
      BY <1>2, <2>1 DEF LastOwner, Owners, IsRole, Active
    <3>4. JobFresh(job[q])'
      BY <1>2, <2>1, <3>1, <3>3 DEF JobFresh
    <3>5. QED
      BY <3>2, <3>4
  <2>4. QED
    BY <1>1, <2>1, <2>2, <2>3
<1>4. RowsWhole'
  BY <1>2 DEF IInv, RowsWhole, MembersWhole, OwnersWhole, InvitesWhole, AcceptedHasMember, Invitee
<1>5. QED
  BY <1>2, <1>3, <1>4 DEF IInv, TypeOK, JobsWhole

-----------------------------------------------------------------------------
(* A step of a request, of one kind or another.                            *)
LEMMA RequestKeeps ==
  ASSUME IInv, NEW p \in Workers,
         RoleRequests(p) \/ InviteRequests(p) \/ MemberRequests(p) \/ Rollback(p)
  PROVE  IInv'
<1>1. CASE RoleRequests(p)
  BY <1>1, SetRoleKeeps, SetRoleWriteKeeps DEF RoleRequests
<1>2. CASE InviteRequests(p)
  BY <1>2, CreateInviteKeeps, CreateInviteWriteKeeps, AcceptInviteKeeps, AcceptWriteKeeps,
     AcceptAgainKeeps, ExpireInviteKeeps, DeclineInviteKeeps, DeclineWriteKeeps
  DEF InviteRequests
<1>3. CASE MemberRequests(p)
  BY <1>3, ChangeRoleKeeps, ChangeRoleWriteKeeps, RemoveMemberKeeps, RemoveMemberWriteKeeps
  DEF MemberRequests
<1>4. CASE Rollback(p)
  BY <1>4, RollbackKeeps
<1>5. QED
  BY <1>1, <1>2, <1>3, <1>4

(* What is done at once.                                                   *)
LEMMA RouteKeeps ==
  ASSUME IInv, UserRequests \/ TeamRequests \/ AccountRequests \/ StatusRequests
  PROVE  IInv'
<1>1. Subjects \subseteq Users /\ Named \subseteq AllTeams
  BY TeamsAssumption
<1>2. CASE UserRequests
  <2>1. CASE \E u \in Users : Ensure(u)
    BY <2>1, EnsureKeeps
  <2>2. CASE \E u \in Subjects : DeleteUser(u) \/ RestoreUser(u)
    <3>1. \E u \in Users, d \in BOOLEAN : MarkUser(u, d)
      BY <1>1, <2>2 DEF DeleteUser, RestoreUser
    <3>2. QED
      BY <3>1, MarkUserKeeps
  <2>3. QED
    BY <1>2, <2>1, <2>2 DEF UserRequests
<1>3. CASE TeamRequests
  <2>1. CASE \E t \in Teams, u \in Users : UpsertTeam(t, u)
    BY <2>1, UpsertTeamKeeps
  <2>2. CASE \E t \in Named : DeleteTeam(t) \/ RestoreTeam(t)
    <3>1. \E t \in AllTeams, d \in BOOLEAN : MarkTeam(t, d)
      BY <1>1, <2>2 DEF DeleteTeam, RestoreTeam
    <3>2. QED
      BY <3>1, MarkTeamKeeps
  <2>3. QED
    BY <1>3, <2>1, <2>2 DEF TeamRequests
<1>4. CASE AccountRequests
  BY <1>4, DeleteServiceAccountKeeps DEF AccountRequests
<1>5. CASE StatusRequests
  BY <1>1, <1>5, SetUserStatusKeeps DEF StatusRequests
<1>6. QED
  BY <1>2, <1>3, <1>4, <1>5

(* Before the first request the invariant holds of no rows at all.        *)
LEMMA InitHolds == Init => IInv
<1> SUFFICES ASSUME Init PROVE IInv
  OBVIOUS
<1>1. \A u \in Users : user[u] \in UserRow
  BY DEF Init, NoUser, UserRow, Status
<1>2. ASSUME NEW t \in AllTeams
      PROVE  team[t] \in TeamRow /\ (team[t].owner # None => team[t].owner = t)
  BY TeamsAssumption DEF Init, NoTeam, TeamRow, Status
<1>3. ASSUME NEW t \in AllTeams, NEW u \in Users
      PROVE  /\ member[t][u] \in MemberRow
             /\ member[t][u] # NoMember => t = u
             /\ member[t][u].role = "none" => member[t][u] = NoMember
  BY DEF Init, NoMember, Member, MemberRow, Roles
<1>4. \A i \in Invites : invite[i] \in InviteRow /\ invite[i] = NoInvite
  BY DEF Init, NoInvite, InviteRow
<1>5. job \in [Workers -> Job] /\ \A p \in Workers : job[p] = Idle
  BY DEF Init, Idle, Job
<1>6. TypeOK
  BY <1>1, <1>2, <1>3, <1>4, <1>5 DEF Init, TypeOK
<1>7. MembersWhole
  BY <1>3 DEF MembersWhole, NoMember
<1>8. OwnersWhole
  BY <1>2 DEF OwnersWhole
<1>9. InvitesWhole /\ AcceptedHasMember
  <2>1. NoInvite.status = "none"
    BY DEF NoInvite
  <2>2. QED
    BY <1>4, <2>1 DEF InvitesWhole, AcceptedHasMember
<1>10. JobsWhole
  BY <1>5 DEF JobsWhole, JobWhole, JobFresh, Idle
<1>11. QED
  BY <1>6, <1>7, <1>8, <1>9, <1>10 DEF IInv, RowsWhole

(* Every reachable state of the user service satisfies the invariant.      *)
THEOREM Invariant == Spec => []IInv
<1>1. IInv /\ [Next]_vars => IInv'
  <2> SUFFICES ASSUME IInv, [Next]_vars PROVE IInv'
    OBVIOUS
  <2>1. CASE UserRequests \/ TeamRequests \/ AccountRequests \/ StatusRequests
    BY <2>1, RouteKeeps
  <2>2. CASE \E i \in Invites : Lapse(i)
    BY <2>2, LapseKeeps
  <2>3. CASE \E p \in Workers :
               RoleRequests(p) \/ InviteRequests(p) \/ MemberRequests(p) \/ Rollback(p)
    BY <2>3, RequestKeeps
  <2>4. CASE UNCHANGED vars
    <3>1. UNCHANGED <<user, team, member, invite, account, job>>
      BY <2>4 DEF vars, rows
    <3>2. OwnersWhole' /\ MembersWhole' /\ MembersGrow /\ InvitesWhole' /\ InvitesGrow
      BY <3>1, RowsStay DEF IInv, RowsWhole
    <3>3. Sound
      BY <3>1, <3>2 DEF Sound, IInv, TypeOK
    <3>4. QED
      BY <3>1, <3>3, Unnoticed
  <2>5. QED
    BY <2>1, <2>2, <2>3, <2>4 DEF Next
<1>2. QED
  BY <1>1, InitHolds, PTL DEF Spec

(* Users and teams of different sites never meet, whatever roles operators set and
   whichever invites users of one address on two sites answer.             *)
THEOREM SitesApart == Spec => []SiteIsolation
<1>1. IInv => SiteIsolation
  <2> SUFFICES ASSUME IInv PROVE SiteIsolation
    OBVIOUS
  <2>1. \A t \in AllTeams, u \in Users : member[t][u] # NoMember => SiteOf[u] = SiteOf[t]
    BY DEF IInv, RowsWhole, MembersWhole
  <2>2. ASSUME NEW u \in Users, NEW t \in AllTeams, Active(t, u) PROVE SiteOf[u] = SiteOf[t]
    BY <2>2 DEF Active, IInv, RowsWhole, MembersWhole
  <2>3. ASSUME NEW u \in Users, NEW t \in TeamsOf(u)
        PROVE  SiteOf[u] = SiteOf[t] /\ \A v \in TeamDetail(t, u) \cap Users : SiteOf[v] = SiteOf[u]
    <3>1. t \in AllTeams /\ Active(t, u)
      BY <2>3 DEF TeamsOf, CheckMembership
    <3>2. \A v \in TeamDetail(t, u) \cap Users : Active(t, v)
      BY TeamsAssumption DEF TeamDetail
    <3>3. QED
      BY <2>2, <3>1, <3>2
  <2>4. \A u \in Users : \A i \in PendingInvites(u) : MayJoin(i, u) /\ Acceptance(i) = "accept"
    BY DEF PendingInvites, MayJoin, Invitee, Acceptance
  <2>5. QED
    BY <2>1, <2>3, <2>4 DEF SiteIsolation, IInv, RowsWhole, OwnersWhole
<1>2. QED
  BY <1>1, Invariant, PTL

(* An accepted invite has made someone it was addressed to a member, whatever ran
   between the checks and the write.                                       *)
THEOREM AcceptedIsMember == Spec => []AcceptedHasMember
<1>1. IInv => AcceptedHasMember
  BY DEF IInv, RowsWhole
<1>2. QED
  BY <1>1, Invariant, PTL

-----------------------------------------------------------------------------
(* What a step may not do.                                                 *)

(* The invites whose status a step of the requests changes.                *)
LEMMA RequestSettles ==
  ASSUME IInv, NEW p \in Workers, NEW i \in Invites,
         RoleRequests(p) \/ InviteRequests(p) \/ MemberRequests(p) \/ Rollback(p),
         invite[i].status \in {"accepted", "revoked", "expired"},
         invite'[i].status # invite[i].status
  PROVE  job[p].invite = i /\ job[p].raced
<1>1. \E st : SetInvite(job[p].invite, st) /\ job[p].at \in {"accept", "expire", "decline"}
  <2>1. CASE invite' = invite
    BY <2>1
  <2>2. CASE CreateInviteWrite(p)
    <3>1. PICK g, r, w : g = job[p].invite /\ r = job[p].role /\ w = invite[i]
      OBVIOUS
    <3>2. g \in Invites /\ w \in InviteRow
      BY <2>2, <3>1 DEF CreateInviteWrite, At, IInv, TypeOK, JobsWhole, JobWhole
    <3>3. g # i => invite'[i] = invite[i]
      BY <2>2, <3>1 DEF CreateInviteWrite, IInv, TypeOK
    <3>4. job[p].new /\ g = i => FALSE
      BY <2>2, <3>1 DEF CreateInviteWrite, NoInvite
    <3>5. ~job[p].new /\ g = i => invite'[i] = [w EXCEPT !.role = r, !.lapsed = FALSE]
      BY <2>2, <3>1 DEF CreateInviteWrite, IInv, TypeOK
    <3>6. [w EXCEPT !.role = r, !.lapsed = FALSE].status = w.status
      BY <3>2 DEF InviteRow
    <3>7. QED
      BY <3>1, <3>3, <3>4, <3>5, <3>6
  <2>3. CASE AcceptWrite(p)
    BY <2>3 DEF AcceptWrite, At
  <2>4. CASE ExpireInvite(p)
    BY <2>4 DEF ExpireInvite, At
  <2>5. CASE DeclineWrite(p)
    BY <2>5 DEF DeclineWrite, At
  <2>6. invite' = invite \/ CreateInviteWrite(p) \/ AcceptWrite(p) \/ ExpireInvite(p)
        \/ DeclineWrite(p)
    BY DEF RoleRequests, InviteRequests, MemberRequests, Rollback, SetRole, SetRoleWrite,
       CreateInvite, AcceptInvite, AcceptAgain, DeclineInvite, ChangeRole, ChangeRoleWrite,
       RemoveMember, RemoveMemberWrite, Snapshot, rows
  <2>7. QED
    BY <2>1, <2>2, <2>3, <2>4, <2>5, <2>6
<1>2. job[p].invite = i
  BY <1>1 DEF SetInvite, IInv, TypeOK
<1>3. ~job[p].raced => invite[job[p].invite].status = "pending"
  BY <1>1 DEF IInv, JobsWhole, JobFresh
<1>4. job[p].raced \in BOOLEAN
  BY DEF IInv, TypeOK, Job
<1>5. QED
  BY <1>2, <1>3, <1>4

(* A settled invite stays as it was settled, unless a request that answers it had
   its team written to since its checks.                                   *)
THEOREM SettledStay == Spec => SettledInvitesStay
<1> DEFINE Stays == \A i \in Invites :
       /\ invite[i].status \in {"accepted", "revoked", "expired"}
       /\ invite'[i].status # invite[i].status
       => \E p \in Workers : job[p].invite = i /\ job[p].raced
<1>1. IInv /\ [Next]_vars => Stays
  <2> SUFFICES ASSUME IInv, [Next]_vars, NEW i \in Invites,
                      invite[i].status \in {"accepted", "revoked", "expired"},
                      invite'[i].status # invite[i].status
               PROVE  \E p \in Workers : job[p].invite = i /\ job[p].raced
    OBVIOUS
  <2>1. CASE UserRequests \/ AccountRequests \/ StatusRequests \/ UNCHANGED vars
    <3>1. invite' = invite
      BY <2>1 DEF UserRequests, AccountRequests, StatusRequests, Ensure, DeleteUser, RestoreUser,
         MarkUser, DeleteServiceAccount, SetUserStatus, vars, rows
    <3>2. QED
      BY <3>1
  <2>2. CASE TeamRequests
    <3>1. CASE invite' = invite
      BY <3>1
    <3>2. CASE \E t, d : invite' = [g \in Invites |->
                 IF invite[g].team = t THEN Marked(invite[g], NoInvite, d) ELSE invite[g]]
      <4>1. PICK w : w = invite[i]
        OBVIOUS
      <4>2. PICK d : invite'[i] \in {w, [w EXCEPT !.deleted = d]}
        BY <3>2, <4>1 DEF Marked
      <4>3. w \in InviteRow
        BY <4>1 DEF IInv, TypeOK
      <4>4. [w EXCEPT !.deleted = d].status = w.status
        BY <4>3 DEF InviteRow
      <4>5. QED
        BY <4>1, <4>2, <4>4
    <3>3. CASE \E t \in Teams, u \in Users : UpsertTeam(t, u)
      BY <3>1, <3>3 DEF UpsertTeam
    <3>4. CASE \E t \in Named : DeleteTeam(t) \/ RestoreTeam(t)
      <4>1. PICK t, d : MarkTeam(t, d)
        BY <3>4 DEF DeleteTeam, RestoreTeam
      <4>2. QED
        BY <3>2, <4>1 DEF MarkTeam
    <3>5. QED
      BY <2>2, <3>3, <3>4 DEF TeamRequests
  <2>3. CASE \E g \in Invites : Lapse(g)
    BY <2>3 DEF Lapse, IInv, TypeOK, InviteRow
  <2>4. CASE \E p \in Workers :
               RoleRequests(p) \/ InviteRequests(p) \/ MemberRequests(p) \/ Rollback(p)
    BY <2>4, RequestSettles
  <2>5. QED
    BY <2>1, <2>2, <2>3, <2>4 DEF Next
<1> HIDE DEF Stays
<1>2. IInv /\ [Next]_vars => [Stays]_vars
  BY <1>1
<1>3. Spec => [][Stays]_vars
  BY <1>2, Invariant, PTL DEF Spec
<1>4. QED
  BY <1>3 DEF Stays, SettledInvitesStay

(* A request about a member ends by its own write, or writes nothing.      *)
LEMMA MemberRequestEnds ==
  ASSUME IInv, [Next]_vars, NEW p \in Workers, job[p].at \in {"change", "remove"},
         job'[p] = Idle
  PROVE  ChangeRoleWrite(p) \/ RemoveMemberWrite(p) \/ member' = member
<1>1. Idle.at = "idle" /\ job[p].at # "idle" /\ job[p] # Idle
  BY DEF Idle
<1>2. job \in [Workers -> Job] /\ Idle \in Job
  BY DEF IInv, TypeOK, Idle, Job
<1>3. ASSUME AtOnce PROVE FALSE
  BY <1>1, <1>2, <1>3, Noticed DEF AtOnce
<1>4. ASSUME job' = job PROVE FALSE
  BY <1>1, <1>4
<1>5. ASSUME NEW q \in Workers, q # p, Commit(q) PROVE FALSE
  <2>1. PICK jobs : jobs = [job EXCEPT ![q] = Idle]
    OBVIOUS
  <2>2. jobs \in [Workers -> Job] /\ jobs[p] = job[p] /\ job' = Noticing(jobs)
    BY <1>2, <1>5, <2>1 DEF Commit
  <2>3. job'[p].at = job[p].at
    BY <2>2, Noticed
  <2>4. QED
    BY <1>1, <2>3
<1>6. ASSUME NEW q \in Workers, q # p, NEW j, Snapshot(q, j) PROVE FALSE
  BY <1>1, <1>2, <1>6 DEF Snapshot
<1>7. CASE UserRequests \/ TeamRequests \/ StatusRequests
  BY <1>3, <1>7 DEF UserRequests, TeamRequests, StatusRequests, Ensure, DeleteUser, RestoreUser,
     MarkUser, UpsertTeam, DeleteTeam, RestoreTeam, MarkTeam, SetUserStatus
<1>8. CASE AccountRequests \/ (\E i \in Invites : Lapse(i)) \/ UNCHANGED vars
  BY <1>4, <1>8 DEF AccountRequests, DeleteServiceAccount, Lapse, vars
<1>9. ASSUME NEW q \in Workers, q # p,
             RoleRequests(q) \/ InviteRequests(q) \/ MemberRequests(q) \/ Rollback(q)
      PROVE  FALSE
  <2>1. (\E j : Snapshot(q, j)) \/ Commit(q) \/ Rollback(q)
    BY <1>9 DEF RoleRequests, InviteRequests, MemberRequests, SetRole, SetRoleWrite, CreateInvite,
       CreateInviteWrite, AcceptInvite, AcceptWrite, AcceptAgain, ExpireInvite, DeclineInvite,
       DeclineWrite, ChangeRole, ChangeRoleWrite, RemoveMember, RemoveMemberWrite
  <2>2. CASE Rollback(q)
    BY <1>1, <1>2, <1>9, <2>2 DEF Rollback
  <2>3. QED
    BY <1>5, <1>6, <1>9, <2>1, <2>2
<1>10. ASSUME RoleRequests(p) \/ InviteRequests(p) \/ MemberRequests(p) \/ Rollback(p)
       PROVE  ChangeRoleWrite(p) \/ RemoveMemberWrite(p) \/ member' = member
  BY <1>10 DEF RoleRequests, InviteRequests, MemberRequests, SetRole, SetRoleWrite, CreateInvite,
     CreateInviteWrite, AcceptInvite, AcceptWrite, AcceptAgain, ExpireInvite, DeclineInvite,
     DeclineWrite, ChangeRole, RemoveMember, Snapshot, At, Rollback, rows
<1>11. QED
  BY <1>7, <1>8, <1>9, <1>10 DEF Next

(* The owners after a member has changed.                                  *)
LEMMA OwnerRemains ==
  ASSUME IInv, NEW t \in AllTeams, NEW u \in Users, NEW m,
         member' = [member EXCEPT ![t][u] = m], Owners(t) # {},
         \/ ~LastOwner(t, u)
         \/ m.role = "owner" /\ m.active = member[t][u].active /\ m.deleted = member[t][u].deleted
  PROVE  Owners(t)' # {}
<1>1. \A v \in Users : member'[t][v] = IF v = u THEN m ELSE member[t][v]
  BY DEF IInv, TypeOK
<1>2. \A v \in Owners(t) : v # u => v \in Owners(t)'
  BY <1>1 DEF Owners, IsRole, Active
<1>3. CASE m.role = "owner" /\ m.active = member[t][u].active /\ m.deleted = member[t][u].deleted
  <2>1. u \in Owners(t) => u \in Owners(t)'
    BY <1>1, <1>3 DEF Owners, IsRole, Active
  <2>2. QED
    BY <1>2, <2>1
<1>4. CASE ~LastOwner(t, u)
  <2>1. CASE u \notin Owners(t)
    BY <1>2, <2>1
  <2>2. CASE u \in Owners(t)
    <3>1. ~(Cardinality(Owners(t)) <= 1)
      BY <1>4, <2>2 DEF LastOwner
    <3>2. Owners(t) # {u}
      <4>1. Cardinality({u}) = 1
        BY FS_Singleton
      <4>2. QED
        BY <3>1, <4>1
    <3>3. QED
      BY <1>2, <2>2, <3>2
  <2>3. QED
    BY <2>1, <2>2
<1>5. QED
  BY <1>3, <1>4

(* Changing a role or removing a member leaves the team an owner, unless another write
   to the team came between its checks and its write.                      *)
THEOREM OwnerStays == Spec => LastOwnerStays
<1> DEFINE Stays == \A p \in Workers, t \in AllTeams :
       /\ job[p].at \in {"change", "remove"} /\ job[p].team = t
       /\ job'[p] = Idle /\ ~job[p].raced
       => (Owners(t) # {} => Owners(t)' # {})
<1>1. IInv /\ [Next]_vars => Stays
  <2> SUFFICES ASSUME IInv, [Next]_vars, NEW p \in Workers, NEW t \in AllTeams,
                      job[p].at \in {"change", "remove"}, job[p].team = t,
                      job'[p] = Idle, ~job[p].raced, Owners(t) # {}
               PROVE  Owners(t)' # {}
    OBVIOUS
  <2>1. PICK u, w, r : u = job[p].user /\ w = member[t][u] /\ r = job[p].role
    OBVIOUS
  <2>2. /\ u \in Users /\ w \in MemberRow
        /\ ~LastOwner(t, u) \/ (job[p].at = "change" /\ r = "owner")
    BY <2>1 DEF IInv, TypeOK, JobsWhole, JobWhole, JobFresh
  <2>3. CASE ChangeRoleWrite(p)
    <3>1. PICK m : m = [w EXCEPT !.role = r]
      OBVIOUS
    <3>2. m.role = r /\ m.active = w.active /\ m.deleted = w.deleted
      BY <2>2, <3>1 DEF MemberRow
    <3>3. member' = [member EXCEPT ![t][u] = m]
      BY <2>1, <2>3, <3>1 DEF ChangeRoleWrite
    <3>4. QED
      BY <2>1, <2>2, <3>2, <3>3, OwnerRemains
  <2>4. CASE RemoveMemberWrite(p)
    <3>1. PICK m : m = [w EXCEPT !.active = FALSE]
      OBVIOUS
    <3>2. member' = [member EXCEPT ![t][u] = m]
      BY <2>1, <2>4, <3>1 DEF RemoveMemberWrite
    <3>3. ~LastOwner(t, u)
      BY <2>2, <2>4 DEF RemoveMemberWrite, At
    <3>4. QED
      BY <2>2, <3>2, <3>3, OwnerRemains
  <2>5. CASE member' = member
    BY <2>5, OwnersStay
  <2>6. QED
    BY <2>3, <2>4, <2>5, MemberRequestEnds
<1> HIDE DEF Stays
<1>2. IInv /\ [Next]_vars => [Stays]_vars
  BY <1>1
<1>3. Spec => [][Stays]_vars
  BY <1>2, Invariant, PTL DEF Spec
<1>4. QED
  BY <1>3 DEF Stays, LastOwnerStays
=============================================================================
