---------------------------- MODULE SessionsProofs ---------------------------
(***************************************************************************)
(* Proofs about Sessions: links are used once, a login has one token and   *)
(* ends when it is revoked, and an address is let through for a bounded    *)
(* number of links, for any addresses, links, tokens, windows, limits,     *)
(* lifetimes and number of requests at once.                               *)
(***************************************************************************)
EXTENDS Sessions, FiniteSetTheorems, TLAPS

(* The rows, without the limiter's windows, which only the last section needs. *)
RowsOK ==
  /\ clock \in Nat \ {0}
  /\ link \in [Links -> LinkRow]
  /\ token \in [Tokens -> TokenRow]
  /\ job \in [Workers -> Job]

(* A login in flight that holds a link, and a rotation that has consumed its token
   and not minted the next one.                                            *)
Holds(j) == j.at \in {"ensure", "mint"} /\ j.link # None
Mints(j) == j.at = "remint"

(* What a request carries from step to step.                               *)
JobWhole(j) ==
  /\ j.at = "consume" => j.link \in Links
  /\ j.at \in {"enter", "rotate", "remint", "replaced"} => j.link = None
  /\ j.at \in {"ensure", "enter", "mint", "remint", "replaced", "revoke"} => j.namespace # None
  /\ j.at \in {"rotate", "remint", "replaced"} =>
       j.token \in Tokens /\ token[j.token].namespace # None
  /\ j.at = "rotate" => j.now # 0
  /\ j.at = "replaced" => j.new \in Tokens
  /\ Mints(j) => token[j.token].namespace = j.namespace

JobsWhole == \A p \in Workers : JobWhole(job[p])

(* A token that is there belongs to a login, all of whose tokens are of one
   namespace.                                                              *)
TokensWhole ==
  \A t \in Tokens :
    IF token[t].namespace = None THEN token[t] = NoToken
    ELSE token[t].root \in Tokens /\ token[token[t].root].namespace = token[t].namespace

(* Whoever holds a link has spent it, and is the only one ever to.         *)
LinksSpent ==
  /\ \A p \in Workers : Holds(job[p]) => link[job[p].link].consumed
  /\ \A t \in Tokens : token[t].link # None => link[token[t].link].consumed
  /\ \A p, q \in Workers : Holds(job[p]) /\ Holds(job[q]) /\ job[p].link = job[q].link => p = q
  /\ \A p \in Workers, t \in Tokens : Holds(job[p]) => token[t].link # job[p].link
  /\ \A t, u \in Tokens : token[t].link # None /\ token[t].link = token[u].link => t = u

(* A login has one token that can be used or one rotation about to make one. *)
Root(j) == token[j.token].root
OneMaker ==
  /\ \A t, u \in Tokens : LiveToken(t) /\ LiveToken(u) /\ token[t].root = token[u].root => t = u
  /\ \A t \in Tokens, p \in Workers : LiveToken(t) /\ Mints(job[p]) => Root(job[p]) # token[t].root
  /\ \A p, q \in Workers : Mints(job[p]) /\ Mints(job[q]) /\ Root(job[p]) = Root(job[q]) => p = q

(* A rotation of a login that was revoked knows it.                        *)
MintersTold ==
  \A p \in Workers, t \in Tokens :
    Mints(job[p]) /\ token[t].revoked /\ token[t].root = Root(job[p]) => job[p].flag

IInv == /\ RowsOK /\ JobsWhole /\ TokensWhole /\ OneLiveLink /\ LinksSpent /\ OneMaker
        /\ MintersTold /\ RevocationEndsLogin

-----------------------------------------------------------------------------
(* A request's record with one field changed.                              *)
LEMMA AtSet ==
  ASSUME NEW j \in Job, NEW x \in Steps, NEW k, k = [j EXCEPT !.at = x]
  PROVE  /\ k \in Job /\ k.at = x /\ k.now = j.now /\ k.link = j.link /\ k.token = j.token
         /\ k.new = j.new /\ k.namespace = j.namespace /\ k.flag = j.flag
BY DEF Job

(* Its clock is read.                                                      *)
LEMMA NowSet ==
  ASSUME NEW j \in Job, NEW x \in Nat, NEW k, k = [j EXCEPT !.now = x]
  PROVE  /\ k \in Job /\ k.at = j.at /\ k.now = x /\ k.link = j.link /\ k.token = j.token
         /\ k.new = j.new /\ k.namespace = j.namespace /\ k.flag = j.flag
BY DEF Job

(* Its link is set.                                                        *)
LEMMA LinkSet ==
  ASSUME NEW j \in Job, NEW x \in Links, NEW k, k = [j EXCEPT !.link = x]
  PROVE  /\ k \in Job /\ k.at = j.at /\ k.now = j.now /\ k.link = x /\ k.token = j.token
         /\ k.new = j.new /\ k.namespace = j.namespace /\ k.flag = j.flag
BY DEF Job

(* Its token is set.                                                       *)
LEMMA TokenSet ==
  ASSUME NEW j \in Job, NEW x \in Tokens, NEW k, k = [j EXCEPT !.token = x]
  PROVE  /\ k \in Job /\ k.at = j.at /\ k.now = j.now /\ k.link = j.link /\ k.token = x
         /\ k.new = j.new /\ k.namespace = j.namespace /\ k.flag = j.flag
BY DEF Job

(* The token it minted is set.                                             *)
LEMMA NewSet ==
  ASSUME NEW j \in Job, NEW x \in Tokens, NEW k, k = [j EXCEPT !.new = x]
  PROVE  /\ k \in Job /\ k.at = j.at /\ k.now = j.now /\ k.link = j.link /\ k.token = j.token
         /\ k.new = x /\ k.namespace = j.namespace /\ k.flag = j.flag
BY DEF Job

(* Its namespace is set.                                                   *)
LEMMA NamespaceSet ==
  ASSUME NEW j \in Job, NEW x \in Namespaces, NEW k, k = [j EXCEPT !.namespace = x]
  PROVE  /\ k \in Job /\ k.at = j.at /\ k.now = j.now /\ k.link = j.link /\ k.token = j.token
         /\ k.new = j.new /\ k.namespace = x /\ k.flag = j.flag
BY DEF Job

(* Its flag is set.                                                        *)
LEMMA FlagSet ==
  ASSUME NEW j \in Job, NEW x \in BOOLEAN, NEW k, k = [j EXCEPT !.flag = x]
  PROVE  /\ k \in Job /\ k.at = j.at /\ k.now = j.now /\ k.link = j.link /\ k.token = j.token
         /\ k.new = j.new /\ k.namespace = j.namespace /\ k.flag = x
BY DEF Job

(* Its address is set.                                                     *)
LEMMA EmailSet ==
  ASSUME NEW j \in Job, NEW x \in Emails, NEW k, k = [j EXCEPT !.email = x]
  PROVE  /\ k \in Job /\ k.at = j.at /\ k.now = j.now /\ k.link = j.link /\ k.token = j.token
         /\ k.new = j.new /\ k.namespace = j.namespace /\ k.flag = j.flag
BY DEF Job

(* Its device is set.                                                      *)
LEMMA NonceSet ==
  ASSUME NEW j \in Job, NEW x \in Nonces \cup {None}, NEW k, k = [j EXCEPT !.nonce = x]
  PROVE  /\ k \in Job /\ k.at = j.at /\ k.now = j.now /\ k.link = j.link /\ k.token = j.token
         /\ k.new = j.new /\ k.namespace = j.namespace /\ k.flag = j.flag
BY DEF Job

(* No request.                                                             *)
LEMMA IdleJob ==
  /\ Idle \in Job /\ Idle.at = "idle" /\ Idle.now = 0 /\ Idle.link = None /\ Idle.token = None
  /\ Idle.namespace = None /\ Idle.flag = FALSE
BY DEF Idle, Job, Steps

(* It holds nothing.                                                       *)
LEMMA IdleWhole ==
  JobWhole(Idle) /\ ~Mints(Idle) /\ ~Holds(Idle)
BY IdleJob DEF JobWhole, Mints, Holds

-----------------------------------------------------------------------------
(* A request goes on without touching a row: it neither holds a link it had not
   held nor begins to mint.                                                *)
LEMMA GoOn ==
  ASSUME SessionsAssumption, IInv, NEW p \in Workers, NEW j \in Job,
         job' = [job EXCEPT ![p] = j], UNCHANGED <<link, token>>, clock' \in Nat \ {0},
         JobWhole(j), ~Mints(j), Holds(j) => Holds(job[p]) /\ j.link = job[p].link
  PROVE  IInv'
<1>1. RowsOK'
  BY DEF IInv, RowsOK
<1>2. job'[p] = j /\ \A q \in Workers : q # p => job'[q] = job[q]
  BY DEF IInv, RowsOK
<1>3. JobsWhole'
  <2>1. ASSUME NEW q \in Workers PROVE JobWhole(job[q])'
    <3>1. JobWhole(job[q]) /\ JobWhole(j)
      BY DEF IInv, JobsWhole
    <3>2. job'[q] = job[q] \/ job'[q] = j
      BY <1>2
    <3>3. QED
      BY <3>1, <3>2 DEF JobWhole, Mints
  <2>2. QED
    BY <2>1 DEF JobsWhole
<1>4. TokensWhole' /\ OneLiveLink' /\ RevocationEndsLogin'
  BY DEF IInv, TokensWhole, OneLiveLink, RevocationEndsLogin, LiveLink, LiveToken
<1>5. \A q \in Workers : Holds(job'[q]) => Holds(job[q]) /\ job[q].link = job'[q].link
  BY <1>2
<1>6. LinksSpent'
  BY <1>5 DEF IInv, LinksSpent
<1>7. \A q \in Workers : Mints(job'[q]) => Mints(job[q]) /\ job'[q] = job[q]
  BY <1>2
<1>8. OneMaker' /\ MintersTold'
  BY <1>7 DEF IInv, OneMaker, MintersTold, LiveToken, Root
<1>9. QED
  BY <1>1, <1>3, <1>4, <1>6, <1>8 DEF IInv

(* Nothing changes but the clock.                                          *)
LEMMA Still ==
  ASSUME IInv, UNCHANGED <<link, token, job>>, clock' \in Nat \ {0}
  PROVE  IInv'
<1>1. RowsOK' /\ JobsWhole' /\ TokensWhole'
  BY DEF IInv, RowsOK, JobsWhole, JobWhole, TokensWhole, Mints
<1>2. OneLiveLink' /\ LinksSpent'
  BY DEF IInv, OneLiveLink, LinksSpent, LiveLink, Holds
<1>3. OneMaker' /\ MintersTold' /\ RevocationEndsLogin'
  BY DEF IInv, OneMaker, MintersTold, RevocationEndsLogin, LiveToken, Root, Mints
<1>4. QED
  BY <1>1, <1>2, <1>3 DEF IInv

(* A request ends.                                                         *)
LEMMA Ends ==
  ASSUME SessionsAssumption, IInv, NEW p \in Workers, Finish(p), UNCHANGED <<link, token>>,
         clock' \in Nat \ {0}
  PROVE  IInv'
<1>1. job' = [job EXCEPT ![p] = Idle]
  BY DEF Finish
<1>2. QED
  BY <1>1, GoOn, IdleJob, IdleWhole

(* The clock goes on being one.                                            *)
LEMMA ClockStays ==
  ASSUME IInv, UNCHANGED clock
  PROVE  clock' \in Nat \ {0}
BY DEF IInv, RowsOK

-----------------------------------------------------------------------------
(* The steps of links.                                                     *)
LEMMA AskLinkKeeps ==
  ASSUME SessionsAssumption, IInv, NEW p \in Workers, AskLink(p)
  PROVE  IInv'
<1>1. UNCHANGED <<clock, link, token>> /\ clock' \in Nat \ {0}
  BY ClockStays DEF AskLink
<1>2. CASE UNCHANGED job
  BY <1>1, <1>2, Still
<1>3. ASSUME NEW j \in Job, j.at = "issue", job' = [job EXCEPT ![p] = j]
      PROVE  IInv'
  <2>1. JobWhole(j) /\ ~Mints(j) /\ ~Holds(j)
    BY <1>3 DEF JobWhole, Mints, Holds
  <2>2. QED
    BY <1>1, <1>3, <2>1, GoOn
<1>4. ASSUME NEW e \in Emails, NEW n \in Nonces \cup {None}, NEW a,
             a = [Idle EXCEPT !.at = "issue", !.now = clock, !.email = e, !.nonce = n],
             job' = [job EXCEPT ![p] = a] \/ job' = [job EXCEPT ![p] = [a EXCEPT !.flag = TRUE]]
      PROVE  IInv'
  <2>1. PICK k1 : k1 = [Idle EXCEPT !.at = "issue"]
    OBVIOUS
  <2>2. PICK k2 : k2 = [k1 EXCEPT !.now = clock]
    OBVIOUS
  <2>3. PICK k3 : k3 = [k2 EXCEPT !.email = e]
    OBVIOUS
  <2>4. PICK k4 : k4 = [k3 EXCEPT !.nonce = n]
    OBVIOUS
  <2>5. PICK k5 : k5 = [k4 EXCEPT !.flag = TRUE]
    OBVIOUS
  <2>6. a = k4
    BY <1>4, <2>1, <2>2, <2>3, <2>4 DEF Idle
  <2>7. clock \in Nat /\ "issue" \in Steps
    BY DEF IInv, RowsOK, Steps
  <2>8. k1 \in Job /\ k1.at = "issue"
    BY <2>1, <2>7, AtSet, IdleJob
  <2>9. k2 \in Job /\ k2.at = "issue"
    BY <2>2, <2>7, <2>8, NowSet
  <2>10. k3 \in Job /\ k3.at = "issue"
    BY <2>3, <2>9, EmailSet
  <2>11. k4 \in Job /\ k4.at = "issue"
    BY <2>4, <2>10, NonceSet
  <2>12. k5 \in Job /\ k5.at = "issue"
    BY <2>5, <2>11, FlagSet
  <2>13. job' = [job EXCEPT ![p] = k4] \/ job' = [job EXCEPT ![p] = k5]
    BY <1>4, <2>5, <2>6
  <2>14. QED
    BY <1>3, <2>11, <2>12, <2>13
<1>5. ASSUME ~UNCHANGED job
      PROVE  \E e \in Emails, n \in Nonces \cup {None} :
               LET a == [Idle EXCEPT !.at = "issue", !.now = clock, !.email = e, !.nonce = n]
               IN  job' = [job EXCEPT ![p] = a] \/ job' = [job EXCEPT ![p] = [a EXCEPT !.flag = TRUE]]
  BY <1>5 DEF AskLink, Begin
<1>6. QED
  BY <1>2, <1>4, <1>5

(* A link is shown.                                                        *)
LEMMA UseLinkKeeps ==
  ASSUME SessionsAssumption, IInv, NEW p \in Workers, UseLink(p)
  PROVE  IInv'
<1>1. PICK l \in Links, n \in Nonces \cup {None} :
        job' = [job EXCEPT ![p] = [Idle EXCEPT !.at = "consume", !.now = clock, !.link = l, !.nonce = n]]
  BY DEF UseLink, Begin
<1>2. PICK k1 : k1 = [Idle EXCEPT !.at = "consume"]
  OBVIOUS
<1>3. PICK k2 : k2 = [k1 EXCEPT !.now = clock]
  OBVIOUS
<1>4. PICK k3 : k3 = [k2 EXCEPT !.link = l]
  OBVIOUS
<1>5. PICK j : j = [k3 EXCEPT !.nonce = n]
  OBVIOUS
<1>6. job' = [job EXCEPT ![p] = j]
  BY <1>1, <1>2, <1>3, <1>4, <1>5 DEF Idle
<1>7. clock \in Nat /\ "consume" \in Steps
  BY DEF IInv, RowsOK, Steps
<1>8. k1 \in Job /\ k1.at = "consume"
  BY <1>2, <1>7, AtSet, IdleJob
<1>9. k2 \in Job /\ k2.at = "consume"
  BY <1>3, <1>7, <1>8, NowSet
<1>10. k3 \in Job /\ k3.at = "consume" /\ k3.link = l
  BY <1>4, <1>9, LinkSet
<1>11. j \in Job /\ j.at = "consume" /\ j.link = l
  BY <1>5, <1>10, NonceSet
<1>12. JobWhole(j) /\ ~Mints(j) /\ ~Holds(j)
  BY <1>11 DEF JobWhole, Mints, Holds
<1>13. UNCHANGED <<link, token>> /\ clock' \in Nat \ {0}
  BY ClockStays DEF UseLink
<1>14. QED
  BY <1>6, <1>11, <1>12, <1>13, GoOn

(* The steps that open a session.                                          *)
LEMMA OpenKeeps ==
  ASSUME SessionsAssumption, IInv, NEW p \in Workers, OpenSession(p) \/ OpenTeamSession(p)
  PROVE  IInv'
<1>1. UNCHANGED <<link, token>> /\ clock' \in Nat \ {0}
  BY ClockStays DEF OpenSession, OpenTeamSession
<1>2. ASSUME NEW ns \in Namespaces, NEW x \in {"ensure", "enter"},
             job' = [job EXCEPT ![p] = [Idle EXCEPT !.at = x, !.namespace = ns]]
      PROVE  IInv'
  <2>1. PICK k : k = [Idle EXCEPT !.at = x]
    OBVIOUS
  <2>2. PICK j : j = [k EXCEPT !.namespace = ns]
    OBVIOUS
  <2>3. job' = [job EXCEPT ![p] = j]
    BY <1>2, <2>1, <2>2 DEF Idle
  <2>4. x \in Steps /\ ns # None
    BY DEF Steps, SessionsAssumption, Namespaces
  <2>5. k \in Job /\ k.at = x /\ k.link = None
    BY <2>1, <2>4, AtSet, IdleJob
  <2>6. j \in Job /\ j.at = x /\ j.link = None /\ j.namespace = ns
    BY <2>2, <2>5, NamespaceSet
  <2>7. JobWhole(j) /\ ~Mints(j) /\ ~Holds(j)
    BY <2>4, <2>6 DEF JobWhole, Mints, Holds
  <2>8. QED
    BY <1>1, <2>3, <2>6, <2>7, GoOn
<1>3. CASE OpenSession(p)
  <2>1. PICK e \in Emails : job' = [job EXCEPT ![p] = [Idle EXCEPT !.at = "ensure", !.namespace = e]]
    BY <1>3 DEF OpenSession, Begin
  <2>2. QED
    BY <1>2, <2>1 DEF Namespaces
<1>4. CASE OpenTeamSession(p)
  <2>1. PICK t \in Teams : job' = [job EXCEPT ![p] = [Idle EXCEPT !.at = "enter", !.namespace = t]]
    BY <1>4 DEF OpenTeamSession, Begin
  <2>2. QED
    BY <1>2, <2>1 DEF Namespaces
<1>5. QED
  BY <1>3, <1>4

(* The user or the member is known.                                        *)
LEMMA EnterKeeps ==
  ASSUME SessionsAssumption, IInv, NEW p \in Workers, EnsureUser(p) \/ EnterTeam(p)
  PROVE  IInv'
<1>1. PICK k : k = [job[p] EXCEPT !.at = "mint"]
  OBVIOUS
<1>2. PICK j : j = [k EXCEPT !.now = clock]
  OBVIOUS
<1>3. job[p] \in Job /\ clock \in Nat /\ "mint" \in Steps /\ JobWhole(job[p])
  BY DEF IInv, RowsOK, Steps, JobsWhole
<1>4. job' = [job EXCEPT ![p].at = "mint", ![p].now = clock]
  BY DEF EnsureUser, EnterTeam
<1>5. job' = [job EXCEPT ![p] = j]
  BY <1>1, <1>2, <1>4 DEF IInv, RowsOK
<1>6. k \in Job /\ k.at = "mint" /\ k.link = job[p].link /\ k.namespace = job[p].namespace
  BY <1>1, <1>3, AtSet
<1>7. j \in Job /\ j.at = "mint" /\ j.link = job[p].link /\ j.namespace = job[p].namespace
  BY <1>2, <1>3, <1>6, NowSet
<1>8. job[p].at = "ensure" \/ job[p].at = "enter"
  BY DEF EnsureUser, EnterTeam, At
<1>9. JobWhole(j) /\ ~Mints(j)
  BY <1>3, <1>7, <1>8 DEF JobWhole, Mints
<1>10. Holds(j) => Holds(job[p]) /\ j.link = job[p].link
  BY <1>3, <1>7, <1>8 DEF JobWhole, Holds
<1>11. UNCHANGED <<link, token>> /\ clock' \in Nat \ {0}
  BY ClockStays DEF EnsureUser, EnterTeam
<1>12. QED
  BY <1>5, <1>7, <1>9, <1>10, <1>11, GoOn

(* A token is shown, to rotate it or to end its sessions.                  *)
LEMMA ShowKeeps ==
  ASSUME SessionsAssumption, IInv, NEW p \in Workers, UseToken(p) \/ Logout(p)
  PROVE  IInv'
<1>1. UNCHANGED <<link, token>> /\ clock' \in Nat \ {0}
  BY ClockStays DEF UseToken, Logout
<1>2. CASE UseToken(p)
  <2>1. PICK t \in Tokens :
          /\ token[t] # NoToken
          /\ job' = [job EXCEPT ![p] = [Idle EXCEPT !.at = "rotate", !.now = clock, !.token = t]]
    BY <1>2 DEF UseToken, Begin
  <2>2. PICK k1 : k1 = [Idle EXCEPT !.at = "rotate"]
    OBVIOUS
  <2>3. PICK k2 : k2 = [k1 EXCEPT !.now = clock]
    OBVIOUS
  <2>4. PICK j : j = [k2 EXCEPT !.token = t]
    OBVIOUS
  <2>5. job' = [job EXCEPT ![p] = j]
    BY <2>1, <2>2, <2>3, <2>4 DEF Idle
  <2>6. clock \in Nat /\ clock # 0 /\ "rotate" \in Steps
    BY DEF IInv, RowsOK, Steps
  <2>7. k1 \in Job /\ k1.at = "rotate" /\ k1.link = None
    BY <2>2, <2>6, AtSet, IdleJob
  <2>8. k2 \in Job /\ k2.at = "rotate" /\ k2.now = clock /\ k2.link = None
    BY <2>3, <2>6, <2>7, NowSet
  <2>9. j \in Job /\ j.at = "rotate" /\ j.now = clock /\ j.token = t /\ j.link = None
    BY <2>4, <2>8, TokenSet
  <2>10. token[t].namespace # None
    BY <2>1 DEF IInv, TokensWhole
  <2>11. JobWhole(j) /\ ~Mints(j) /\ ~Holds(j)
    BY <2>6, <2>9, <2>10 DEF JobWhole, Mints, Holds
  <2>12. QED
    BY <1>1, <2>5, <2>9, <2>11, GoOn
<1>3. CASE Logout(p)
  <2>1. PICK t \in Tokens :
          /\ token[t] # NoToken
          /\ job' = [job EXCEPT ![p] = [Idle EXCEPT !.at = "revoke", !.namespace = token[t].namespace]]
    BY <1>3 DEF Logout, Begin
  <2>2. PICK k : k = [Idle EXCEPT !.at = "revoke"]
    OBVIOUS
  <2>3. PICK j : j = [k EXCEPT !.namespace = token[t].namespace]
    OBVIOUS
  <2>4. job' = [job EXCEPT ![p] = j]
    BY <2>1, <2>2, <2>3 DEF Idle
  <2>5. "revoke" \in Steps /\ token[t] \in TokenRow
    BY DEF IInv, RowsOK, Steps
  <2>6. token[t].namespace # None
    BY <2>1 DEF IInv, TokensWhole
  <2>7. token[t].namespace \in Namespaces
    BY <2>5, <2>6 DEF TokenRow
  <2>8. k \in Job /\ k.at = "revoke" /\ k.link = None
    BY <2>2, <2>5, AtSet, IdleJob
  <2>9. j \in Job /\ j.at = "revoke" /\ j.namespace = token[t].namespace
    BY <2>3, <2>7, <2>8, NamespaceSet
  <2>10. JobWhole(j) /\ ~Mints(j) /\ ~Holds(j)
    BY <2>6, <2>9 DEF JobWhole, Mints, Holds
  <2>11. QED
    BY <1>1, <2>4, <2>9, <2>10, GoOn
<1>4. QED
  BY <1>2, <1>3

-----------------------------------------------------------------------------
(* A step that writes links only, and whose request ends or goes on with the link it
   has just spent, which nobody else holds.                                *)
LEMMA LinkOnly ==
  ASSUME SessionsAssumption, IInv, NEW p \in Workers, NEW j \in Job, UNCHANGED token,
         job' = [job EXCEPT ![p] = j], JobWhole(j), ~Mints(j),
         RowsOK', OneLiveLink', \A l \in Links : link[l].consumed => link'[l].consumed,
         Holds(j) => j.link \in Links /\ ~link[j.link].consumed /\ link'[j.link].consumed
  PROVE  IInv'
<1>1. job'[p] = j /\ \A q \in Workers : q # p => job'[q] = job[q]
  BY DEF IInv, RowsOK
<1>2. JobsWhole'
  <2>1. ASSUME NEW q \in Workers PROVE JobWhole(job[q])'
    <3>1. JobWhole(job[q]) /\ JobWhole(j)
      BY DEF IInv, JobsWhole
    <3>2. job'[q] = job[q] \/ job'[q] = j
      BY <1>1
    <3>3. QED
      BY <3>1, <3>2 DEF JobWhole, Mints
  <2>2. QED
    BY <2>1 DEF JobsWhole
<1>3. TokensWhole' /\ RevocationEndsLogin'
  BY DEF IInv, TokensWhole, RevocationEndsLogin, LiveToken
<1>4. \A q \in Workers : Mints(job'[q]) => Mints(job[q]) /\ job'[q] = job[q]
  BY <1>1
<1>5. OneMaker' /\ MintersTold'
  BY <1>4 DEF IInv, OneMaker, MintersTold, LiveToken, Root
<1>6. /\ \A q \in Workers : Holds(job[q]) => job[q].link \in Links
      /\ \A t \in Tokens : token[t].link # None => token[t].link \in Links
  BY DEF IInv, RowsOK, Job, TokenRow, Holds
<1>7. \A q \in Workers : Holds(job'[q]) =>
        \/ q = p /\ job'[q] = j /\ Holds(j)
        \/ Holds(job[q]) /\ job'[q] = job[q]
  BY <1>1
<1>8. /\ \A q \in Workers : Holds(job[q]) => link[job[q].link].consumed
      /\ \A t \in Tokens : token[t].link # None => link[token[t].link].consumed
  BY DEF IInv, LinksSpent
<1>9. /\ \A q \in Workers : Holds(job[q]) /\ Holds(j) => job[q].link # j.link
      /\ \A t \in Tokens : Holds(j) => token[t].link # j.link
  BY <1>8 DEF Holds
<1>10. LinksSpent'
  <2>1. \A q \in Workers : Holds(job'[q]) => link'[job'[q].link].consumed
    BY <1>6, <1>7, <1>8
  <2>2. \A t \in Tokens : token'[t].link # None => link'[token'[t].link].consumed
    BY <1>6, <1>8
  <2>3. \A q, r \in Workers : Holds(job'[q]) /\ Holds(job'[r]) /\ job'[q].link = job'[r].link => q = r
    BY <1>7, <1>9 DEF IInv, LinksSpent
  <2>4. \A q \in Workers, t \in Tokens : Holds(job'[q]) => token'[t].link # job'[q].link
    BY <1>7, <1>9 DEF IInv, LinksSpent
  <2>5. \A t, u \in Tokens : token'[t].link # None /\ token'[t].link = token'[u].link => t = u
    BY DEF IInv, LinksSpent
  <2>6. QED
    BY <2>1, <2>2, <2>3, <2>4, <2>5 DEF LinksSpent
<1>11. QED
  BY <1>2, <1>3, <1>5, <1>10 DEF IInv

(* Links are issued: those of the address are superseded.                  *)
LEMMA IssueLinkKeeps ==
  ASSUME SessionsAssumption, IInv, NEW p \in Workers, IssueLink(p)
  PROVE  IInv'
<1>1. PICK new \in Links :
        /\ link[new] = NoLink
        /\ link' = [l \in Links |->
             IF l = new THEN [NoLink EXCEPT !.email = job[p].email, !.nonce = job[p].nonce,
                                !.expiresAt = job[p].now + LinkTtl,
                                !.asked = job[p].now, !.metered = job[p].flag]
             ELSE [link[l] EXCEPT !.superseded = @ \/ Supersedes(l, p)]]
  BY DEF IssueLink
<1>2. UNCHANGED token /\ clock' \in Nat \ {0}
  BY ClockStays DEF IssueLink
<1>3. job' = [job EXCEPT ![p] = Idle] /\ job[p].at = "issue"
  BY DEF IssueLink, Finish, At
<1>4. job[p] \in Job /\ link \in [Links -> LinkRow] /\ job \in [Workers -> Job]
  BY DEF IInv, RowsOK
<1>5. /\ link'[new] = [NoLink EXCEPT !.email = job[p].email, !.nonce = job[p].nonce,
                         !.expiresAt = job[p].now + LinkTtl,
                         !.asked = job[p].now, !.metered = job[p].flag]
      /\ \A l \in Links \ {new} : link'[l] = [link[l] EXCEPT !.superseded = @ \/ Supersedes(l, p)]
  BY <1>1
<1>6. link'[new] = [email |-> job[p].email, nonce |-> job[p].nonce,
                    expiresAt |-> job[p].now + LinkTtl, consumed |-> FALSE, superseded |-> FALSE,
                    asked |-> job[p].now, metered |-> job[p].flag]
  BY <1>5 DEF NoLink
<1>7. link'[new] \in LinkRow /\ ~link'[new].consumed /\ ~link'[new].superseded
      /\ link'[new].email = job[p].email
  BY <1>4, <1>6 DEF LinkRow, Job, SessionsAssumption
<1>8. ASSUME NEW l \in Links \ {new}
      PROVE  /\ link'[l] \in LinkRow /\ link'[l].consumed = link[l].consumed
             /\ link'[l].email = link[l].email
             /\ link'[l].superseded = (link[l].superseded \/ Supersedes(l, p))
  <2>1. link[l] \in LinkRow
    BY <1>4
  <2>2. PICK s : s = (link[l].superseded \/ Supersedes(l, p))
    OBVIOUS
  <2>3. link'[l] = [link[l] EXCEPT !.superseded = s]
    BY <1>5, <2>2
  <2>4. s \in BOOLEAN
    BY <2>1, <2>2 DEF LinkRow
  <2>5. QED
    BY <2>1, <2>2, <2>3, <2>4 DEF LinkRow
<1>9. link' \in [Links -> LinkRow]
  BY <1>1, <1>7, <1>8
<1>10. RowsOK'
  BY <1>2, <1>3, <1>9, IdleJob DEF IInv, RowsOK
<1>11. OneLiveLink'
  <2>1. OneLiveLink
    BY DEF IInv
  <2>2. \A l \in Links \ {new} : LiveLink(l)' => LiveLink(l) /\ link[l].email # job[p].email
    BY <1>8 DEF LiveLink, Supersedes
  <2>3. \A l \in Links : ~(link'[l].consumed /\ link'[l].superseded)
    BY <1>7, <1>8, <2>1 DEF OneLiveLink, Supersedes, LiveLink
  <2>4. ASSUME NEW l \in Links, NEW m \in Links, LiveLink(l)', LiveLink(m)',
               link'[l].email = link'[m].email
        PROVE  l = m
    BY <1>7, <1>8, <2>1, <2>2, <2>4 DEF OneLiveLink
  <2>5. QED
    BY <2>3, <2>4 DEF OneLiveLink
<1>12. \A l \in Links : link[l].consumed => link'[l].consumed
  <2>1. ~link[new].consumed
    BY <1>1 DEF NoLink
  <2>2. QED
    BY <1>8, <2>1
<1>13. QED
  BY <1>2, <1>3, <1>10, <1>11, <1>12, LinkOnly, IdleJob, IdleWhole

(* A link is spent, if it is live and the device is the one that asked.    *)
LEMMA ConsumeLinkKeeps ==
  ASSUME SessionsAssumption, IInv, NEW p \in Workers, ConsumeLink(p)
  PROVE  IInv'
<1> DEFINE l == job[p].link
<1>1. UNCHANGED <<clock, token>> /\ clock' \in Nat \ {0}
  BY ClockStays DEF ConsumeLink
<1>2. job[p] \in Job /\ JobWhole(job[p]) /\ job[p].at = "consume"
  BY DEF IInv, RowsOK, JobsWhole, ConsumeLink, At
<1>3. l \in Links /\ link[l] \in LinkRow
  BY <1>2 DEF JobWhole, IInv, RowsOK
<1>4. CASE ~Consumable(l, job[p].nonce, job[p].now)
  BY <1>1, <1>4, Ends DEF ConsumeLink
<1>5. CASE Consumable(l, job[p].nonce, job[p].now)
  <2>1. /\ link' = [link EXCEPT ![l].consumed = TRUE]
        /\ job' = [job EXCEPT ![p] = [Idle EXCEPT !.at = "ensure", !.link = l,
                                        !.namespace = link[l].email]]
    BY <1>5 DEF ConsumeLink
  <2>2. PICK k1 : k1 = [Idle EXCEPT !.at = "ensure"]
    OBVIOUS
  <2>3. PICK k2 : k2 = [k1 EXCEPT !.link = l]
    OBVIOUS
  <2>4. PICK j : j = [k2 EXCEPT !.namespace = link[l].email]
    OBVIOUS
  <2>5. job' = [job EXCEPT ![p] = j]
    BY <2>1, <2>2, <2>3, <2>4 DEF Idle
  <2>6. ~link[l].consumed /\ ~link[l].superseded /\ link[l].email # None
    BY <1>5 DEF Consumable, LiveLink
  <2>7. link[l].email \in Namespaces /\ "ensure" \in Steps
    BY <1>3, <2>6 DEF LinkRow, Namespaces, Steps
  <2>8. k1 \in Job /\ k1.at = "ensure"
    BY <2>2, <2>7, AtSet, IdleJob
  <2>9. k2 \in Job /\ k2.at = "ensure" /\ k2.link = l
    BY <1>3, <2>3, <2>8, LinkSet
  <2>10. j \in Job /\ j.at = "ensure" /\ j.link = l /\ j.namespace = link[l].email
    BY <2>4, <2>7, <2>9, NamespaceSet
  <2>11. JobWhole(j) /\ ~Mints(j)
    BY <2>6, <2>10 DEF JobWhole, Mints
  <2>12. PICK r : r = [link[l] EXCEPT !.consumed = TRUE]
    OBVIOUS
  <2>13. /\ r \in LinkRow /\ r.consumed /\ r.superseded = link[l].superseded
         /\ r.email = link[l].email
    BY <1>3, <2>12 DEF LinkRow
  <2>14. link' = [link EXCEPT ![l] = r]
    BY <2>1, <2>12
  <2>15. link'[l] = r /\ \A m \in Links : m # l => link'[m] = link[m]
    BY <1>3, <2>14 DEF IInv, RowsOK
  <2>16. link' \in [Links -> LinkRow]
    BY <1>3, <2>13, <2>14 DEF IInv, RowsOK
  <2>17. RowsOK'
    BY <1>1, <2>5, <2>10, <2>16 DEF IInv, RowsOK
  <2>18. OneLiveLink'
    <3>1. \A m \in Links : LiveLink(m)' => LiveLink(m) /\ link'[m] = link[m]
      BY <2>13, <2>15 DEF LiveLink
    <3>2. \A m \in Links : ~(link'[m].consumed /\ link'[m].superseded)
      BY <2>6, <2>13, <2>15 DEF IInv, OneLiveLink
    <3>3. QED
      BY <3>1, <3>2 DEF IInv, OneLiveLink
  <2>19. \A m \in Links : link[m].consumed => link'[m].consumed
    BY <2>13, <2>15
  <2>20. QED
    BY <1>1, <1>3, <2>5, <2>6, <2>10, <2>11, <2>13, <2>15, <2>17, <2>18, <2>19, LinkOnly
<1>6. QED
  BY <1>4, <1>5

-----------------------------------------------------------------------------
(* A token's record with one field changed: it is revoked.                 *)
LEMMA RevokedSet ==
  ASSUME NEW r \in TokenRow, NEW x \in BOOLEAN, NEW k, k = [r EXCEPT !.revoked = x]
  PROVE  /\ k \in TokenRow /\ k.namespace = r.namespace /\ k.root = r.root /\ k.link = r.link
         /\ k.raced = r.raced /\ k.consumedAt = r.consumedAt /\ k.revoked = x
BY DEF TokenRow

(* It is consumed.                                                         *)
LEMMA ConsumedSet ==
  ASSUME NEW r \in TokenRow, NEW x \in Nat, NEW k, k = [r EXCEPT !.consumedAt = x]
  PROVE  /\ k \in TokenRow /\ k.namespace = r.namespace /\ k.root = r.root /\ k.link = r.link
         /\ k.raced = r.raced /\ k.consumedAt = x /\ k.revoked = r.revoked
BY DEF TokenRow

(* Its successor is named.                                                 *)
LEMMA ReplacedSet ==
  ASSUME NEW r \in TokenRow, NEW x \in Tokens, NEW k, k = [r EXCEPT !.replacedBy = x]
  PROVE  /\ k \in TokenRow /\ k.namespace = r.namespace /\ k.root = r.root /\ k.link = r.link
         /\ k.raced = r.raced /\ k.consumedAt = r.consumedAt /\ k.revoked = r.revoked
BY DEF TokenRow

(* What tokens may become without one being minted: rows keep what they belong to, and
   what cannot be used stays so.                                           *)
Aged ==
  \A t \in Tokens :
    /\ token'[t].namespace = token[t].namespace /\ token'[t].root = token[t].root
    /\ token'[t].link = token[t].link /\ token'[t].raced = token[t].raced
    /\ LiveToken(t)' => LiveToken(t)
    /\ token[t].namespace = None => token'[t] = token[t]

(* Then rows stay whole and links stay spent.                              *)
LEMMA AgedKeeps ==
  ASSUME IInv, Aged, UNCHANGED link, RowsOK',
         \A q \in Workers : Holds(job'[q]) => Holds(job[q]) /\ job'[q].link = job[q].link
  PROVE  TokensWhole' /\ OneLiveLink' /\ LinksSpent'
<1>1. TokensWhole'
  <2>1. ASSUME NEW t \in Tokens
        PROVE  IF token'[t].namespace = None THEN token'[t] = NoToken
               ELSE token'[t].root \in Tokens
                    /\ token'[token'[t].root].namespace = token'[t].namespace
    <3>1. /\ token[t].namespace = None => token[t] = NoToken
          /\ token[t].namespace # None =>
               token[t].root \in Tokens /\ token[token[t].root].namespace = token[t].namespace
      BY DEF IInv, TokensWhole
    <3>2. QED
      BY <3>1 DEF Aged
  <2>2. QED
    BY <2>1 DEF TokensWhole
<1>2. OneLiveLink'
  BY DEF IInv, OneLiveLink, LiveLink
<1>3. LinksSpent'
  BY DEF IInv, LinksSpent, Aged
<1>4. QED
  BY <1>1, <1>2, <1>3

(* A rotation names its token as replaced.                                 *)
LEMMA MarkReplacedKeeps ==
  ASSUME SessionsAssumption, IInv, NEW p \in Workers, MarkReplaced(p)
  PROVE  IInv'
<1> DEFINE t == job[p].token
<1>1. UNCHANGED <<clock, link>> /\ clock' \in Nat \ {0} /\ job' = [job EXCEPT ![p] = Idle]
  BY ClockStays DEF MarkReplaced, Finish
<1>2. job[p] \in Job /\ JobWhole(job[p]) /\ job[p].at = "replaced"
  BY DEF IInv, RowsOK, JobsWhole, MarkReplaced, At
<1>3. t \in Tokens /\ job[p].new \in Tokens /\ token[t].namespace # None
  BY <1>2 DEF JobWhole
<1>4. token[t] \in TokenRow /\ token \in [Tokens -> TokenRow] /\ job \in [Workers -> Job]
  BY <1>3 DEF IInv, RowsOK
<1>5. PICK r : r = [token[t] EXCEPT !.replacedBy = job[p].new]
  OBVIOUS
<1>6. token' = [token EXCEPT ![t] = r]
  BY <1>5 DEF MarkReplaced
<1>7. /\ r \in TokenRow /\ r.namespace = token[t].namespace /\ r.root = token[t].root
      /\ r.link = token[t].link /\ r.raced = token[t].raced
      /\ r.consumedAt = token[t].consumedAt /\ r.revoked = token[t].revoked
  BY <1>3, <1>4, <1>5, ReplacedSet
<1>8. token'[t] = r /\ \A u \in Tokens : u # t => token'[u] = token[u]
  BY <1>3, <1>4, <1>6
<1>9. Aged
  BY <1>3, <1>7, <1>8 DEF Aged, LiveToken
<1>10. \A u \in Tokens : token'[u].revoked = token[u].revoked /\ (LiveToken(u)' = LiveToken(u))
  BY <1>7, <1>8 DEF LiveToken
<1>11. job'[p] = Idle /\ \A q \in Workers : q # p => job'[q] = job[q]
  BY <1>1, <1>4
<1>12. RowsOK'
  BY <1>1, <1>3, <1>4, <1>6, <1>7, IdleJob DEF IInv, RowsOK
<1>13. JobsWhole'
  <2>1. ASSUME NEW q \in Workers PROVE JobWhole(job[q])'
    <3>1. JobWhole(job[q]) /\ job[q] \in Job
      BY <1>4 DEF IInv, JobsWhole
    <3>2. CASE q = p
      BY <1>11, <3>2, IdleJob DEF JobWhole, Mints
    <3>3. CASE q # p
      <4>1. job'[q] = job[q]
        BY <1>11, <3>3
      <4>2. QED
        BY <1>9, <3>1, <4>1 DEF JobWhole, Mints, Aged
    <3>4. QED
      BY <3>2, <3>3
  <2>2. QED
    BY <2>1 DEF JobsWhole
<1>14. \A q \in Workers : Holds(job'[q]) => Holds(job[q]) /\ job'[q].link = job[q].link
  BY <1>11, IdleWhole
<1>15. TokensWhole' /\ OneLiveLink' /\ LinksSpent'
  BY <1>1, <1>9, <1>12, <1>14, AgedKeeps
<1>16. \A q \in Workers : Mints(job'[q]) =>
         /\ Mints(job[q]) /\ job'[q] = job[q] /\ job[q].token \in Tokens
         /\ token'[job[q].token].root = token[job[q].token].root
  BY <1>9, <1>11, IdleWhole DEF IInv, JobsWhole, JobWhole, Mints, Aged
<1>17. OneMaker' /\ MintersTold' /\ RevocationEndsLogin'
  BY <1>9, <1>10, <1>16 DEF IInv, OneMaker, MintersTold, RevocationEndsLogin, Root, Aged
<1>18. QED
  BY <1>12, <1>13, <1>15, <1>17 DEF IInv

(* All tokens of a namespace are revoked, and what is minted for it knows.  *)
LEMMA RevokeKeeps ==
  ASSUME SessionsAssumption, IInv, NEW p \in Workers, NEW ns, ns # None,
         token' = RevokeAll(ns), job' = RacedBy(ns, [job EXCEPT ![p] = Idle]),
         UNCHANGED <<clock, link>>
  PROVE  IInv'
<1>1. clock' \in Nat \ {0}
  BY ClockStays
<1>2. token \in [Tokens -> TokenRow] /\ job \in [Workers -> Job]
  BY DEF IInv, RowsOK
<1>3. ASSUME NEW t \in Tokens
      PROVE  /\ token'[t] \in TokenRow
             /\ token'[t].namespace = token[t].namespace /\ token'[t].root = token[t].root
             /\ token'[t].link = token[t].link /\ token'[t].raced = token[t].raced
             /\ token'[t].consumedAt = token[t].consumedAt
             /\ token'[t].revoked = (token[t].revoked \/ token[t].namespace = ns)
             /\ token[t].namespace # ns => token'[t] = token[t]
  <2>1. token[t] \in TokenRow /\ token[t].revoked \in BOOLEAN
    BY <1>2 DEF TokenRow
  <2>2. PICK b : b = (token[t].revoked \/ token[t].namespace = ns)
    OBVIOUS
  <2>3. token'[t] = [token[t] EXCEPT !.revoked = b]
    BY <2>2 DEF RevokeAll
  <2>4. b \in BOOLEAN
    BY <2>1, <2>2
  <2>5. PICK r : r = [token[t] EXCEPT !.revoked = b]
    OBVIOUS
  <2>6. /\ r \in TokenRow /\ r.namespace = token[t].namespace /\ r.root = token[t].root
        /\ r.link = token[t].link /\ r.raced = token[t].raced
        /\ r.consumedAt = token[t].consumedAt /\ r.revoked = b
    BY <2>1, <2>4, <2>5, RevokedSet
  <2>7. ASSUME token[t].namespace # ns PROVE r = token[t]
    <3>1. b = token[t].revoked
      BY <2>1, <2>2, <2>7
    <3>2. QED
      BY <2>1, <2>5, <3>1 DEF TokenRow
  <2>8. QED
    BY <2>2, <2>3, <2>5, <2>6, <2>7
<1>4. ASSUME NEW q \in Workers
      PROVE  /\ job'[q] \in Job
             /\ q = p => job'[q].at = "idle"
             /\ q # p => /\ job'[q].at = job[q].at /\ job'[q].now = job[q].now
                         /\ job'[q].link = job[q].link /\ job'[q].token = job[q].token
                         /\ job'[q].new = job[q].new /\ job'[q].namespace = job[q].namespace
                         /\ job'[q].flag = (job[q].flag \/ (Mints(job[q]) /\ job[q].namespace = ns))
  <2> DEFINE o == [job EXCEPT ![p] = Idle][q]
  <2>1. o = IF q = p THEN Idle ELSE job[q]
    BY <1>2
  <2>2. o \in Job /\ o.flag \in BOOLEAN
    BY <1>2, <2>1, IdleJob DEF Job
  <2>3. PICK b : b = (o.flag \/ (o.at = "remint" /\ o.namespace = ns))
    OBVIOUS
  <2>4. b \in BOOLEAN
    BY <2>2, <2>3
  <2>5. PICK k : k = [o EXCEPT !.flag = b]
    OBVIOUS
  <2>6. job'[q] = k
    BY <2>3, <2>5 DEF RacedBy
  <2>7. /\ k \in Job /\ k.at = o.at /\ k.now = o.now /\ k.link = o.link /\ k.token = o.token
        /\ k.new = o.new /\ k.namespace = o.namespace /\ k.flag = b
    BY <2>2, <2>4, <2>5, FlagSet
  <2>8. CASE q = p
    BY <2>1, <2>6, <2>7, <2>8, IdleJob
  <2>9. CASE q # p
    <3>1. o = job[q]
      BY <2>1, <2>9
    <3>2. b = (job[q].flag \/ (Mints(job[q]) /\ job[q].namespace = ns))
      BY <2>3, <3>1 DEF Mints
    <3>3. QED
      BY <2>6, <2>7, <2>9, <3>1, <3>2
  <2>10. QED
    BY <2>8, <2>9
<1>5. \A q \in Workers : Mints(job'[q]) =>
        q # p /\ Mints(job[q]) /\ job'[q].token = job[q].token
  BY <1>4 DEF Mints
<1>6. \A q \in Workers : Holds(job'[q]) => Holds(job[q]) /\ job'[q].link = job[q].link
  BY <1>4 DEF Holds
<1>7. RowsOK'
  <2>1. token' \in [Tokens -> TokenRow]
    BY <1>3 DEF RevokeAll
  <2>2. job' \in [Workers -> Job]
    BY <1>4 DEF RacedBy
  <2>3. QED
    BY <1>1, <2>1, <2>2 DEF IInv, RowsOK
<1>8. Aged
  BY <1>3 DEF Aged, LiveToken
<1>9. TokensWhole' /\ OneLiveLink' /\ LinksSpent'
  BY <1>6, <1>7, <1>8, AgedKeeps
<1>10. JobsWhole'
  <2>1. ASSUME NEW q \in Workers PROVE JobWhole(job[q])'
    <3>1. JobWhole(job[q])
      BY DEF IInv, JobsWhole
    <3>2. CASE q = p
      BY <1>4, <3>2 DEF JobWhole, Mints
    <3>3. CASE q # p
      <4>1. /\ job'[q].at = job[q].at /\ job'[q].now = job[q].now /\ job'[q].link = job[q].link
            /\ job'[q].token = job[q].token /\ job'[q].new = job[q].new
            /\ job'[q].namespace = job[q].namespace
        BY <1>4, <3>3
      <4>2. job[q].token \in Tokens =>
              token'[job[q].token].namespace = token[job[q].token].namespace
        BY <1>3
      <4>3. QED
        BY <3>1, <4>1, <4>2 DEF JobWhole, Mints
    <3>4. QED
      BY <3>2, <3>3
  <2>2. QED
    BY <2>1 DEF JobsWhole
<1>11. \A q \in Workers : Mints(job[q]) =>
         /\ job[q].token \in Tokens
         /\ token'[job[q].token].root = token[job[q].token].root
         /\ token[job[q].token].namespace = job[q].namespace
  BY <1>3 DEF IInv, JobsWhole, JobWhole, Mints
<1>12. OneMaker'
  <2>1. \A q \in Workers : Mints(job'[q]) => Mints(job[q]) /\ Root(job[q])' = Root(job[q])
    BY <1>5, <1>11 DEF Root
  <2>2. \A t \in Tokens : token'[t].root = token[t].root /\ (LiveToken(t)' => LiveToken(t))
    BY <1>8 DEF Aged
  <2>3. OneMaker
    BY DEF IInv
  <2>4. \A t, u \in Tokens :
          LiveToken(t)' /\ LiveToken(u)' /\ token'[t].root = token'[u].root => t = u
    BY <2>2, <2>3 DEF OneMaker
  <2>5. \A t \in Tokens, q \in Workers :
          LiveToken(t)' /\ Mints(job'[q]) => Root(job[q])' # token'[t].root
    BY <2>1, <2>2, <2>3 DEF OneMaker
  <2>6. \A q, r \in Workers :
          Mints(job'[q]) /\ Mints(job'[r]) /\ Root(job[q])' = Root(job[r])' => q = r
    BY <2>1, <2>3 DEF OneMaker
  <2>7. QED
    BY <2>4, <2>5, <2>6 DEF OneMaker
<1>13. ASSUME NEW t \in Tokens, NEW u \in Tokens, token[t].namespace = ns,
              token[t].root = token[u].root, token[u].namespace # None
       PROVE  token[u].namespace = ns
  BY <1>13 DEF IInv, TokensWhole
<1>14. MintersTold'
  <2>1. ASSUME NEW q \in Workers, NEW t \in Tokens, Mints(job'[q]), token'[t].revoked,
               token'[t].root = Root(job[q])'
        PROVE  job'[q].flag
    <3>1. q # p /\ Mints(job[q]) /\ job'[q].token = job[q].token
      BY <1>5, <2>1
    <3>2. token[t].root = Root(job[q])
      BY <1>3, <1>11, <2>1, <3>1 DEF Root
    <3>3. CASE token[t].revoked
      BY <1>4, <3>1, <3>2, <3>3 DEF IInv, MintersTold
    <3>4. CASE token[t].namespace = ns
      <4>1. token[job[q].token].namespace # None
        BY <3>1 DEF IInv, JobsWhole, JobWhole, Mints
      <4>2. job[q].namespace = ns
        BY <1>11, <1>13, <3>1, <3>2, <3>4, <4>1 DEF Root
      <4>3. QED
        BY <1>4, <3>1, <4>2
    <3>5. QED
      BY <1>3, <2>1, <3>3, <3>4
  <2>2. QED
    BY <2>1 DEF MintersTold
<1>15. RevocationEndsLogin'
  <2>1. ASSUME NEW t \in Tokens, NEW u \in Tokens, token'[t].revoked, LiveToken(u)',
               token'[u].root = token'[t].root
        PROVE  token'[u].raced
    <3>1. LiveToken(u) /\ token[u].root = token[t].root
      BY <1>3, <1>8, <2>1 DEF Aged
    <3>2. token[u].namespace # ns /\ token[u].namespace # None
      BY <1>3, <2>1, <3>1 DEF LiveToken
    <3>3. token[t].namespace # ns
      BY <1>13, <3>1, <3>2
    <3>4. token[t].revoked
      BY <1>3, <2>1, <3>3
    <3>5. QED
      BY <1>3, <3>1, <3>4 DEF IInv, RevocationEndsLogin
  <2>2. QED
    BY <2>1 DEF RevocationEndsLogin
<1>16. QED
  BY <1>7, <1>9, <1>10, <1>12, <1>14, <1>15 DEF IInv

(* A token is consumed by a rotation, which is about to mint the next one.  *)
LEMMA ConsumeTokenKeeps ==
  ASSUME SessionsAssumption, IInv, NEW p \in Workers, At(p, "rotate"),
         Rotatable(job[p].token, job[p].now),
         token' = [token EXCEPT ![job[p].token].consumedAt = job[p].now],
         job' = [job EXCEPT ![p].at = "remint", ![p].flag = token[job[p].token].raced,
                            ![p].namespace = token[job[p].token].namespace],
         UNCHANGED <<clock, link>>
  PROVE  IInv'
<1> DEFINE t == job[p].token
           n == job[p].now
<1>1. clock' \in Nat \ {0}
  BY ClockStays
<1>2. /\ token \in [Tokens -> TokenRow] /\ job \in [Workers -> Job]
      /\ job[p] \in Job /\ JobWhole(job[p]) /\ job[p].at = "rotate"
  BY DEF IInv, RowsOK, JobsWhole, At
<1>3. t \in Tokens /\ token[t].namespace # None /\ n # 0 /\ n \in Nat /\ job[p].link = None
  BY <1>2 DEF JobWhole, Job
<1>4. token[t] \in TokenRow
  BY <1>2, <1>3
<1>5. LiveToken(t)
  BY DEF Rotatable
<1>6. PICK r : r = [token[t] EXCEPT !.consumedAt = n]
  OBVIOUS
<1>7. token' = [token EXCEPT ![t] = r]
  BY <1>6
<1>8. /\ r \in TokenRow /\ r.namespace = token[t].namespace /\ r.root = token[t].root
      /\ r.link = token[t].link /\ r.raced = token[t].raced
      /\ r.consumedAt = n /\ r.revoked = token[t].revoked
  BY <1>3, <1>4, <1>6, ConsumedSet
<1>9. token'[t] = r /\ \A u \in Tokens : u # t => token'[u] = token[u]
  BY <1>2, <1>3, <1>7
<1>10. PICK k1 : k1 = [job[p] EXCEPT !.at = "remint"]
  OBVIOUS
<1>11. PICK k2 : k2 = [k1 EXCEPT !.flag = token[t].raced]
  OBVIOUS
<1>12. PICK j : j = [k2 EXCEPT !.namespace = token[t].namespace]
  OBVIOUS
<1>13. job' = [job EXCEPT ![p] = j]
  BY <1>2, <1>10, <1>11, <1>12
<1>14. "remint" \in Steps /\ token[t].raced \in BOOLEAN /\ token[t].namespace \in Namespaces
  BY <1>3, <1>4 DEF Steps, TokenRow
<1>15. k1 \in Job /\ k1.at = "remint" /\ k1.link = None /\ k1.token = t
  BY <1>2, <1>3, <1>10, <1>14, AtSet
<1>16. k2 \in Job /\ k2.at = "remint" /\ k2.link = None /\ k2.token = t
       /\ k2.flag = token[t].raced
  BY <1>11, <1>14, <1>15, FlagSet
<1>17. j \in Job /\ j.at = "remint" /\ j.link = None /\ j.token = t
       /\ j.flag = token[t].raced /\ j.namespace = token[t].namespace
  BY <1>12, <1>14, <1>16, NamespaceSet
<1>18. job'[p] = j /\ \A q \in Workers : q # p => job'[q] = job[q]
  BY <1>2, <1>13
<1>19. Aged
  BY <1>3, <1>8, <1>9 DEF Aged, LiveToken
<1>20. RowsOK'
  <2>1. token' \in [Tokens -> TokenRow]
    BY <1>2, <1>3, <1>7, <1>8
  <2>2. job' \in [Workers -> Job]
    BY <1>2, <1>13, <1>17
  <2>3. link' \in [Links -> LinkRow]
    BY DEF IInv, RowsOK
  <2>4. QED
    BY <1>1, <2>1, <2>2, <2>3 DEF RowsOK
<1>21. JobsWhole'
  <2>1. ASSUME NEW q \in Workers PROVE JobWhole(job[q])'
    <3>1. JobWhole(job[q])
      BY DEF IInv, JobsWhole
    <3>2. CASE q = p
      <4>1. /\ job'[q].at = "remint" /\ job'[q].link = None /\ job'[q].token = t
            /\ job'[q].namespace = token[t].namespace
        BY <1>17, <1>18, <3>2
      <4>2. token'[t].namespace = token[t].namespace
        BY <1>8, <1>9
      <4>3. QED
        BY <1>3, <4>1, <4>2 DEF JobWhole, Mints
    <3>3. CASE q # p
      <4>1. job'[q] = job[q]
        BY <1>18, <3>3
      <4>2. job[q].token \in Tokens =>
              token'[job[q].token].namespace = token[job[q].token].namespace
        BY <1>19 DEF Aged
      <4>3. QED
        BY <3>1, <4>1, <4>2 DEF JobWhole, Mints
    <3>4. QED
      BY <3>2, <3>3
  <2>2. QED
    BY <2>1 DEF JobsWhole
<1>22. \A q \in Workers : Holds(job'[q]) => Holds(job[q]) /\ job'[q].link = job[q].link
  BY <1>17, <1>18 DEF Holds
<1>23. TokensWhole' /\ OneLiveLink' /\ LinksSpent'
  BY <1>19, <1>20, <1>22, AgedKeeps
<1>24. \A u \in Tokens : /\ token'[u].root = token[u].root /\ token'[u].revoked = token[u].revoked
                         /\ token'[u].raced = token[u].raced
                         /\ LiveToken(u)' => LiveToken(u) /\ u # t
  BY <1>3, <1>8, <1>9 DEF LiveToken
<1>25. \A q \in Workers : Mints(job'[q]) =>
         IF q = p THEN Root(job[q])' = token[t].root
         ELSE Mints(job[q]) /\ Root(job[q])' = Root(job[q])
  <2>1. Root(job[p])' = token[t].root
    BY <1>3, <1>17, <1>18, <1>24 DEF Root
  <2>2. ASSUME NEW q \in Workers, q # p, Mints(job'[q])
        PROVE  Mints(job[q]) /\ Root(job[q])' = Root(job[q])
    <3>1. job'[q] = job[q] /\ JobWhole(job[q])
      BY <1>18, <2>2 DEF IInv, JobsWhole
    <3>2. Mints(job[q]) /\ job[q].token \in Tokens
      BY <2>2, <3>1 DEF JobWhole, Mints
    <3>3. QED
      BY <1>24, <3>1, <3>2 DEF Root
  <2>3. QED
    BY <2>1, <2>2
<1>26. OneMaker
  BY DEF IInv
<1>27. OneMaker'
  <2>1. \A u, v \in Tokens :
          LiveToken(u)' /\ LiveToken(v)' /\ token'[u].root = token'[v].root => u = v
    BY <1>24, <1>26 DEF OneMaker
  <2>2. \A u \in Tokens, q \in Workers :
          LiveToken(u)' /\ Mints(job'[q]) => Root(job[q])' # token'[u].root
    <3>1. ASSUME NEW u \in Tokens, NEW q \in Workers, LiveToken(u)', Mints(job'[q])
          PROVE  Root(job[q])' # token'[u].root
      <4>1. LiveToken(u) /\ u # t /\ token'[u].root = token[u].root
        BY <1>24, <3>1
      <4>2. CASE q = p
        BY <1>3, <1>5, <1>25, <1>26, <3>1, <4>1, <4>2 DEF OneMaker
      <4>3. CASE q # p
        BY <1>25, <1>26, <3>1, <4>1, <4>3 DEF OneMaker
      <4>4. QED
        BY <4>2, <4>3
    <3>2. QED
      BY <3>1
  <2>3. \A q, s \in Workers :
          Mints(job'[q]) /\ Mints(job'[s]) /\ Root(job[q])' = Root(job[s])' => q = s
    BY <1>3, <1>5, <1>25, <1>26 DEF OneMaker
  <2>4. QED
    BY <2>1, <2>2, <2>3 DEF OneMaker
<1>28. MintersTold'
  <2>1. ASSUME NEW q \in Workers, NEW u \in Tokens, Mints(job'[q]), token'[u].revoked,
               token'[u].root = Root(job[q])'
        PROVE  job'[q].flag
    <3>1. token[u].revoked
      BY <1>24, <2>1
    <3>2. CASE q = p
      <4>1. token[u].root = token[t].root
        BY <1>24, <1>25, <2>1, <3>2
      <4>2. token[t].raced
        BY <1>3, <1>5, <3>1, <4>1 DEF IInv, RevocationEndsLogin
      <4>3. QED
        BY <1>17, <1>18, <3>2, <4>2
    <3>3. CASE q # p
      <4>1. Mints(job[q]) /\ token[u].root = Root(job[q])
        BY <1>24, <1>25, <2>1, <3>3
      <4>2. job[q].flag
        BY <3>1, <4>1 DEF IInv, MintersTold
      <4>3. QED
        BY <1>18, <3>3, <4>2
    <3>4. QED
      BY <3>2, <3>3
  <2>2. QED
    BY <2>1 DEF MintersTold
<1>29. RevocationEndsLogin'
  BY <1>24 DEF IInv, RevocationEndsLogin
<1>30. QED
  BY <1>20, <1>21, <1>23, <1>27, <1>28, <1>29 DEF IInv

(* A token shown is consumed, revokes its namespace, or is refused.        *)
LEMMA RotateConsumeKeeps ==
  ASSUME SessionsAssumption, IInv, NEW p \in Workers, RotateConsume(p)
  PROVE  IInv'
<1> DEFINE t == job[p].token
           n == job[p].now
<1>1. JobWhole(job[p]) /\ At(p, "rotate") /\ UNCHANGED <<clock, link>>
  BY DEF IInv, JobsWhole, RotateConsume
<1>2. t \in Tokens /\ token[t].namespace # None
  BY <1>1 DEF JobWhole, At
<1>3. CASE Rotatable(t, n)
  <2>1. /\ token' = [token EXCEPT ![t].consumedAt = n]
        /\ job' = [job EXCEPT ![p].at = "remint", ![p].flag = token[t].raced,
                              ![p].namespace = token[t].namespace]
    BY <1>3 DEF RotateConsume
  <2>2. QED
    BY <1>1, <1>3, <2>1, ConsumeTokenKeeps
<1>4. CASE ~Rotatable(t, n) /\ Replayed(t, n)
  <2>1. /\ token' = RevokeAll(token[t].namespace)
        /\ job' = RacedBy(token[t].namespace, [job EXCEPT ![p] = Idle])
    BY <1>4 DEF RotateConsume
  <2>2. QED
    BY <1>1, <1>2, <2>1, RevokeKeeps
<1>5. CASE ~Rotatable(t, n) /\ ~Replayed(t, n)
  <2>1. Finish(p) /\ UNCHANGED <<link, token>>
    BY <1>5 DEF RotateConsume
  <2>2. QED
    BY <1>1, <2>1, Ends, ClockStays
<1>6. QED
  BY <1>3, <1>4, <1>5

(* A logout revokes its namespace.                                         *)
LEMMA RevokeNamespaceKeeps ==
  ASSUME SessionsAssumption, IInv, NEW p \in Workers, RevokeNamespace(p)
  PROVE  IInv'
<1>1. JobWhole(job[p]) /\ job[p].at = "revoke"
  BY DEF IInv, JobsWhole, RevokeNamespace, At
<1>2. job[p].namespace # None
  BY <1>1 DEF JobWhole
<1>3. /\ token' = RevokeAll(job[p].namespace) /\ UNCHANGED <<clock, link>>
      /\ job' = RacedBy(job[p].namespace, [job EXCEPT ![p] = Idle])
  BY DEF RevokeNamespace
<1>4. QED
  BY <1>2, <1>3, RevokeKeeps
-----------------------------------------------------------------------------
(* A token's row as it is minted.                                          *)
LEMMA MintedRow ==
  ASSUME SessionsAssumption, IInv, NEW p \in Workers, NEW root \in Tokens, NEW new \in Tokens,
         NEW r, r = Minted(p, root, new)
  PROVE  /\ r \in TokenRow /\ r.namespace = job[p].namespace /\ r.root = root
         /\ r.link = job[p].link /\ r.raced = job[p].flag /\ r.consumedAt = 0 /\ ~r.revoked
<1>1. job[p] \in Job /\ TokenTtl \in Nat
  BY DEF IInv, RowsOK, SessionsAssumption
<1>2. r = [namespace |-> job[p].namespace, expiresAt |-> job[p].now + TokenTtl,
           consumedAt |-> 0, revoked |-> FALSE, replacedBy |-> None, root |-> root,
           link |-> job[p].link, raced |-> job[p].flag]
  BY DEF Minted, NoToken
<1>3. QED
  BY <1>1, <1>2 DEF TokenRow, Job

(* A token is minted: the first of a login, which alone bears the login's link, or the
   next one of a rotation, which then no longer mints.                     *)
LEMMA MintKeeps ==
  ASSUME SessionsAssumption, IInv, NEW p \in Workers, NEW new \in Tokens, NEW r \in TokenRow,
         NEW j \in Job, token[new] = NoToken,
         token' = [token EXCEPT ![new] = r], job' = [job EXCEPT ![p] = j],
         UNCHANGED <<clock, link>>, r.namespace # None, r.root \in Tokens,
         \/ r.root = new
         \/ /\ Mints(job[p]) /\ r.root = Root(job[p]) /\ r.raced = job[p].flag
            /\ token[r.root].namespace = r.namespace,
         ~r.revoked, r.link # None => Holds(job[p]) /\ r.link = job[p].link,
         ~Mints(j), ~Holds(j), JobWhole(j)'
  PROVE  IInv'
<1>1. clock' \in Nat \ {0}
  BY ClockStays
<1>2. token \in [Tokens -> TokenRow] /\ job \in [Workers -> Job]
  BY DEF IInv, RowsOK
<1>3. token'[new] = r /\ \A u \in Tokens : u # new => token'[u] = token[u]
  BY <1>2
<1>4. job'[p] = j /\ \A q \in Workers : q # p => job'[q] = job[q]
  BY <1>2
<1>5. /\ token[new].namespace = None /\ token[new].root = None /\ ~token[new].revoked
      /\ token[new].link = None /\ ~LiveToken(new)
  BY DEF NoToken, LiveToken
<1>6. \A u \in Tokens : token[u].namespace # None =>
        u # new /\ token[u].root \in Tokens \ {new}
        /\ token[token[u].root].namespace = token[u].namespace
  BY <1>5 DEF IInv, TokensWhole
<1>7. \A u \in Tokens : token[u].revoked \/ LiveToken(u) => token[u].namespace # None
  BY DEF IInv, TokensWhole, NoToken, LiveToken
<1>8. \A q \in Workers : Mints(job[q]) =>
        /\ job[q].token \in Tokens \ {new} /\ Root(job[q]) \in Tokens \ {new}
        /\ token[job[q].token].namespace # None
  BY <1>5, <1>6 DEF IInv, JobsWhole, JobWhole, Mints, Root
<1>9. \A q \in Workers : Mints(job'[q]) =>
        q # p /\ Mints(job[q]) /\ job'[q] = job[q] /\ Root(job[q])' = Root(job[q])
  BY <1>3, <1>4, <1>8 DEF Root
<1>10. \A q \in Workers : Holds(job'[q]) => q # p /\ Holds(job[q]) /\ job'[q] = job[q]
  BY <1>4
<1>11. RowsOK'
  <2>1. token' \in [Tokens -> TokenRow] /\ job' \in [Workers -> Job]
    BY <1>2
  <2>2. link' \in [Links -> LinkRow]
    BY DEF IInv, RowsOK
  <2>3. QED
    BY <1>1, <2>1, <2>2 DEF RowsOK
<1>12. JobsWhole'
  <2>1. ASSUME NEW q \in Workers PROVE JobWhole(job[q])'
    <3>1. JobWhole(job[q])
      BY DEF IInv, JobsWhole
    <3>2. CASE q = p
      BY <1>4, <3>2 DEF JobWhole, Mints
    <3>3. CASE q # p
      <4>1. job'[q] = job[q]
        BY <1>4, <3>3
      <4>2. job[q].token \in Tokens /\ token[job[q].token].namespace # None =>
              token'[job[q].token] = token[job[q].token]
        BY <1>3, <1>5
      <4>3. QED
        BY <3>1, <4>1, <4>2 DEF JobWhole, Mints
    <3>4. QED
      BY <3>2, <3>3
  <2>2. QED
    BY <2>1 DEF JobsWhole
<1>13. TokensWhole'
  <2>1. ASSUME NEW u \in Tokens
        PROVE  IF token'[u].namespace = None THEN token'[u] = NoToken
               ELSE token'[u].root \in Tokens
                    /\ token'[token'[u].root].namespace = token'[u].namespace
    <3>1. CASE u = new
      <4>1. token'[u] = r
        BY <1>3, <3>1
      <4>2. token'[r.root].namespace = r.namespace
        BY <1>3, <1>5
      <4>3. QED
        BY <4>1, <4>2
    <3>2. CASE u # new
      <4>1. token'[u] = token[u]
        BY <1>3, <3>2
      <4>2. CASE token[u].namespace = None
        BY <4>1, <4>2 DEF IInv, TokensWhole
      <4>3. CASE token[u].namespace # None
        BY <1>3, <1>6, <4>1, <4>3
      <4>4. QED
        BY <4>2, <4>3
    <3>3. QED
      BY <3>1, <3>2
  <2>2. QED
    BY <2>1 DEF TokensWhole
<1>14. OneLiveLink'
  BY DEF IInv, OneLiveLink, LiveLink
<1>15. LinksSpent'
  <2>1. LinksSpent
    BY DEF IInv
  <2>2. \A u \in Tokens : token'[u].link # None =>
          IF u = new THEN Holds(job[p]) /\ token'[u].link = job[p].link
          ELSE token'[u] = token[u]
    BY <1>3
  <2>3. \A q \in Workers : Holds(job'[q]) => link'[job'[q].link].consumed
    BY <1>10, <2>1 DEF LinksSpent
  <2>4. \A u \in Tokens : token'[u].link # None => link'[token'[u].link].consumed
    BY <2>1, <2>2 DEF LinksSpent
  <2>5. \A q, s \in Workers : Holds(job'[q]) /\ Holds(job'[s]) /\ job'[q].link = job'[s].link => q = s
    BY <1>10, <2>1 DEF LinksSpent
  <2>6. ASSUME NEW q \in Workers, NEW u \in Tokens, Holds(job'[q])
        PROVE  token'[u].link # job'[q].link
    <3>1. q # p /\ Holds(job[q]) /\ job'[q] = job[q] /\ job[q].link # None
      BY <1>10, <2>6 DEF Holds
    <3>2. QED
      BY <2>1, <2>2, <3>1 DEF LinksSpent
  <2>7. ASSUME NEW u \in Tokens, NEW v \in Tokens, token'[u].link # None,
               token'[u].link = token'[v].link
        PROVE  u = v
    BY <2>1, <2>2, <2>7 DEF LinksSpent
  <2>8. QED
    BY <2>3, <2>4, <2>5, <2>6, <2>7 DEF LinksSpent
<1>16. \A u \in Tokens : u # new =>
         token'[u] = token[u] /\ (LiveToken(u)' = LiveToken(u))
  BY <1>3 DEF LiveToken
<1>17. OneMaker
  BY DEF IInv
<1>18. ASSUME NEW u \in Tokens, u # new, LiveToken(u)
       PROVE  token[u].root # r.root
  <2>1. CASE r.root = new
    BY <1>6, <1>7, <1>18, <2>1
  <2>2. CASE Mints(job[p]) /\ r.root = Root(job[p])
    BY <1>17, <1>18, <2>2 DEF OneMaker
  <2>3. QED
    BY <2>1, <2>2
<1>19. ASSUME NEW q \in Workers, q # p, Mints(job[q])
       PROVE  Root(job[q]) # r.root
  <2>1. CASE r.root = new
    BY <1>8, <1>19, <2>1
  <2>2. CASE Mints(job[p]) /\ r.root = Root(job[p])
    BY <1>17, <1>19, <2>2 DEF OneMaker
  <2>3. QED
    BY <2>1, <2>2
<1>20. OneMaker'
  <2>1. ASSUME NEW u \in Tokens, NEW v \in Tokens, LiveToken(u)', LiveToken(v)',
               token'[u].root = token'[v].root
        PROVE  u = v
    <3>1. CASE u # new /\ v # new
      BY <1>16, <1>17, <2>1, <3>1 DEF OneMaker
    <3>2. CASE u = new /\ v # new
      BY <1>3, <1>16, <1>18, <2>1, <3>2
    <3>3. CASE u # new /\ v = new
      BY <1>3, <1>16, <1>18, <2>1, <3>3
    <3>4. QED
      BY <3>1, <3>2, <3>3
  <2>2. ASSUME NEW u \in Tokens, NEW q \in Workers, LiveToken(u)', Mints(job'[q])
        PROVE  Root(job[q])' # token'[u].root
    <3>1. q # p /\ Mints(job[q]) /\ Root(job[q])' = Root(job[q])
      BY <1>9, <2>2
    <3>2. CASE u = new
      BY <1>3, <1>19, <3>1, <3>2
    <3>3. CASE u # new
      BY <1>16, <1>17, <2>2, <3>1, <3>3 DEF OneMaker
    <3>4. QED
      BY <3>2, <3>3
  <2>3. \A q, s \in Workers :
          Mints(job'[q]) /\ Mints(job'[s]) /\ Root(job[q])' = Root(job[s])' => q = s
    BY <1>9, <1>17 DEF OneMaker
  <2>4. QED
    BY <2>1, <2>2, <2>3 DEF OneMaker
<1>21. \A u \in Tokens : token'[u].revoked => u # new /\ token[u].revoked /\ token'[u] = token[u]
  BY <1>3
<1>22. MintersTold'
  BY <1>9, <1>21 DEF IInv, MintersTold
<1>23. RevocationEndsLogin'
  <2>1. ASSUME NEW u \in Tokens, NEW v \in Tokens, token'[u].revoked, LiveToken(v)',
               token'[v].root = token'[u].root
        PROVE  token'[v].raced
    <3>1. u # new /\ token[u].revoked /\ token'[u] = token[u]
      BY <1>21, <2>1
    <3>2. CASE v # new
      BY <1>16, <2>1, <3>1, <3>2 DEF IInv, RevocationEndsLogin
    <3>3. CASE v = new
      <4>1. token'[v] = r /\ token[u].root = r.root
        BY <1>3, <2>1, <3>1, <3>3
      <4>2. r.root # new
        BY <1>6, <1>7, <3>1, <4>1
      <4>3. job[p].flag
        BY <3>1, <4>1, <4>2 DEF IInv, MintersTold
      <4>4. QED
        BY <4>1, <4>2, <4>3
    <3>4. QED
      BY <3>2, <3>3
  <2>2. QED
    BY <2>1 DEF RevocationEndsLogin
<1>24. QED
  BY <1>11, <1>12, <1>13, <1>14, <1>15, <1>20, <1>22, <1>23 DEF IInv

(* The first token of a login.                                             *)
LEMMA MintFirstKeeps ==
  ASSUME SessionsAssumption, IInv, NEW p \in Workers, MintFirst(p)
  PROVE  IInv'
<1>1. PICK new \in Tokens :
        /\ job[p].at = "mint" /\ token[new] = NoToken
        /\ token' = [token EXCEPT ![new] = Minted(p, new, new)]
        /\ job' = [job EXCEPT ![p] = Idle] /\ UNCHANGED <<clock, link>>
  BY DEF MintFirst, At, Finish
<1>2. PICK r : r = Minted(p, new, new)
  OBVIOUS
<1>3. /\ r \in TokenRow /\ r.namespace = job[p].namespace /\ r.root = new
      /\ r.link = job[p].link /\ ~r.revoked
  BY <1>2, MintedRow
<1>4. JobWhole(job[p])
  BY DEF IInv, JobsWhole
<1>5. r.namespace # None /\ (r.link # None => Holds(job[p]))
  BY <1>1, <1>3, <1>4 DEF JobWhole, Holds
<1>6. JobWhole(Idle)'
  BY IdleJob DEF JobWhole, Mints, Idle
<1>7. token' = [token EXCEPT ![new] = r]
  BY <1>1, <1>2
<1>8. QED
  BY <1>1, <1>3, <1>5, <1>6, <1>7, IdleJob, IdleWhole, MintKeeps

(* The next token of a rotation.                                           *)
LEMMA MintNextKeeps ==
  ASSUME SessionsAssumption, IInv, NEW p \in Workers, MintNext(p)
  PROVE  IInv'
<1> DEFINE t == job[p].token
<1>1. PICK new \in Tokens :
        /\ job[p].at = "remint" /\ token[new] = NoToken
        /\ token' = [token EXCEPT ![new] = Minted(p, token[t].root, new)]
        /\ job' = [job EXCEPT ![p].at = "replaced", ![p].new = new]
        /\ UNCHANGED <<clock, link>>
  BY DEF MintNext, At
<1>2. JobWhole(job[p]) /\ job[p] \in Job /\ job \in [Workers -> Job] /\ Mints(job[p])
  BY <1>1 DEF IInv, RowsOK, JobsWhole, Mints
<1>3. /\ t \in Tokens /\ token[t].namespace # None /\ job[p].namespace # None
      /\ job[p].link = None /\ token[t].namespace = job[p].namespace
  BY <1>1, <1>2 DEF JobWhole
<1>4. /\ token[t].root \in Tokens
      /\ token[token[t].root].namespace = token[t].namespace
  BY <1>3 DEF IInv, TokensWhole
<1>5. PICK r : r = Minted(p, token[t].root, new)
  OBVIOUS
<1>6. /\ r \in TokenRow /\ r.namespace = job[p].namespace /\ r.root = token[t].root
      /\ r.link = None /\ r.raced = job[p].flag /\ ~r.revoked
  BY <1>3, <1>4, <1>5, MintedRow
<1>7. token' = [token EXCEPT ![new] = r]
  BY <1>1, <1>5
<1>8. PICK k : k = [job[p] EXCEPT !.at = "replaced"]
  OBVIOUS
<1>9. PICK j : j = [k EXCEPT !.new = new]
  OBVIOUS
<1>10. job' = [job EXCEPT ![p] = j]
  BY <1>1, <1>2, <1>8, <1>9
<1>11. "replaced" \in Steps
  BY DEF Steps
<1>12. /\ k \in Job /\ k.at = "replaced" /\ k.link = None /\ k.token = t
       /\ k.namespace = job[p].namespace
  BY <1>2, <1>3, <1>8, <1>11, AtSet
<1>13. /\ j \in Job /\ j.at = "replaced" /\ j.link = None /\ j.token = t /\ j.new = new
       /\ j.namespace = job[p].namespace
  BY <1>9, <1>12, NewSet
<1>14. t # new /\ token'[t] = token[t]
  <2>1. token[new].namespace = None
    BY <1>1 DEF NoToken
  <2>2. t # new
    BY <1>3, <2>1
  <2>3. QED
    BY <1>3, <1>7, <2>2 DEF IInv, RowsOK
<1>15. JobWhole(j)' /\ ~Mints(j) /\ ~Holds(j)
  BY <1>3, <1>13, <1>14 DEF JobWhole, Mints, Holds
<1>16. r.root = Root(job[p]) /\ token[r.root].namespace = r.namespace
  BY <1>3, <1>4, <1>6 DEF Root
<1>17. QED
  BY <1>1, <1>2, <1>3, <1>4, <1>6, <1>7, <1>10, <1>13, <1>15, <1>16, MintKeeps

-----------------------------------------------------------------------------
(* It holds of the initial states.                                         *)
LEMMA InitIInv ==
  ASSUME SessionsAssumption, Init
  PROVE  IInv
<1>1. /\ \A l \in Links : link[l] = NoLink
      /\ \A t \in Tokens : token[t] = NoToken
      /\ \A p \in Workers : job[p] = Idle
  BY DEF Init
<1>2. /\ NoLink \in LinkRow /\ NoLink.email = None /\ ~NoLink.consumed
      /\ NoToken \in TokenRow /\ NoToken.namespace = None /\ NoToken.link = None
      /\ ~NoToken.revoked
  BY DEF NoLink, LinkRow, NoToken, TokenRow
<1>3. RowsOK
  BY <1>2, IdleJob DEF Init, RowsOK
<1>4. JobsWhole
  BY <1>1, IdleWhole DEF JobsWhole
<1>5. TokensWhole
  BY <1>1, <1>2 DEF TokensWhole
<1>6. OneLiveLink
  BY <1>1, <1>2 DEF OneLiveLink, LiveLink
<1>7. LinksSpent
  BY <1>1, <1>2, IdleWhole DEF LinksSpent
<1>8. OneMaker /\ MintersTold /\ RevocationEndsLogin
  BY <1>1, <1>2, IdleWhole DEF OneMaker, MintersTold, RevocationEndsLogin, LiveToken
<1>9. QED
  BY <1>3, <1>4, <1>5, <1>6, <1>7, <1>8 DEF IInv

(* Every step keeps it.                                                    *)
LEMMA NextKeeps ==
  ASSUME SessionsAssumption, IInv, [Next]_vars
  PROVE  IInv'
<1>1. CASE Tick
  <2>1. UNCHANGED <<link, token, job>> /\ clock' \in Nat \ {0}
    BY <1>1 DEF Tick, IInv, RowsOK
  <2>2. QED
    BY <2>1, Still
<1>2. ASSUME NEW p \in Workers, Throws(p)
      PROVE  IInv'
  BY <1>2, Ends, ClockStays DEF Throws
<1>3. CASE UNCHANGED vars
  BY <1>3, Still, ClockStays DEF vars
<1>4. CASE \E p \in Workers : Throws(p)
  BY <1>2, <1>4
<1>5. QED
  BY <1>1, <1>3, <1>4, AskLinkKeeps, IssueLinkKeeps, UseLinkKeeps, ConsumeLinkKeeps, OpenKeeps,
     EnterKeeps, MintFirstKeeps, ShowKeeps, RotateConsumeKeeps, MintNextKeeps, MarkReplacedKeeps,
     RevokeNamespaceKeeps DEF Next

(* Rows, requests and logins stay together, whatever the requests and wherever they
   fail.                                                                   *)
THEOREM Invariance ==
  ASSUME SessionsAssumption
  PROVE  Spec => []IInv
<1>1. Init => IInv
  BY InitIInv
<1>2. IInv /\ [Next]_vars => IInv'
  BY NextKeeps
<1>3. QED
  BY <1>1, <1>2, PTL DEF Spec

(* One link of an address can be used, and none is both used and superseded.  *)
THEOREM OneLink ==
  ASSUME SessionsAssumption
  PROVE  Spec => []OneLiveLink
<1>1. IInv => OneLiveLink
  BY DEF IInv
<1>2. QED
  BY <1>1, Invariance, PTL

(* A link opens one session, whoever shows it and however often (consume).    *)
THEOREM LinkSpentOnce ==
  ASSUME SessionsAssumption
  PROVE  Spec => []LinkOpensOneSession
<1>1. ASSUME IInv, NEW l \in Links
      PROVE  /\ \A p, q \in Using(l) : p = q
             /\ \A t, u \in Opened(l) : t = u
             /\ Using(l) = {} \/ Opened(l) = {}
             /\ Using(l) \cup Opened(l) # {} => link[l].consumed
  <2>1. l # None
    BY DEF SessionsAssumption
  <2>2. \A p \in Using(l) : p \in Workers /\ Holds(job[p]) /\ job[p].link = l
    BY <2>1 DEF Using, Holds
  <2>3. \A t \in Opened(l) : t \in Tokens /\ token[t].link = l
    BY DEF Opened
  <2>4. LinksSpent
    BY <1>1 DEF IInv
  <2>5. \A p, q \in Using(l) : p = q
    BY <2>2, <2>4 DEF LinksSpent
  <2>6. \A t, u \in Opened(l) : t = u
    BY <2>1, <2>3, <2>4 DEF LinksSpent
  <2>7. ASSUME NEW p \in Using(l), NEW t \in Opened(l)
        PROVE  FALSE
    BY <2>2, <2>3, <2>4 DEF LinksSpent
  <2>8. Using(l) = {} \/ Opened(l) = {}
    BY <2>7
  <2>9. Using(l) \cup Opened(l) # {} => link[l].consumed
    BY <2>1, <2>2, <2>3, <2>4 DEF LinksSpent
  <2>10. QED
    BY <2>5, <2>6, <2>8, <2>9
<1>2. IInv => LinkOpensOneSession
  BY <1>1 DEF LinkOpensOneSession
<1>3. QED
  BY <1>2, Invariance, PTL

(* A login has one token that can be used, or one rotation about to make one
   (RefreshService.refresh).                                               *)
THEOREM OneToken ==
  ASSUME SessionsAssumption
  PROVE  Spec => []OneTokenPerLogin
<1>1. ASSUME IInv
      PROVE  OneTokenPerLogin
  <2>1. OneMaker
    BY <1>1 DEF IInv
  <2>2. ASSUME NEW t \in Tokens, LiveToken(t)
        PROVE  /\ \A u \in Tokens : LiveToken(u) /\ token[u].root = token[t].root => u = t
               /\ Minting(t) = {}
    <3>1. \A u \in Tokens : LiveToken(u) /\ token[u].root = token[t].root => u = t
      BY <2>1, <2>2 DEF OneMaker
    <3>2. Minting(t) = {}
      BY <2>1, <2>2 DEF OneMaker, Minting, Mints, Root
    <3>3. QED
      BY <3>1, <3>2
  <2>3. QED
    BY <2>2 DEF OneTokenPerLogin
<1>2. QED
  BY <1>1, Invariance, PTL

(* A revocation ends every login it meets, but for the tokens of the rotations it ran
   into (revokeAllByNamespace).                                            *)
THEOREM RevocationEnds ==
  ASSUME SessionsAssumption
  PROVE  Spec => []RevocationEndsLogin
<1>1. IInv => RevocationEndsLogin
  BY DEF IInv
<1>2. QED
  BY <1>1, Invariance, PTL

-----------------------------------------------------------------------------
(* The limiter.  Its counts are of windows that begin when the code says; what is
   bounded is a stretch of time that begins anywhere.                      *)

(* A link the limiter let through, and a request it let through that has not
   written its link yet; those of a stretch as long as a window.           *)
Metered(l, e) == For(link[l], e) /\ link[l].metered
Admits(p, e) == At(p, "issue") /\ job[p].flag /\ For(job[p], e)
Stretch(a) == a..(a + Window - 1)
LinksIn(e, a) == {l \in Links : Metered(l, e) /\ link[l].asked \in Stretch(a)}
AsksIn(e, a) == {p \in Workers : Admits(p, e) /\ job[p].now \in Stretch(a)}
Through(e, a) == Cardinality(LinksIn(e, a)) + Cardinality(AsksIn(e, a))

(* The window w of an address counts every link of the address it let through, the
   window before it let through no more than the limit, and none is let through
   after its end.                                                          *)
Covers(w, e) ==
  /\ w.start <= clock
  /\ Backend = "redis" => w.start % Window = 0
  /\ w.count = 0 => w.start = 0
  /\ Through(e, w.start) <= w.count
  /\ Through(e, w.start) <= Max
  /\ Through(e, w.start - Window) <= Max
  /\ \A l \in Links : Metered(l, e) => link[l].asked < w.start + Window
  /\ \A p \in Workers : Admits(p, e) => job[p].now < w.start + Window

WindowsOK == window \in [Addresses \cup Ips -> [start : Nat, count : Nat]]
Covering == \A e \in Addresses : Covers(window[e], e)
Bounded == \A e \in Addresses, a \in 1..MaxTime : Through(e, a) <= 2 * Max
LimiterInv == WindowsOK /\ Covering /\ Bounded

-----------------------------------------------------------------------------
(* The sets are finite, so a count of a larger set is no smaller.          *)
LEMMA Countable ==
  ASSUME SessionsAssumption, NEW e, NEW a \in Int
  PROVE  /\ IsFiniteSet(LinksIn(e, a)) /\ IsFiniteSet(AsksIn(e, a))
         /\ Cardinality(LinksIn(e, a)) \in Nat /\ Cardinality(AsksIn(e, a)) \in Nat
         /\ Through(e, a) \in Nat
<1>1. LinksIn(e, a) \subseteq Links /\ AsksIn(e, a) \subseteq Workers
  BY DEF LinksIn, AsksIn
<1>2. IsFiniteSet(LinksIn(e, a)) /\ IsFiniteSet(AsksIn(e, a))
  BY <1>1, FS_Subset DEF SessionsAssumption
<1>3. QED
  BY <1>2, FS_CardinalityType DEF Through

(* The same after a step.                                                  *)
LEMMA CountableNext ==
  ASSUME SessionsAssumption, NEW e, NEW a \in Int
  PROVE  /\ IsFiniteSet(LinksIn(e, a)') /\ IsFiniteSet(AsksIn(e, a)')
         /\ Cardinality(LinksIn(e, a)') \in Nat /\ Cardinality(AsksIn(e, a)') \in Nat
         /\ Through(e, a)' = Cardinality(LinksIn(e, a)') + Cardinality(AsksIn(e, a)')
         /\ Through(e, a)' \in Nat
<1>1. LinksIn(e, a)' \subseteq Links /\ AsksIn(e, a)' \subseteq Workers
  BY DEF LinksIn, AsksIn
<1>2. IsFiniteSet(LinksIn(e, a)') /\ IsFiniteSet(AsksIn(e, a)')
  BY <1>1, FS_Subset DEF SessionsAssumption
<1>3. QED
  BY <1>2, FS_CardinalityType DEF Through

(* What was let through in a stretch is no more than what was let through in
   another that holds all of it.                                           *)
LEMMA Held ==
  ASSUME SessionsAssumption, NEW e, NEW a \in Int, NEW b \in Int,
         LinksIn(e, a) \subseteq LinksIn(e, b), AsksIn(e, a) \subseteq AsksIn(e, b)
  PROVE  Through(e, a) <= Through(e, b)
<1>1. /\ Cardinality(LinksIn(e, a)) <= Cardinality(LinksIn(e, b))
      /\ Cardinality(AsksIn(e, a)) <= Cardinality(AsksIn(e, b))
  BY Countable, FS_Subset
<1>2. QED
  BY <1>1, Countable DEF Through

(* A stretch is no longer than a window: what it holds lies in the two windows
   it meets.                                                               *)
LEMMA Straddles ==
  ASSUME SessionsAssumption, RowsOK, NEW e, NEW a \in Int, NEW s \in Int, s - Window <= a, a <= s,
         \A l \in Links : Metered(l, e) => link[l].asked < s + Window,
         \A p \in Workers : Admits(p, e) => job[p].now < s + Window
  PROVE  Through(e, a) <= Through(e, s - Window) + Through(e, s)
<1>1. Window \in Nat /\ s - Window \in Int
  BY DEF SessionsAssumption
<1>2. LinksIn(e, a) \subseteq LinksIn(e, s - Window) \cup LinksIn(e, s)
  BY <1>1 DEF LinksIn, Stretch, RowsOK, LinkRow
<1>3. AsksIn(e, a) \subseteq AsksIn(e, s - Window) \cup AsksIn(e, s)
  BY <1>1 DEF AsksIn, Stretch, RowsOK, Job
<1>4. ASSUME NEW A, NEW B, NEW C, IsFiniteSet(A), IsFiniteSet(B), IsFiniteSet(C), C \subseteq A \cup B
      PROVE  Cardinality(C) <= Cardinality(A) + Cardinality(B)
  <2>1. /\ IsFiniteSet(A \cup B)
        /\ Cardinality(A \cup B) = Cardinality(A) + Cardinality(B) - Cardinality(A \cap B)
    BY <1>4, FS_Union
  <2>2. IsFiniteSet(A \cap B)
    BY <1>4, FS_Intersection
  <2>3. Cardinality(C) <= Cardinality(A \cup B)
    BY <1>4, <2>1, FS_Subset
  <2>4. /\ Cardinality(A) \in Nat /\ Cardinality(B) \in Nat /\ Cardinality(C) \in Nat
        /\ Cardinality(A \cap B) \in Nat
    BY <1>4, <2>2, FS_CardinalityType
  <2>5. QED
    BY <2>1, <2>3, <2>4
<1>5. /\ Cardinality(LinksIn(e, a)) <= Cardinality(LinksIn(e, s - Window)) + Cardinality(LinksIn(e, s))
      /\ Cardinality(AsksIn(e, a)) <= Cardinality(AsksIn(e, s - Window)) + Cardinality(AsksIn(e, s))
  BY <1>1, <1>2, <1>3, <1>4, Countable
<1>6. QED
  BY <1>1, <1>5, Countable DEF Through

-----------------------------------------------------------------------------
(* A window begins no later than now and holds now, and at or after the end of any
   earlier one that is over.                                               *)
LEMMA Opens ==
  ASSUME SessionsAssumption, clock \in Nat
  PROVE  /\ Opening \in Nat /\ Opening <= clock /\ clock < Opening + Window
         /\ Backend = "redis" => Opening % Window = 0
<1>1. CASE Backend = "memory"
  BY <1>1 DEF Opening, SessionsAssumption
<1>2. CASE Backend = "redis"
  <2>1. Opening = clock - (clock % Window)
    BY <1>2 DEF Opening
  <2>2. clock % Window \in 0..(Window - 1) /\ clock = Window * (clock \div Window) + (clock % Window)
    BY DEF SessionsAssumption
  <2>3. Opening = Window * (clock \div Window) /\ clock \div Window \in Int
    BY <2>1, <2>2 DEF SessionsAssumption
  <2>4. Opening % Window = 0
    BY <2>3 DEF SessionsAssumption
  <2>5. QED
    BY <2>1, <2>2, <2>4 DEF SessionsAssumption
<1>3. QED
  BY <1>1, <1>2 DEF SessionsAssumption

(* A request that opens a window meets none that is still running.        *)
LEMMA OpensAfter ==
  ASSUME SessionsAssumption, clock \in Nat, NEW s \in Nat, clock - s >= Window,
         Backend = "redis" => s % Window = 0
  PROVE  s + Window <= Opening
<1>1. CASE Backend = "memory"
  BY <1>1 DEF Opening, SessionsAssumption
<1>2. CASE Backend = "redis"
  <2>1. Opening = clock - (clock % Window)
    BY <1>2 DEF Opening
  <2>2. PICK q, r \in Int : clock = Window * q + r /\ r = clock % Window /\ 0 <= r /\ r < Window
    BY DEF SessionsAssumption
  <2>3. PICK k \in Int : s = Window * k
    BY <1>2 DEF SessionsAssumption
  <2>4. q - k >= 1
    BY <2>2, <2>3 DEF SessionsAssumption
  <2>5. Window * q >= Window * k + Window
    BY <2>4 DEF SessionsAssumption
  <2>6. QED
    BY <2>1, <2>2, <2>3, <2>5 DEF SessionsAssumption
<1>3. QED
  BY <1>1, <1>2 DEF SessionsAssumption

(* Nothing was let through in a stretch that no link and no request is of. *)
LEMMA NoneIn ==
  ASSUME SessionsAssumption, NEW e, NEW a \in Int
  PROVE  Through(e, a) = 0 <=> LinksIn(e, a) = {} /\ AsksIn(e, a) = {}
<1>1. /\ Cardinality(LinksIn(e, a)) = 0 <=> LinksIn(e, a) = {}
      /\ Cardinality(AsksIn(e, a)) = 0 <=> AsksIn(e, a) = {}
  BY Countable, FS_EmptySet
<1>2. QED
  BY <1>1, Countable DEF Through

(* The window of an address after a request for it was counted: the old one, or a
   new one that begins after everything that was let through.              *)
LEMMA Turns ==
  ASSUME SessionsAssumption, RowsOK, WindowsOK, NEW e \in Addresses, Covers(window[e], e),
         NEW s, s = (IF Used(e) > 0 THEN window[e].start ELSE Opening),
         NEW c, c = (IF Used(e) > Limits[e] THEN Used(e) ELSE Used(e) + 1),
         NEW w, w = [start |-> s, count |-> c]
  PROVE  /\ w \in [start : Nat, count : Nat] /\ Covers(w, e) /\ clock < w.start + Window
         /\ Used(e) < Limits[e] => Through(e, w.start) < w.count /\ Through(e, w.start) < Max
<1>1. /\ clock \in Nat /\ Window \in Nat /\ Window > 0 /\ Max \in Nat /\ Limits[e] = Max
      /\ window[e].start \in Nat /\ window[e].count \in Nat
  BY DEF RowsOK, WindowsOK, SessionsAssumption, Limits
<1>2. Used(e) \in Nat
  BY <1>1 DEF Used
<1>3. c \in Nat /\ c > 0 /\ c >= Used(e) /\ (Used(e) < Max => c = Used(e) + 1)
  BY <1>1, <1>2
<1>4. CASE Used(e) > 0
  <2>1. s = window[e].start /\ Used(e) = window[e].count /\ clock - s < Window
    BY <1>1, <1>4 DEF Used, IsOpen
  <2>2. Covers([start |-> s, count |-> window[e].count], e)
    BY <2>1 DEF Covers
  <2>3. Through(e, s) \in Nat
    BY <1>1, <2>1, Countable
  <2>4. Covers(w, e)
    BY <1>1, <1>3, <2>1, <2>2, <2>3 DEF Covers
  <2>5. Used(e) < Max => Through(e, s) < c /\ Through(e, s) < Max
    BY <1>1, <1>2, <1>3, <2>1, <2>2, <2>3 DEF Covers
  <2>6. QED
    BY <1>1, <1>3, <2>1, <2>4, <2>5
<1>5. CASE Used(e) = 0
  <2>1. s = Opening /\ s \in Nat /\ s <= clock /\ clock < s + Window
        /\ (Backend = "redis" => s % Window = 0)
    BY <1>1, <1>5, Opens
  <2>2. /\ \A l \in Links : Metered(l, e) => link[l].asked < s
        /\ \A p \in Workers : Admits(p, e) => job[p].now < s
        /\ Through(e, s - Window) <= Max
    <3>1. CASE window[e].count = 0
      <4>1. window[e].start = 0 /\ Through(e, 0) <= 0
        BY <3>1 DEF Covers
      <4>2. LinksIn(e, 0) = {} /\ AsksIn(e, 0) = {}
        BY <4>1, Countable, NoneIn
      <4>3. \A l \in Links : ~Metered(l, e)
        BY <1>1, <4>1, <4>2 DEF LinksIn, Stretch, Covers, RowsOK, LinkRow
      <4>4. \A p \in Workers : ~Admits(p, e)
        BY <1>1, <4>1, <4>2 DEF AsksIn, Stretch, Covers, RowsOK, Job
      <4>5. LinksIn(e, s - Window) = {} /\ AsksIn(e, s - Window) = {}
        BY <4>3, <4>4 DEF LinksIn, AsksIn
      <4>6. Through(e, s - Window) = 0
        BY <1>1, <2>1, <4>5, NoneIn
      <4>7. QED
        BY <1>1, <4>3, <4>4, <4>6
    <3>2. CASE window[e].count # 0
      <4>1. clock - window[e].start >= Window
        BY <1>1, <1>5, <3>2 DEF Used, IsOpen
      <4>2. window[e].start + Window <= s
        BY <1>1, <2>1, <4>1, OpensAfter DEF Covers
      <4>3. LinksIn(e, s - Window) \subseteq LinksIn(e, window[e].start)
        BY <1>1, <2>1, <4>2 DEF LinksIn, Stretch, Covers, RowsOK, LinkRow
      <4>4. AsksIn(e, s - Window) \subseteq AsksIn(e, window[e].start)
        BY <1>1, <2>1, <4>2 DEF AsksIn, Stretch, Covers, RowsOK, Job
      <4>5. s - Window \in Int /\ window[e].start \in Int
        BY <1>1, <2>1
      <4>6. Through(e, s - Window) <= Through(e, window[e].start)
        BY <4>3, <4>4, <4>5, Held
      <4>7. Through(e, s - Window) <= Max
        BY <1>1, <4>5, <4>6, Countable DEF Covers
      <4>8. \A l \in Links : Metered(l, e) => link[l].asked < s
        BY <1>1, <2>1, <4>2 DEF Covers, RowsOK, LinkRow
      <4>9. \A p \in Workers : Admits(p, e) => job[p].now < s
        BY <1>1, <2>1, <4>2 DEF Covers, RowsOK, Job
      <4>10. QED
        BY <4>7, <4>8, <4>9
    <3>3. QED
      BY <3>1, <3>2
  <2>3. LinksIn(e, s) = {} /\ AsksIn(e, s) = {}
    BY <1>1, <2>1, <2>2 DEF LinksIn, AsksIn, Stretch, RowsOK, LinkRow, Job
  <2>4. Through(e, s) = 0
    BY <2>1, <2>3, NoneIn
  <2>5. /\ \A l \in Links : Metered(l, e) => link[l].asked < s + Window
        /\ \A p \in Workers : Admits(p, e) => job[p].now < s + Window
    BY <1>1, <2>1, <2>2 DEF RowsOK, LinkRow, Job
  <2>6. Covers(w, e)
    BY <1>1, <1>3, <2>1, <2>2, <2>4, <2>5 DEF Covers
  <2>7. Used(e) < Max => Through(e, s) < c /\ Through(e, s) < Max
    BY <1>1, <1>3, <1>5, <2>4
  <2>8. QED
    BY <1>1, <1>3, <2>1, <2>6, <2>7
<1>6. QED
  BY <1>2, <1>4, <1>5

-----------------------------------------------------------------------------
(* A step that lets nothing more through for an address.                   *)
AddsNone(e) ==
  /\ \A l \in Links : Metered(l, e)' => Metered(l, e) /\ link'[l].asked = link[l].asked
  /\ \A p \in Workers : Admits(p, e)' => Admits(p, e) /\ job'[p].now = job[p].now

(* A step that adds nothing to a stretch lets nothing more through it.    *)
LEMMA NoMore ==
  ASSUME SessionsAssumption, NEW e, AddsNone(e), NEW a \in Int
  PROVE  Through(e, a)' <= Through(e, a)
<1>1. LinksIn(e, a)' \subseteq LinksIn(e, a) /\ AsksIn(e, a)' \subseteq AsksIn(e, a)
  BY DEF AddsNone, LinksIn, AsksIn
<1>2. /\ Cardinality(LinksIn(e, a)') <= Cardinality(LinksIn(e, a))
      /\ Cardinality(AsksIn(e, a)') <= Cardinality(AsksIn(e, a))
  BY <1>1, Countable, FS_Subset
<1>3. QED
  BY <1>2, Countable, CountableNext DEF Through

(* The window goes on covering the address.                                *)
LEMMA CoversStill ==
  ASSUME SessionsAssumption, RowsOK, clock' \in Nat, clock <= clock', NEW e, AddsNone(e),
         NEW w \in [start : Nat, count : Nat], Covers(w, e)
  PROVE  Covers(w, e)'
<1>1. w.start \in Int /\ w.start - Window \in Int /\ w.count \in Nat /\ Max \in Nat
  BY DEF SessionsAssumption
<1>2. Through(e, w.start)' <= Through(e, w.start)
  BY <1>1, NoMore
<1>3. Through(e, w.start - Window)' <= Through(e, w.start - Window)
  BY <1>1, NoMore
<1>4. /\ Through(e, w.start)' \in Nat /\ Through(e, w.start) \in Nat
      /\ Through(e, w.start - Window)' \in Nat /\ Through(e, w.start - Window) \in Nat
  BY <1>1, Countable, CountableNext
<1>5. Through(e, w.start)' <= w.count /\ Through(e, w.start)' <= Max
  BY <1>1, <1>2, <1>4 DEF Covers
<1>6. Through(e, w.start - Window)' <= Max
  BY <1>1, <1>3, <1>4 DEF Covers
<1>7. w.start <= clock'
  BY DEF Covers, RowsOK
<1>8. /\ \A l \in Links : Metered(l, e)' => link'[l].asked < w.start + Window
      /\ \A p \in Workers : Admits(p, e)' => job'[p].now < w.start + Window
  BY DEF Covers, AddsNone
<1>9. QED
  BY <1>5, <1>6, <1>7, <1>8 DEF Covers

(* The limiter is not touched.                                             *)
LEMMA LimiterRests ==
  ASSUME SessionsAssumption, RowsOK, LimiterInv, clock' \in Nat, clock <= clock',
         UNCHANGED window, \A e \in Addresses : AddsNone(e)
  PROVE  LimiterInv'
<1>1. WindowsOK'
  BY DEF LimiterInv, WindowsOK
<1>2. ASSUME NEW e \in Addresses PROVE Covers(window[e], e)'
  <2>1. PICK w : w = window[e]
    OBVIOUS
  <2>2. w \in [start : Nat, count : Nat] /\ Covers(w, e) /\ window'[e] = w
    BY <2>1 DEF LimiterInv, WindowsOK, Covering
  <2>3. Covers(w, e)'
    BY <2>2, CoversStill
  <2>4. QED
    BY <2>2, <2>3
<1>3. ASSUME NEW e \in Addresses, NEW a \in 1..MaxTime PROVE Through(e, a)' <= 2 * Max
  <2>1. a \in Int /\ Max \in Nat /\ Through(e, a) <= 2 * Max
    BY <1>3 DEF SessionsAssumption, LimiterInv, Bounded
  <2>2. QED
    BY <2>1, NoMore, Countable, CountableNext
<1>4. QED
  BY <1>1, <1>2, <1>3 DEF LimiterInv, Covering, Bounded

-----------------------------------------------------------------------------
(* A request let through now for an address: the window counted it.        *)
LEMMA LetsThrough ==
  ASSUME SessionsAssumption, RowsOK, NEW e, NEW p \in Workers, job[p] = Idle,
         UNCHANGED <<clock, link>>, NEW j \in Job, job' = [job EXCEPT ![p] = j],
         j.at = "issue", j.now = clock,
         NEW w \in [start : Nat, count : Nat], Covers(w, e), clock < w.start + Window,
         Through(e, w.start) < w.count, Through(e, w.start) < Max
  PROVE  /\ Covers(w, e)'
         /\ \A a \in Int : clock \in Stretch(a) => Through(e, a)' <= 2 * Max
         /\ \A a \in Int : clock \notin Stretch(a) => Through(e, a)' <= Through(e, a)
<1>1. /\ clock \in Nat /\ Window \in Nat /\ Window > 0 /\ Max \in Nat /\ w.start \in Nat
      /\ w.count \in Nat /\ w.start <= clock /\ w.start - Window \in Int
  BY DEF RowsOK, SessionsAssumption, Covers
<1>2. job'[p] = j /\ \A q \in Workers : q # p => job'[q] = job[q]
  BY DEF RowsOK
<1>3. ASSUME NEW a \in Int PROVE LinksIn(e, a)' = LinksIn(e, a)
  BY DEF LinksIn, Metered, For
<1>4. ASSUME NEW a \in Int PROVE AsksIn(e, a)' \subseteq AsksIn(e, a) \cup {p}
  BY <1>2 DEF AsksIn, Admits, For, At
<1>5. ASSUME NEW a \in Int, clock \notin Stretch(a) PROVE AsksIn(e, a)' \subseteq AsksIn(e, a)
  BY <1>2, <1>5 DEF AsksIn, Admits, For, At
<1>6. ASSUME NEW a \in Int PROVE Through(e, a)' <= Through(e, a) + 1
  <2>1. /\ IsFiniteSet(AsksIn(e, a) \cup {p})
        /\ Cardinality(AsksIn(e, a) \cup {p}) <= Cardinality(AsksIn(e, a)) + 1
        /\ Cardinality(AsksIn(e, a) \cup {p}) \in Nat
    <3>1. IsFiniteSet(AsksIn(e, a)) /\ Cardinality(AsksIn(e, a)) \in Nat
      BY Countable
    <3>2. /\ IsFiniteSet(AsksIn(e, a) \cup {p})
          /\ \/ Cardinality(AsksIn(e, a) \cup {p}) = Cardinality(AsksIn(e, a))
             \/ Cardinality(AsksIn(e, a) \cup {p}) = Cardinality(AsksIn(e, a)) + 1
      BY <3>1, FS_AddElement
    <3>3. QED
      BY <3>1, <3>2
  <2>2. Cardinality(AsksIn(e, a)') <= Cardinality(AsksIn(e, a) \cup {p})
    BY <1>4, <2>1, FS_Subset
  <2>3. Cardinality(LinksIn(e, a)') = Cardinality(LinksIn(e, a))
    BY <1>3
  <2>4. QED
    BY <2>1, <2>2, <2>3, Countable, CountableNext DEF Through
<1>7. ASSUME NEW a \in Int, clock \notin Stretch(a) PROVE Through(e, a)' <= Through(e, a)
  <2>1. Cardinality(AsksIn(e, a)') <= Cardinality(AsksIn(e, a))
    BY <1>5, <1>7, Countable, FS_Subset
  <2>2. Cardinality(LinksIn(e, a)') = Cardinality(LinksIn(e, a))
    BY <1>3
  <2>3. QED
    BY <2>1, <2>2, Countable, CountableNext DEF Through
<1>8. Through(e, w.start)' <= w.count /\ Through(e, w.start)' <= Max
  BY <1>1, <1>6, Countable, CountableNext
<1>9. Through(e, w.start - Window)' <= Max
  <2>1. clock \notin Stretch(w.start - Window)
    BY <1>1 DEF Stretch
  <2>2. Through(e, w.start - Window)' <= Through(e, w.start - Window)
    BY <1>1, <1>7, <2>1
  <2>3. QED
    BY <1>1, <2>2, Countable, CountableNext DEF Covers
<1>10. /\ \A l \in Links : Metered(l, e)' => link'[l].asked < w.start + Window
       /\ \A q \in Workers : Admits(q, e)' => job'[q].now < w.start + Window
  BY <1>1, <1>2 DEF Covers, Metered, Admits, For, At
<1>11. Covers(w, e)'
  BY <1>1, <1>8, <1>9, <1>10 DEF Covers
<1>12. ASSUME NEW a \in Int, clock \in Stretch(a) PROVE Through(e, a)' <= 2 * Max
  <2>1. w.start - Window <= a /\ a <= clock
    BY <1>1, <1>12 DEF Stretch
  <2>2. CASE a <= w.start
    <3>1. Through(e, a) <= Through(e, w.start - Window) + Through(e, w.start)
      BY <1>1, <2>1, <2>2, Straddles DEF Covers
    <3>2. QED
      BY <1>1, <1>6, <3>1, Countable, CountableNext DEF Covers
  <2>3. CASE a > w.start
    <3>1. LinksIn(e, a) \subseteq LinksIn(e, w.start)
      BY <1>1, <2>3 DEF LinksIn, Stretch, Covers, RowsOK, LinkRow
    <3>2. AsksIn(e, a) \subseteq AsksIn(e, w.start)
      BY <1>1, <2>3 DEF AsksIn, Stretch, Covers, RowsOK, Job
    <3>3. Through(e, a) <= Through(e, w.start)
      BY <1>1, <3>1, <3>2, Held
    <3>4. QED
      BY <1>1, <1>6, <3>3, Countable, CountableNext
  <2>4. QED
    BY <1>1, <2>2, <2>3
<1>13. QED
  BY <1>7, <1>11, <1>12

(* A link is asked for.                                                    *)
LEMMA AskLinkLimits ==
  ASSUME SessionsAssumption, RowsOK, LimiterInv, NEW p \in Workers, AskLink(p)
  PROVE  LimiterInv'
<1>1. UNCHANGED <<clock, link>> /\ clock \in Nat
  BY DEF AskLink, RowsOK
<1>1a. PICK m \in Emails, n \in Nonces \cup {None}, ip \in Ips \cup {None} : \E ks, ask :
         /\ ks = {AddressOf[m], ip} \ {None}
         /\ ask = [Idle EXCEPT !.at = "issue", !.now = clock, !.email = m, !.nonce = n]
         /\ \/ /\ Admitted(ks)
               /\ window' = Counted(ks)
               /\ Begin(p, [ask EXCEPT !.flag = TRUE])
            \/ /\ ~Admitted(ks)
               /\ window' = Counted(ks)
               /\ UNCHANGED job
            \/ /\ \E done \in {{}, {AddressOf[m]}, ks} : window' = Counted(done)
               /\ Begin(p, ask)
  BY DEF AskLink
<1>2. PICK ks, ask :
         /\ ks = {AddressOf[m], ip} \ {None}
         /\ ask = [Idle EXCEPT !.at = "issue", !.now = clock, !.email = m, !.nonce = n]
         /\ \/ /\ Admitted(ks)
               /\ window' = Counted(ks)
               /\ Begin(p, [ask EXCEPT !.flag = TRUE])
            \/ /\ ~Admitted(ks)
               /\ window' = Counted(ks)
               /\ UNCHANGED job
            \/ /\ \E done \in {{}, {AddressOf[m]}, ks} : window' = Counted(done)
               /\ Begin(p, ask)
  BY <1>1a
<1>2a. PICK e \in Addresses : e = AddressOf[m] /\ m # None
  BY DEF SessionsAssumption
<1>3. e \in ks /\ \A f \in Addresses : f \in ks => f = e
  BY <1>2, <1>2a DEF SessionsAssumption
<1>4. ask = [at |-> "issue", now |-> clock, email |-> m, nonce |-> n, link |-> None,
             token |-> None, new |-> None, namespace |-> None, flag |-> FALSE]
  BY <1>2 DEF Idle
<1>5. ask \in Job /\ [ask EXCEPT !.flag = TRUE] \in Job
  BY <1>1, <1>4 DEF Job, Steps
<1>6. ASSUME NEW j \in Job, j.at = "issue", j.email = m, Begin(p, j), NEW f \in Addresses, f # e \/ ~j.flag
      PROVE  AddsNone(f)
  <2>1. job'[p] = j /\ \A q \in Workers : q # p => job'[q] = job[q]
    BY <1>6 DEF Begin, RowsOK
  <2>2. QED
    BY <1>1, <1>2a, <1>6, <2>1 DEF AddsNone, Metered, Admits, For, At
<1>7. ASSUME UNCHANGED job, NEW f \in Addresses PROVE AddsNone(f)
  BY <1>1, <1>7 DEF AddsNone, Metered, Admits, For, At
<1>8. ASSUME Begin(p, ask), NEW f \in Addresses PROVE AddsNone(f)
  BY <1>4, <1>5, <1>6, <1>8
<1>9. CASE UNCHANGED window /\ UNCHANGED job
  BY <1>1, <1>7, <1>9, LimiterRests
<1>10. ASSUME NEW ds \in SUBSET ks, UNCHANGED job \/ Begin(p, ask) \/
                (ds = ks /\ Admitted(ks) /\ Begin(p, [ask EXCEPT !.flag = TRUE])),
              window' = [k \in DOMAIN window |->
                IF k \notin ds THEN window[k]
                ELSE [start |-> IF Used(k) > 0 THEN window[k].start ELSE Opening,
                      count |-> IF Used(k) > Limits[k] THEN Used(k) ELSE Used(k) + 1]]
       PROVE  LimiterInv'
  <2>1. DOMAIN window = Addresses \cup Ips /\ window[e] \in [start : Nat, count : Nat]
    BY DEF LimiterInv, WindowsOK
  <2>2. WindowsOK'
    <3>1. ASSUME NEW k \in Addresses \cup Ips
          PROVE  window[k] \in [start : Nat, count : Nat] /\ Used(k) \in Nat /\ Opening \in Nat
      BY <1>1, <3>1, Opens DEF LimiterInv, WindowsOK, Used
    <3>2. ASSUME NEW k \in Addresses \cup Ips
          PROVE  window'[k] \in [start : Nat, count : Nat]
      BY <1>10, <2>1, <3>1
    <3>3. QED
      BY <1>10, <2>1, <3>2 DEF WindowsOK
  <2>3. PICK s : s = IF Used(e) > 0 THEN window[e].start ELSE Opening
    OBVIOUS
  <2>4. PICK c : c = IF Used(e) > Limits[e] THEN Used(e) ELSE Used(e) + 1
    OBVIOUS
  <2>5. PICK w : w = [start |-> s, count |-> c]
    OBVIOUS
  <2>6. e \in ds => window'[e] = w
    BY <1>10, <2>1, <2>3, <2>4, <2>5
  <2>7. /\ w \in [start : Nat, count : Nat] /\ Covers(w, e) /\ clock < w.start + Window
        /\ Used(e) < Limits[e] => Through(e, w.start) < w.count /\ Through(e, w.start) < Max
    BY <2>3, <2>4, <2>5, Turns DEF LimiterInv, Covering
  <2>8. ASSUME NEW f \in Addresses, f \notin ds, AddsNone(f) PROVE Covers(window[f], f)'
    <3>1. PICK v : v = window[f]
      OBVIOUS
    <3>2. v \in [start : Nat, count : Nat] /\ Covers(v, f) /\ window'[f] = v
      BY <1>10, <2>1, <2>8, <3>1 DEF LimiterInv, WindowsOK, Covering
    <3>3. Covers(v, f)'
      BY <1>1, <2>8, <3>2, CoversStill
    <3>4. QED
      BY <3>2, <3>3
  <2>9. Max \in Nat /\ \A f \in Addresses, a \in 1..MaxTime : a \in Int /\ Through(f, a) <= 2 * Max
    BY DEF SessionsAssumption, LimiterInv, Bounded
  <2>10. ASSUME NEW f \in Addresses, AddsNone(f), NEW a \in 1..MaxTime PROVE Through(f, a)' <= 2 * Max
    BY <2>9, <2>10, NoMore, Countable, CountableNext
  <2>11. ASSUME \A f \in Addresses : AddsNone(f) PROVE LimiterInv'
    <3>1. ASSUME e \in ds PROVE Covers(window[e], e)'
      <4>1. Covers(w, e)'
        BY <1>1, <2>7, <2>11, CoversStill
      <4>2. QED
        BY <2>6, <3>1, <4>1
    <3>2. Covering' /\ Bounded'
      BY <1>3, <2>8, <2>10, <2>11, <3>1 DEF Covering, Bounded
    <3>3. QED
      BY <2>2, <3>2 DEF LimiterInv
  <2>12. CASE ds = ks /\ Admitted(ks) /\ Begin(p, [ask EXCEPT !.flag = TRUE])
    <3>1. PICK j : j = [ask EXCEPT !.flag = TRUE]
      OBVIOUS
    <3>2. /\ j \in Job /\ j.at = "issue" /\ j.now = clock /\ j.email = m
          /\ job[p] = Idle /\ job' = [job EXCEPT ![p] = j] /\ Begin(p, j)
      BY <1>4, <1>5, <2>12, <3>1 DEF Begin
    <3>3. Used(e) < Limits[e]
      BY <1>3, <2>12 DEF Admitted
    <3>4. /\ Covers(w, e)'
          /\ \A a \in Int : clock \in Stretch(a) => Through(e, a)' <= 2 * Max
          /\ \A a \in Int : clock \notin Stretch(a) => Through(e, a)' <= Through(e, a)
      BY <1>1, <2>7, <3>2, <3>3, LetsThrough
    <3>5. ASSUME NEW a \in 1..MaxTime PROVE Through(e, a)' <= 2 * Max
      BY <2>9, <3>4, Countable, CountableNext
    <3>6. ASSUME NEW f \in Addresses, f # e PROVE AddsNone(f) /\ f \notin ds
      BY <1>3, <1>6, <2>12, <3>2, <3>6
    <3>7. Covers(window[e], e)'
      BY <1>3, <2>6, <2>12, <3>4
    <3>8. Covering' /\ Bounded'
      BY <2>8, <2>10, <3>5, <3>6, <3>7 DEF Covering, Bounded
    <3>9. QED
      BY <2>2, <3>8 DEF LimiterInv
  <2>13. QED
    BY <1>7, <1>8, <1>10, <2>11, <2>12
<1>11. ASSUME NEW ds \in SUBSET ks, window' = Counted(ds), UNCHANGED job \/ Begin(p, ask) \/
                (ds = ks /\ Admitted(ks) /\ Begin(p, [ask EXCEPT !.flag = TRUE]))
       PROVE  LimiterInv'
  <2>1. CASE Backend = "memory" /\ ~Admitted(ds)
    <3>1. UNCHANGED window /\ (UNCHANGED job \/ Begin(p, ask))
      BY <1>11, <2>1 DEF Counted
    <3>2. QED
      BY <1>1, <1>8, <1>9, <3>1, LimiterRests
  <2>2. QED
    BY <1>10, <1>11, <2>1 DEF Counted
<1>12. {AddressOf[m]} \subseteq ks
  BY <1>2a, <1>3
<1>13. QED
  BY <1>2, <1>11, <1>12

(* The link of a request is written: what the request was let through for, the link
   now is.                                                                 *)
LEMMA IssueLinkLimits ==
  ASSUME SessionsAssumption, RowsOK, LimiterInv, NEW p \in Workers, IssueLink(p)
  PROVE  LimiterInv'
<1>1. UNCHANGED <<clock, window>> /\ clock \in Nat
  BY DEF IssueLink, RowsOK
<1>2. PICK new \in Links :
        /\ job[p].at = "issue"
        /\ link[new] = NoLink
        /\ link' = [l \in Links |->
             IF l = new THEN [NoLink EXCEPT !.email = job[p].email, !.nonce = job[p].nonce,
                                !.expiresAt = job[p].now + LinkTtl,
                                !.asked = job[p].now, !.metered = job[p].flag]
             ELSE [link[l] EXCEPT !.superseded = @ \/ Supersedes(l, p)]]
        /\ job' = [job EXCEPT ![p] = Idle]
  BY DEF IssueLink, At, Finish
<1>3. job[p] \in Job /\ job'[p] = Idle /\ \A q \in Workers : q # p => job'[q] = job[q]
  BY <1>2 DEF RowsOK
<1>4. /\ link'[new].email = job[p].email /\ link'[new].asked = job[p].now
      /\ link'[new].metered = job[p].flag
  BY <1>2 DEF NoLink
<1>5. ASSUME NEW l \in Links, l # new
      PROVE  /\ link'[l].email = link[l].email /\ link'[l].asked = link[l].asked
             /\ link'[l].metered = link[l].metered
  <2>1. link[l] \in LinkRow /\ link'[l] = [link[l] EXCEPT !.superseded = @ \/ Supersedes(l, p)]
    BY <1>2, <1>5 DEF RowsOK
  <2>2. QED
    BY <2>1 DEF LinkRow
<1>6. ~link[new].metered /\ Idle.at # "issue"
  BY <1>2 DEF NoLink, Idle
<1>7. ASSUME NEW e \in Addresses, ~(job[p].flag /\ For(job[p], e)) PROVE AddsNone(e)
  BY <1>3, <1>4, <1>5, <1>6, <1>7 DEF AddsNone, Metered, Admits, For, At
<1>8. ASSUME NEW e \in Addresses, job[p].flag, For(job[p], e), NEW a \in Int
      PROVE  Through(e, a)' <= Through(e, a)
  <2>1. CASE job[p].now \in Stretch(a)
    <3>1. LinksIn(e, a)' = LinksIn(e, a) \cup {new} /\ new \notin LinksIn(e, a)
      <4>1. For(link'[new], e) /\ link'[new].metered /\ link'[new].asked \in Stretch(a)
        BY <1>4, <1>8, <2>1 DEF For
      <4>2. \A l \in Links : l # new => (For(link'[l], e) <=> For(link[l], e))
        BY <1>5 DEF For
      <4>3. QED
        BY <1>5, <1>6, <4>1, <4>2 DEF LinksIn, Metered
    <3>2. AsksIn(e, a)' = AsksIn(e, a) \ {p} /\ p \in AsksIn(e, a)
      BY <1>2, <1>3, <1>6, <1>8, <2>1 DEF AsksIn, Admits, For, At
    <3>3. Cardinality(LinksIn(e, a)') = Cardinality(LinksIn(e, a)) + 1
      BY <3>1, Countable, FS_AddElement
    <3>4. Cardinality(AsksIn(e, a)') = Cardinality(AsksIn(e, a)) - 1
      BY <3>2, Countable, FS_RemoveElement
    <3>5. QED
      BY <3>3, <3>4, Countable, CountableNext DEF Through
  <2>2. CASE job[p].now \notin Stretch(a)
    <3>1. LinksIn(e, a)' \subseteq LinksIn(e, a)
      BY <1>4, <1>5, <2>2 DEF LinksIn, Metered, For
    <3>2. AsksIn(e, a)' \subseteq AsksIn(e, a)
      BY <1>3, <1>6 DEF AsksIn, Admits, For, At
    <3>3. /\ Cardinality(LinksIn(e, a)') <= Cardinality(LinksIn(e, a))
          /\ Cardinality(AsksIn(e, a)') <= Cardinality(AsksIn(e, a))
      BY <3>1, <3>2, Countable, FS_Subset
    <3>4. QED
      BY <3>3, Countable, CountableNext DEF Through
  <2>3. QED
    BY <2>1, <2>2
<1>9. ASSUME NEW e \in Addresses PROVE Covers(window[e], e)'
  <2>1. PICK w : w = window[e]
    OBVIOUS
  <2>2. w \in [start : Nat, count : Nat] /\ Covers(w, e) /\ window'[e] = w
    BY <1>1, <2>1 DEF LimiterInv, WindowsOK, Covering
  <2>3. CASE ~(job[p].flag /\ For(job[p], e))
    <3>1. Covers(w, e)'
      BY <1>1, <1>7, <2>2, <2>3, CoversStill
    <3>2. QED
      BY <2>2, <3>1
  <2>4. CASE job[p].flag /\ For(job[p], e)
    <3>1. /\ w.start \in Int /\ w.start - Window \in Int /\ w.count \in Nat /\ Max \in Nat
          /\ Window \in Nat
      BY <2>2 DEF SessionsAssumption
    <3>2. Through(e, w.start)' <= w.count /\ Through(e, w.start)' <= Max
      <4>1. Through(e, w.start)' <= Through(e, w.start)
        BY <1>8, <2>4, <3>1
      <4>2. QED
        BY <2>2, <3>1, <4>1, Countable, CountableNext DEF Covers
    <3>3. Through(e, w.start - Window)' <= Max
      <4>1. Through(e, w.start - Window)' <= Through(e, w.start - Window)
        BY <1>8, <2>4, <3>1
      <4>2. QED
        BY <2>2, <3>1, <4>1, Countable, CountableNext DEF Covers
    <3>4. Admits(p, e) /\ job[p].now < w.start + Window
      BY <1>2, <2>2, <2>4 DEF Admits, For, At, Covers
    <3>5. \A l \in Links : Metered(l, e)' => link'[l].asked < w.start + Window
      BY <1>4, <1>5, <2>2, <3>4 DEF Covers, Metered, For
    <3>6. \A q \in Workers : Admits(q, e)' => job'[q].now < w.start + Window
      BY <1>3, <1>6, <2>2 DEF Covers, Admits, For, At
    <3>7. Covers(w, e)'
      BY <1>1, <2>2, <3>2, <3>3, <3>5, <3>6 DEF Covers
    <3>8. QED
      BY <2>2, <3>7
  <2>5. QED
    BY <2>3, <2>4
<1>10. ASSUME NEW e \in Addresses, NEW a \in 1..MaxTime PROVE Through(e, a)' <= 2 * Max
  <2>1. a \in Int /\ Max \in Nat /\ Through(e, a) <= 2 * Max
    BY <1>10 DEF SessionsAssumption, LimiterInv, Bounded
  <2>2. Through(e, a)' <= Through(e, a)
    BY <1>7, <1>8, <2>1, NoMore
  <2>3. QED
    BY <2>1, <2>2, Countable, CountableNext
<1>11. WindowsOK'
  BY <1>1 DEF LimiterInv, WindowsOK
<1>12. QED
  BY <1>9, <1>10, <1>11 DEF LimiterInv, Covering, Bounded

-----------------------------------------------------------------------------
(* The other steps ask for no link.                                        *)
Quiet ==
  /\ \A l \in Links : /\ link'[l].email = link[l].email /\ link'[l].asked = link[l].asked
                      /\ link'[l].metered = link[l].metered
  /\ \A q \in Workers : job'[q].at = "issue" =>
       /\ job[q].at = "issue" /\ job'[q].email = job[q].email /\ job'[q].now = job[q].now
       /\ job'[q].flag => job[q].flag

(* A step that leaves the windows and the links alone keeps them bounded. *)
LEMMA QuietLimits ==
  ASSUME SessionsAssumption, RowsOK, LimiterInv, Quiet, UNCHANGED <<clock, window>>
  PROVE  LimiterInv'
<1>1. \A e \in Addresses : AddsNone(e)
  BY DEF Quiet, AddsNone, Metered, Admits, For, At
<1>2. QED
  BY <1>1, LimiterRests DEF RowsOK

(* A request moves to another step, with the links as they were.           *)
LEMMA Moves ==
  ASSUME RowsOK, NEW p \in Workers, NEW j, job' = [job EXCEPT ![p] = j], j.at # "issue",
         UNCHANGED link
  PROVE  Quiet
BY DEF Quiet, RowsOK

(* Or marks the rotations it ran into.                                     *)
LEMMA MovesMarking ==
  ASSUME RowsOK, NEW p \in Workers, NEW ns, job' = RacedBy(ns, [job EXCEPT ![p] = Idle]),
         UNCHANGED link
  PROVE  Quiet
<1>1. PICK others : others = [job EXCEPT ![p] = Idle]
  OBVIOUS
<1>2. \A q \in Workers : others[q] \in Job /\ (others[q] = Idle \/ others[q] = job[q])
  BY <1>1, IdleJob DEF RowsOK
<1>3. ASSUME NEW q \in Workers
      PROVE  /\ job'[q].at = others[q].at /\ job'[q].email = others[q].email
             /\ job'[q].now = others[q].now
             /\ job'[q].at = "issue" /\ job'[q].flag => others[q].flag
  <2>1. job'[q] = [others[q] EXCEPT
                     !.flag = @ \/ (others[q].at = "remint" /\ others[q].namespace = ns)]
    BY <1>1 DEF RacedBy
  <2>2. QED
    BY <1>2, <2>1 DEF Job
<1>4. QED
  BY <1>2, <1>3, IdleJob DEF Quiet

(* The steps on links that issue none keep the windows bounded.           *)
LEMMA LinkStepsLimits ==
  ASSUME SessionsAssumption, RowsOK, LimiterInv, NEW p \in Workers, UseLink(p) \/ ConsumeLink(p)
  PROVE  LimiterInv'
<1>1. CASE UseLink(p)
  <2>1. PICK l \in Links, n \in Nonces \cup {None} :
          job' = [job EXCEPT ![p] = [Idle EXCEPT !.at = "consume", !.now = clock, !.link = l, !.nonce = n]]
    BY <1>1 DEF UseLink, Begin
  <2>2. [Idle EXCEPT !.at = "consume", !.now = clock, !.link = l, !.nonce = n].at # "issue"
    BY DEF Idle
  <2>3. UNCHANGED <<clock, window, link>>
    BY <1>1 DEF UseLink
  <2>4. QED
    BY <2>1, <2>2, <2>3, Moves, QuietLimits
<1>2. CASE ConsumeLink(p)
  <2>1. UNCHANGED <<clock, window>>
    BY <1>2 DEF ConsumeLink
  <2>2. CASE UNCHANGED link /\ Finish(p)
    BY <2>1, <2>2, IdleJob, Moves, QuietLimits DEF Finish
  <2>3. ASSUME NEW l, NEW j, l = job[p].link, link' = [link EXCEPT ![l].consumed = TRUE],
               j.at # "issue", job' = [job EXCEPT ![p] = j]
        PROVE  LimiterInv'
    <3>1. \A m \in Links : link'[m] = link[m] \/ link'[m] = [link[m] EXCEPT !.consumed = TRUE]
      BY <2>3 DEF RowsOK
    <3>2. ASSUME NEW m \in Links
          PROVE  /\ link'[m].email = link[m].email /\ link'[m].asked = link[m].asked
                 /\ link'[m].metered = link[m].metered
      <4>1. CASE link'[m] = link[m]
        BY <4>1
      <4>2. CASE link'[m] = [link[m] EXCEPT !.consumed = TRUE]
        <5>1. PICK row, new : row = link[m] /\ new = [row EXCEPT !.consumed = TRUE]
          OBVIOUS
        <5>2. row \in LinkRow
          BY <5>1 DEF RowsOK
        <5>3. new.email = row.email /\ new.asked = row.asked /\ new.metered = row.metered
          BY <5>1, <5>2 DEF LinkRow
        <5>4. QED
          BY <4>2, <5>1, <5>3
      <4>3. QED
        BY <3>1, <4>1, <4>2
    <3>3. Quiet
      BY <2>3, <3>2 DEF Quiet, RowsOK
    <3>4. QED
      BY <2>1, <3>3, QuietLimits
  <2>4. [Idle EXCEPT !.at = "ensure", !.link = job[p].link,
           !.namespace = link[job[p].link].email].at # "issue"
    BY DEF Idle
  <2>5. QED
    BY <1>2, <2>2, <2>3, <2>4 DEF ConsumeLink
<1>3. QED
  BY <1>1, <1>2

(* Sessions and tokens.                                                    *)
LEMMA TokenStepsLimits ==
  ASSUME SessionsAssumption, RowsOK, LimiterInv, NEW p \in Workers,
         \/ OpenSession(p) \/ OpenTeamSession(p) \/ EnsureUser(p) \/ EnterTeam(p) \/ MintFirst(p)
         \/ UseToken(p) \/ RotateConsume(p) \/ MintNext(p) \/ MarkReplaced(p)
         \/ Logout(p) \/ RevokeNamespace(p) \/ Throws(p)
  PROVE  LimiterInv'
<1>1. UNCHANGED <<clock, window, link>>
  BY DEF OpenSession, OpenTeamSession, EnsureUser, EnterTeam, MintFirst, UseToken, RotateConsume,
         MintNext, MarkReplaced, Logout, RevokeNamespace, Throws
<1>2. job[p] \in Job
  BY DEF RowsOK
<1>3. ASSUME NEW j, j.at # "issue", job' = [job EXCEPT ![p] = j] PROVE LimiterInv'
  BY <1>1, <1>3, Moves, QuietLimits
<1>4. ASSUME NEW ns, job' = RacedBy(ns, [job EXCEPT ![p] = Idle]) PROVE LimiterInv'
  BY <1>1, <1>4, MovesMarking, QuietLimits
<1>5. CASE Finish(p)
  BY <1>3, <1>5, IdleJob DEF Finish
<1>6. CASE OpenSession(p)
  <2>1. PICK e \in Emails : job' = [job EXCEPT ![p] = [Idle EXCEPT !.at = "ensure", !.namespace = e]]
    BY <1>6 DEF OpenSession, Begin
  <2>2. [Idle EXCEPT !.at = "ensure", !.namespace = e].at # "issue"
    BY DEF Idle
  <2>3. QED
    BY <1>3, <2>1, <2>2
<1>7. CASE OpenTeamSession(p)
  <2>1. PICK t \in Teams : job' = [job EXCEPT ![p] = [Idle EXCEPT !.at = "enter", !.namespace = t]]
    BY <1>7 DEF OpenTeamSession, Begin
  <2>2. [Idle EXCEPT !.at = "enter", !.namespace = t].at # "issue"
    BY DEF Idle
  <2>3. QED
    BY <1>3, <2>1, <2>2
<1>8. CASE EnsureUser(p) \/ EnterTeam(p)
  <2>1. job' = [job EXCEPT ![p].at = "mint", ![p].now = clock]
    BY <1>8 DEF EnsureUser, EnterTeam
  <2>2. job'[p] = [job[p] EXCEPT !.at = "mint", !.now = clock] /\ \A q \in Workers : q # p => job'[q] = job[q]
    BY <2>1 DEF RowsOK
  <2>3. job'[p].at = "mint"
    BY <1>2, <2>2 DEF Job
  <2>4. Quiet
    BY <1>1, <2>2, <2>3 DEF Quiet
  <2>5. QED
    BY <1>1, <2>4, QuietLimits
<1>9. CASE UseToken(p)
  <2>1. PICK t \in Tokens :
          job' = [job EXCEPT ![p] = [Idle EXCEPT !.at = "rotate", !.now = clock, !.token = t]]
    BY <1>9 DEF UseToken, Begin
  <2>2. [Idle EXCEPT !.at = "rotate", !.now = clock, !.token = t].at # "issue"
    BY DEF Idle
  <2>3. QED
    BY <1>3, <2>1, <2>2
<1>10. CASE RotateConsume(p)
  <2>1. CASE job' = [job EXCEPT ![p].at = "remint", ![p].flag = token[job[p].token].raced,
                                ![p].namespace = token[job[p].token].namespace]
    <3>1. /\ job'[p] = [job[p] EXCEPT !.at = "remint", !.flag = token[job[p].token].raced,
                                      !.namespace = token[job[p].token].namespace]
          /\ \A q \in Workers : q # p => job'[q] = job[q]
      BY <2>1 DEF RowsOK
    <3>2. job'[p].at = "remint"
      BY <1>2, <3>1 DEF Job
    <3>3. Quiet
      BY <1>1, <3>1, <3>2 DEF Quiet
    <3>4. QED
      BY <1>1, <3>3, QuietLimits
  <2>2. QED
    BY <1>4, <1>5, <1>10, <2>1 DEF RotateConsume
<1>11. CASE MintNext(p)
  <2>1. PICK new \in Tokens : job' = [job EXCEPT ![p].at = "replaced", ![p].new = new]
    BY <1>11 DEF MintNext
  <2>2. job'[p] = [job[p] EXCEPT !.at = "replaced", !.new = new] /\ \A q \in Workers : q # p => job'[q] = job[q]
    BY <2>1 DEF RowsOK
  <2>3. job'[p].at = "replaced"
    BY <1>2, <2>2 DEF Job
  <2>4. Quiet
    BY <1>1, <2>2, <2>3 DEF Quiet
  <2>5. QED
    BY <1>1, <2>4, QuietLimits
<1>12. CASE Logout(p)
  <2>1. PICK t \in Tokens :
          job' = [job EXCEPT ![p] = [Idle EXCEPT !.at = "revoke", !.namespace = token[t].namespace]]
    BY <1>12 DEF Logout, Begin
  <2>2. [Idle EXCEPT !.at = "revoke", !.namespace = token[t].namespace].at # "issue"
    BY DEF Idle
  <2>3. QED
    BY <1>3, <2>1, <2>2
<1>13. CASE RevokeNamespace(p)
  BY <1>4, <1>13 DEF RevokeNamespace
<1>14. CASE MintFirst(p) \/ MarkReplaced(p) \/ Throws(p)
  BY <1>5, <1>14 DEF MintFirst, MarkReplaced, Throws
<1>15. QED
  BY <1>6, <1>7, <1>8, <1>9, <1>10, <1>11, <1>12, <1>13, <1>14

(* No link has been asked for at first.                                    *)
LEMMA InitLimits ==
  ASSUME SessionsAssumption, Init
  PROVE  LimiterInv
<1>1. /\ clock = 1 /\ Max \in Nat /\ Window \in Nat /\ Window > 0 /\ 0 - Window \in Int
      /\ \A e \in Addresses : window[e] = [start |-> 0, count |-> 0]
      /\ \A l \in Links : ~link[l].metered
      /\ \A p \in Workers : job[p].at # "issue"
  BY IdleJob DEF Init, NoLink, SessionsAssumption
<1>2. ASSUME NEW e \in Addresses, NEW a \in Int PROVE Through(e, a) = 0
  <2>1. LinksIn(e, a) = {} /\ AsksIn(e, a) = {}
    BY <1>1 DEF LinksIn, AsksIn, Metered, Admits, For, At
  <2>2. QED
    BY <2>1, NoneIn
<1>3. WindowsOK
  BY DEF Init, WindowsOK
<1>4. 0 % Window = 0
  BY <1>1
<1>5. ASSUME NEW e \in Addresses PROVE Covers(window[e], e)
  <2>1. PICK w : w = [start |-> 0, count |-> 0]
    OBVIOUS
  <2>2. w.start = 0 /\ w.count = 0 /\ window[e] = w
    BY <1>1, <2>1
  <2>3. Through(e, w.start) = 0 /\ Through(e, w.start - Window) = 0
    BY <1>1, <1>2, <2>2
  <2>4. Covers(w, e)
    BY <1>1, <1>4, <2>2, <2>3 DEF Covers, Metered, Admits, For, At
  <2>5. QED
    BY <2>2, <2>4
<1>6. Bounded
  BY <1>1, <1>2 DEF Bounded
<1>7. QED
  BY <1>3, <1>5, <1>6 DEF LimiterInv, Covering

(* Every step of the service keeps the windows bounded.                   *)
LEMMA NextLimits ==
  ASSUME SessionsAssumption, IInv, LimiterInv, [Next]_vars
  PROVE  LimiterInv'
<1>1. RowsOK
  BY DEF IInv
<1>2. CASE UNCHANGED vars
  BY <1>1, <1>2, QuietLimits DEF vars, Quiet
<1>3. CASE Tick
  <2>1. \A e \in Addresses : AddsNone(e)
    BY <1>3 DEF Tick, AddsNone, Metered, Admits, For, At
  <2>2. UNCHANGED window /\ clock' \in Nat /\ clock <= clock'
    BY <1>1, <1>3 DEF Tick, RowsOK
  <2>3. QED
    BY <1>1, <2>1, <2>2, LimiterRests
<1>4. ASSUME NEW p \in Workers, AskLink(p) PROVE LimiterInv'
  BY <1>1, <1>4, AskLinkLimits
<1>5. ASSUME NEW p \in Workers, IssueLink(p) PROVE LimiterInv'
  BY <1>1, <1>5, IssueLinkLimits
<1>6. ASSUME NEW p \in Workers, UseLink(p) \/ ConsumeLink(p) PROVE LimiterInv'
  BY <1>1, <1>6, LinkStepsLimits
<1>7. ASSUME NEW p \in Workers,
             \/ OpenSession(p) \/ OpenTeamSession(p) \/ EnsureUser(p) \/ EnterTeam(p) \/ MintFirst(p)
             \/ UseToken(p) \/ RotateConsume(p) \/ MintNext(p) \/ MarkReplaced(p)
             \/ Logout(p) \/ RevokeNamespace(p) \/ Throws(p)
      PROVE  LimiterInv'
  BY <1>1, <1>7, TokenStepsLimits
<1>8. QED
  BY <1>2, <1>3, <1>4, <1>5, <1>6, <1>7 DEF Next

(* The limiter lets an address through for at most two windows' worth of links in
   any stretch as long as a window, with either backend and whatever fails
   (MagicLinkRateLimiter.consume).                                         *)
THEOREM LimiterHolds ==
  ASSUME SessionsAssumption
  PROVE  Spec => []AdmissionsBounded
<1>1. Init => LimiterInv
  BY InitLimits
<1>2. IInv /\ LimiterInv /\ [Next]_vars => LimiterInv'
  BY NextLimits
<1>3. LimiterInv => AdmissionsBounded
  <2>1. ASSUME LimiterInv, NEW e \in Addresses, NEW t0 \in 1..MaxTime
        PROVE  Cardinality(LinksIn(e, t0)) <= 2 * Max
    <3>1. Through(e, t0) <= 2 * Max /\ t0 \in Int /\ Max \in Nat
      BY <2>1 DEF LimiterInv, Bounded, SessionsAssumption
    <3>2. QED
      BY <3>1, Countable DEF Through
  <2>2. ASSUME NEW e \in Addresses, NEW t0 \in 1..MaxTime
        PROVE  LinksIn(e, t0) = {l \in Links : /\ For(link[l], e) /\ link[l].metered
                                               /\ link[l].asked \in t0..(t0 + Window - 1)}
    BY DEF LinksIn, Metered, Stretch
  <2>3. QED
    BY <2>1, <2>2 DEF AdmissionsBounded
<1>4. QED
  BY <1>1, <1>2, <1>3, Invariance, PTL DEF Spec
=============================================================================
