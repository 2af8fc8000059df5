------------------------------ MODULE Sessions -------------------------------
(***************************************************************************)
(* Logging in to kokoro-user: magic links, their rate limit, and refresh   *)
(* tokens (kokoro-user/src/application/magic-link-service.ts,              *)
(* magic-link-rate-limiter.ts, session-service.ts and refresh-service.ts,  *)
(* with their Prisma repositories and routes).                             *)
(*                                                                         *)
(* A handler is a job: it reads the clock when it starts and then awaits   *)
(* one database call after another, any job running in between.  Each call *)
(* is atomic (one statement, or one transaction whose first statement      *)
(* locks the rows it tests); a job may throw or die between two calls.     *)
(***************************************************************************)
EXTENDS Integers, FiniteSets

CONSTANTS
  Emails,        \* (site, address) pairs; each has a personal team, its namespace
  Teams,         \* namespaces of other teams a session can be opened for
  Addresses,     \* addresses, of whatever site
  AddressOf,     \* the address of each pair
  Ips,           \* sources of requests
  Nonces,        \* hashes of device nonces
  Links, Tokens, \* rows of magic_links and refresh_tokens
  Workers,       \* requests that may run at once
  None,          \* NULL
  Ops,           \* what clients do
  Backend,       \* of the rate limiter
  Max, IpMax,    \* links an address, a source may ask for in a window
  Window,        \* its length
  LinkTtl, TokenTtl, Grace,
  MaxTime        \* bound on the clock

ASSUME SessionsAssumption ==
  /\ None \notin Emails \cup Teams \cup Addresses \cup Ips \cup Nonces \cup Links \cup Tokens
  /\ AddressOf \in [Emails -> Addresses]
  /\ Emails \cap Teams = {} /\ Addresses \cap Ips = {}
  /\ IsFiniteSet(Links) /\ IsFiniteSet(Workers)
  /\ Ops \subseteq {"link", "open", "rotate", "logout"}
  /\ Backend \in {"memory", "redis"}
  /\ Max \in Nat \ {0} /\ IpMax \in Nat \ {0} /\ Window \in Nat \ {0}
  /\ LinkTtl \in Nat /\ TokenTtl \in Nat /\ Grace \in Nat /\ MaxTime \in Nat

VARIABLES
  clock,      \* the time, from 1
  window,     \* the limiter's window of each address and source
  link,       \* magic_links
  token,      \* refresh_tokens
  job         \* where each request is in its handler

vars == <<clock, window, link, token, job>>

-----------------------------------------------------------------------------
(* Rows.  A time of 0 is NULL.  asked, metered, root, link and raced are no
   columns: when a link was asked for and whether the limiter counted it; the
   token a login began with and the link it was opened with; whether a
   revocation ran while the token, or one before it, was being minted.  A job
   carries metered or raced in its flag.                                   *)
Namespaces == Emails \cup Teams
LinkRow == [email : Emails \cup {None}, nonce : Nonces \cup {None}, expiresAt : Nat,
            consumed : BOOLEAN, superseded : BOOLEAN, asked : Nat, metered : BOOLEAN]
NoLink == [email |-> None, nonce |-> None, expiresAt |-> 0, consumed |-> FALSE,
           superseded |-> FALSE, asked |-> 0, metered |-> FALSE]

TokenRow == [namespace : Namespaces \cup {None}, expiresAt : Nat, consumedAt : Nat,
             revoked : BOOLEAN, replacedBy : Tokens \cup {None},
             root : Tokens \cup {None}, link : Links \cup {None}, raced : BOOLEAN]
NoToken == [namespace |-> None, expiresAt |-> 0, consumedAt |-> 0, revoked |-> FALSE,
            replacedBy |-> None, root |-> None, link |-> None, raced |-> FALSE]

Steps == {"idle", "issue", "consume", "ensure", "enter", "mint", "rotate", "remint",
          "replaced", "revoke"}
Job == [at : Steps, now : Nat, email : Emails \cup {None}, nonce : Nonces \cup {None},
        link : Links \cup {None}, token : Tokens \cup {None}, new : Tokens \cup {None},
        namespace : Namespaces \cup {None}, flag : BOOLEAN]
Idle == [at |-> "idle", now |-> 0, email |-> None, nonce |-> None, link |-> None,
         token |-> None, new |-> None, namespace |-> None, flag |-> FALSE]

At(p, step) == job[p].at = step
Begin(p, fields) == job[p] = Idle /\ job' = [job EXCEPT ![p] = fields]
Goto(p, step) == job' = [job EXCEPT ![p].at = step]
Finish(p) == job' = [job EXCEPT ![p] = Idle]

-----------------------------------------------------------------------------
(* The rate limiter: a fixed window per address, the same for every site, and
   per source.  In memory a window starts with the request that opens it and
   refused requests are not counted; in Redis windows are aligned and every
   request is counted.  Counts above the limit are not told apart.         *)
Limits == [k \in Addresses \cup Ips |-> IF k \in Addresses THEN Max ELSE IpMax]
Opening == IF Backend = "memory" THEN clock ELSE clock - (clock % Window)
IsOpen(k) == clock - window[k].start < Window
Used(k) == IF IsOpen(k) THEN window[k].count ELSE 0

Admitted_AnyDimension(ks) == \E k \in ks : Used(k) < Limits[k]
Admitted(ks) == \A k \in ks : Used(k) < Limits[k]

Counted(ks) ==
  IF Backend = "memory" /\ ~Admitted(ks) THEN window
  ELSE [k \in DOMAIN window |->
          IF k \notin ks THEN window[k]
          ELSE [start |-> IF Used(k) > 0 THEN window[k].start ELSE Opening,
                count |-> IF Used(k) > Limits[k] THEN Used(k) ELSE Used(k) + 1]]

-----------------------------------------------------------------------------
(* POST /auth/magic-links: the limiter, then the row.  Redis counts the address,
   then the source; when it fails, before, between or after, the request is let
   through.  The mail is sent after the row is written; a mail that fails leaves
   the row.                                                                *)
AskLink(p) ==
  \E e \in Emails, n \in Nonces \cup {None}, ip \in Ips \cup {None} :
    LET ks  == {AddressOf[e], ip} \ {None}
        ask == [Idle EXCEPT !.at = "issue", !.now = clock, !.email = e, !.nonce = n]
    IN  /\ "link" \in Ops
        /\ \/ /\ Admitted(ks)
              /\ window' = Counted(ks)
              /\ Begin(p, [ask EXCEPT !.flag = TRUE])
           \/ /\ ~Admitted(ks)
              /\ window' = Counted(ks)
              /\ UNCHANGED job
           \/ /\ Backend = "redis"
              /\ \E done \in {{}, {AddressOf[e]}, ks} : window' = Counted(done)
              /\ Begin(p, ask)
        /\ UNCHANGED <<clock, link, token>>

LiveLink(l) == link[l].email # None /\ ~link[l].consumed /\ ~link[l].superseded

(* issue: the links of the address that are still live are superseded, expired
   ones too.                                                               *)
Supersedes_SameDevice(l, p) ==
  LiveLink(l) /\ link[l].email = job[p].email /\ link[l].nonce = job[p].nonce
Supersedes(l, p) == LiveLink(l) /\ link[l].email = job[p].email

IssueLink(p) ==
  \E new \in Links :
    /\ At(p, "issue")
    /\ link[new] = NoLink
    /\ link' = [l \in Links |->
         IF l = new THEN [NoLink EXCEPT !.email = job[p].email, !.nonce = job[p].nonce,
                            !.expiresAt = job[p].now + LinkTtl,
                            !.asked = job[p].now, !.metered = job[p].flag]
         ELSE [link[l] EXCEPT !.superseded = @ \/ Supersedes(l, p)]]
    /\ Finish(p)
    /\ UNCHANGED <<clock, window, token>>

(* POST /auth/magic-links/consume: the link is spent, by the device it is bound
   to, and then a session is opened; a failure after the first step leaves the
   link spent.                                                             *)
UseLink(p) ==
  \E l \in Links, n \in Nonces \cup {None} :
    /\ "link" \in Ops
    /\ link[l] # NoLink
    /\ Begin(p, [Idle EXCEPT !.at = "consume", !.now = clock, !.link = l, !.nonce = n])
    /\ UNCHANGED <<clock, window, link, token>>

Consumable_Read(l, n, now) ==
  link[l].email # None /\ ~link[l].superseded /\ link[l].nonce = n /\ now < link[l].expiresAt
Consumable(l, n, now) == LiveLink(l) /\ link[l].nonce = n /\ now < link[l].expiresAt

ConsumeLink(p) ==
  LET l == job[p].link
  IN  /\ At(p, "consume")
      /\ IF Consumable(l, job[p].nonce, job[p].now)
         THEN /\ link' = [link EXCEPT ![l].consumed = TRUE]
              /\ job' = [job EXCEPT ![p] = [Idle EXCEPT !.at = "ensure", !.link = l,
                                              !.namespace = link[l].email]]
         ELSE Finish(p) /\ UNCHANGED link
      /\ UNCHANGED <<clock, window, token>>

-----------------------------------------------------------------------------
(* POST /auth/sessions and /bff/auth/team-sessions: a session without a link. *)
OpenSession(p) ==
  \E e \in Emails :
    /\ "open" \in Ops
    /\ Begin(p, [Idle EXCEPT !.at = "ensure", !.namespace = e])
    /\ UNCHANGED <<clock, window, link, token>>

OpenTeamSession(p) ==
  \E t \in Teams :
    /\ "open" \in Ops
    /\ Begin(p, [Idle EXCEPT !.at = "enter", !.namespace = t])
    /\ UNCHANGED <<clock, window, link, token>>

(* ensureUserWithPersonalTeam or resolveMemberTeamContext, then the JWT; a
   deleted user or one who is no member is refused (Throws).               *)
EnsureUser(p) ==
  /\ At(p, "ensure")
  /\ job' = [job EXCEPT ![p].at = "mint", ![p].now = clock]
  /\ UNCHANGED <<clock, window, link, token>>

EnterTeam(p) ==
  /\ At(p, "enter")
  /\ job' = [job EXCEPT ![p].at = "mint", ![p].now = clock]
  /\ UNCHANGED <<clock, window, link, token>>

(* RefreshService.mint.                                                    *)
Minted(p, root, new) ==
  [NoToken EXCEPT !.namespace = job[p].namespace, !.expiresAt = job[p].now + TokenTtl,
                  !.root = root, !.link = job[p].link, !.raced = job[p].flag]

MintFirst(p) ==
  \E new \in Tokens :
    /\ At(p, "mint")
    /\ token[new] = NoToken
    /\ token' = [token EXCEPT ![new] = Minted(p, new, new)]
    /\ Finish(p)
    /\ UNCHANGED <<clock, window, link>>

-----------------------------------------------------------------------------
(* POST /auth/refresh.                                                     *)
UseToken(p) ==
  \E t \in Tokens :
    /\ "rotate" \in Ops
    /\ token[t] # NoToken
    /\ Begin(p, [Idle EXCEPT !.at = "rotate", !.now = clock, !.token = t])
    /\ UNCHANGED <<clock, window, link, token>>

LiveToken(t) == token[t].namespace # None /\ token[t].consumedAt = 0 /\ ~token[t].revoked

Rotatable_Unrevoked(t, now) == ~token[t].revoked /\ now < token[t].expiresAt
Rotatable(t, now) == LiveToken(t) /\ now < token[t].expiresAt

(* A token that was consumed longer ago than a second tab explains.        *)
Replayed(t, now) == token[t].consumedAt > 0 /\ now - token[t].consumedAt > Grace

(* Every row of the namespace, consumed ones included.  Rotations that have
   consumed their token and not minted the next one are marked.            *)
RevokeAll_Consumed(ns) ==
  [t \in Tokens |-> [token[t] EXCEPT
      !.revoked = @ \/ (token[t].namespace = ns /\ token[t].consumedAt > 0)]]
RevokeAll(ns) ==
  [t \in Tokens |-> [token[t] EXCEPT !.revoked = @ \/ token[t].namespace = ns]]
RacedBy(ns, others) ==
  [q \in Workers |-> [others[q] EXCEPT
      !.flag = @ \/ (others[q].at = "remint" /\ others[q].namespace = ns)]]

RotateConsume(p) ==
  LET t == job[p].token
      n == job[p].now
  IN  /\ At(p, "rotate")
      /\ \/ /\ Rotatable(t, n)
            /\ token' = [token EXCEPT ![t].consumedAt = n]
            /\ job' = [job EXCEPT ![p].at = "remint", ![p].flag = token[t].raced,
                                  ![p].namespace = token[t].namespace]
         \/ /\ ~Rotatable(t, n) /\ Replayed(t, n)
            /\ token' = RevokeAll(token[t].namespace)
            /\ job' = RacedBy(token[t].namespace, [job EXCEPT ![p] = Idle])
         \/ /\ ~Rotatable(t, n) /\ ~Replayed(t, n)
            /\ Finish(p)
            /\ UNCHANGED token
      /\ UNCHANGED <<clock, window, link>>

MintNext(p) ==
  \E new \in Tokens :
    /\ At(p, "remint")
    /\ token[new] = NoToken
    /\ token' = [token EXCEPT ![new] = Minted(p, token[job[p].token].root, new)]
    /\ job' = [job EXCEPT ![p].at = "replaced", ![p].new = new]
    /\ UNCHANGED <<clock, window, link>>

MarkReplaced(p) ==
  /\ At(p, "replaced")
  /\ token' = [token EXCEPT ![job[p].token].replacedBy = job[p].new]
  /\ Finish(p)
  /\ UNCHANGED <<clock, window, link>>

(* POST /auth/refresh/revoke: with any token of the namespace, live or not. *)
Logout(p) ==
  \E t \in Tokens :
    /\ "logout" \in Ops
    /\ token[t] # NoToken
    /\ Begin(p, [Idle EXCEPT !.at = "revoke", !.namespace = token[t].namespace])
    /\ UNCHANGED <<clock, window, link, token>>

RevokeNamespace(p) ==
  /\ At(p, "revoke")
  /\ token' = RevokeAll(job[p].namespace)
  /\ job' = RacedBy(job[p].namespace, [job EXCEPT ![p] = Idle])
  /\ UNCHANGED <<clock, window, link>>

-----------------------------------------------------------------------------
(* A request fails or its process dies between two steps.                  *)
Throws(p) ==
  /\ job[p] # Idle
  /\ Finish(p)
  /\ UNCHANGED <<clock, window, link, token>>

Tick ==
  /\ clock < MaxTime
  /\ clock' = clock + 1
  /\ UNCHANGED <<window, link, token, job>>

Init ==
  /\ clock = 1
  /\ window = [k \in Addresses \cup Ips |-> [start |-> 0, count |-> 0]]
  /\ link = [l \in Links |-> NoLink]
  /\ token = [t \in Tokens |-> NoToken]
  /\ job = [p \in Workers |-> Idle]

Next ==
  \/ Tick
  \/ \E p \in Workers :
       \/ AskLink(p) \/ IssueLink(p) \/ UseLink(p) \/ ConsumeLink(p)
       \/ OpenSession(p) \/ OpenTeamSession(p) \/ EnsureUser(p) \/ EnterTeam(p) \/ MintFirst(p)
       \/ UseToken(p) \/ RotateConsume(p) \/ MintNext(p) \/ MarkReplaced(p)
       \/ Logout(p) \/ RevokeNamespace(p) \/ Throws(p)

Spec == Init /\ [][Next]_vars

-----------------------------------------------------------------------------
(* Type correctness.                                                       *)
TypeOK ==
  /\ clock \in 1..(MaxTime + 1)
  /\ window \in [Addresses \cup Ips -> [start : Nat, count : Nat]]
  /\ link \in [Links -> LinkRow]
  /\ token \in [Tokens -> TokenRow]
  /\ job \in [Workers -> Job]

(* However many requests for one address are in flight, one link at most can be
   used, and a link that was superseded is never the one that was used (issue:
   one transaction supersedes and inserts).                                *)
OneLiveLink ==
  /\ \A l, m \in Links : LiveLink(l) /\ LiveLink(m) /\ link[l].email = link[m].email => l = m
  /\ \A l \in Links : ~(link[l].consumed /\ link[l].superseded)

(* Logins in flight with a link, and logins it has opened.                 *)
Using(l) == {p \in Workers : job[p].at \in {"ensure", "mint"} /\ job[p].link = l}
Opened(l) == {t \in Tokens : token[t].link = l}

(* A link opens one session however often and by however many requests it is
   shown, and only once it is spent (consume: the conditional update).     *)
LinkOpensOneSession ==
  \A l \in Links :
    /\ \A p, q \in Using(l) : p = q
    /\ \A t, u \in Opened(l) : t = u
    /\ Using(l) = {} \/ Opened(l) = {}
    /\ Using(l) \cup Opened(l) # {} => link[l].consumed

(* However many tabs refresh at once and wherever a rotation dies, a login has
   one token that can be used, or one rotation about to make one.          *)
Minting(t) == {p \in Workers : job[p].at = "remint" /\ token[job[p].token].root = token[t].root}
OneTokenPerLogin ==
  \A t \in Tokens : LiveToken(t) =>
    /\ \A u \in Tokens : LiveToken(u) /\ token[u].root = token[t].root => u = t
    /\ Minting(t) = {}

(* A login of which any token was revoked, by a logout or a replay, has no token
   left that can be used, but for those minted by a rotation the revocation ran
   into and their successors.                                              *)
RevocationEndsLogin ==
  \A t, u \in Tokens :
    token[t].revoked /\ LiveToken(u) /\ token[u].root = token[t].root => token[u].raced

(* What was asked for an address, at whatever site.                        *)
For(row, a) == row.email # None /\ AddressOf[row.email] = a

(* In any stretch as long as a window an address is let through for at most two
   windows' worth of links, whatever the sites, the sources, the backend and the
   order of the requests, those Redis failed for aside.                    *)
AdmissionsBounded ==
  \A a \in Addresses, t0 \in 1..MaxTime :
    Cardinality({l \in Links : /\ For(link[l], a) /\ link[l].metered
                               /\ link[l].asked \in t0..(t0 + Window - 1)}) <= 2 * Max

=============================================================================
