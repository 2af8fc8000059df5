---------------------------- MODULE ActiveChecks -----------------------------
(***************************************************************************)
(* The check kokoro-credit makes before it changes an account: its site    *)
(* and its owner must be active, by kokoro-site and by kokoro-user, whose  *)
(* positive answers each process keeps for a while                         *)
(* (kokoro-credit/src/infrastructure/http/owner-site-checker.ts).          *)
(*                                                                         *)
(* A call is made, answered and heard in separate steps: nothing bounds    *)
(* how long an answer travels (callService sets no timeout), and other     *)
(* checks, suspensions and time pass in between.                           *)
(***************************************************************************)
EXTENDS Integers, Sequences, SequencesExt

CONSTANTS
  Sites, Accounts,
  SiteOf, IdOf,   \* of each account: its site and its owner's id, unique in the site
  Workers,        \* requests that may run at once
  None,
  Switched,       \* the sites and owners that operators suspend and let back
  Ttl,            \* ttlMs: how long a positive answer is kept
  MaxEntries,     \* of each cache
  CheckTime       \* bound of the clock

ASSUME ChecksAssumption ==
  /\ SiteOf \in [Accounts -> Sites] /\ DOMAIN IdOf = Accounts
  /\ \A a, b \in Accounts : SiteOf[a] = SiteOf[b] /\ IdOf[a] = IdOf[b] => a = b
  /\ Sites \cap Accounts = {} /\ None \notin Sites \cup Accounts
  /\ Switched \subseteq Sites \cup Accounts
  /\ Ttl \in Nat /\ MaxEntries \in Nat \ {0} /\ CheckTime \in Nat

VARIABLES
  now,    \* the time
  up,     \* what the site and the user service hold: which are active
  cache,  \* the entries of the two caches, in the order of their insertion
  check,  \* the check each request is in
  last    \* history: when each was last suspended or heard to be active

checkVars == <<now, up, cache, check, last>>

-----------------------------------------------------------------------------
Dims == {"site", "owner"}
Subjects == Sites \cup Accounts
NoCheck == [at |-> "idle", dim |-> "site", account |-> None]

Subject(dim, a) == IF dim = "site" THEN SiteOf[a] ELSE a

(* The key of an answer.  An owner's id alone is not unique.               *)
Key_IdOnly(dim, a) ==
  IF dim = "site" THEN SiteOf[a] ELSE CHOOSE b \in Accounts : IdOf[b] = IdOf[a]
Key(dim, a) == Subject(dim, a)

(* PositiveTtlCache.  Without a TTL nothing is kept.                       *)
Kept(dim, key) == {i \in DOMAIN cache[dim] : cache[dim][i].key = key}
Fresh(dim, key) == Ttl > 0 /\ \E i \in Kept(dim, key) : now < cache[dim][i].until
Without(entries, key) ==
  IF \E i \in DOMAIN entries : entries[i].key = key
  THEN RemoveAt(entries, CHOOSE i \in DOMAIN entries : entries[i].key = key)
  ELSE entries

Set(dim, key) ==
  LET others == Without(cache[dim], key)
      kept   == IF Len(others) >= MaxEntries THEN Tail(others) ELSE others
  IN  IF Ttl = 0 THEN cache[dim] ELSE Append(kept, [key |-> key, until |-> now + Ttl])

-----------------------------------------------------------------------------
(* ensureAccountActive: the site, then the owner.                          *)
BeginCheck(p, a) ==
  /\ check[p].at \in {"idle", "passed"}
  /\ check' = [check EXCEPT ![p] = [NoCheck EXCEPT !.at = "look", !.account = a]]
  /\ UNCHANGED <<now, up, cache, last>>

Passed(c) ==
  IF c.dim = "site" THEN [c EXCEPT !.at = "look", !.dim = "owner"]
  ELSE [NoCheck EXCEPT !.at = "passed"]

(* A kept answer that is out of date is dropped and asked for again.       *)
Renewed(dim, key) == cache

Hit(p) ==
  LET c == check[p]
      k == Key(c.dim, c.account)
  IN  /\ c.at = "look"
      /\ Fresh(c.dim, k)
      /\ cache' = Renewed(c.dim, k)
      /\ check' = [check EXCEPT ![p] = Passed(c)]
      /\ UNCHANGED <<now, up, last>>

Miss(p) ==
  LET c == check[p]
      k == Key(c.dim, c.account)
  IN  /\ c.at = "look"
      /\ ~Fresh(c.dim, k)
      /\ cache' = [cache EXCEPT ![c.dim] = IF Ttl = 0 THEN @ ELSE Without(@, k)]
      /\ check' = [check EXCEPT ![p].at = "call"]
      /\ UNCHANGED <<now, up, last>>

(* The other service answers: yes, or no, and then the request is refused. *)
Answer(p) ==
  LET c == check[p]
  IN  /\ c.at = "call"
      /\ check' = [check EXCEPT ![p] = IF up[Subject(c.dim, c.account)]
                                       THEN [c EXCEPT !.at = "said"] ELSE NoCheck]
      /\ UNCHANGED <<now, up, cache, last>>

Hear(p) ==
  LET c == check[p]
  IN  /\ c.at = "said"
      /\ cache' = [cache EXCEPT ![c.dim] = Set(c.dim, Key(c.dim, c.account))]
      /\ last' = [last EXCEPT ![Subject(c.dim, c.account)] = now]
      /\ check' = [check EXCEPT ![p] = Passed(c)]
      /\ UNCHANGED <<now, up>>

(* A service that cannot be reached refuses the request.                   *)
Unreachable(p) ==
  /\ check[p].at \in {"call", "said"}
  /\ check' = [check EXCEPT ![p] = NoCheck]
  /\ UNCHANGED <<now, up, cache, last>>

(* Another instance or a restarted process: its caches are empty.          *)
Restart ==
  /\ cache' = [d \in Dims |-> <<>>]
  /\ check' = [p \in Workers |-> NoCheck]
  /\ UNCHANGED <<now, up, last>>

(* A site is suspended, a user banned or a team disabled, or back again.   *)
SetActive(s, active) ==
  /\ up[s] # active
  /\ up' = [up EXCEPT ![s] = active]
  /\ last' = [last EXCEPT ![s] = IF active THEN @ ELSE now]
  /\ UNCHANGED <<now, cache, check>>

CheckTick ==
  /\ now < CheckTime
  /\ now' = now + 1
  /\ UNCHANGED <<up, cache, check, last>>

-----------------------------------------------------------------------------
InitChecks ==
  /\ now = 0
  /\ up \in [Subjects -> BOOLEAN]
  /\ cache = [d \in Dims |-> <<>>]
  /\ check = [p \in Workers |-> NoCheck]
  /\ last = [s \in Subjects |-> -Ttl]

NextChecks ==
  \/ \E p \in Workers :
       \/ \E a \in Accounts : BeginCheck(p, a)
       \/ Hit(p) \/ Miss(p) \/ Answer(p) \/ Hear(p) \/ Unreachable(p)
  \/ \E s \in Switched, active \in BOOLEAN : SetActive(s, active)
  \/ Restart \/ CheckTick

ChecksSpec == InitChecks /\ [][NextChecks]_checkVars

-----------------------------------------------------------------------------
(* A suspended site or a banned owner is served from the cache for less than one
   TTL after the suspension, or after a positive answer that was under way then
   was heard; and no answer about one owner serves another (PositiveTtlCache:
   a ban takes full effect within one TTL).                                *)
BanTakesEffect ==
  [][\A p \in Workers, a \in Accounts, d \in Dims :
       /\ check[p].account = a /\ check[p].dim = d /\ check[p].at = "look"
       /\ check'[p] = Passed(check[p])
       => LET s == Subject(d, a)
          IN  up[s] \/ now < last[s] + Ttl]_checkVars
=============================================================================
