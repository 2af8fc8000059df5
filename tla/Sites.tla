------------------------------- MODULE Sites --------------------------------
(***************************************************************************)
(* The sites of kokoro-site, their domains and what else belongs to them   *)
(* (kokoro-site/src/application/site-service.ts and                        *)
(* infrastructure/prisma/prisma-site-repository.ts).                       *)
(*                                                                         *)
(* No operation runs in a transaction: each reads the rows it depends on,  *)
(* one query after another, and then writes by id.  Apps, policies and     *)
(* feature flags are written alike and are all parts here; nothing deletes *)
(* them.                                                                   *)
(***************************************************************************)
EXTENDS FiniteSets

CONSTANTS
  SiteIds, Hosts,  \* rows of Site and SiteDomain, by id and by host
  Local,           \* hosts an operator may mark verified without proof
  Parts,           \* keys of a site's apps, policies and flags
  Workers,         \* requests that may run at once
  None

VARIABLES
  site,    \* Site
  domain,  \* SiteDomain
  part,    \* SiteApp, SitePolicy and SiteFeatureFlag, of each site: set, or not
  request, \* where each request is in its handler
  late     \* history: rows deleted while a request was about to write them

vars == <<site, domain, part, request, late>>

-----------------------------------------------------------------------------
(* Rows.                                                                   *)
Lifecycle == {"none", "live", "deleted"}
SiteRow == [status : Lifecycle, active : BOOLEAN]
NoSite == [status |-> "none", active |-> FALSE]
DomainRow == [status : Lifecycle, active : BOOLEAN, verified : BOOLEAN, site : SiteIds \cup {None}]
NoDomain == [status |-> "none", active |-> FALSE, verified |-> FALSE, site |-> None]
Values == {"on", "off", None}

(* A request: what it does, to which rows, and the next query of its handler. *)
Kinds == {"none", "upsertSite", "deleteSite", "restoreSite", "upsertDomain", "deleteDomain",
          "restoreDomain", "verify", "mark", "upsertPart"}
Request == [at : {"idle", "site", "find", "get", "lookup", "write"}, kind : Kinds,
            site : SiteIds \cup {None}, host : Hosts \cup {None}, part : Parts \cup {None},
            active : BOOLEAN, create : BOOLEAN]
Idle == [at |-> "idle", kind |-> "none", site |-> None, host |-> None, part |-> None,
         active |-> FALSE, create |-> FALSE]

At(p, step) == request[p].at = step
Goto(p, step) == request' = [request EXCEPT ![p].at = step]
Finish(p) == request' = [request EXCEPT ![p] = Idle]

OnSite == {"upsertSite", "deleteSite", "restoreSite"}
OnDomain == {"upsertDomain", "deleteDomain", "restoreDomain", "verify", "mark"}
Found(p) == IF request[p].kind \in OnSite THEN site[request[p].site].status
            ELSE IF request[p].kind \in OnDomain THEN domain[request[p].host].status ELSE "none"

-----------------------------------------------------------------------------
(* The requests, each with its first query.                                *)
Ask(p, fields) ==
  /\ request[p] = Idle
  /\ request' = [request EXCEPT ![p] = fields]
  /\ UNCHANGED <<site, domain, part, late>>

AskSite(p) ==
  \E kind \in OnSite, s \in SiteIds, active \in BOOLEAN :
    /\ kind # "upsertSite" => ~active
    /\ Ask(p, [Idle EXCEPT !.at = "find", !.kind = kind, !.site = s, !.active = active])

AskDomain(p) ==
  \E h \in Hosts :
    \/ \E s \in SiteIds, active \in BOOLEAN :
         Ask(p, [Idle EXCEPT !.at = "site", !.kind = "upsertDomain", !.site = s, !.host = h,
                             !.active = active])
    \/ \E kind \in {"deleteDomain", "restoreDomain"} :
         Ask(p, [Idle EXCEPT !.at = "find", !.kind = kind, !.host = h])
    \/ \E kind \in {"verify", "mark"} :
         Ask(p, [Idle EXCEPT !.at = "get", !.kind = kind, !.host = h])

AskPart(p) ==
  \E s \in SiteIds, k \in Parts, active \in BOOLEAN :
    Ask(p, [Idle EXCEPT !.at = "site", !.kind = "upsertPart", !.site = s, !.part = k,
                        !.active = active])

(* assertWritableSite.                                                     *)
Writable_Any(s) == site[s].status # "none"
Writable(s) == site[s].status = "live"

CheckSite(p) ==
  /\ At(p, "site")
  /\ \/ Writable(request[p].site) /\ Goto(p, IF request[p].kind = "upsertPart" THEN "write" ELSE "find")
     \/ ~Writable(request[p].site) /\ Finish(p)
  /\ UNCHANGED <<site, domain, part, late>>

(* verify and mark read the domain; verify then waits for the name servers, which
   show the token of the domain or do not.                                 *)
GetDomain(p) ==
  LET row == domain[request[p].host]
  IN  /\ At(p, "get")
      /\ \/ /\ row.status = "live"
            /\ request[p].kind = "mark" => request[p].host \in Local
            /\ Goto(p, IF request[p].kind = "verify" THEN "lookup" ELSE "find")
         \/ /\ row.status # "live" \/ (request[p].kind = "mark" /\ request[p].host \notin Local)
            /\ Finish(p)
      /\ UNCHANGED <<site, domain, part, late>>

LookupTxt(p) ==
  /\ At(p, "lookup")
  /\ Goto(p, "find") \/ Finish(p)
  /\ UNCHANGED <<site, domain, part, late>>

(* The row that the write is about: an upsert of a deleted one is refused and so is
   marking it; deleting one that is deleted, and restoring one that is not, is done. *)
Allows(kind, status) ==
  CASE kind \in {"upsertSite", "upsertDomain"} -> status # "deleted"
    [] kind \in {"verify", "mark"}             -> status = "live"
    [] kind \in {"deleteSite", "deleteDomain"} -> status = "live"
    [] OTHER                                   -> status = "deleted"

Find(p) ==
  /\ At(p, "find")
  /\ \/ /\ Allows(request[p].kind, Found(p))
        /\ request' = [request EXCEPT ![p].at = "write", ![p].create = Found(p) = "none"]
     \/ /\ ~Allows(request[p].kind, Found(p))
        /\ Finish(p)
  /\ UNCHANGED <<site, domain, part, late>>

-----------------------------------------------------------------------------
(* The writes.  late remembers, of a row that is deleted, whether another request had
   made its last check of it: of the host at "find", of a domain's site before. *)
Checked(q) ==
  IF At(q, "write") THEN {request[q].site, request[q].host}
  ELSE IF At(q, "find") /\ request[q].kind = "upsertDomain" THEN {request[q].site} ELSE {}

Caught(p, row) ==
  IF \E q \in Workers \ {p} : row \in Checked(q) THEN late \cup {row} ELSE late \ {row}

WriteSite(p) ==
  LET r == request[p]
      row == site[r.site]
  IN  /\ At(p, "write") /\ r.kind \in OnSite
      /\ \/ /\ r.kind = "upsertSite"
            /\ r.create => row.status = "none"
            /\ site' = [site EXCEPT ![r.site] =
                 IF r.create THEN [status |-> "live", active |-> r.active]
                 ELSE [row EXCEPT !.active = r.active]]
            /\ UNCHANGED late
         \/ /\ r.kind = "deleteSite"
            /\ site' = [site EXCEPT ![r.site].status = "deleted"]
            /\ late' = Caught(p, r.site)
         \/ /\ r.kind = "restoreSite"
            /\ site' = [site EXCEPT ![r.site].status = "live"]
            /\ UNCHANGED late
      /\ Finish(p)
      /\ UNCHANGED <<domain, part>>

(* A domain that exists moves to the site it is upserted for, with its token and its
   proof.                                                                  *)
WriteDomain(p) ==
  LET r == request[p]
      row == domain[r.host]
      Set(new) == domain' = [domain EXCEPT ![r.host] = new]
  IN  /\ At(p, "write") /\ r.kind \in OnDomain
      /\ \/ /\ r.kind = "upsertDomain"
            /\ r.create => row.status = "none"
            /\ Set(IF r.create
                   THEN [status |-> "live", active |-> r.active, verified |-> FALSE, site |-> r.site]
                   ELSE [row EXCEPT !.active = r.active, !.site = r.site])
            /\ UNCHANGED late
         \/ /\ r.kind = "deleteDomain"
            /\ Set([row EXCEPT !.status = "deleted"])
            /\ late' = Caught(p, r.host)
         \/ /\ r.kind = "restoreDomain"
            /\ Set([row EXCEPT !.status = "live"])
            /\ UNCHANGED late
         \/ /\ r.kind \in {"verify", "mark"}
            /\ Set([row EXCEPT !.active = TRUE, !.verified = TRUE])
            /\ UNCHANGED late
      /\ Finish(p)
      /\ UNCHANGED <<site, part>>

WritePart(p) ==
  LET r == request[p]
  IN  /\ At(p, "write") /\ r.kind = "upsertPart"
      /\ part' = [part EXCEPT ![r.site][r.part] = IF r.active THEN "on" ELSE "off"]
      /\ Finish(p)
      /\ UNCHANGED <<site, domain, late>>

(* A query fails, a unique key is taken, or the process dies.              *)
Throws(p) ==
  /\ request[p] # Idle
  /\ Finish(p)
  /\ UNCHANGED <<site, domain, part, late>>

-----------------------------------------------------------------------------
Init ==
  /\ site = [s \in SiteIds |-> NoSite]
  /\ domain = [h \in Hosts |-> NoDomain]
  /\ part = [s \in SiteIds |-> [k \in Parts |-> None]]
  /\ request = [p \in Workers |-> Idle]
  /\ late = {}

SiteRequests(p) == AskSite(p) \/ WriteSite(p)
DomainRequests(p) == AskDomain(p) \/ GetDomain(p) \/ LookupTxt(p) \/ WriteDomain(p)
PartRequests(p) == AskPart(p) \/ WritePart(p)

Next ==
  \E p \in Workers :
    SiteRequests(p) \/ DomainRequests(p) \/ PartRequests(p) \/ CheckSite(p) \/ Find(p) \/ Throws(p)

Spec == Init /\ [][Next]_vars

-----------------------------------------------------------------------------
(* Type correctness.                                                       *)
TypeOK ==
  /\ site \in [SiteIds -> SiteRow] /\ domain \in [Hosts -> DomainRow]
  /\ part \in [SiteIds -> [Parts -> Values]]
  /\ request \in [Workers -> Request]
  /\ late \in SUBSET (SiteIds \cup Hosts)

(* What is deleted stays as it is until it is restored: no request changes a deleted
   site or what it consists of, moves a domain to it, or changes a deleted domain,
   though a verification waits long for the name servers while operators delete and
   restore (assertWritableSite, markSiteDomainVerified).  This is not so of a row
   that was deleted while a request was between its last check and its write.  *)
DeletedIsFrozen ==
  [][/\ \A s \in SiteIds \ late :
          site[s].status = "deleted" /\ site'[s].status = "deleted" =>
            /\ site'[s] = site[s] /\ part'[s] = part[s]
            /\ \A h \in Hosts : domain'[h].site = s => domain[h].site = s
     /\ \A h \in Hosts \ late :
          domain[h].status = "deleted" /\ domain'[h].status = "deleted" =>
            domain'[h] = domain[h]]_vars
=============================================================================
