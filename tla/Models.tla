------------------------------- MODULE Models -------------------------------
(***************************************************************************)
(* The model directory of kokoro-model: provider accounts, the bindings of *)
(* models to them, the labels users choose from and the sites' policies    *)
(* (kokoro-model/src/infrastructure/prisma/prisma-model-repository.ts).    *)
(*                                                                         *)
(* A binding is served to a site when it and its account are in service    *)
(* and the site hides none of its labels.  Nothing runs in a transaction:  *)
(* every query of a request is a step.  The priority of bindings, their    *)
(* features and modalities are left out; nothing writes healthStatus.      *)
(***************************************************************************)
EXTENDS FiniteSets

CONSTANTS
  Accounts,  \* rows of ProviderAccount, by provider and key
  Bindings,  \* rows of ModelBinding, by account, model and transport
  Account,   \* the account of each binding
  Labels,    \* keys of ModelLabel
  Sites,
  Workers,   \* requests that may run at once
  None

VARIABLES
  account,   \* ProviderAccount
  binding,   \* ModelBinding
  label,     \* ModelLabel
  hidden,    \* SiteModelPolicy: the pairs with status "hidden"
  job,       \* where each request is in its handler
  veiled,    \* history: labels hidden from a request's site ever since it began
  barred     \* history: bindings out of service ever since a request began

data == <<account, binding, label, hidden>>
vars == <<account, binding, label, hidden, job, veiled, barred>>

-----------------------------------------------------------------------------
Lifecycle == {"none", "live", "deleted"}
AccountRow == [status : Lifecycle, active : BOOLEAN]
BindingRow == [status : Lifecycle, active : BOOLEAN, labels : SUBSET Labels]
NoAccount == [status |-> "none", active |-> FALSE]
NoBinding == [status |-> "none", active |-> FALSE, labels |-> {}]

(* What a request found: bindings with the labels they had, labels of a catalog, or
   the labels its site hides.                                              *)
Seen == [binding : Bindings, labels : SUBSET Labels]
Kinds == {"none", "ensureAccount", "ensureBinding", "delete", "restore", "resolve", "catalog"}
Job == [at : {"idle", "account", "find", "write", "bindings", "hidden", "labels", "answered"},
        kind : Kinds, row : Accounts \cup Bindings \cup {None}, labels : SUBSET Labels,
        site : Sites \cup {None}, label : Labels \cup {None},
        seen : SUBSET Seen, shown : SUBSET Labels]
Idle == [at |-> "idle", kind |-> "none", row |-> None, labels |-> {}, site |-> None,
         label |-> None, seen |-> {}, shown |-> {}]

At(p, step) == job[p].at = step
Goto(p, step) == job' = [job EXCEPT ![p].at = step]
Finish(p) == job' = [job EXCEPT ![p] = Idle]
Begin(p, fields) == job[p] = Idle /\ job' = [job EXCEPT ![p] = fields] /\ UNCHANGED data

StatusOf(row) == IF row \in Accounts THEN account[row].status ELSE binding[row].status
SetStatus(row, status) ==
  \/ /\ row \in Accounts
     /\ account' = [account EXCEPT ![row].status = status]
     /\ UNCHANGED <<binding, label, hidden>>
  \/ /\ row \in Bindings
     /\ binding' = [binding EXCEPT ![row].status = status]
     /\ UNCHANGED <<account, label, hidden>>
HiddenFrom(s) == {l \in Labels : <<s, l>> \in hidden}

-----------------------------------------------------------------------------
(* ensureProviderAccount and ensureModelBinding: a deleted row is refused before the
   upsert and again after it, which has changed it by then.                *)
AskEnsure(p) ==
  \/ \E a \in Accounts : Begin(p, [Idle EXCEPT !.at = "find", !.kind = "ensureAccount", !.row = a])
  \/ \E b \in Bindings, ls \in SUBSET Labels :
       Begin(p, [Idle EXCEPT !.at = "account", !.kind = "ensureBinding", !.row = b, !.labels = ls])

FindAccount(p) ==
  /\ At(p, "account")
  /\ \/ StatusOf(Account[job[p].row]) = "live" /\ Goto(p, "find")
     \/ StatusOf(Account[job[p].row]) # "live" /\ Finish(p)
  /\ UNCHANGED data

FindEnsured(p) ==
  /\ At(p, "find") /\ job[p].kind \in {"ensureAccount", "ensureBinding"}
  /\ \/ StatusOf(job[p].row) # "deleted" /\ Goto(p, "write")
     \/ StatusOf(job[p].row) = "deleted" /\ Finish(p)
  /\ UNCHANGED data

Accepts(p) == StatusOf(job[p].row) # "deleted"

Kept(status) == IF status = "none" THEN "live" ELSE status
Ensured(p) == IF Accepts(p) THEN Goto(p, "answered") ELSE Finish(p)

WriteAccount(p) ==
  LET row == job[p].row
  IN  /\ At(p, "write") /\ job[p].kind = "ensureAccount"
      /\ account' = [account EXCEPT ![row] =
           [status |-> Kept(account[row].status), active |-> TRUE]]
      /\ Ensured(p)
      /\ UNCHANGED <<binding, label, hidden>>

WriteBinding(p) ==
  LET row == job[p].row
  IN  /\ At(p, "write") /\ job[p].kind = "ensureBinding"
      /\ binding' = [binding EXCEPT ![row] =
           [status |-> Kept(binding[row].status), active |-> TRUE, labels |-> job[p].labels]]
      /\ Ensured(p)
      /\ UNCHANGED <<account, label, hidden>>

(* delete... and restore...: one query to find the row, one to change it.  *)
AskChange(p) ==
  \E row \in Accounts \cup Bindings, kind \in {"delete", "restore"} :
    Begin(p, [Idle EXCEPT !.at = "find", !.kind = kind, !.row = row])

FindChanged(p) ==
  LET from == IF job[p].kind = "delete" THEN "live" ELSE "deleted"
  IN  /\ At(p, "find") /\ job[p].kind \in {"delete", "restore"}
      /\ \/ StatusOf(job[p].row) = from /\ Goto(p, "write")
         \/ StatusOf(job[p].row) # from /\ Finish(p)
      /\ UNCHANGED data

WriteChanged(p) ==
  /\ At(p, "write") /\ job[p].kind \in {"delete", "restore"}
  /\ SetStatus(job[p].row, IF job[p].kind = "delete" THEN "deleted" ELSE "live")
  /\ Finish(p)

-----------------------------------------------------------------------------
(* The operations of one write.  The status of an account or a binding is set
   whatever its deletion.                                                  *)
SetProviderAccountStatus ==
  \E a \in Accounts, active \in BOOLEAN :
    /\ StatusOf(a) # "none"
    /\ account' = [account EXCEPT ![a].active = active]
    /\ UNCHANGED <<binding, label, hidden, job>>

SetModelBindingStatus ==
  \E b \in Bindings, active \in BOOLEAN :
    /\ StatusOf(b) # "none"
    /\ binding' = [binding EXCEPT ![b].active = active]
    /\ UNCHANGED <<account, label, hidden, job>>

EnsureModelLabel ==
  \E l \in Labels, status \in {"active", "disabled"} :
    /\ label' = [label EXCEPT ![l] = status]
    /\ UNCHANGED <<account, binding, hidden, job>>

UpsertSiteModelPolicy ==
  \E pair \in Sites \X Labels :
    /\ hidden' \in {hidden \cup {pair}, hidden \ {pair}}
    /\ UNCHANGED <<account, binding, label, job>>

Administer ==
  \/ SetProviderAccountStatus \/ SetModelBindingStatus
  \/ EnsureModelLabel \/ UpsertSiteModelPolicy

-----------------------------------------------------------------------------
(* resolveModelBindings reads the bindings, then what the site hides;
   listSiteModelCatalog what the site hides, then the labels.  A request whose header
   names another site is refused before (rejectSiteMismatch).              *)
AskRead(p) ==
  \E s \in Sites :
    \/ \E l \in Labels \cup {None} :
         Begin(p, [Idle EXCEPT !.at = "bindings", !.kind = "resolve", !.site = s, !.label = l])
    \/ Begin(p, [Idle EXCEPT !.at = "hidden", !.kind = "catalog", !.site = s])

Selected_AnyAccount(b) == binding[b].active /\ binding[b].status = "live"
Selected(b) ==
  /\ binding[b].active /\ binding[b].status = "live"
  /\ account[Account[b]].active /\ account[Account[b]].status = "live"

ReadBindings(p) ==
  /\ At(p, "bindings")
  /\ job' = [job EXCEPT ![p].at = "hidden",
               ![p].seen = {[binding |-> b, labels |-> binding[b].labels] : b \in {c \in Bindings : Selected(c)}}]
  /\ UNCHANGED data

(* The labels of a binding as it was read, against what is hidden now.     *)
Filtered(p) ==
  {r \in job[p].seen : /\ job[p].label # None => job[p].label \in r.labels
                       /\ r.labels \cap HiddenFrom(job[p].site) = {}}

ReadHidden(p) ==
  /\ At(p, "hidden")
  /\ job' = IF job[p].kind = "resolve"
            THEN [job EXCEPT ![p].at = "answered", ![p].seen = Filtered(p)]
            ELSE [job EXCEPT ![p].at = "labels", ![p].labels = HiddenFrom(job[p].site)]
  /\ UNCHANGED data

ReadLabels(p) ==
  /\ At(p, "labels")
  /\ job' = [job EXCEPT ![p].at = "answered",
               ![p].shown = {l \in Labels \ job[p].labels : label[l] = "active"}]
  /\ UNCHANGED data

Close(p) == At(p, "answered") /\ Finish(p) /\ UNCHANGED data

(* A query fails, a unique key is taken, or the process dies.              *)
Throws(p) ==
  /\ job[p] # Idle /\ ~At(p, "answered")
  /\ Finish(p)
  /\ UNCHANGED data

-----------------------------------------------------------------------------
OutOfService(b) ==
  \/ binding[b].status # "live" \/ ~binding[b].active
  \/ account[Account[b]].status # "live" \/ ~account[Account[b]].active

Reads(p) == job[p].kind \in {"resolve", "catalog"}

(* The histories: from the first step of a request that reads to its answer. *)
Observe ==
  /\ veiled' = [p \in Workers |->
       IF ~Reads(p)' THEN {} ELSE IF ~Reads(p) THEN HiddenFrom(job[p].site)'
       ELSE IF At(p, "answered") THEN veiled[p] ELSE veiled[p] \cap HiddenFrom(job[p].site)']
  /\ barred' = [p \in Workers |->
       IF ~Reads(p)' THEN {} ELSE IF ~Reads(p) THEN {b \in Bindings : OutOfService(b)'}
       ELSE IF At(p, "answered") THEN barred[p] ELSE {b \in barred[p] : OutOfService(b)'}]

Init ==
  /\ account = [a \in Accounts |-> NoAccount]
  /\ binding = [b \in Bindings |-> NoBinding]
  /\ label = [l \in Labels |-> "none"]
  /\ hidden = {}
  /\ job = [p \in Workers |-> Idle]
  /\ veiled = [p \in Workers |-> {}]
  /\ barred = [p \in Workers |-> {}]

Ensure(p) ==
  AskEnsure(p) \/ FindAccount(p) \/ FindEnsured(p) \/ WriteAccount(p) \/ WriteBinding(p)
ChangeAccount(p) == job[p].row \in Accounts /\ (FindChanged(p) \/ WriteChanged(p))
ChangeBinding(p) == job[p].row \in Bindings /\ (FindChanged(p) \/ WriteChanged(p))
Change(p) == AskChange(p) \/ ChangeAccount(p) \/ ChangeBinding(p)
Resolve(p) == AskRead(p) \/ ReadBindings(p) \/ ReadHidden(p) \/ ReadLabels(p)
Step(p) == Ensure(p) \/ Change(p) \/ Resolve(p) \/ Close(p) \/ Throws(p)

Next ==
  /\ (\E p \in Workers : Step(p)) \/ Administer
  /\ Observe

Spec == Init /\ [][Next]_vars

-----------------------------------------------------------------------------
(* Type correctness.                                                       *)
TypeOK ==
  /\ account \in [Accounts -> AccountRow] /\ binding \in [Bindings -> BindingRow]
  /\ label \in [Labels -> {"none", "active", "disabled"}]
  /\ hidden \in SUBSET (Sites \X Labels)
  /\ job \in [Workers -> Job]
  /\ veiled \in [Workers -> SUBSET Labels]
  /\ barred \in [Workers -> SUBSET Bindings]

(* No request serves a site what was withheld from it all the time the request ran:
   a binding that was out of service, itself or by its account, a binding it read
   with a label that the site hid, or a hidden label of the catalog, though the
   request reads in two queries and operators change bindings, accounts and policies
   in between (resolveModelBindings, listSiteModelCatalog).                *)
HiddenIsNotServed ==
  \A p \in Workers :
    At(p, "answered") =>
      /\ \A r \in job[p].seen : r.binding \notin barred[p] /\ r.labels \cap veiled[p] = {}
      /\ job[p].shown \cap veiled[p] = {}
=============================================================================
