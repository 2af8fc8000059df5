------------------------------ MODULE SkillHub ------------------------------
(***************************************************************************)
(* The skills of kokoro-hub: their documents, their history, the packages  *)
(* they point to, and the pool a namespace is served                       *)
(* (kokoro-hub/src/application/skill-upload-service.ts,                    *)
(* skill-hub-service.ts and infrastructure/mongo/mongo-skill-repository.ts). *)
(*                                                                         *)
(* Mongo runs one operation on one document at a time: whatever a handler  *)
(* does with several is interleaved with others, and it may fail or die    *)
(* between two.  What orders the pool (pins, weights) is left out.         *)
(***************************************************************************)
EXTENDS Integers, FiniteSets, Totals

CONSTANTS
  Namespaces, Official,  \* scopes: each namespace has its own, and there is the official one
  Names,                 \* of skills
  Contents, Size,        \* packages, told apart by their hash, and the size of each
  MaxPackages, MaxBytes, \* quota of a namespace
  Workers,               \* requests that may run at once
  None,                  \* no content
  MaxRevision            \* bound: uploads are not begun when a skill has that many

Scopes == Namespaces \cup {Official}

ASSUME SkillHubAssumption ==
  /\ Official \notin Namespaces /\ None \notin Contents
  /\ IsFiniteSet(Names)
  /\ Size \in [Contents -> Nat]
  /\ MaxPackages \in Nat /\ MaxBytes \in Nat

VARIABLES
  skill,    \* skills: one document for each scope and name
  revisions, \* skill_revisions, without multiplicity
  off,      \* skill_state: what each namespace switched off
  stored,   \* the package store
  task,     \* where each request is in its handler
  crowded,  \* history: scopes two uploads to which ran at once
  clobbered \* history: skills a first upload of which wrote over another

vars == <<skill, revisions, off, stored, task, crowded, clobbered>>

-----------------------------------------------------------------------------
(* Rows.                                                                   *)
Review == {"pending", "approved", "rejected"}
SkillRow == [status : {"none", "live", "deleted"}, content : Contents \cup {None},
             revision : Nat, enabled : BOOLEAN, required : BOOLEAN, review : Review]
NoSkill == [status |-> "none", content |-> None, revision |-> 0, enabled |-> TRUE,
            required |-> FALSE, review |-> "approved"]
RevisionRow == [scope : Scopes, name : Names, revision : Nat, content : Contents]
Package == [scope : Scopes, name : Names, content : Contents]

(* A request: an upload of a zip, of which some items are left, with what it has
   read for the item it is at and counted so far; a switch; or a reader of the pool
   with the skills its namespace hides and the cards collected so far.     *)
Steps == {"idle", "items", "put", "read", "write", "row", "switch", "own", "official", "answer"}
Task == [at : Steps, scope : Scopes, zip : SUBSET (Names \X Contents),
         name : Names \cup {None}, content : Contents \cup {None},
         base : Nat \cup {None}, revision : Nat,
         count : Int, bytes : Int, nextCount : Int, nextBytes : Int,
         hidden : SUBSET Names, pool : SUBSET Names]
Idle == [at |-> "idle", scope |-> Official, zip |-> {}, name |-> None, content |-> None,
         base |-> None, revision |-> 0, count |-> 0, bytes |-> 0, nextCount |-> 0,
         nextBytes |-> 0, hidden |-> {}, pool |-> {}]

At(p, step) == task[p].at = step
Finish(p) == task' = [task EXCEPT ![p] = Idle]
Skill(p) == skill[task[p].scope][task[p].name]
SetSkill(scope, n, row) == skill' = [skill EXCEPT ![scope][n] = row]

(* quotaUsage.                                                             *)
Live(scope) == {n \in Names : skill[scope][n].status = "live"}
Bytes(scope) == Total([n \in Live(scope) |-> Size[skill[scope][n].content]])

-----------------------------------------------------------------------------
(* confirm: the usage is read once, before the first item.                 *)
Zips == {zip \in SUBSET (Names \X Contents) :
           zip # {} /\ \A i, j \in zip : i[1] = j[1] => i = j}
Uploading(scope) == {p \in Workers : task[p].at \in {"items", "put", "read", "write", "row"}
                                     /\ task[p].scope = scope}

StartUpload(p) ==
  \E scope \in Scopes, zip \in Zips :
    /\ task[p] = Idle
    /\ \A item \in zip : skill[scope][item[1]].revision < MaxRevision
    /\ task' = [task EXCEPT ![p] = [Idle EXCEPT !.at = "items", !.scope = scope, !.zip = zip,
                                      !.count = Cardinality(Live(scope)), !.bytes = Bytes(scope)]]
    /\ crowded' = IF Uploading(scope) = {} THEN crowded ELSE crowded \cup {scope}
    /\ UNCHANGED <<skill, revisions, off, stored, clobbered>>

(* The next item, what findActive reads of it, and whether it fits.        *)
FindItem(p) ==
  \E item \in task[p].zip :
    LET n == item[1]
        c == item[2]
        row == skill[task[p].scope][n]
        live == row.status = "live"
        nextCount == task[p].count + (IF live THEN 0 ELSE 1)
        nextBytes == task[p].bytes - (IF live THEN Size[row.content] ELSE 0) + Size[c]
        rest == [task[p] EXCEPT !.zip = @ \ {item}]
    IN  /\ At(p, "items")
        /\ task' = [task EXCEPT ![p] =
             IF (live /\ row.content = c) \/ nextCount > MaxPackages \/ nextBytes > MaxBytes
             THEN rest
             ELSE [rest EXCEPT !.at = "put", !.name = n, !.content = c,
                               !.nextCount = nextCount, !.nextBytes = nextBytes]]
        /\ UNCHANGED <<skill, revisions, off, stored, crowded, clobbered>>

(* validatePackage: an item that is no skill fails, whatever else is in the zip. *)
RefuseItem(p) ==
  \E item \in task[p].zip :
    /\ At(p, "items")
    /\ task' = [task EXCEPT ![p].zip = @ \ {item}]
    /\ UNCHANGED <<skill, revisions, off, stored, crowded, clobbered>>

(* The package is stored before the document that points to it changes.    *)
Put(p) ==
  /\ At(p, "put")
  /\ stored' = stored \cup {[scope |-> task[p].scope, name |-> task[p].name,
                             content |-> task[p].content]}
  /\ task' = [task EXCEPT ![p].at = "read"]
  /\ UNCHANGED <<skill, revisions, off, crowded, clobbered>>

(* After an item: one that was published counts, one that failed does not. *)
Dropped(p) == [task[p] EXCEPT !.at = "items", !.name = None, !.content = None,
                              !.base = None, !.revision = 0, !.nextCount = 0, !.nextBytes = 0]
Counted_Never(p) == Dropped(p)
Counted(p) == [Dropped(p) EXCEPT !.count = task[p].nextCount, !.bytes = task[p].nextBytes]

FailItem(p) ==
  /\ At(p, "put")
  /\ task' = [task EXCEPT ![p] = Dropped(p)]
  /\ UNCHANGED <<skill, revisions, off, stored, crowded, clobbered>>

(* upsertSkill reads the document; a live one of the same content is left alone. *)
ReadSkill(p) ==
  LET row == Skill(p)
  IN  /\ At(p, "read")
      /\ \/ /\ row.status = "live" /\ row.content = task[p].content
            /\ task' = [task EXCEPT ![p] = Counted(p)]
         \/ /\ row.status # "live" \/ row.content # task[p].content
            /\ task' = [task EXCEPT ![p].at = "write", ![p].revision = row.revision + 1,
                          ![p].base = IF row.status = "none" THEN None ELSE row.revision]
      /\ UNCHANGED <<skill, revisions, off, stored, crowded, clobbered>>

(* It is written where it still has the revision that was read; where there was none
   it is written whatever is there by now.                                 *)
Unchanged_Any(p) == TRUE
Unchanged(p) == task[p].base = None \/ Skill(p).revision = task[p].base

WriteSkill(p) ==
  /\ At(p, "write")
  /\ Unchanged(p)
  /\ SetSkill(task[p].scope, task[p].name,
              [Skill(p) EXCEPT !.status = "live", !.content = task[p].content,
                               !.revision = task[p].revision, !.review = "approved"])
  /\ clobbered' = IF task[p].base = None /\ Skill(p).status # "none"
                  THEN clobbered \cup {<<task[p].scope, task[p].name>>} ELSE clobbered
  /\ task' = [task EXCEPT ![p].at = "row"]
  /\ UNCHANGED <<revisions, off, stored, crowded>>

ConcurrentWrite(p) ==
  /\ At(p, "write")
  /\ ~Unchanged(p)
  /\ task' = [task EXCEPT ![p] = Dropped(p)]
  /\ UNCHANGED <<skill, revisions, off, stored, crowded, clobbered>>

AppendRow(p) ==
  /\ At(p, "row")
  /\ revisions' = revisions \cup {[scope |-> task[p].scope, name |-> task[p].name,
                               revision |-> task[p].revision, content |-> task[p].content]}
  /\ task' = [task EXCEPT ![p] = Counted(p)]
  /\ UNCHANGED <<skill, off, stored, crowded, clobbered>>

(* The last item is done; or a call fails that confirm does not catch, or the
   process dies: what it did so far stays.                                 *)
EndUpload(p) ==
  /\ At(p, "items") /\ task[p].zip = {}
  /\ Finish(p)
  /\ UNCHANGED <<skill, revisions, off, stored, crowded, clobbered>>

Throws(p) ==
  /\ task[p] # Idle
  /\ Finish(p)
  /\ UNCHANGED <<skill, revisions, off, stored, crowded, clobbered>>

Upload(p) ==
  \/ StartUpload(p) \/ FindItem(p) \/ RefuseItem(p) \/ Put(p) \/ FailItem(p) \/ ReadSkill(p)
  \/ WriteSkill(p) \/ ConcurrentWrite(p) \/ AppendRow(p) \/ EndUpload(p)

-----------------------------------------------------------------------------
(* setEnabled: a required official skill is not switched off; the test and the write
   are two operations.                                                     *)
StartSwitch(p) ==
  \E scope \in Namespaces, n \in Names :
    /\ task[p] = Idle
    /\ ~(skill[Official][n].status = "live" /\ skill[Official][n].required)
    /\ task' = [task EXCEPT ![p] = [Idle EXCEPT !.at = "switch", !.scope = scope, !.name = n]]
    /\ UNCHANGED <<skill, revisions, off, stored, crowded, clobbered>>

SwitchOff(p) ==
  /\ At(p, "switch")
  /\ off' = off \cup {<<task[p].scope, task[p].name>>}
  /\ Finish(p)
  /\ UNCHANGED <<skill, revisions, stored, crowded, clobbered>>

SwitchOn ==
  \E scope \in Namespaces, n \in Names :
    /\ off' = off \ {<<scope, n>>}
    /\ UNCHANGED <<skill, revisions, stored, task, crowded, clobbered>>

(* setOfficialFlags, setReviewStatus and markDeleted are one operation each.  Flags
   are set, and a skill deleted, whatever became of its document.          *)
SetOfficialFlags ==
  \E n \in Names, enabled \in BOOLEAN, required \in BOOLEAN :
    /\ skill[Official][n].status # "none"
    /\ SetSkill(Official, n, [skill[Official][n] EXCEPT !.enabled = enabled,
                                                        !.required = required])
    /\ UNCHANGED <<revisions, off, stored, task, crowded, clobbered>>

SetReviewStatus ==
  \E scope \in Scopes, n \in Names, status \in Review :
    /\ skill[scope][n].status = "live"
    /\ SetSkill(scope, n, [skill[scope][n] EXCEPT !.review = status])
    /\ UNCHANGED <<revisions, off, stored, task, crowded, clobbered>>

MarkDeleted ==
  \E scope \in Scopes, n \in Names :
    /\ skill[scope][n].status # "none"
    /\ SetSkill(scope, n, [skill[scope][n] EXCEPT !.status = "deleted"])
    /\ UNCHANGED <<revisions, off, stored, task, crowded, clobbered>>

-----------------------------------------------------------------------------
(* listPool: three reads.  The namespace's own skills cover official ones of their
   names; an official one is listed when it is required, or enabled and not hidden. *)
Listed(scope) ==
  {n \in Names : skill[scope][n].status = "live" /\ skill[scope][n].review = "approved"}
Offered_Optional(n, hidden) == skill[Official][n].enabled /\ n \notin hidden
Offered(n, hidden) ==
  skill[Official][n].required \/ (skill[Official][n].enabled /\ n \notin hidden)

ReadHidden(p) ==
  \E scope \in Namespaces :
    /\ task[p] = Idle
    /\ task' = [task EXCEPT ![p] = [Idle EXCEPT !.at = "own", !.scope = scope,
                                      !.hidden = {n \in Names : <<scope, n>> \in off}]]
    /\ UNCHANGED <<skill, revisions, off, stored, crowded, clobbered>>

ReadOwn(p) ==
  /\ At(p, "own")
  /\ task' = [task EXCEPT ![p].at = "official", ![p].pool = Listed(task[p].scope)]
  /\ UNCHANGED <<skill, revisions, off, stored, crowded, clobbered>>

ReadOfficial(p) ==
  /\ At(p, "official")
  /\ task' = [task EXCEPT ![p].at = "answer",
                ![p].pool = @ \cup {n \in Listed(Official) : Offered(n, task[p].hidden)}]
  /\ UNCHANGED <<skill, revisions, off, stored, crowded, clobbered>>

AnswerPool(p) ==
  /\ At(p, "answer")
  /\ Finish(p)
  /\ UNCHANGED <<skill, revisions, off, stored, crowded, clobbered>>

ListPool(p) == ReadHidden(p) \/ ReadOwn(p) \/ ReadOfficial(p) \/ AnswerPool(p)
Switch(p) == StartSwitch(p) \/ SwitchOff(p)
Operate == SetOfficialFlags \/ SetReviewStatus \/ MarkDeleted

-----------------------------------------------------------------------------
Init ==
  /\ skill = [scope \in Scopes |-> [n \in Names |-> NoSkill]]
  /\ revisions = {} /\ off = {} /\ stored = {}
  /\ task = [p \in Workers |-> Idle]
  /\ crowded = {} /\ clobbered = {}

Next ==
  \/ \E p \in Workers : Upload(p) \/ Switch(p) \/ ListPool(p) \/ Throws(p)
  \/ SwitchOn \/ Operate

Spec == Init /\ [][Next]_vars

-----------------------------------------------------------------------------
(* Type correctness.                                                       *)
TypeOK ==
  /\ skill \in [Scopes -> [Names -> SkillRow]]
  /\ revisions \in SUBSET RevisionRow /\ stored \in SUBSET Package
  /\ off \in SUBSET (Namespaces \X Names)
  /\ task \in [Workers -> Task]
  /\ crowded \in SUBSET Scopes /\ clobbered \in SUBSET (Scopes \X Names)

(* However uploads, deletions and crashes interleave, the history of a skill tells at
   most one content for each revision, of the present one the content its document
   has, and what the history or a live document tells can be fetched from the store
   (upsertSkill); but not of a skill that two uploads found missing at once: there
   the second overwrites the first and counts its revisions anew.          *)
HistoryTells ==
  /\ \A r \in revisions :
       <<r.scope, r.name>> \notin clobbered =>
         /\ \A s \in revisions : s.scope = r.scope /\ s.name = r.name
                                    /\ s.revision = r.revision => s = r
         /\ skill[r.scope][r.name].revision = r.revision =>
              skill[r.scope][r.name].content = r.content
         /\ skill[r.scope][r.name].revision >= r.revision
  /\ \A r \in revisions :
       [scope |-> r.scope, name |-> r.name, content |-> r.content] \in stored
  /\ \A scope \in Scopes : \A n \in Live(scope) :
       [scope |-> scope, name |-> n, content |-> skill[scope][n].content] \in stored

(* A scope no two uploads to which ever ran at once keeps within its quota, however
   many items an upload has, whatever fails or is deleted meanwhile (confirm reads
   the usage once and counts on from there).                               *)
QuotaHolds ==
  \A scope \in Scopes \ crowded :
    Cardinality(Live(scope)) <= MaxPackages /\ Bytes(scope) <= MaxBytes

(* The pool a namespace is answered has every skill that operators require, though the
   namespace hid it just before they required it, or while they did: the test of
   setEnabled comes too early, and listPool reads what is hidden before the flags. *)
RequiredIsServed ==
  [][\A p \in Workers :
       task[p].at # "answer" /\ task'[p].at = "answer" =>
         {n \in Listed(Official) : skill[Official][n].required} \subseteq task'[p].pool]_vars
=============================================================================
