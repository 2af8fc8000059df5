------------------------------- MODULE McpHub -------------------------------
(***************************************************************************)
(* The MCP servers of kokoro-hub, the immutable snapshots of their         *)
(* configurations, and the grants sessions are locked to                   *)
(* (kokoro-hub/src/infrastructure/mongo/mongo-mcp-server-repository.ts).   *)
(*                                                                         *)
(* Documents written before there were revisions have none; whoever reads  *)
(* one migrates it.  Mongo runs one operation on one document at a time,   *)
(* and a request may fail or die between two.                              *)
(***************************************************************************)
EXTENDS Integers, FiniteSets

CONSTANTS
  Namespaces, Official,  \* scopes: each namespace has its own, and there is the official one
  Names,                 \* of servers
  Configs,               \* configurations, told apart by their config_hash
  Workers,               \* requests that may run at once
  None,
  MaxRevision            \* bound: a server that has that many is not registered again

Scopes == Namespaces \cup {Official}

VARIABLES
  server,    \* mcp_servers: one document for each scope and name
  snapshot,  \* mcp_server_revisions, of which (scope, name, revision) is the key
  task,      \* where each request is in its handler
  granted,   \* history: the grants handed out
  overlapped \* history: servers a registration of which overlapped another writer

vars == <<server, snapshot, task, granted, overlapped>>

-----------------------------------------------------------------------------
(* Rows; revision 0 is a document that has none.                           *)
ServerRow == [status : {"none", "live", "deleted"}, config : Configs \cup {None},
              revision : Nat, enabled : BOOLEAN]
NoServer == [status |-> "none", config |-> None, revision |-> 0, enabled |-> TRUE]
SnapshotRow == [scope : Scopes, name : Names, revision : Nat, config : Configs]
Row(scope, n, revision, config) ==
  [scope |-> scope, name |-> n, revision |-> revision, config |-> config]
SameKey(r, s) == r.scope = s.scope /\ r.name = s.name /\ r.revision = s.revision

(* A request for namespace, on the document at scope and name, which it read as row;
   a registration goes on after a migration, a resolution gives its grant, and other
   readers end.                                                            *)
Steps == {"idle", "read", "migrate", "revise", "write", "append", "own", "official", "grant"}
Task == [at : Steps, namespace : Scopes, scope : Scopes, name : Names \cup {None},
         config : Configs \cup {None}, row : ServerRow,
         kind : {"none", "register", "resolve", "view"}]
Idle == [at |-> "idle", namespace |-> Official, scope |-> Official, name |-> None,
         config |-> None, row |-> NoServer, kind |-> "none"]

At(p, step) == task[p].at = step
Finish(p) == task' = [task EXCEPT ![p] = Idle]
Doc(p) == server[task[p].scope][task[p].name]
SetDoc(p, row) == server' = [server EXCEPT ![task[p].scope][task[p].name] = row]

(* Other requests that will still write the document at scope and n.       *)
Writers(p, scope, n) ==
  {q \in Workers \ {p} : task[q].scope = scope /\ task[q].name = n
                         /\ task[q].at \in {"migrate", "revise", "write", "append"}}

(* p reads the document at scope and goes on at step, after the migration if there
   has to be one.                                                          *)
Legacy(row) == row.status # "none" /\ row.revision = 0
Reads(p, scope, step) ==
  LET row == server[scope][task[p].name]
      goes == IF Legacy(row) THEN "migrate" ELSE step
      rivals == {q \in Writers(p, scope, task[p].name) :
                   "register" \in {task[p].kind, task[q].kind}}
  IN  /\ task' = [task EXCEPT ![p].at = goes, ![p].scope = scope, ![p].row = row]
      /\ overlapped' = IF goes \in {"migrate", "write"} /\ rivals # {}
                       THEN overlapped \cup {<<scope, task[p].name>>} ELSE overlapped

-----------------------------------------------------------------------------
(* Registration, by an operator or by a member of the namespace.           *)
StartRegister(p) ==
  \E scope \in Scopes, n \in Names, c \in Configs :
    /\ task[p] = Idle
    /\ server[scope][n].revision < MaxRevision
    /\ task' = [task EXCEPT ![p] = [Idle EXCEPT !.at = "read", !.namespace = scope,
                                      !.scope = scope, !.name = n, !.config = c,
                                      !.kind = "register"]]
    /\ UNCHANGED <<server, snapshot, granted, overlapped>>

ReadServer(p) ==
  /\ At(p, "read")
  /\ Reads(p, task[p].scope, "write")
  /\ UNCHANGED <<server, snapshot, granted>>

(* appendRevision: the first row of a revision stays.                      *)
Appended(row) ==
  IF \E s \in snapshot : SameKey(s, row) THEN snapshot ELSE snapshot \cup {row}

(* ensureMigrated: the row of revision 1 first, then the number in the document. *)
Migrate(p) ==
  /\ At(p, "migrate")
  /\ snapshot' = Appended(Row(task[p].scope, task[p].name, 1, task[p].row.config))
  /\ task' = [task EXCEPT ![p].at = "revise"]
  /\ UNCHANGED <<server, granted, overlapped>>

Revise(p) ==
  /\ At(p, "revise")
  /\ SetDoc(p, [Doc(p) EXCEPT !.revision = 1])
  /\ \/ /\ task[p].kind \in {"register", "resolve"}
        /\ task' = [task EXCEPT ![p].row.revision = 1,
                     ![p].at = IF task[p].kind = "register" THEN "write" ELSE "grant"]
     \/ /\ task[p].kind = "view"
        /\ Finish(p)
  /\ UNCHANGED <<snapshot, granted, overlapped>>

(* The revision that is written: the one that was read, or the next when the
   configuration is another.                                               *)
NewRevision_Same(p) == IF task[p].row.status = "none" THEN 1 ELSE task[p].row.revision
NewRevision(p) ==
  IF task[p].row.status # "none" /\ task[p].row.config = task[p].config
  THEN task[p].row.revision ELSE task[p].row.revision + 1

WriteServer(p) ==
  /\ At(p, "write")
  /\ SetDoc(p, [Doc(p) EXCEPT !.status = "live", !.config = task[p].config,
                              !.revision = NewRevision(p)])
  /\ task' = [task EXCEPT ![p].at = "append", ![p].row.revision = NewRevision(p)]
  /\ UNCHANGED <<snapshot, granted, overlapped>>

AppendSnapshot(p) ==
  /\ At(p, "append")
  /\ snapshot' = Appended(Row(task[p].scope, task[p].name, task[p].row.revision, task[p].config))
  /\ Finish(p)
  /\ UNCHANGED <<server, granted, overlapped>>

Throws(p) ==
  /\ task[p] # Idle
  /\ Finish(p)
  /\ UNCHANGED <<server, snapshot, granted, overlapped>>

Register(p) ==
  StartRegister(p) \/ ReadServer(p) \/ Migrate(p) \/ Revise(p) \/ WriteServer(p)
  \/ AppendSnapshot(p)

-----------------------------------------------------------------------------
(* resolveGrants, of one name: a live server of the namespace covers the official one,
   a disabled one too.  A document without revision is migrated on the way. *)
StartResolve(p) ==
  \E scope \in Namespaces, n \in Names :
    /\ task[p] = Idle
    /\ task' = [task EXCEPT ![p] = [Idle EXCEPT !.at = "own", !.namespace = scope,
                                      !.scope = scope, !.name = n, !.kind = "resolve"]]
    /\ UNCHANGED <<server, snapshot, granted, overlapped>>

ReadGranted(p) ==
  \E step \in {"own", "official"} :
    LET scope == IF step = "own" THEN task[p].namespace ELSE Official
        row == server[scope][task[p].name]
    IN  /\ At(p, step)
        /\ \/ /\ row.status = "live" /\ row.enabled
              /\ Reads(p, scope, "grant")
           \/ /\ row.status = "live" /\ ~row.enabled
              /\ Finish(p)
              /\ UNCHANGED overlapped
           \/ /\ row.status # "live"
              /\ IF step = "own" THEN task' = [task EXCEPT ![p].at = "official"] ELSE Finish(p)
              /\ UNCHANGED overlapped
        /\ UNCHANGED <<server, snapshot, granted>>

GiveGrant(p) ==
  /\ At(p, "grant")
  /\ granted' = granted \cup {Row(task[p].scope, task[p].name, task[p].row.revision,
                                 task[p].row.config)}
  /\ Finish(p)
  /\ UNCHANGED <<server, snapshot, overlapped>>

(* Whoever else reads a document without revision migrates it too: the pool and the
   official catalog a live one, getRevisionSnapshot one that is deleted as well. *)
Views(p, scope, n) ==
  /\ task[p] = Idle
  /\ Legacy(server[scope][n])
  /\ task' = [task EXCEPT ![p] = [Idle EXCEPT !.at = "migrate", !.namespace = scope,
                                    !.scope = scope, !.name = n, !.row = server[scope][n],
                                    !.kind = "view"]]
  /\ overlapped' = IF \E q \in Writers(p, scope, n) : task[q].kind = "register"
                   THEN overlapped \cup {<<scope, n>>} ELSE overlapped
  /\ UNCHANGED <<server, snapshot, granted>>

StartList(p) ==
  \E scope \in Scopes, n \in Names : server[scope][n].status = "live" /\ Views(p, scope, n)
StartAssemble(p) ==
  \E scope \in Scopes, n \in Names : Views(p, scope, n)

Resolve(p) == StartList(p) \/ StartAssemble(p) \/ StartResolve(p) \/ ReadGranted(p) \/ GiveGrant(p)

-----------------------------------------------------------------------------
(* setEnabled and markDeleted are one operation each: of operators on any document,
   of the owners and admins of a namespace on its own.                     *)
SetEnabled(scope) ==
  \E n \in Names, enabled \in BOOLEAN :
    /\ server[scope][n].status = "live"
    /\ server' = [server EXCEPT ![scope][n].enabled = enabled]
    /\ UNCHANGED <<snapshot, task, granted, overlapped>>

MarkDeleted(scope) ==
  \E n \in Names :
    /\ server[scope][n].status # "none"
    /\ server' = [server EXCEPT ![scope][n].status = "deleted"]
    /\ UNCHANGED <<snapshot, task, granted, overlapped>>

Operate == \E scope \in Scopes : SetEnabled(scope) \/ MarkDeleted(scope)
Manage == \E scope \in Namespaces : SetEnabled(scope) \/ MarkDeleted(scope)

(* At first there may be documents from before there were revisions.       *)
LegacyRow == [status : {"live"}, config : Configs, revision : {0}, enabled : {TRUE}]
Init ==
  /\ server \in [Scopes -> [Names -> {NoServer} \cup LegacyRow]]
  /\ snapshot = {} /\ granted = {} /\ overlapped = {}
  /\ task = [p \in Workers |-> Idle]

Next ==
  \/ \E p \in Workers : Register(p) \/ Resolve(p) \/ Throws(p)
  \/ Operate \/ Manage

Spec == Init /\ [][Next]_vars

-----------------------------------------------------------------------------
(* Type correctness.                                                       *)
TypeOK ==
  /\ server \in [Scopes -> [Names -> ServerRow]]
  /\ snapshot \in SUBSET SnapshotRow /\ granted \in SUBSET SnapshotRow
  /\ task \in [Workers -> Task]
  /\ overlapped \in SUBSET (Scopes \X Names)

(* A session that is locked to a grant gets what it was granted or nothing: while no
   registration of a server overlaps another one or a migration, all that is ever
   said of a revision, by a grant or by a snapshot, names one configuration, though
   requests die between the write and the snapshot and readers of old documents
   number them at the same time.                                           *)
GrantsResolve ==
  \A g \in granted : <<g.scope, g.name>> \notin overlapped =>
    \A s \in granted \cup snapshot : SameKey(s, g) => s.config = g.config
=============================================================================
