----------------------------- MODULE Approvals ------------------------------
(***************************************************************************)
(* The gateway of kokoro-platform-admin: what operators do to the modules, *)
(* and the approvals dangerous actions need                                *)
(* (kokoro-platform-admin/src/server.ts, gateway.ts, approval.ts, rbac.ts  *)
(* and audit.ts).                                                          *)
(*                                                                         *)
(* A request reads its operator once, when it starts, and then awaits one  *)
(* query or call after another; operators and roles may change meanwhile.  *)
(* Any of its steps may fail, and the process may die between two.         *)
(***************************************************************************)
EXTENDS Integers, FiniteSets

CONSTANTS
  Operators, Roles, Sites,
  Permissions,     \* what a manifest may require
  Manage,          \* "operator.manage"
  All,             \* "*", as a scope: every site
  Actions,         \* of the modules' manifests
  Kind, Required,  \* of each action: its kind and requiredPermission
  Requests,        \* rows of approval_requests
  Workers,         \* requests that may run at once
  None,            \* NULL, and a request without a site
  Staff,           \* the operators whose account changes
  Grants, Scopes   \* bounds: the permissions a role, the scopes an operator is given

Kinds == {"link", "mutation", "dangerMutation"}

ASSUME ApprovalsAssumption ==
  /\ None \notin Operators \cup Requests \cup Sites \cup Actions
  /\ All \notin Sites \cup {None}
  /\ Kind \in [Actions -> Kinds] /\ Required \in [Actions -> Permissions]
  /\ Grants \subseteq SUBSET Permissions /\ Scopes \subseteq SUBSET (Sites \cup {All})
  /\ Staff \subseteq Operators

VARIABLES
  operator,  \* operator_accounts
  role,      \* operator_roles: the permissions of each
  request,   \* approval_requests
  audit,     \* audit_logs, without order and multiplicity
  effects,   \* history: how often the action of each request reached its module
  job        \* where each HTTP request is in its handler

vars == <<operator, role, request, audit, effects, job>>

-----------------------------------------------------------------------------
(* Rows.                                                                   *)
OperatorRow == [active : BOOLEAN, role : Roles, scope : SUBSET (Sites \cup {All})]
Status == {"none", "pending", "approved", "rejected", "executed", "failed"}
RequestRow == [status : Status, action : Actions \cup {None}, site : Sites \cup {None},
               requestedBy : Operators \cup {None}, decidedBy : Operators \cup {None}]
NoRequest == [status |-> "none", action |-> None, site |-> None, requestedBy |-> None,
              decidedBy |-> None]

(* An entry's result and status: ok with 200 or 202, or an error of any status. *)
Results == {"done", "accepted", "error"}
AuditRow == [operator : Operators, action : Actions, site : Sites \cup {None},
             result : Results]

Steps == {"idle", "read", "approve", "reject", "prepare", "deny", "create", "accepted",
          "call", "audit", "outcome", "manage"}
Job == [at : Steps, operator : Operators \cup {None}, permissions : SUBSET Permissions,
        scope : SUBSET (Sites \cup {All}), action : Actions \cup {None},
        site : Sites \cup {None}, big : BOOLEAN, approve : BOOLEAN,
        request : Requests \cup {None},
        code : {"none", "done", "refused", "unreachable"}, ok : BOOLEAN]
Idle == [at |-> "idle", operator |-> None, permissions |-> {}, scope |-> {}, action |-> None,
         site |-> None, big |-> FALSE, approve |-> FALSE, request |-> None,
         code |-> "none", ok |-> FALSE]

At(p, step) == job[p].at = step
Goto(p, step) == job' = [job EXCEPT ![p].at = step]
Finish(p) == job' = [job EXCEPT ![p] = Idle]

-----------------------------------------------------------------------------
(* The operator of a request, as the database has it when it starts; one that is
   unknown or disabled is refused.                                         *)
Resolved(o) ==
  [Idle EXCEPT !.operator = o, !.permissions = role[operator[o].role],
               !.scope = operator[o].scope]
Begin(p, fields) ==
  /\ job[p] = Idle
  /\ operator[fields.operator].active
  /\ job' = [job EXCEPT ![p] = fields]

PermitsSite(scope, site) == All \in scope \/ site \in scope

(* prepareAction: what needs no site needs every site.                     *)
MayRun(p) ==
  /\ Required[job[p].action] \in job[p].permissions
  /\ PermitsSite(job[p].scope, job[p].site)

(* needsApproval.                                                          *)
NeedsApproval(action, big) ==
  Kind[action] = "dangerMutation" \/ (Kind[action] = "mutation" /\ big)

-----------------------------------------------------------------------------
(* POST /api/action; big: its amount is above the threshold.               *)
AskAction(p) ==
  \E o \in Operators, a \in Actions, s \in Sites \cup {None}, big \in BOOLEAN :
    /\ Begin(p, [Resolved(o) EXCEPT !.at = "prepare", !.action = a, !.site = s, !.big = big])
    /\ UNCHANGED <<operator, role, request, audit, effects>>

(* A request that fails before its action ran: an approved one is marked so. *)
Failed(p) ==
  [job EXCEPT ![p] = IF @.request = None THEN Idle ELSE [@ EXCEPT !.at = "outcome", !.ok = FALSE]]

(* prepareAction: the module may be offline or not know the action.        *)
Prepare(p) ==
  /\ At(p, "prepare")
  /\ \/ MayRun(p) /\ job[p].request = None /\ NeedsApproval(job[p].action, job[p].big)
        /\ Goto(p, "create")
     \/ MayRun(p) /\ (job[p].request # None \/ ~NeedsApproval(job[p].action, job[p].big))
        /\ Goto(p, "call")
     \/ ~MayRun(p) /\ Goto(p, "deny")
     \/ job' = Failed(p)
  /\ UNCHANGED <<operator, role, request, audit, effects>>

Logged(p, result) ==
  audit' = audit \cup {[operator |-> job[p].operator, action |-> job[p].action,
                        site |-> job[p].site, result |-> result]}

Deny(p) ==
  /\ At(p, "deny")
  /\ Logged(p, "error") \/ UNCHANGED audit
  /\ job' = Failed(p)
  /\ UNCHANGED <<operator, role, request, effects>>

(* createApprovalRequest, then its entry in the log.                       *)
CreateApproval(p) ==
  \E r \in Requests :
    /\ At(p, "create")
    /\ request[r] = NoRequest
    /\ request' = [request EXCEPT ![r] =
         [NoRequest EXCEPT !.status = "pending", !.action = job[p].action,
                           !.site = job[p].site, !.requestedBy = job[p].operator]]
    /\ Goto(p, "accepted")
    /\ UNCHANGED <<operator, role, audit, effects>>

LogAccepted(p) ==
  /\ At(p, "accepted")
  /\ Logged(p, "accepted")
  /\ Finish(p)
  /\ UNCHANGED <<operator, role, request, effects>>

(* executeAction: the module does it and says so, or answers an error, or is not
   heard of, having done it or not.                                        *)
Call(p) ==
  \E done \in BOOLEAN, code \in {"done", "refused", "unreachable"} :
    /\ At(p, "call")
    /\ code = "done" => done
    /\ effects' = [r \in Requests |->
         IF r = job[p].request /\ done THEN effects[r] + 1 ELSE effects[r]]
    /\ job' = [job EXCEPT ![p].at = "audit", ![p].code = code]
    /\ UNCHANGED <<operator, role, request, audit>>

(* Its entry; a log that fails makes the action fail, done or not.         *)
Executed_Reached(p) == job[p].code # "unreachable"
Executed(p) == job[p].code = "done"

LogCall(p) ==
  /\ At(p, "audit")
  /\ \/ Logged(p, IF job[p].code = "done" THEN "done" ELSE "error")
        /\ job' = [Failed(p) EXCEPT ![p].ok = job[p].request # None /\ Executed(p)]
     \/ UNCHANGED audit /\ job' = Failed(p)
  /\ UNCHANGED <<operator, role, request, effects>>

-----------------------------------------------------------------------------
(* POST /api/approvals/:id/approve and .../reject: the row is read ...     *)
AskDecision(p) ==
  \E o \in Operators, r \in Requests, approve \in BOOLEAN :
    /\ request[r] # NoRequest
    /\ Begin(p, [Resolved(o) EXCEPT !.at = "read", !.request = r, !.approve = approve])
    /\ UNCHANGED <<operator, role, request, audit, effects>>

(* assertChecker: a request without a site is left to prepareAction.       *)
MayDecide(p, row) ==
  /\ row.requestedBy # job[p].operator
  /\ Required[row.action] \in job[p].permissions
  /\ row.site # None => PermitsSite(job[p].scope, row.site)

ReadRequest(p) ==
  LET row == request[job[p].request]
  IN  /\ At(p, "read")
      /\ IF row.status = "pending" /\ MayDecide(p, row)
         THEN job' = [job EXCEPT ![p].at = IF job[p].approve THEN "approve" ELSE "reject",
                                 ![p].action = row.action, ![p].site = row.site]
         ELSE Finish(p)
      /\ UNCHANGED <<operator, role, request, audit, effects>>

(* ... and then taken from pending, by one of those who read it.           *)
Claimable_Read(r) == request[r].status # "none"
Claimable(r) == request[r].status = "pending"

Decided(p, status) ==
  request' = [request EXCEPT ![job[p].request].status = status,
                             ![job[p].request].decidedBy = job[p].operator]

Approve(p) ==
  /\ At(p, "approve")
  /\ IF Claimable(job[p].request) THEN Decided(p, "approved") /\ Goto(p, "prepare")
     ELSE Finish(p) /\ UNCHANGED request
  /\ UNCHANGED <<operator, role, audit, effects>>

Reject(p) ==
  /\ At(p, "reject")
  /\ IF Claimable(job[p].request) THEN Decided(p, "rejected") ELSE UNCHANGED request
  /\ Finish(p)
  /\ UNCHANGED <<operator, role, audit, effects>>

(* The outcome, written whatever the row holds by then.                    *)
WriteOutcome(p) ==
  /\ At(p, "outcome")
  /\ request' = [request EXCEPT ![job[p].request].status =
                   IF job[p].ok THEN "executed" ELSE "failed"]
  /\ Finish(p)
  /\ UNCHANGED <<operator, role, audit, effects>>

(* A query fails or the process dies: an approved request stays approved.  *)
Throws(p) ==
  /\ job[p] # Idle
  /\ Finish(p)
  /\ UNCHANGED <<operator, role, request, audit, effects>>

-----------------------------------------------------------------------------
(* POST /api/operators, /api/operators/:id/status and /api/roles: who asks may
   manage operators when the request starts, and may no longer when the change is
   written.                                                                *)
AskStaff(p) ==
  \E o \in Operators :
    /\ Manage \in Resolved(o).permissions
    /\ Begin(p, [Resolved(o) EXCEPT !.at = "manage"])
    /\ UNCHANGED <<operator, role, request, audit, effects>>

UpsertOperator(p) ==
  \E o \in Staff, r \in Roles, scope \in Scopes :
    /\ At(p, "manage")
    /\ operator' = [operator EXCEPT ![o].role = r, ![o].scope = scope]
    /\ Finish(p)
    /\ UNCHANGED <<role, request, audit, effects>>

SetOperatorStatus(p) ==
  \E o \in Staff, active \in BOOLEAN :
    /\ At(p, "manage")
    /\ operator' = [operator EXCEPT ![o].active = active]
    /\ Finish(p)
    /\ UNCHANGED <<role, request, audit, effects>>

UpsertRole(p) ==
  \E r \in Roles, permissions \in Grants :
    /\ At(p, "manage")
    /\ role' = [role EXCEPT ![r] = permissions]
    /\ Finish(p)
    /\ UNCHANGED <<operator, request, audit, effects>>

-----------------------------------------------------------------------------
Init ==
  /\ operator \in [Operators -> [active : {TRUE}, role : Roles, scope : Scopes]]
  /\ role \in [Roles -> Grants]
  /\ request = [r \in Requests |-> NoRequest]
  /\ audit = {}
  /\ effects = [r \in Requests |-> 0]
  /\ job = [p \in Workers |-> Idle]

ActionRequests(p) ==
  \/ AskAction(p) \/ Prepare(p) \/ Deny(p) \/ CreateApproval(p) \/ LogAccepted(p)
  \/ Call(p) \/ LogCall(p)
DecisionRequests(p) ==
  AskDecision(p) \/ ReadRequest(p) \/ Approve(p) \/ Reject(p) \/ WriteOutcome(p)
StaffRequests(p) ==
  AskStaff(p) \/ UpsertOperator(p) \/ SetOperatorStatus(p) \/ UpsertRole(p)

Requesting(p) == ActionRequests(p) \/ DecisionRequests(p) \/ Throws(p)

Next == \E p \in Workers : Requesting(p) \/ StaffRequests(p)

Spec == Init /\ [][Next]_vars

-----------------------------------------------------------------------------
(* Type correctness.                                                       *)
TypeOK ==
  /\ operator \in [Operators -> OperatorRow]
  /\ role \in [Roles -> SUBSET Permissions]
  /\ request \in [Requests -> RequestRow]
  /\ audit \in SUBSET AuditRow
  /\ effects \in [Requests -> Nat]
  /\ job \in [Workers -> Job]

(* What needs an approval reaches its module once at most, for a request that was
   approved by another operator than asked for it and that nobody rejected,
   however many approve and reject it at once and wherever they fail
   (approveRequest: the conditional claim).                                *)
TwoOperators ==
  \A r \in Requests :
    /\ effects[r] <= 1
    /\ effects[r] = 1 => /\ request[r].status \in {"approved", "executed", "failed"}
                         /\ request[r].decidedBy # None
                         /\ request[r].decidedBy # request[r].requestedBy

(* A request that is marked executed was done, once, and the log names who decided
   it; one that is marked failed may have been done as well, with its answer or
   its entry lost.                                                         *)
ExecutedMeansDone ==
  \A r \in Requests :
    request[r].status = "executed" =>
      /\ effects[r] = 1
      /\ [operator |-> request[r].decidedBy, action |-> request[r].action,
          site |-> request[r].site, result |-> "done"] \in audit
=============================================================================
