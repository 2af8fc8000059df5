---------------------------- MODULE AdminProofs -----------------------------
(***************************************************************************)
(* Proofs about Approvals, that nothing which needs an approval is done    *)
(* without a second operator, or twice, and what is marked executed was    *)
(* done, for any operators, actions, requests and number of handlers; and  *)
(* about Receipts, that a command takes effect once at most, for any       *)
(* commands, identities and number of deliveries.                          *)
(***************************************************************************)
EXTENDS Approvals, Receipts, TLAPS

-----------------------------------------------------------------------------
(* Approvals.                                                              *)

(* A handler that has claimed a request: from its claim to its outcome.    *)
Claims(j) == j.request # None /\ j.at \in {"prepare", "deny", "call", "audit", "outcome"}

(* What a claim holds on to: the row is its own until the outcome is written, and
   the effect is told apart by the step that is reached.                   *)
ClaimHeld(j) ==
  LET row == request[j.request]
  IN  /\ row.status = "approved" /\ row.decidedBy = j.operator
      /\ row.requestedBy # j.operator
      /\ row.action = j.action /\ row.site = j.site
      /\ j.at \in {"prepare", "deny", "call"} => effects[j.request] = 0
      /\ j.at = "audit" /\ j.code = "done" => effects[j.request] = 1
      /\ j.at = "outcome" /\ j.ok =>
           /\ effects[j.request] = 1
           /\ [operator |-> j.operator, action |-> j.action, site |-> j.site,
               result |-> "done"] \in audit

(* What a handler carries from step to step.                               *)
JobWhole(j) ==
  /\ j.at # "idle" => j.operator \in Operators
  /\ j.at \in {"prepare", "deny", "create", "accepted", "call", "audit"} => j.action \in Actions
  /\ j.at \in {"create", "accepted"} => j.request = None
  /\ j.at \in {"read", "approve", "reject", "outcome"} => j.request # None
  /\ j.request # None => request[j.request].status # "none"
  /\ j.at \in {"approve", "reject"} =>
       /\ request[j.request].requestedBy # j.operator
       /\ request[j.request].action = j.action /\ request[j.request].site = j.site
  /\ Claims(j) => ClaimHeld(j)

JobsWhole == \A p \in Workers : JobWhole(job[p])

(* Two handlers never claim the same request.                              *)
OneClaim ==
  \A p, q \in Workers :
    Claims(job[p]) /\ Claims(job[q]) /\ job[p].request = job[q].request => p = q

(* A row tells who asked for what; nothing is done before it is approved.  *)
RowsWhole ==
  \A r \in Requests :
    /\ request[r].status = "none" => request[r] = NoRequest
    /\ request[r].status # "none" =>
         request[r].action \in Actions /\ request[r].requestedBy \in Operators
    /\ request[r].status \in {"none", "pending", "rejected"} => effects[r] = 0

IInv == TypeOK /\ RowsWhole /\ JobsWhole /\ OneClaim /\ TwoOperators /\ ExecutedMeansDone

-----------------------------------------------------------------------------
(* A handler's record with one field changed.                              *)
LEMMA AtSet ==
  ASSUME NEW j \in Job, NEW x \in Steps, NEW k, k = [j EXCEPT !.at = x]
  PROVE  /\ k \in Job /\ k.at = x /\ k.operator = j.operator /\ k.action = j.action /\ k.site = j.site
         /\ k.request = j.request /\ k.code = j.code /\ k.ok = j.ok
BY DEF Job, Steps

(* Its action is set.                                                      *)
LEMMA ActionSet ==
  ASSUME NEW j \in Job, NEW x \in Actions, NEW k, k = [j EXCEPT !.action = x]
  PROVE  /\ k \in Job /\ k.at = j.at /\ k.operator = j.operator /\ k.action = x /\ k.site = j.site
         /\ k.request = j.request /\ k.code = j.code /\ k.ok = j.ok
BY DEF Job, Steps

(* Its site is set.                                                        *)
LEMMA SiteSet ==
  ASSUME NEW j \in Job, NEW x \in Sites \cup {None}, NEW k, k = [j EXCEPT !.site = x]
  PROVE  /\ k \in Job /\ k.at = j.at /\ k.operator = j.operator /\ k.action = j.action /\ k.site = x
         /\ k.request = j.request /\ k.code = j.code /\ k.ok = j.ok
BY DEF Job, Steps

(* The request it is about is set.                                         *)
LEMMA RequestSet ==
  ASSUME NEW j \in Job, NEW x \in Requests, NEW k, k = [j EXCEPT !.request = x]
  PROVE  /\ k \in Job /\ k.at = j.at /\ k.operator = j.operator /\ k.action = j.action /\ k.site = j.site
         /\ k.request = x /\ k.code = j.code /\ k.ok = j.ok
BY DEF Job, Steps

(* The answer of the module is set.                                        *)
LEMMA CodeSet ==
  ASSUME NEW j \in Job, NEW x \in {"done", "refused", "unreachable"}, NEW k, k = [j EXCEPT !.code = x]
  PROVE  /\ k \in Job /\ k.at = j.at /\ k.operator = j.operator /\ k.action = j.action /\ k.site = j.site
         /\ k.request = j.request /\ k.code = x /\ k.ok = j.ok
BY DEF Job, Steps

(* Its outcome is set.                                                     *)
LEMMA OkSet ==
  ASSUME NEW j \in Job, NEW x \in BOOLEAN, NEW k, k = [j EXCEPT !.ok = x]
  PROVE  /\ k \in Job /\ k.at = j.at /\ k.operator = j.operator /\ k.action = j.action /\ k.site = j.site
         /\ k.request = j.request /\ k.code = j.code /\ k.ok = x
BY DEF Job, Steps

(* Whether its amount is above the threshold is set.                       *)
LEMMA BigSet ==
  ASSUME NEW j \in Job, NEW x \in BOOLEAN, NEW k, k = [j EXCEPT !.big = x]
  PROVE  /\ k \in Job /\ k.at = j.at /\ k.operator = j.operator /\ k.action = j.action /\ k.site = j.site
         /\ k.request = j.request /\ k.code = j.code /\ k.ok = j.ok
BY DEF Job, Steps

(* Whether it approves or rejects is set.                                  *)
LEMMA ApproveSet ==
  ASSUME NEW j \in Job, NEW x \in BOOLEAN, NEW k, k = [j EXCEPT !.approve = x]
  PROVE  /\ k \in Job /\ k.at = j.at /\ k.operator = j.operator /\ k.action = j.action /\ k.site = j.site
         /\ k.request = j.request /\ k.code = j.code /\ k.ok = j.ok
BY DEF Job, Steps

-----------------------------------------------------------------------------
(* A handler goes on without touching the rows or the effects: it may not claim
   what it had not.                                                        *)
LEMMA GoOn ==
  ASSUME IInv, NEW p \in Workers, NEW j \in Job, job' = [job EXCEPT ![p] = j],
         UNCHANGED <<operator, role, request, effects>>,
         audit \subseteq audit', audit' \in SUBSET AuditRow, JobWhole(j)',
         Claims(j) => Claims(job[p]) /\ j.request = job[p].request
  PROVE  IInv'
<1>1. TypeOK'
  BY DEF IInv, TypeOK
<1>2. RowsWhole' /\ TwoOperators' /\ ExecutedMeansDone'
  BY DEF IInv, RowsWhole, TwoOperators, ExecutedMeansDone
<1>3. \A q \in Workers : q # p => job'[q] = job[q]
  BY DEF IInv, TypeOK
<1>4. job'[p] = j
  BY DEF IInv, TypeOK
<1>5. JobsWhole'
  <2>1. ASSUME NEW q \in Workers, q # p PROVE JobWhole(job[q])'
    <3>1. JobWhole(job[q])
      BY DEF IInv, JobsWhole
    <3>2. job'[q] = job[q]
      BY <1>3, <2>1
    <3>3. QED
      BY <3>1, <3>2 DEF JobWhole, ClaimHeld, Claims
  <2>2. JobWhole(job[p])'
    BY <1>4 DEF JobWhole, ClaimHeld, Claims
  <2>3. QED
    BY <2>1, <2>2 DEF JobsWhole
<1>6. OneClaim'
  BY <1>3, <1>4 DEF IInv, OneClaim, Claims
<1>7. QED
  BY <1>1, <1>2, <1>5, <1>6 DEF IInv

(* A handler that ends.                                                    *)
LEMMA Ends ==
  ASSUME IInv, NEW p \in Workers, Finish(p),
         UNCHANGED <<operator, role, request, effects>>,
         audit \subseteq audit', audit' \in SUBSET AuditRow
  PROVE  IInv'
<1>1. Idle \in Job
  BY DEF Idle, Job, Steps
<1>2. ~Claims(Idle) /\ JobWhole(Idle)'
  BY DEF Claims, JobWhole, Idle
<1>3. QED
  BY <1>1, <1>2, GoOn DEF Finish

(* What is known of a handler under way.                                   *)
LEMMA UnderWay ==
  ASSUME IInv, NEW p \in Workers
  PROVE  /\ job[p] \in Job /\ JobWhole(job[p])
         /\ audit \in SUBSET AuditRow
BY DEF IInv, TypeOK, JobsWhole

(* An operator's record when a request starts.                             *)
LEMMA ResolvedJob ==
  ASSUME IInv, NEW o \in Operators
  PROVE  Resolved(o) \in Job /\ Resolved(o).operator = o /\ Resolved(o).request = None
BY DEF IInv, TypeOK, Resolved, Idle, Job, Steps, OperatorRow

(* An operator asks for an action: nothing is claimed.                     *)
LEMMA AskActionStep ==
  ASSUME IInv, NEW p \in Workers, AskAction(p)
  PROVE  IInv'
<1>1. PICK o \in Operators, a \in Actions, s \in Sites \cup {None}, big \in BOOLEAN :
        /\ Begin(p, [Resolved(o) EXCEPT !.at = "prepare", !.action = a, !.site = s, !.big = big])
        /\ UNCHANGED <<operator, role, request, audit, effects>>
  BY DEF AskAction
<1>2. PICK r0 \in Job : r0 = Resolved(o) /\ r0.operator = o /\ r0.request = None
  BY ResolvedJob
<1> DEFINE Asks(j) == j \in Job /\ j.at = "prepare" /\ j.request = None /\ j.operator = o
<1>3. PICK j1 : j1 = [r0 EXCEPT !.at = "prepare"]
  OBVIOUS
<1>4. PICK j2 : j2 = [j1 EXCEPT !.action = a]
  OBVIOUS
<1>5. PICK j3 : j3 = [j2 EXCEPT !.site = s]
  OBVIOUS
<1>6. PICK j : j = [j3 EXCEPT !.big = big]
  OBVIOUS
<1>7. Asks(j) /\ j.action = a
  <2>1. Asks(j1)
    BY <1>2, <1>3, AtSet DEF Steps
  <2>2. Asks(j2) /\ j2.action = a
    BY <1>4, <2>1, ActionSet
  <2>3. Asks(j3) /\ j3.action = a
    BY <1>5, <2>2, SiteSet
  <2>4. QED
    BY <1>6, <2>3, BigSet
<1>8. job' = [job EXCEPT ![p] = j] /\ UNCHANGED <<operator, role, request, audit, effects>>
  BY <1>1, <1>2, <1>3, <1>4, <1>5, <1>6 DEF Begin
<1>9. ~Claims(j) /\ JobWhole(j)'
  BY <1>7 DEF Claims, JobWhole
<1>10. QED
  BY <1>7, <1>8, <1>9, GoOn, UnderWay

(* An operator asks to decide a request: nothing is claimed.               *)
LEMMA AskDecisionStep ==
  ASSUME IInv, NEW p \in Workers, AskDecision(p)
  PROVE  IInv'
<1>1. PICK o \in Operators, r \in Requests, approve \in BOOLEAN :
        /\ request[r] # NoRequest
        /\ Begin(p, [Resolved(o) EXCEPT !.at = "read", !.request = r, !.approve = approve])
        /\ UNCHANGED <<operator, role, request, audit, effects>>
  BY DEF AskDecision
<1>2. PICK r0 \in Job : r0 = Resolved(o) /\ r0.operator = o /\ r0.request = None
  BY ResolvedJob
<1> DEFINE Asks(j) == j \in Job /\ j.at = "read" /\ j.operator = o
<1>3. PICK j1 : j1 = [r0 EXCEPT !.at = "read"]
  OBVIOUS
<1>4. PICK j2 : j2 = [j1 EXCEPT !.request = r]
  OBVIOUS
<1>5. PICK j : j = [j2 EXCEPT !.approve = approve]
  OBVIOUS
<1>6. Asks(j) /\ j.request = r
  <2>1. Asks(j1)
    BY <1>2, <1>3, AtSet DEF Steps
  <2>2. Asks(j2) /\ j2.request = r
    BY <1>4, <2>1, RequestSet
  <2>3. QED
    BY <1>5, <2>2, ApproveSet
<1>7. job' = [job EXCEPT ![p] = j] /\ UNCHANGED <<operator, role, request, audit, effects>>
  BY <1>1, <1>2, <1>3, <1>4, <1>5 DEF Begin
<1>8. request[r].status # "none" /\ r # None
  BY <1>1, ApprovalsAssumption DEF IInv, RowsWhole
<1>9. ~Claims(j) /\ JobWhole(j)'
  BY <1>6, <1>7, <1>8 DEF Claims, JobWhole
<1>10. QED
  BY <1>6, <1>7, <1>9, GoOn, UnderWay

(* A handler fails before its action was done for sure: a claim is to be marked so. *)
LEMMA FailedStep ==
  ASSUME IInv, NEW p \in Workers, job[p].at \in {"prepare", "deny", "audit"},
         job' = Failed(p), UNCHANGED <<operator, role, request, effects>>,
         audit \subseteq audit', audit' \in SUBSET AuditRow
  PROVE  IInv'
<1>1. CASE job[p].request = None
  BY <1>1, Ends DEF Failed, Finish
<1>2. CASE job[p].request # None
  <2> DEFINE Same(j) == /\ j \in Job /\ j.at = "outcome"
                        /\ j.operator = job[p].operator /\ j.request = job[p].request
                        /\ j.action = job[p].action /\ j.site = job[p].site
  <2>0. PICK j1 : j1 = [job[p] EXCEPT !.at = "outcome"]
    OBVIOUS
  <2>1. PICK j : j = [j1 EXCEPT !.ok = FALSE]
    OBVIOUS
  <2>2. Same(j) /\ j.ok = FALSE
    <3>1. Same(j1)
      BY <2>0, UnderWay, AtSet DEF Steps
    <3>2. QED
      BY <2>1, <3>1, OkSet
  <2>3. job' = [job EXCEPT ![p] = j]
    BY <1>2, <2>0, <2>1 DEF Failed
  <2>4. Claims(job[p])
    BY <1>2 DEF Claims
  <2>5. JobWhole(j)'
    BY <2>2, <2>4, UnderWay DEF Claims, JobWhole, ClaimHeld
  <2>6. QED
    BY <2>2, <2>3, <2>4, <2>5, GoOn
<1>3. QED
  BY <1>1, <1>2

(* An action is prepared: it goes on, is denied, or fails.                 *)
LEMMA PrepareStep ==
  ASSUME IInv, NEW p \in Workers, Prepare(p)
  PROVE  IInv'
<1>1. UNCHANGED <<operator, role, request, audit, effects>> /\ job[p].at = "prepare"
  BY DEF Prepare, At
<1>2. ASSUME NEW step \in {"create", "call", "deny"}, Goto(p, step),
             step = "create" => job[p].request = None
      PROVE  IInv'
  <2> PICK j : j = [job[p] EXCEPT !.at = step]
    OBVIOUS
  <2>1. /\ j \in Job /\ j.at = step
        /\ j.operator = job[p].operator /\ j.request = job[p].request
        /\ j.action = job[p].action /\ j.site = job[p].site
    BY UnderWay, AtSet DEF Steps
  <2>2. job' = [job EXCEPT ![p] = j]
    BY <1>2 DEF Goto
  <2>3. Claims(j) => Claims(job[p]) /\ j.request = job[p].request
    BY <1>1, <2>1 DEF Claims
  <2>4. JobWhole(j)'
    BY <1>1, <1>2, <2>1, UnderWay DEF Claims, JobWhole, ClaimHeld
  <2>5. QED
    BY <1>1, <2>1, <2>2, <2>3, <2>4, GoOn, UnderWay
<1>3. CASE job' = Failed(p)
  BY <1>1, <1>3, FailedStep, UnderWay
<1>4. QED
  BY <1>2, <1>3 DEF Prepare

(* An entry in the log is a row of it.                                     *)
LEMMA LoggedRow ==
  ASSUME IInv, NEW p \in Workers, NEW result \in Results, Logged(p, result),
         job[p].at \in {"accepted", "deny", "audit"}
  PROVE  audit \subseteq audit' /\ audit' \in SUBSET AuditRow
<1>1. job[p].operator \in Operators /\ job[p].action \in Actions /\ job[p].site \in Sites \cup {None}
  BY UnderWay DEF JobWhole, Job
<1>2. QED
  BY <1>1, UnderWay DEF Logged, AuditRow

(* An action that is denied is logged and fails.                           *)
LEMMA DenyStep ==
  ASSUME IInv, NEW p \in Workers, Deny(p)
  PROVE  IInv'
<1>1. audit \subseteq audit' /\ audit' \in SUBSET AuditRow
  BY LoggedRow, UnderWay DEF Deny, At, Results
<1>2. QED
  BY <1>1, FailedStep DEF Deny, At

(* A request that was made is logged.                                      *)
LEMMA LogAcceptedStep ==
  ASSUME IInv, NEW p \in Workers, LogAccepted(p)
  PROVE  IInv'
<1>1. audit \subseteq audit' /\ audit' \in SUBSET AuditRow
  BY LoggedRow DEF LogAccepted, At, Results
<1>2. QED
  BY <1>1, Ends DEF LogAccepted

(* What the module answered is logged; the outcome says so.                *)
LEMMA LogCallStep ==
  ASSUME IInv, NEW p \in Workers, LogCall(p)
  PROVE  IInv'
<1>1. job[p].at = "audit" /\ UNCHANGED <<operator, role, request, effects>>
  BY DEF LogCall, At
<1>2. audit \subseteq audit' /\ audit' \in SUBSET AuditRow
  BY LoggedRow, UnderWay DEF LogCall, At, Results
<1>3. CASE job' = Failed(p)
  BY <1>1, <1>2, <1>3, FailedStep
<1>4. CASE /\ Logged(p, IF job[p].code = "done" THEN "done" ELSE "error")
           /\ job' = [Failed(p) EXCEPT ![p].ok = job[p].request # None /\ Executed(p)]
  <2>1. CASE job[p].request = None
    <3>1. PICK j : j = [Idle EXCEPT !.ok = FALSE]
      OBVIOUS
    <3>2. j \in Job /\ j.at = "idle" /\ j.request = None
      BY <3>1 DEF Idle, Job, Steps
    <3>3. job' = [job EXCEPT ![p] = j]
      BY <1>4, <2>1, <3>1 DEF Failed, IInv, TypeOK
    <3>4. ~Claims(j) /\ JobWhole(j)'
      BY <3>2 DEF Claims, JobWhole
    <3>5. QED
      BY <1>1, <1>2, <3>2, <3>3, <3>4, GoOn
  <2>2. CASE job[p].request # None
    <3>1. PICK ok \in BOOLEAN : ok = (job[p].code = "done")
      OBVIOUS
    <3> DEFINE Same(j) == /\ j \in Job /\ j.at = "outcome"
                          /\ j.operator = job[p].operator /\ j.request = job[p].request
                          /\ j.action = job[p].action /\ j.site = job[p].site
    <3>2. PICK j1 : j1 = [job[p] EXCEPT !.at = "outcome"]
      OBVIOUS
    <3>3. PICK j2 : j2 = [j1 EXCEPT !.ok = FALSE]
      OBVIOUS
    <3>4. PICK j : j = [j2 EXCEPT !.ok = ok]
      OBVIOUS
    <3>s. Same(j) /\ j.ok = ok
      <4>1. Same(j1)
        BY <3>2, UnderWay, AtSet DEF Steps
      <4>2. Same(j2)
        BY <3>3, <4>1, OkSet
      <4>3. QED
        BY <3>4, <4>2, OkSet
    <3>5. Failed(p) = [job EXCEPT ![p] = j2]
      BY <2>2, <3>2, <3>3 DEF Failed
    <3>6. (job[p].request # None /\ Executed(p)) = ok
      BY <2>2, <3>1 DEF Executed
    <3>7. job' = [job EXCEPT ![p] = j]
      BY <1>4, <3>4, <3>5, <3>6 DEF IInv, TypeOK
    <3>8. Claims(job[p]) /\ ClaimHeld(job[p])
      BY <1>1, <2>2, UnderWay DEF Claims, JobWhole
    <3>9. ok => [operator |-> j.operator, action |-> j.action, site |-> j.site,
                 result |-> "done"] \in audit'
      BY <1>4, <3>1, <3>s DEF Logged
    <3>10. ClaimHeld(j)'
      BY <1>1, <3>1, <3>s, <3>8, <3>9 DEF ClaimHeld
    <3>11. JobWhole(j)'
      BY <1>1, <3>s, <3>8, <3>10, UnderWay DEF JobWhole, ClaimHeld, Claims
    <3>12. QED
      BY <1>1, <1>2, <3>s, <3>7, <3>8, <3>11, GoOn
  <2>3. QED
    BY <2>1, <2>2
<1>5. QED
  BY <1>3, <1>4 DEF LogCall

(* A handler dies: a request it claimed stays approved.                    *)
LEMMA ThrowsStep ==
  ASSUME IInv, NEW p \in Workers, Throws(p)
  PROVE  IInv'
BY Ends, UnderWay DEF Throws

(* A handler reads the request it is to decide: its operator may.          *)
LEMMA ReadRequestStep ==
  ASSUME IInv, NEW p \in Workers, ReadRequest(p)
  PROVE  IInv'
<1>1. PICK r : r = job[p].request
  OBVIOUS
<1>2. PICK row : row = request[r]
  OBVIOUS
<1>3. job[p].at = "read" /\ UNCHANGED <<operator, role, request, audit, effects>>
  BY DEF ReadRequest, At
<1>4. r \in Requests /\ row.status # "none" /\ row \in RequestRow
  BY <1>1, <1>2, <1>3, UnderWay DEF JobWhole, Job, IInv, TypeOK
<1>5. CASE Finish(p)
  BY <1>3, <1>5, Ends, UnderWay
<1>6. CASE /\ MayDecide(p, row)
           /\ job' = [job EXCEPT ![p].at = IF job[p].approve THEN "approve" ELSE "reject",
                                 ![p].action = row.action, ![p].site = row.site]
  <2>1. PICK step \in {"approve", "reject"} : step = IF job[p].approve THEN "approve" ELSE "reject"
    OBVIOUS
  <2>2. row.action \in Actions /\ row.site \in Sites \cup {None} /\ row.requestedBy # job[p].operator
    BY <1>2, <1>4, <1>6 DEF IInv, RowsWhole, RequestRow, MayDecide
  <2>3. PICK j1 : j1 = [job[p] EXCEPT !.at = step]
    OBVIOUS
  <2>4. PICK j2 : j2 = [j1 EXCEPT !.action = row.action]
    OBVIOUS
  <2>5. PICK j : j = [j2 EXCEPT !.site = row.site]
    OBVIOUS
  <2> DEFINE Same(j0) == /\ j0 \in Job /\ j0.at = step
                         /\ j0.operator = job[p].operator /\ j0.request = r
  <2>6. Same(j) /\ j.action = row.action /\ j.site = row.site
    <3>1. Same(j1)
      BY <1>1, <2>3, UnderWay, AtSet DEF Steps
    <3>2. Same(j2) /\ j2.action = row.action
      BY <2>2, <2>4, <3>1, ActionSet
    <3>3. QED
      BY <2>2, <2>5, <3>2, SiteSet
  <2>7. job' = [job EXCEPT ![p] = j]
    BY <1>6, <2>1, <2>3, <2>4, <2>5 DEF IInv, TypeOK
  <2>8. ~Claims(j) /\ JobWhole(j)'
    BY <1>1, <1>2, <1>3, <1>4, <2>2, <2>6, UnderWay DEF Claims, JobWhole
  <2>9. QED
    BY <1>3, <2>6, <2>7, <2>8, GoOn, UnderWay
<1>7. QED
  BY <1>1, <1>2, <1>5, <1>6 DEF ReadRequest

-----------------------------------------------------------------------------
(* A request is made: no handler has it, and nothing was done for it.      *)
LEMMA CreateApprovalStep ==
  ASSUME IInv, NEW p \in Workers, CreateApproval(p)
  PROVE  IInv'
<1>1. PICK r \in Requests :
        /\ job[p].at = "create" /\ request[r] = NoRequest
        /\ request' = [request EXCEPT ![r] =
             [NoRequest EXCEPT !.status = "pending", !.action = job[p].action,
                               !.site = job[p].site, !.requestedBy = job[p].operator]]
        /\ Goto(p, "accepted")
        /\ UNCHANGED <<operator, role, audit, effects>>
  BY DEF CreateApproval, At
<1>2. /\ job[p].operator \in Operators /\ job[p].action \in Actions
      /\ job[p].site \in Sites \cup {None} /\ job[p].request = None
  BY <1>1, UnderWay DEF JobWhole, Job
<1>3. PICK row : /\ request' = [request EXCEPT ![r] = row]
                 /\ row \in RequestRow /\ row.status = "pending"
                 /\ row.action \in Actions /\ row.requestedBy \in Operators
  <2>0. PICK row0 : row0 = NoRequest
    OBVIOUS
  <2>1. row0 \in RequestRow
    BY <2>0 DEF NoRequest, RequestRow, Status
  <2>2. PICK row1 : row1 = [row0 EXCEPT !.status = "pending"]
    OBVIOUS
  <2>3. PICK row2 : row2 = [row1 EXCEPT !.action = job[p].action]
    OBVIOUS
  <2>4. PICK row3 : row3 = [row2 EXCEPT !.site = job[p].site]
    OBVIOUS
  <2>5. PICK row : row = [row3 EXCEPT !.requestedBy = job[p].operator]
    OBVIOUS
  <2>6. row1 \in RequestRow /\ row1.status = "pending"
    BY <2>1, <2>2 DEF RequestRow, Status
  <2>7. row2 \in RequestRow /\ row2.status = "pending" /\ row2.action \in Actions
    BY <1>2, <2>3, <2>6 DEF RequestRow
  <2>8. row3 \in RequestRow /\ row3.status = "pending" /\ row3.action \in Actions
    BY <1>2, <2>4, <2>7 DEF RequestRow
  <2>9. /\ row \in RequestRow /\ row.status = "pending" /\ row.action \in Actions
        /\ row.requestedBy \in Operators
    BY <1>2, <2>5, <2>8 DEF RequestRow
  <2>10. request' = [request EXCEPT ![r] = row]
    BY <1>1, <2>0, <2>2, <2>3, <2>4, <2>5
  <2>11. QED
    BY <2>9, <2>10
<1>6. request[r].status = "none"
  BY <1>1 DEF NoRequest
<1>7. PICK j : j = [job[p] EXCEPT !.at = "accepted"]
  OBVIOUS
<1>8. /\ j \in Job /\ j.at = "accepted" /\ j.operator = job[p].operator
      /\ j.action = job[p].action /\ j.request = None
  BY <1>2, <1>7, UnderWay, AtSet DEF Steps
<1>9. job' = [job EXCEPT ![p] = j]
  BY <1>1, <1>7 DEF Goto
<1>10. \A q \in Workers : job'[q] = IF q = p THEN j ELSE job[q]
  BY <1>9 DEF IInv, TypeOK
<1>11. \A q \in Requests : request'[q] = IF q = r THEN row ELSE request[q]
  BY <1>3 DEF IInv, TypeOK
<1>12. TypeOK'
  BY <1>1, <1>3, <1>8, <1>9 DEF IInv, TypeOK
<1>13. RowsWhole'
  BY <1>1, <1>3, <1>6, <1>11 DEF IInv, RowsWhole
<1>14. JobsWhole'
  <2>1. ASSUME NEW q \in Workers, q # p PROVE JobWhole(job[q])'
    <3>1. job'[q] = job[q] /\ JobWhole(job[q])
      BY <1>10, <2>1 DEF IInv, JobsWhole
    <3>2. job[q] \in Job
      BY DEF IInv, TypeOK
    <3>3. job[q].request # None => /\ job[q].request \in Requests
                                   /\ request'[job[q].request] = request[job[q].request]
      BY <1>6, <1>11, <3>1, <3>2 DEF JobWhole, Job
    <3>4. QED
      BY <1>1, <3>1, <3>3 DEF JobWhole, ClaimHeld, Claims
  <2>2. JobWhole(job[p])'
    BY <1>2, <1>8, <1>10 DEF JobWhole, Claims
  <2>3. QED
    BY <2>1, <2>2 DEF JobsWhole
<1>15. OneClaim'
  BY <1>8, <1>10 DEF IInv, OneClaim, Claims
<1>16. TwoOperators' /\ ExecutedMeansDone'
  BY <1>1, <1>3, <1>6, <1>11 DEF IInv, RowsWhole, TwoOperators, ExecutedMeansDone
<1>17. QED
  BY <1>12, <1>13, <1>14, <1>15, <1>16 DEF IInv

(* An approval or a rejection takes a pending request: no other has claimed it. *)
LEMMA DecidedStep ==
  ASSUME IInv, NEW p \in Workers, NEW status \in {"approved", "rejected"}, NEW j \in Job,
         job[p].at \in {"approve", "reject"}, Claimable(job[p].request), Decided(p, status),
         job' = [job EXCEPT ![p] = j], UNCHANGED <<operator, role, audit, effects>>,
         status = "rejected" => j.at = "idle" /\ j.request = None,
         status = "approved" => /\ j.at = "prepare" /\ j.operator = job[p].operator
                                /\ j.request = job[p].request
                                /\ j.action = job[p].action /\ j.site = job[p].site
  PROVE  IInv'
<1>1. PICK r : r = job[p].request
  OBVIOUS
<1>2. /\ r \in Requests /\ r # None /\ request[r].status = "pending"
      /\ job[p].operator \in Operators
  BY <1>1, UnderWay DEF JobWhole, Job, Claimable
<1>3. PICK row1 : row1 = [request[r] EXCEPT !.status = status]
  OBVIOUS
<1>4. PICK row : row = [row1 EXCEPT !.decidedBy = job[p].operator]
  OBVIOUS
<1>5. /\ row \in RequestRow /\ row.status = status /\ row.decidedBy = job[p].operator
      /\ row.requestedBy = request[r].requestedBy
      /\ row.action = request[r].action /\ row.site = request[r].site
  <2>1. /\ row1 \in RequestRow /\ row1.status = status
        /\ row1.requestedBy = request[r].requestedBy
        /\ row1.action = request[r].action /\ row1.site = request[r].site
    BY <1>2, <1>3 DEF IInv, TypeOK, RequestRow, Status
  <2>2. QED
    BY <1>2, <1>4, <2>1 DEF RequestRow
<1>6. request' = [request EXCEPT ![r] = row]
  BY <1>1, <1>2, <1>3, <1>4 DEF Decided, IInv, TypeOK
<1>7. \A q \in Workers : job'[q] = IF q = p THEN j ELSE job[q]
  BY DEF IInv, TypeOK
<1>8. \A q \in Requests : request'[q] = IF q = r THEN row ELSE request[q]
  BY <1>6 DEF IInv, TypeOK
<1>9. effects[r] = 0
  BY <1>2 DEF IInv, RowsWhole
<1>10. \A q \in Workers : Claims(job[q]) => job[q].request \in Requests /\ job[q].request # r
  <2>1. ASSUME NEW q \in Workers, Claims(job[q])
        PROVE  job[q].request \in Requests /\ job[q].request # r
    BY <1>2, <2>1, UnderWay DEF JobWhole, ClaimHeld, Claims, Job
  <2>2. QED
    BY <2>1
<1>11. TypeOK'
  BY <1>5, <1>6 DEF IInv, TypeOK
<1>12. RowsWhole'
  BY <1>2, <1>5, <1>8, <1>9 DEF IInv, RowsWhole
<1>13. JobsWhole'
  <2>1. ASSUME NEW q \in Workers, q # p PROVE JobWhole(job[q])'
    <3>1. job'[q] = job[q] /\ JobWhole(job[q]) /\ job[q] \in Job
      BY <1>7, <2>1, UnderWay
    <3>2. job[q].request # None =>
            /\ job[q].request \in Requests
            /\ request'[job[q].request].status # "none"
            /\ request'[job[q].request].requestedBy = request[job[q].request].requestedBy
            /\ request'[job[q].request].action = request[job[q].request].action
            /\ request'[job[q].request].site = request[job[q].request].site
      BY <1>5, <1>8, <3>1 DEF JobWhole, Job
    <3>3. Claims(job[q]) => ClaimHeld(job[q])'
      BY <1>8, <1>10, <3>1 DEF JobWhole, ClaimHeld
    <3>4. QED
      BY <3>1, <3>2, <3>3 DEF JobWhole, Claims
  <2>2. JobWhole(j)'
    <3>1. CASE status = "rejected"
      BY <3>1 DEF JobWhole, Claims
    <3>2. CASE status = "approved"
      <4>1. JobWhole(job[p])
        BY UnderWay
      <4>2. /\ j.action \in Actions /\ j.request = r /\ request'[r] = row
            /\ j.action = row.action /\ j.site = row.site /\ row.requestedBy # j.operator
        BY <1>1, <1>2, <1>5, <1>8, <3>2, <4>1 DEF JobWhole, IInv, RowsWhole
      <4>3. ClaimHeld(j)'
        BY <1>5, <1>9, <3>2, <4>2 DEF ClaimHeld
      <4>4. QED
        BY <1>2, <1>5, <3>2, <4>2, <4>3 DEF JobWhole
    <3>3. QED
      BY <3>1, <3>2
  <2>3. job'[p] = j
    BY <1>7
  <2>4. JobWhole(job[p])'
    BY <2>2, <2>3 DEF JobWhole, ClaimHeld, Claims
  <2>5. QED
    BY <2>1, <2>4 DEF JobsWhole
<1>14. OneClaim'
  BY <1>1, <1>7, <1>10 DEF IInv, OneClaim, Claims
<1>15. TwoOperators' /\ ExecutedMeansDone'
  BY <1>2, <1>5, <1>8, <1>9 DEF IInv, TwoOperators, ExecutedMeansDone
<1>16. QED
  BY <1>11, <1>12, <1>13, <1>14, <1>15 DEF IInv

(* A handler claims a request, or finds it decided.                        *)
LEMMA ApproveStep ==
  ASSUME IInv, NEW p \in Workers, Approve(p)
  PROVE  IInv'
<1>1. job[p].at = "approve" /\ UNCHANGED <<operator, role, audit, effects>>
  BY DEF Approve, At
<1>2. CASE Claimable(job[p].request)
  <2>1. PICK j : j = [job[p] EXCEPT !.at = "prepare"]
    OBVIOUS
  <2>2. /\ j \in Job /\ j.at = "prepare" /\ j.operator = job[p].operator
        /\ j.request = job[p].request /\ j.action = job[p].action /\ j.site = job[p].site
    BY <2>1, UnderWay, AtSet DEF Steps
  <2>3. job' = [job EXCEPT ![p] = j] /\ Decided(p, "approved")
    BY <1>2, <2>1 DEF Approve, Goto
  <2>4. QED
    BY <1>1, <1>2, <2>2, <2>3, DecidedStep
<1>3. CASE ~Claimable(job[p].request)
  BY <1>1, <1>3, Ends, UnderWay DEF Approve
<1>4. QED
  BY <1>2, <1>3

(* A handler rejects a request, or finds it decided.                       *)
LEMMA RejectStep ==
  ASSUME IInv, NEW p \in Workers, Reject(p)
  PROVE  IInv'
<1>1. job[p].at = "reject" /\ UNCHANGED <<operator, role, audit, effects>> /\ Finish(p)
  BY DEF Reject, At
<1>2. CASE Claimable(job[p].request)
  <2>1. Idle \in Job /\ Idle.at = "idle" /\ Idle.request = None
    BY DEF Idle, Job, Steps
  <2>2. job' = [job EXCEPT ![p] = Idle] /\ Decided(p, "rejected")
    BY <1>1, <1>2 DEF Reject, Finish
  <2>3. QED
    BY <1>1, <1>2, <2>1, <2>2, DecidedStep
<1>3. CASE ~Claimable(job[p].request)
  BY <1>1, <1>3, Ends, UnderWay DEF Reject
<1>4. QED
  BY <1>2, <1>3

(* The action is done or not: only the handler that claimed a request does it. *)
LEMMA CallStep ==
  ASSUME IInv, NEW p \in Workers, Call(p)
  PROVE  IInv'
<1>1. PICK did \in BOOLEAN, code \in {"done", "refused", "unreachable"} :
        /\ job[p].at = "call" /\ (code = "done" => did)
        /\ effects' = [r \in Requests |->
             IF r = job[p].request /\ did THEN effects[r] + 1 ELSE effects[r]]
        /\ job' = [job EXCEPT ![p].at = "audit", ![p].code = code]
        /\ UNCHANGED <<operator, role, request, audit>>
  BY DEF Call, At
<1>2. PICK j1 : j1 = [job[p] EXCEPT !.at = "audit"]
  OBVIOUS
<1>3. PICK j : j = [j1 EXCEPT !.code = code]
  OBVIOUS
<1>4. /\ j \in Job /\ j.at = "audit" /\ j.code = code /\ j.operator = job[p].operator
      /\ j.request = job[p].request /\ j.action = job[p].action /\ j.site = job[p].site
  <2>1. /\ j1 \in Job /\ j1.at = "audit" /\ j1.operator = job[p].operator
        /\ j1.request = job[p].request /\ j1.action = job[p].action /\ j1.site = job[p].site
    BY <1>2, UnderWay, AtSet DEF Steps
  <2>2. QED
    BY <1>3, <2>1, CodeSet
<1>5. job' = [job EXCEPT ![p] = j]
  BY <1>1, <1>2, <1>3 DEF IInv, TypeOK
<1>6. \A q \in Workers : job'[q] = IF q = p THEN j ELSE job[q]
  BY <1>5 DEF IInv, TypeOK
<1>7. Claims(job[p]) => ClaimHeld(job[p]) /\ job[p].request \in Requests
  BY UnderWay DEF JobWhole, Job, Claims
<1>8. job[p].request \in Requests => Claims(job[p])
  BY <1>1, ApprovalsAssumption DEF Claims
<1>9. \A r \in Requests : \/ effects'[r] = effects[r]
                          \/ /\ r = job[p].request /\ Claims(job[p])
                             /\ effects[r] = 0 /\ effects'[r] = 1
  BY <1>1, <1>7, <1>8 DEF ClaimHeld
<1>10. TypeOK'
  <2>1. effects' \in [Requests -> Nat]
    BY <1>1 DEF IInv, TypeOK
  <2>2. QED
    BY <1>1, <1>4, <1>5, <2>1 DEF IInv, TypeOK
<1>11. RowsWhole'
  BY <1>1, <1>7, <1>8, <1>9 DEF IInv, RowsWhole, ClaimHeld
<1>12. JobsWhole'
  <2>1. ASSUME NEW q \in Workers, q # p PROVE JobWhole(job[q])'
    <3>1. job'[q] = job[q] /\ JobWhole(job[q]) /\ job[q] \in Job
      BY <1>6, <2>1, UnderWay
    <3>2. Claims(job[q]) => job[q].request \in Requests /\ job[q].request # job[p].request
      BY <1>8, <2>1, <3>1 DEF Claims, Job, IInv, OneClaim
    <3>3. Claims(job[q]) => effects'[job[q].request] = effects[job[q].request]
      BY <1>9, <3>2
    <3>4. request' = request /\ audit' = audit
      BY <1>1
    <3>5. Claims(job[q]) => ClaimHeld(job[q])'
      BY <3>1, <3>3, <3>4 DEF JobWhole, ClaimHeld
    <3>6. QED
      BY <3>1, <3>4, <3>5 DEF JobWhole, Claims
  <2>2. JobWhole(j)'
    <3>1. JobWhole(job[p])
      BY UnderWay
    <3>2. Claims(j) => Claims(job[p])
      BY <1>1, <1>4 DEF Claims
    <3>3. Claims(j) => ClaimHeld(j)'
      BY <1>1, <1>4, <1>7, <3>2 DEF ClaimHeld
    <3>4. QED
      BY <1>1, <1>4, <3>1, <3>3 DEF JobWhole
  <2>3. job'[p] = j
    BY <1>6
  <2>4. JobWhole(job[p])'
    BY <2>2, <2>3 DEF JobWhole, ClaimHeld, Claims
  <2>5. QED
    BY <2>1, <2>4 DEF JobsWhole
<1>13. OneClaim'
  BY <1>1, <1>4, <1>6 DEF IInv, OneClaim, Claims
<1>14. TwoOperators'
  <2>1. ASSUME NEW r \in Requests, effects'[r] # effects[r]
        PROVE  /\ effects'[r] = 1 /\ request'[r].status = "approved"
               /\ request'[r].decidedBy # None
               /\ request'[r].decidedBy # request'[r].requestedBy
    <3>1. r = job[p].request /\ effects'[r] = 1 /\ ClaimHeld(job[p])
      BY <1>7, <1>9, <2>1
    <3>2. job[p].operator \in Operators /\ job[p].operator # None
      BY <1>1, UnderWay, ApprovalsAssumption DEF JobWhole
    <3>3. QED
      BY <1>1, <3>1, <3>2 DEF ClaimHeld
  <2>2. QED
    BY <1>1, <2>1 DEF IInv, TwoOperators
<1>15. ExecutedMeansDone'
  BY <1>1, <1>9 DEF IInv, ExecutedMeansDone
<1>16. QED
  BY <1>10, <1>11, <1>12, <1>13, <1>14, <1>15 DEF IInv

(* The outcome ends the claim.                                             *)
LEMMA WriteOutcomeStep ==
  ASSUME IInv, NEW p \in Workers, WriteOutcome(p)
  PROVE  IInv'
<1>1. PICK r : r = job[p].request
  OBVIOUS
<1>2. /\ job[p].at = "outcome" /\ Finish(p) /\ UNCHANGED <<operator, role, audit, effects>>
      /\ request' = [request EXCEPT ![r].status = IF job[p].ok THEN "executed" ELSE "failed"]
  BY <1>1 DEF WriteOutcome, At
<1>3. r \in Requests /\ r # None /\ Claims(job[p]) /\ ClaimHeld(job[p])
  BY <1>1, <1>2, UnderWay DEF JobWhole, Job, Claims
<1>4. PICK status \in {"executed", "failed"} : status = IF job[p].ok THEN "executed" ELSE "failed"
  OBVIOUS
<1>5. PICK row : row = [request[r] EXCEPT !.status = status]
  OBVIOUS
<1>6. /\ row \in RequestRow /\ row.status = status /\ row.decidedBy = request[r].decidedBy
      /\ row.requestedBy = request[r].requestedBy
      /\ row.action = request[r].action /\ row.site = request[r].site
  BY <1>3, <1>5 DEF IInv, TypeOK, RequestRow, Status
<1>7. request' = [request EXCEPT ![r] = row]
  BY <1>2, <1>4, <1>5
<1>8. \A q \in Requests : request'[q] = IF q = r THEN row ELSE request[q]
  BY <1>7 DEF IInv, TypeOK
<1>9. \A q \in Workers : job'[q] = IF q = p THEN Idle ELSE job[q]
  BY <1>2 DEF Finish, IInv, TypeOK
<1>10. Idle \in Job /\ ~Claims(Idle) /\ JobWhole(Idle)'
  BY DEF Idle, Job, Steps, Claims, JobWhole
<1>11. TypeOK'
  BY <1>2, <1>6, <1>7, <1>10 DEF Finish, IInv, TypeOK
<1>12. RowsWhole'
  BY <1>1, <1>2, <1>3, <1>6, <1>8 DEF IInv, RowsWhole, ClaimHeld
<1>13. JobsWhole'
  <2>1. ASSUME NEW q \in Workers, q # p PROVE JobWhole(job[q])'
    <3>1. job'[q] = job[q] /\ JobWhole(job[q]) /\ job[q] \in Job
      BY <1>9, <2>1, UnderWay
    <3>2. job[q].request # None =>
            /\ job[q].request \in Requests
            /\ request'[job[q].request].status # "none"
            /\ request'[job[q].request].requestedBy = request[job[q].request].requestedBy
            /\ request'[job[q].request].action = request[job[q].request].action
            /\ request'[job[q].request].site = request[job[q].request].site
      BY <1>6, <1>8, <3>1 DEF JobWhole, Job
    <3>3. Claims(job[q]) => job[q].request # r
      BY <1>1, <1>3, <2>1 DEF IInv, OneClaim
    <3>4. Claims(job[q]) => ClaimHeld(job[q])'
      BY <1>2, <1>8, <3>1, <3>2, <3>3 DEF JobWhole, ClaimHeld, Claims
    <3>5. QED
      BY <3>1, <3>2, <3>4 DEF JobWhole, Claims
  <2>2. JobWhole(job[p])'
    BY <1>9, <1>10 DEF JobWhole, ClaimHeld, Claims
  <2>3. QED
    BY <2>1, <2>2 DEF JobsWhole
<1>14. OneClaim'
  BY <1>9, <1>10 DEF IInv, OneClaim, Claims
<1>15. TwoOperators'
  BY <1>2, <1>3, <1>6, <1>8 DEF IInv, TwoOperators
<1>16. ExecutedMeansDone'
  <2>1. status = "executed" =>
          /\ effects[r] = 1
          /\ [operator |-> row.decidedBy, action |-> row.action, site |-> row.site,
              result |-> "done"] \in audit
    BY <1>1, <1>2, <1>3, <1>4, <1>6 DEF ClaimHeld
  <2>2. QED
    <3>1. ASSUME NEW q \in Requests, q # r, request'[q].status = "executed"
          PROVE  /\ effects'[q] = 1
                 /\ [operator |-> request'[q].decidedBy, action |-> request'[q].action,
                     site |-> request'[q].site, result |-> "done"] \in audit'
      BY <1>2, <1>8, <3>1 DEF IInv, ExecutedMeansDone
    <3>2. request'[r].status = "executed" =>
            /\ effects'[r] = 1
            /\ [operator |-> request'[r].decidedBy, action |-> request'[r].action,
                site |-> request'[r].site, result |-> "done"] \in audit'
      <4>1. request'[r] = row
        BY <1>3, <1>8
      <4>2. effects' = effects /\ audit' = audit /\ row.status = status
        BY <1>2, <1>6
      <4>3. QED
        BY <2>1, <4>1, <4>2
    <3>3. QED
      BY <3>1, <3>2 DEF ExecutedMeansDone
<1>17. QED
  BY <1>11, <1>12, <1>13, <1>14, <1>15, <1>16 DEF IInv

(* An operator asks to change operators or roles: nothing is claimed.      *)
LEMMA AskStaffStep ==
  ASSUME IInv, NEW p \in Workers, AskStaff(p)
  PROVE  IInv'
<1>1. PICK o \in Operators :
        /\ Begin(p, [Resolved(o) EXCEPT !.at = "manage"])
        /\ UNCHANGED <<operator, role, request, audit, effects>>
  BY DEF AskStaff
<1>2. PICK r0 \in Job : r0 = Resolved(o) /\ r0.operator = o /\ r0.request = None
  BY ResolvedJob
<1>3. PICK j : j = [r0 EXCEPT !.at = "manage"]
  OBVIOUS
<1>4. j \in Job /\ j.at = "manage" /\ j.operator = o /\ j.request = None
  BY <1>2, <1>3, AtSet DEF Steps
<1>5. job' = [job EXCEPT ![p] = j] /\ UNCHANGED <<operator, role, request, audit, effects>>
  BY <1>1, <1>2, <1>3 DEF Begin
<1>6. ~Claims(j) /\ JobWhole(j)'
  BY <1>4 DEF Claims, JobWhole
<1>7. QED
  BY <1>4, <1>5, <1>6, GoOn, UnderWay

(* Operators and roles change: a request under way keeps what it read.     *)
LEMMA StaffStep ==
  ASSUME IInv, NEW p \in Workers, UpsertOperator(p) \/ SetOperatorStatus(p) \/ UpsertRole(p)
  PROVE  IInv'
<1>1. UNCHANGED <<request, audit, effects>> /\ job' = [job EXCEPT ![p] = Idle]
  BY DEF UpsertOperator, SetOperatorStatus, UpsertRole, Finish
<1>2. operator' \in [Operators -> OperatorRow] /\ role' \in [Roles -> SUBSET Permissions]
  <2>1. ASSUME NEW o \in Staff, NEW r \in Roles, NEW scope \in Scopes,
               operator' = [operator EXCEPT ![o].role = r, ![o].scope = scope]
        PROVE  operator' \in [Operators -> OperatorRow]
    <3>1. PICK row1 : row1 = [operator[o] EXCEPT !.role = r]
      OBVIOUS
    <3>2. PICK row : row = [row1 EXCEPT !.scope = scope]
      OBVIOUS
    <3>3. o \in Operators /\ scope \in SUBSET (Sites \cup {All}) /\ operator[o] \in OperatorRow
      BY ApprovalsAssumption DEF IInv, TypeOK
    <3>4. row1 \in OperatorRow
      BY <3>1, <3>3 DEF OperatorRow
    <3>5. row \in OperatorRow
      BY <3>2, <3>3, <3>4 DEF OperatorRow
    <3>6. operator' = [operator EXCEPT ![o] = row]
      BY <2>1, <3>1, <3>2, <3>3 DEF IInv, TypeOK
    <3>7. QED
      BY <3>3, <3>5, <3>6 DEF IInv, TypeOK
  <2>2. ASSUME NEW o \in Staff, NEW active \in BOOLEAN,
               operator' = [operator EXCEPT ![o].active = active]
        PROVE  operator' \in [Operators -> OperatorRow]
    BY <2>2, ApprovalsAssumption DEF IInv, TypeOK, OperatorRow
  <2>3. ASSUME NEW r \in Roles, NEW permissions \in Grants, role' = [role EXCEPT ![r] = permissions]
        PROVE  role' \in [Roles -> SUBSET Permissions]
    BY <2>3, ApprovalsAssumption DEF IInv, TypeOK
  <2>4. CASE UpsertOperator(p)
    BY <2>1, <2>4 DEF UpsertOperator, IInv, TypeOK
  <2>5. CASE SetOperatorStatus(p)
    BY <2>2, <2>5 DEF SetOperatorStatus, IInv, TypeOK
  <2>6. CASE UpsertRole(p)
    BY <2>3, <2>6 DEF UpsertRole, IInv, TypeOK
  <2>7. QED
    BY <2>4, <2>5, <2>6
<1>3. Idle \in Job /\ ~Claims(Idle) /\ JobWhole(Idle)'
  BY DEF Idle, Job, Steps, Claims, JobWhole
<1>4. job'[p] = Idle /\ \A q \in Workers : q # p => job'[q] = job[q]
  BY <1>1 DEF IInv, TypeOK
<1>5. TypeOK'
  BY <1>1, <1>2, <1>3 DEF IInv, TypeOK
<1>6. RowsWhole' /\ TwoOperators' /\ ExecutedMeansDone'
  BY <1>1 DEF IInv, RowsWhole, TwoOperators, ExecutedMeansDone
<1>7. OneClaim'
  BY <1>3, <1>4 DEF IInv, OneClaim, Claims
<1>8. JobsWhole'
  <2>1. ASSUME NEW q \in Workers, q # p PROVE JobWhole(job[q])'
    <3>1. JobWhole(job[q]) /\ job'[q] = job[q]
      BY <1>4, <2>1 DEF IInv, JobsWhole
    <3>2. QED
      BY <1>1, <3>1 DEF JobWhole, ClaimHeld, Claims
  <2>2. JobWhole(job[p])'
    BY <1>3, <1>4 DEF JobWhole, ClaimHeld, Claims
  <2>3. QED
    BY <2>1, <2>2 DEF JobsWhole
<1>9. QED
  BY <1>5, <1>6, <1>7, <1>8 DEF IInv

-----------------------------------------------------------------------------
(* No request was made and no handler is under way at first.               *)
LEMMA InitIInv == Init => IInv
<1> SUFFICES ASSUME Init PROVE IInv
  OBVIOUS
<1>1. Idle \in Job /\ ~Claims(Idle) /\ JobWhole(Idle)
  BY DEF Idle, Job, Steps, Claims, JobWhole
<1>2. NoRequest \in RequestRow /\ NoRequest.status = "none"
  BY DEF NoRequest, RequestRow, Status
<1>3. TypeOK
  <2>1. operator \in [Operators -> OperatorRow]
    <3>1. \A o \in Operators : operator[o] \in [active : {TRUE}, role : Roles, scope : Scopes]
      BY DEF Init
    <3>2. [active : {TRUE}, role : Roles, scope : Scopes] \subseteq OperatorRow
      BY ApprovalsAssumption DEF OperatorRow
    <3>3. QED
      BY <3>1, <3>2 DEF Init
  <2>2. role \in [Roles -> SUBSET Permissions]
    BY ApprovalsAssumption DEF Init
  <2>3. QED
    BY <1>1, <1>2, <2>1, <2>2 DEF Init, TypeOK
<1>4. JobsWhole /\ OneClaim
  BY <1>1 DEF Init, JobsWhole, OneClaim
<1>5. RowsWhole /\ TwoOperators /\ ExecutedMeansDone
  BY <1>2 DEF Init, RowsWhole, TwoOperators, ExecutedMeansDone
<1>6. QED
  BY <1>3, <1>4, <1>5 DEF IInv

(* Every step of a handler, and every change of an operator or a role, keeps IInv. *)
LEMMA NextIInv == IInv /\ [Next]_vars => IInv'
<1> SUFFICES ASSUME IInv, [Next]_vars PROVE IInv'
  OBVIOUS
<1>1. ASSUME NEW p \in Workers, ActionRequests(p) PROVE IInv'
  BY <1>1, AskActionStep, PrepareStep, DenyStep, CreateApprovalStep, LogAcceptedStep, CallStep,
     LogCallStep DEF ActionRequests
<1>2. ASSUME NEW p \in Workers, DecisionRequests(p) PROVE IInv'
  BY <1>2, AskDecisionStep, ReadRequestStep, ApproveStep, RejectStep, WriteOutcomeStep
     DEF DecisionRequests
<1>3. ASSUME NEW p \in Workers, Throws(p) PROVE IInv'
  BY <1>3, ThrowsStep
<1>4. ASSUME NEW p \in Workers, StaffRequests(p) PROVE IInv'
  BY <1>4, AskStaffStep, StaffStep DEF StaffRequests
<1>5. CASE UNCHANGED vars
  <2>1. TypeOK' /\ RowsWhole' /\ OneClaim' /\ TwoOperators' /\ ExecutedMeansDone'
    BY <1>5 DEF vars, IInv, TypeOK, RowsWhole, OneClaim, TwoOperators, ExecutedMeansDone
  <2>2. JobsWhole'
    BY <1>5 DEF vars, IInv, JobsWhole, JobWhole, ClaimHeld, Claims
  <2>3. QED
    BY <2>1, <2>2 DEF IInv
<1>6. QED
  BY <1>1, <1>2, <1>3, <1>4, <1>5 DEF Next, Requesting

(* Every reachable state satisfies IInv: a request that is being executed belongs to
   one handler, which took it from pending (approveRequest).               *)
THEOREM Invariance == Spec => []IInv
BY InitIInv, NextIInv, PTL DEF Spec

(* What needs an approval is done once at most, and only for a request that a second
   operator approved, whatever fails and whoever decides at once (approveRequest,
   rejectRequest, assertChecker).                                          *)
THEOREM SecondOperator == Spec => []TwoOperators
<1>1. IInv => TwoOperators
  BY DEF IInv
<1>2. QED
  BY <1>1, Invariance, PTL

(* A request marked executed was done, and the log says so in the name of who
   approved it (executeAction, approveRequest).                            *)
THEOREM ExecutedWasDone == Spec => []ExecutedMeansDone
<1>1. IInv => ExecutedMeansDone
  BY DEF IInv
<1>2. QED
  BY <1>1, Invariance, PTL

-----------------------------------------------------------------------------
(* Commands and their receipts.                                            *)

(* A command has a receipt exactly if it took effect, and then once.       *)
ReceiptTells == \A c \in Commands : done[c] = IF c \in receipt THEN 1 ELSE 0

(* No two receipts share an id or a key.                                   *)
ReceiptsApart == \A c, d \in receipt : SameIdentity(c, d) => c = d

(* Whoever was answered was answered from a receipt.                       *)
AnswersTold == \A c \in answered : \E d \in receipt : Id[c] = Id[d] /\ SameDigest(c, d)

(* A delivery that is under way is of a command.                           *)
RpcsNameCommands == \A p \in Deliveries : rpc[p] # NoRpc => rpc[p].command \in Commands

ReceiptsInv == ReceiptsTypeOK /\ ReceiptTells /\ ReceiptsApart /\ AnswersTold /\ RpcsNameCommands

-----------------------------------------------------------------------------
(* A step that writes no receipt, and answers from those there are.        *)
LEMMA AnswerKeeps ==
  ASSUME ReceiptsInv, UNCHANGED <<receipt, token, done>>,
         rpc' \in [Deliveries -> Rpc],
         \A p \in Deliveries : rpc'[p] # NoRpc => rpc'[p].command \in Commands,
         \A c \in answered' \ answered :
           c \in Commands /\ \E d \in receipt : Id[c] = Id[d] /\ SameDigest(c, d)
  PROVE  ReceiptsInv'
<1>1. ReceiptsTypeOK'
  BY DEF ReceiptsInv, ReceiptsTypeOK
<1>2. ReceiptTells' /\ ReceiptsApart'
  BY DEF ReceiptsInv, ReceiptTells, ReceiptsApart, SameIdentity
<1>3. AnswersTold'
  BY DEF ReceiptsInv, AnswersTold, SameDigest
<1>4. RpcsNameCommands'
  BY DEF RpcsNameCommands, NoRpc
<1>5. QED
  BY <1>1, <1>2, <1>3, <1>4 DEF ReceiptsInv

(* A delivery that ends leaves the others as they are.                     *)
LEMMA FinishKeeps ==
  ASSUME ReceiptsInv, NEW p \in Deliveries, EndRpc(p)
  PROVE  /\ rpc' \in [Deliveries -> Rpc]
         /\ \A q \in Deliveries : rpc'[q] # NoRpc => rpc'[q].command \in Commands
<1>1. NoRpc \in Rpc
  BY DEF NoRpc, Rpc
<1>2. QED
  BY <1>1 DEF ReceiptsInv, ReceiptsTypeOK, RpcsNameCommands, EndRpc

(* A command is delivered.                                                 *)
LEMMA DeliverStep ==
  ASSUME ReceiptsInv, NEW p \in Deliveries, Deliver(p)
  PROVE  ReceiptsInv'
<1>1. PICK c \in Commands :
        rpc' = [rpc EXCEPT ![p] = [at |-> "look", command |-> c, again |-> FALSE]]
  BY DEF Deliver
<1> PICK r : r = [at |-> "look", command |-> c, again |-> FALSE]
  OBVIOUS
<1>2. r \in Rpc /\ r.command = c
  BY <1>1 DEF Rpc
<1>3. QED
  BY <1>1, <1>2, AnswerKeeps DEF Deliver, ReceiptsInv, ReceiptsTypeOK, RpcsNameCommands

(* A delivery at a step is of a command.                                   *)
LEMMA RpcUnderWay ==
  ASSUME ReceiptsInv, NEW p \in Deliveries, NEW step \in {"look", "execute"}, RpcAt(p, step)
  PROVE  rpc[p] \in Rpc /\ rpc[p].command \in Commands
BY DEF ReceiptsInv, ReceiptsTypeOK, RpcsNameCommands, RpcAt, NoRpc

(* A receipt that replays a command answers it.                            *)
LEMMA LookStep ==
  ASSUME ReceiptsInv, NEW p \in Deliveries, Look(p)
  PROVE  ReceiptsInv'
<1>1. rpc[p] \in Rpc /\ rpc[p].command \in Commands
  BY RpcUnderWay DEF Look
<1>2. CASE rpc' = [rpc EXCEPT ![p].at = "execute"] /\ UNCHANGED answered
  <2> DEFINE r == [rpc[p] EXCEPT !.at = "execute"]
  <2>1. r \in Rpc /\ r.command = rpc[p].command
    BY <1>1 DEF Rpc
  <2>2. rpc' = [rpc EXCEPT ![p] = r]
    BY <1>2
  <2> HIDE DEF r
  <2>3. /\ rpc' \in [Deliveries -> Rpc]
        /\ \A q \in Deliveries : rpc'[q] # NoRpc => rpc'[q].command \in Commands
    BY <1>1, <2>1, <2>2 DEF ReceiptsInv, ReceiptsTypeOK, RpcsNameCommands
  <2>4. QED
    BY <1>2, <2>3, AnswerKeeps DEF Look
<1>3. CASE EndRpc(p) /\ UNCHANGED answered
  <2>1. /\ rpc' \in [Deliveries -> Rpc]
        /\ \A q \in Deliveries : rpc'[q] # NoRpc => rpc'[q].command \in Commands
    BY <1>3, FinishKeeps
  <2>2. UNCHANGED <<receipt, token, done>> /\ answered' \ answered = {}
    BY <1>3 DEF Look
  <2>3. QED
    BY <2>1, <2>2, AnswerKeeps
<1>4. CASE /\ \E d \in Deciding(rpc[p].command) : Replays(rpc[p].command, d)
           /\ answered' = answered \cup {rpc[p].command}
           /\ EndRpc(p)
  <2>1. \E d \in receipt : Id[rpc[p].command] = Id[d] /\ SameDigest(rpc[p].command, d)
    BY <1>4 DEF Deciding, Found, Replays
  <2>2. QED
    BY <1>1, <1>4, <2>1, FinishKeeps, AnswerKeeps DEF Look
<1>5. QED
  BY <1>2, <1>3, <1>4 DEF Look

(* The loser of a race changes nothing.                                    *)
LEMMA ConflictStep ==
  ASSUME ReceiptsInv, NEW p \in Deliveries, Conflict(p)
  PROVE  ReceiptsInv'
<1>1. rpc[p] \in Rpc /\ rpc[p].command \in Commands
  BY RpcUnderWay DEF Conflict
<1>2. PICK r \in Rpc : rpc' = [rpc EXCEPT ![p] = r] /\ (r = NoRpc \/ r.command = rpc[p].command)
  <2>1. NoRpc \in Rpc /\ [rpc[p] EXCEPT !.at = "look", !.again = TRUE] \in Rpc
    BY <1>1 DEF Rpc, NoRpc
  <2>2. [rpc[p] EXCEPT !.at = "look", !.again = TRUE].command = rpc[p].command
    BY <1>1 DEF Rpc
  <2>3. QED
    BY <2>1, <2>2 DEF Conflict, ReceiptsInv, ReceiptsTypeOK
<1>3. QED
  BY <1>1, <1>2, AnswerKeeps DEF Conflict, ReceiptsInv, ReceiptsTypeOK, RpcsNameCommands

(* An effect is written with a receipt that no other shares an id or a key with. *)
LEMMA ExecuteStep ==
  ASSUME ReceiptsInv, NEW p \in Deliveries, Execute(p)
  PROVE  ReceiptsInv'
<1>1. PICK c \in Commands : c = rpc[p].command
  BY RpcUnderWay DEF Execute
<1>2. c \notin receipt /\ \A d \in receipt : ~SameIdentity(c, d) /\ ~SameIdentity(d, c)
  BY <1>1 DEF Execute, Taken, Found, SameIdentity
<1>3. receipt' = receipt \cup {c} /\ done' = [done EXCEPT ![c] = @ + 1]
  BY <1>1 DEF Execute
<1>4. ReceiptsTypeOK'
  <2>1. token' \in SUBSET Tokens
    BY <1>1, ReceiptsAssumption DEF Execute, Applied, ReceiptsInv, ReceiptsTypeOK
  <2>2. answered' \in SUBSET Commands
    BY <1>1 DEF Execute, ReceiptsInv, ReceiptsTypeOK
  <2>3. rpc' \in [Deliveries -> Rpc]
    BY FinishKeeps DEF Execute
  <2>4. QED
    BY <1>3, <2>1, <2>2, <2>3 DEF ReceiptsInv, ReceiptsTypeOK
<1>5. ReceiptTells'
  BY <1>2, <1>3 DEF ReceiptsInv, ReceiptsTypeOK, ReceiptTells
<1>6. ReceiptsApart'
  BY <1>2, <1>3 DEF ReceiptsInv, ReceiptsApart, SameIdentity
<1>7. AnswersTold'
  <2>1. Id[c] = Id[c] /\ SameDigest(c, c)
    BY DEF SameDigest
  <2>2. answered' \subseteq answered \cup {c}
    BY <1>1 DEF Execute
  <2>3. QED
    BY <1>3, <2>1, <2>2 DEF ReceiptsInv, AnswersTold, SameDigest
<1>8. RpcsNameCommands'
  BY FinishKeeps DEF Execute, RpcsNameCommands, NoRpc
<1>9. QED
  BY <1>4, <1>5, <1>6, <1>7, <1>8 DEF ReceiptsInv

(* A refusal or a failure ends a delivery.                                 *)
LEMMA EndStep ==
  ASSUME ReceiptsInv, NEW p \in Deliveries, Refuse(p) \/ RpcFails(p)
  PROVE  ReceiptsInv'
BY FinishKeeps, AnswerKeeps DEF Refuse, RpcFails

(* A client reads the receipt of its command.                              *)
LEMMA ReconcileStep ==
  ASSUME ReceiptsInv, NEW c \in Commands, Reconcile(c)
  PROVE  ReceiptsInv'
BY AnswerKeeps DEF Reconcile, ReceiptsInv, ReceiptsTypeOK, RpcsNameCommands

-----------------------------------------------------------------------------
(* No command has a receipt at first.                                      *)
LEMMA InitReceiptsInv == InitReceipts => ReceiptsInv
<1> SUFFICES ASSUME InitReceipts PROVE ReceiptsInv
  OBVIOUS
<1>1. NoRpc \in Rpc
  BY DEF NoRpc, Rpc
<1>2. QED
  BY <1>1 DEF InitReceipts, ReceiptsInv, ReceiptsTypeOK, ReceiptTells, ReceiptsApart, AnswersTold,
              RpcsNameCommands

(* Every step of a delivery, and every question for a receipt, keeps ReceiptsInv.  *)
LEMMA NextReceiptsInv == ReceiptsInv /\ [NextReceipts]_receiptVars => ReceiptsInv'
<1> SUFFICES ASSUME ReceiptsInv, [NextReceipts]_receiptVars PROVE ReceiptsInv'
  OBVIOUS
<1>1. ASSUME NEW p \in Deliveries,
             Deliver(p) \/ Look(p) \/ Conflict(p) \/ Execute(p) \/ Refuse(p) \/ RpcFails(p)
      PROVE  ReceiptsInv'
  BY <1>1, DeliverStep, LookStep, ConflictStep, ExecuteStep, EndStep
<1>2. ASSUME NEW c \in Commands, Reconcile(c) PROVE ReceiptsInv'
  BY <1>2, ReconcileStep
<1>3. CASE UNCHANGED receiptVars
  BY <1>3, AnswerKeeps DEF receiptVars, ReceiptsInv, ReceiptsTypeOK, RpcsNameCommands
<1>4. QED
  BY <1>1, <1>2, <1>3 DEF NextReceipts

(* Every reachable state satisfies ReceiptsInv, whatever ids and keys clients choose and
   however many deliveries are under way (executeOnce).                    *)
THEOREM ReceiptsInvariance == ReceiptsSpec => []ReceiptsInv
BY InitReceiptsInv, NextReceiptsInv, PTL DEF ReceiptsSpec

(* A command takes effect once at most, no two that share an id or a key both do,
   and whoever is told that a command is done may rely on it (executeOnce,
   getCommandReceipt).                                                     *)
THEOREM CommandsDoneOnce == ReceiptsSpec => []DoneOnce
<1>1. ReceiptsInv => DoneOnce
  BY DEF ReceiptsInv, ReceiptsTypeOK, ReceiptTells, ReceiptsApart, AnswersTold, DoneOnce
<1>2. QED
  BY <1>1, ReceiptsInvariance, PTL
=============================================================================
