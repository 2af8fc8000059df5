------------------------------ MODULE Payments -------------------------------
(***************************************************************************)
(* Orders, refunds, subscriptions and provider webhooks of kokoro-payment  *)
(* (kokoro-payment/src/application/payment-service.ts and                  *)
(* webhook-service.ts, with their Prisma repository) against the credit    *)
(* service they call over HTTP.                                            *)
(*                                                                         *)
(* No transaction spans the two services.  Every call a handler awaits (a  *)
(* read, a conditional update, an HTTP request) is one step of its job, so *)
(* any other job may run between two of them, any of them may throw, and   *)
(* the process may die between any two.  Credit is granted and spent under *)
(* an idempotency key: a repeated call finds the entry of the first one    *)
(* and changes nothing, whatever amount it asks for.                       *)
(***************************************************************************)
EXTENDS Integers, FiniteSets

CONSTANTS
  Plans, Orders, Teams,   \* rows of payment_plans and payment_orders; buyers
  Subs, Periods,          \* provider subscriptions, starts of their periods
  Events,                 \* (provider, eventId) of provider events
  Workers,                \* requests that may run at once
  Sweepers,               \* sweeps of stale confirmations that may run at once
  None,                   \* NULL
  Ops,                    \* what clients, operators and providers do
  Kinds,                  \* the event types providers send
  Prices,                 \* creditMicros a plan may have
  Placed,                 \* the orders that are pending at the start, with their plans
  Funds                   \* credit every team has at the start

OpNames == {"order", "award", "confirm", "refund", "edit", "delete", "restore",
            "use", "record", "replay"}
KindNames == {"payment", "refund", "subscription",
              "other",       \* nothing the service acts on
              "incomplete"}  \* one of the first three without the ids it needs

ASSUME PaymentsAssumption ==
  /\ None \notin Plans \cup Orders \cup Teams \cup Subs \cup Periods \cup Events
  /\ Workers \cap Sweepers = {}
  /\ Ops \subseteq OpNames /\ Kinds \subseteq KindNames
  /\ Prices \subseteq Nat        \* parseNonNegativeBigIntString(creditMicros)
  /\ DOMAIN Placed \subseteq Orders
  /\ \A o \in DOMAIN Placed : Placed[o] \in Plans
  /\ Funds \in Nat

VARIABLES
  plan,       \* payment_plans: creditMicros and deletedAt
  order,      \* payment_orders
  refunds,    \* payment_refunds: how many rows an order has
  sub,        \* payment_subscriptions
  event,      \* payment_events
  job,        \* where each request and each sweep is in its handler
  sweep,      \* the orders a sweep has listed and not visited yet
  granted,    \* credit: the amount of the entry order:<id>, 0 if there is none
  reversed,   \* credit: the amount of the entry order-refund:<id>
  renewed,    \* credit: the amount of the entry subscription:<sub>:<period>
  balance     \* credit: what a team may spend

payment == <<plan, order, refunds, sub, event>>
credit  == <<granted, reversed, renewed, balance>>
vars    == <<payment, job, sweep, credit>>

-----------------------------------------------------------------------------
(* Rows.                                                                   *)

Procs == Workers \cup Sweepers
PlanRow == [price : Nat, deleted : BOOLEAN]
OrderStatus == {"pending", "confirming", "paid", "refunded"}
OrderRow == [status : OrderStatus \cup {"none"}, plan : Plans \cup {None},
             team : Teams \cup {None}, stale : BOOLEAN]
SubStatus == {"active", "past_due", "canceled"}
SubRow == [status : SubStatus \cup {"none"}, period : Periods \cup {None}]
Payload == [kind : KindNames \cup {"none"}, order : Orders \cup {None},
            sub : Subs \cup {None}, plan : Plans \cup {None},
            team : Teams \cup {None}, period : Periods \cup {None},
            status : SubStatus \cup {"none"}]
EventRow == [status : {"none", "received", "processed", "failed"}, what : Payload]
Steps == {"idle", "create", "award", "confirm", "plan", "mark", "grant", "paid",
          "refund", "price", "reverse", "close", "subscribe", "upsert", "renew",
          "edit", "end"}
Job == [at : Steps, order : Orders \cup {None}, plan : Plans \cup {None},
        event : Events \cup {None}, price : Nat, ok : BOOLEAN]

NoOrder == [status |-> "none", plan |-> None, team |-> None, stale |-> FALSE]
NoSub == [status |-> "none", period |-> None]
NoPayload == [kind |-> "none", order |-> None, sub |-> None, plan |-> None,
              team |-> None, period |-> None, status |-> "none"]
NoEvent == [status |-> "none", what |-> NoPayload]
Idle == [at |-> "idle", order |-> None, plan |-> None, event |-> None,
         price |-> 0, ok |-> FALSE]

-----------------------------------------------------------------------------
(* Jobs.                                                                   *)

Begin(p, step, fields) ==
  /\ job[p] = Idle
  /\ job' = [job EXCEPT ![p] = [fields EXCEPT !.at = step]]

At(p, step) == job[p].at = step
Goto(p, step) == job' = [job EXCEPT ![p].at = step]

(* A handler returns (ok) or throws.  For an event the outcome is recorded
   before the request is answered.                                         *)
Finish(p, ok) ==
  job' = [job EXCEPT ![p] = IF @.event = None THEN Idle
                            ELSE [@ EXCEPT !.at = "end", !.ok = ok]]

ReadPlan(p, pl, step) == job' = [job EXCEPT ![p].at = step, ![p].price = plan[pl].price]

(* An update of an order's status also renews its updatedAt.               *)
SetStatus(o, status) ==
  order' = [order EXCEPT ![o].status = status, ![o].stale = FALSE]

-----------------------------------------------------------------------------
(* createOrder and startCheckout, and grantPlanToTeam, which confirms the order
   it made: the plan is read, then the order is inserted.  A request whose
   idempotency key has an order gets that order and changes nothing.       *)
Sellable(pl) == ~plan[pl].deleted

ReadSellable(p, step) ==
  \E pl \in Plans :
    /\ Sellable(pl)
    /\ Begin(p, step, [Idle EXCEPT !.plan = pl])
    /\ UNCHANGED <<payment, sweep, credit>>

AskOrder(p) == "order" \in Ops /\ ReadSellable(p, "create")
AskAward(p) == "award" \in Ops /\ ReadSellable(p, "award")

CreateOrder(p) ==
  \E o \in Orders, t \in Teams :
    /\ At(p, "create") \/ At(p, "award")
    /\ order[o] = NoOrder
    /\ order' = [order EXCEPT ![o] = [NoOrder EXCEPT !.status = "pending",
                                        !.plan = job[p].plan, !.team = t]]
    /\ job' = [job EXCEPT ![p] = IF At(p, "create") THEN Idle
                                 ELSE [Idle EXCEPT !.at = "confirm", !.order = o]]
    /\ UNCHANGED <<plan, refunds, sub, event, sweep, credit>>

-----------------------------------------------------------------------------
(* confirmOrder: by request, by event, by award or by the sweep.  An order that
   is confirming already is taken up where it was left.                    *)
Confirmable_PendingOnly(o) == order[o].status = "pending"
Confirmable(o) == order[o].status \in {"pending", "confirming"}

ConfirmRequest(p) ==
  \E o \in Orders :
    /\ "confirm" \in Ops
    /\ order[o].status # "none"
    /\ Begin(p, "confirm", [Idle EXCEPT !.order = o])
    /\ UNCHANGED <<payment, sweep, credit>>

ConfirmRead(p) ==
  LET o == job[p].order
  IN  /\ At(p, "confirm")
      /\ IF Confirmable(o) THEN Goto(p, "plan") ELSE Finish(p, order[o].status = "paid")
      /\ UNCHANGED <<payment, sweep, credit>>

ConfirmPlan(p) ==
  LET pl == order[job[p].order].plan
  IN  /\ At(p, "plan")
      /\ IF plan[pl].deleted THEN Finish(p, FALSE) ELSE ReadPlan(p, pl, "mark")
      /\ UNCHANGED <<payment, sweep, credit>>

(* The step after the intent is on record: the grant, unless the plan has no
   credit.                                                                 *)
AfterMark_ResumesAsGranted(p) ==
  IF order[job[p].order].status = "pending" /\ job[p].price > 0 THEN "grant" ELSE "paid"
AfterMark(p) == IF job[p].price > 0 THEN "grant" ELSE "paid"

MarkConfirming(p) ==
  LET o == job[p].order
  IN  /\ At(p, "mark")
      /\ IF order[o].status = "pending" THEN SetStatus(o, "confirming")
                                        ELSE UNCHANGED order
      /\ IF order[o].status \in {"pending", "confirming", "paid"}
         THEN Goto(p, AfterMark(p))
         ELSE Finish(p, FALSE)
      /\ UNCHANGED <<plan, refunds, sub, event, sweep, credit>>

(* The credit service's entry under an order's grant key after a grant of n.  *)
GrantEntry_Again(o, n) == granted[o] + n
GrantEntry(o, n) == IF granted[o] > 0 THEN granted[o] ELSE n

(* grantPurchaseCredits: the credit is granted, whether or not the answer
   reaches the caller.  A call that fails before is Throws.                *)
Granting(p) ==
  LET o == job[p].order
      n == GrantEntry(o, job[p].price)
  IN  /\ At(p, "grant")
      /\ granted' = [granted EXCEPT ![o] = n]
      /\ balance' = [balance EXCEPT ![order[o].team] = @ + (n - granted[o])]
      /\ UNCHANGED <<payment, sweep, reversed, renewed>>

GrantAnswered(p) == Granting(p) /\ Goto(p, "paid")
GrantAnswerLost(p) == Granting(p) /\ Finish(p, FALSE)

(* updateMany ... WHERE status IN ('pending', 'confirming').               *)
Payable_Any(o) == TRUE
Payable(o) == order[o].status \in {"pending", "confirming"}

MarkPaid(p) ==
  LET o == job[p].order
  IN  /\ At(p, "paid")
      /\ IF Payable(o) THEN SetStatus(o, "paid") ELSE UNCHANGED order
      /\ Finish(p, Payable(o) \/ order[o].status = "paid")
      /\ UNCHANGED <<plan, refunds, sub, event, sweep, credit>>

-----------------------------------------------------------------------------
(* refundOrder: first the credit is taken back, then the order is closed.  *)
RefundRequest(p) ==
  \E o \in Orders :
    /\ "refund" \in Ops
    /\ order[o].status # "none"
    /\ Begin(p, "refund", [Idle EXCEPT !.order = o])
    /\ UNCHANGED <<payment, sweep, credit>>

Refundable_BeforePaid(o) == order[o].status \in {"confirming", "paid"}
Refundable(o) == order[o].status = "paid"

RefundRead(p) ==
  LET o == job[p].order
  IN  /\ At(p, "refund")
      /\ IF Refundable(o) THEN Goto(p, "price")
         ELSE Finish(p, order[o].status = "refunded" /\ refunds[o] > 0)
      /\ UNCHANGED <<payment, sweep, credit>>

(* Unlike a confirmation a refund takes a deleted plan.                    *)
RefundPlan(p) ==
  LET pl == order[job[p].order].plan
  IN  /\ At(p, "price")
      /\ ReadPlan(p, pl, IF plan[pl].price > 0 THEN "reverse" ELSE "close")
      /\ UNCHANGED <<payment, sweep, credit>>

(* reverseCredits: a spend, refused if the team has less.                  *)
ReversalEntry_Again(o, n) == reversed[o] + n
ReversalEntry(o, n) == IF reversed[o] > 0 THEN reversed[o] ELSE n

Covered(o, cost) == cost <= balance[order[o].team]

Reversing(p) ==
  LET o    == job[p].order
      n    == ReversalEntry(o, job[p].price)
      cost == n - reversed[o]
  IN  /\ At(p, "reverse")
      /\ Covered(o, cost)
      /\ reversed' = [reversed EXCEPT ![o] = n]
      /\ balance' = [balance EXCEPT ![order[o].team] = @ - cost]
      /\ UNCHANGED <<payment, sweep, granted, renewed>>

ReverseAnswered(p) == Reversing(p) /\ Goto(p, "close")
ReverseAnswerLost(p) == Reversing(p) /\ Finish(p, FALSE)

(* refundOrderAtomically: the conditional transition and the refund row, in one
   transaction; the loser of a race answers with the winner's row.         *)
Closable(o) == order[o].status = "paid"

CloseRefund(p) ==
  LET o == job[p].order
  IN  /\ At(p, "close")
      /\ IF Closable(o)
         THEN SetStatus(o, "refunded") /\ refunds' = [refunds EXCEPT ![o] = @ + 1]
         ELSE UNCHANGED <<order, refunds>>
      /\ Finish(p, Closable(o) \/ refunds[o] > 0)
      /\ UNCHANGED <<plan, sub, event, sweep, credit>>

-----------------------------------------------------------------------------
(* applySubscriptionEvent: the row follows the last event to be applied, and an
   activation or a renewal grants the credit of its period.                *)
SubscribePlan(p) ==
  LET pl == event[job[p].event].what.plan
  IN  /\ At(p, "subscribe")
      /\ IF plan[pl].deleted THEN Finish(p, FALSE) ELSE ReadPlan(p, pl, "upsert")
      /\ UNCHANGED <<payment, sweep, credit>>

Renews_NewPeriodOnly(price, what) ==
  what.status = "active" /\ price > 0 /\ sub[what.sub].period # what.period
Renews(price, what) == what.status = "active" /\ price > 0

UpsertSubscription(p) ==
  LET what == event[job[p].event].what
  IN  /\ At(p, "upsert")
      /\ sub' = [sub EXCEPT ![what.sub] = [status |-> what.status, period |-> what.period]]
      /\ IF Renews(job[p].price, what) THEN Goto(p, "renew") ELSE Finish(p, TRUE)
      /\ UNCHANGED <<plan, order, refunds, event, sweep, credit>>

(* The key holds the period's start; without one (None) the subscription's id. *)
Renewing(p) ==
  LET what == event[job[p].event].what
      old  == renewed[what.sub][what.period]
      new  == IF old > 0 THEN old ELSE job[p].price
  IN  /\ At(p, "renew")
      /\ renewed' = [renewed EXCEPT ![what.sub][what.period] = new]
      /\ balance' = [balance EXCEPT ![what.team] = @ + (new - old)]
      /\ UNCHANGED <<payment, sweep, granted, reversed>>

RenewAnswered(p) == Renewing(p) /\ Finish(p, TRUE)
RenewAnswerLost(p) == Renewing(p) /\ Finish(p, FALSE)

-----------------------------------------------------------------------------
(* Provider events.                                                        *)

OrderPayloads == [kind : {"payment", "refund"} \cap Kinds, order : Orders,
                  sub : {None}, plan : {None}, team : {None}, period : {None},
                  status : {"none"}]
SubPayloads == [kind : {"subscription"} \cap Kinds, order : {None},
                sub : Subs, plan : Plans, team : Teams, period : Periods \cup {None},
                status : SubStatus]
OtherPayloads == [kind : {"other", "incomplete"} \cap Kinds, order : {None}, sub : {None},
                  plan : {None}, team : {None}, period : {None}, status : {"none"}]
Payloads == OrderPayloads \cup SubPayloads \cup OtherPayloads

FirstStep(what) ==
  CASE what.kind = "payment"      -> "confirm"
    [] what.kind = "refund"       -> "refund"
    [] what.kind = "subscription" -> "subscribe"
    [] OTHER                      -> "end"

Process(p, e, what) ==
  Begin(p, FirstStep(what), [Idle EXCEPT !.event = e, !.order = what.order,
                                         !.ok = what.kind = "other"])

(* The event's key: a delivery is taken when none bears the key, or when the one
   that does was received with the same content and is not settled.        *)
Recordable(e, what) ==
  \/ event[e] = NoEvent
  \/ event[e] = [status |-> "received", what |-> what]

(* receiveWebhook: the first delivery inserts the event; one that comes while
   the event is not settled processes it again.  Any later one is answered
   as a duplicate and is no step.                                          *)
Deliver(p, e) ==
  \E what \in Payloads :
    /\ Recordable(e, what)
    /\ event' = [event EXCEPT ![e] = [status |-> "received", what |-> what]]
    /\ Process(p, e, what)
    /\ UNCHANGED <<plan, order, refunds, sub, sweep, credit>>

(* POST /payment-events: the event is recorded and not processed.          *)
RecordEvent(e) ==
  \E what \in Payloads :
    /\ "record" \in Ops
    /\ event[e] = NoEvent
    /\ event' = [event EXCEPT ![e] = [status |-> "received", what |-> what]]
    /\ UNCHANGED <<plan, order, refunds, sub, job, sweep, credit>>

(* replayEvent: an operator's retry of a failed or an abandoned event.     *)
ReplayEvent(p, e) ==
  /\ "replay" \in Ops
  /\ event[e].status \in {"received", "failed"}
  /\ Process(p, e, event[e].what)
  /\ UNCHANGED <<payment, sweep, credit>>

(* The end of process: the outcome is recorded unless another run of the same
   event recorded success first.                                           *)
Outcome(ok) == IF ok THEN "processed" ELSE "failed"

Settleable_Any(e) == TRUE
Settleable(e) == event[e].status \in {"received", "failed"}

SettleEvent(p) ==
  LET e == job[p].event
  IN  /\ At(p, "end")
      /\ event' = IF Settleable(e)
                  THEN [event EXCEPT ![e].status = Outcome(job[p].ok)]
                  ELSE event
      /\ job' = [job EXCEPT ![p] = Idle]
      /\ UNCHANGED <<plan, order, refunds, sub, sweep, credit>>

-----------------------------------------------------------------------------
(* upsertPlan on an existing plan: the deletion check, then the update.    *)
EditPlan(p) ==
  \E pl \in Plans, n \in Prices :
    /\ "edit" \in Ops
    /\ ~plan[pl].deleted
    /\ Begin(p, "edit", [Idle EXCEPT !.plan = pl, !.price = n])
    /\ UNCHANGED <<payment, sweep, credit>>

WritePlan(p) ==
  /\ At(p, "edit")
  /\ plan' = [plan EXCEPT ![job[p].plan].price = job[p].price]
  /\ job' = [job EXCEPT ![p] = Idle]
  /\ UNCHANGED <<order, refunds, sub, event, sweep, credit>>

(* deletePlan and restorePlan: a plan already in that state stays as it is. *)
DeletePlan(pl) ==
  /\ "delete" \in Ops
  /\ ~plan[pl].deleted
  /\ plan' = [plan EXCEPT ![pl].deleted = TRUE]
  /\ UNCHANGED <<order, refunds, sub, event, job, sweep, credit>>

RestorePlan(pl) ==
  /\ "restore" \in Ops
  /\ plan[pl].deleted
  /\ plan' = [plan EXCEPT ![pl].deleted = FALSE]
  /\ UNCHANGED <<order, refunds, sub, event, job, sweep, credit>>

-----------------------------------------------------------------------------
(* sweepStaleConfirmingOrders: list, then confirm one after the other; an order
   whose confirmation throws is left and the next one is taken.  The list is
   taken in any order here.                                                *)
SweepStart(s) ==
  LET due == {o \in Orders : order[o].status = "confirming" /\ order[o].stale}
  IN  /\ job[s] = Idle /\ sweep[s] = {} /\ due # {}
      /\ sweep' = [sweep EXCEPT ![s] = due]
      /\ UNCHANGED <<payment, job, credit>>

SweepNext(s, o) ==
  /\ o \in sweep[s]
  /\ Begin(s, "confirm", [Idle EXCEPT !.order = o])
  /\ sweep' = [sweep EXCEPT ![s] = @ \ {o}]
  /\ UNCHANGED <<payment, credit>>

(* The threshold passes since the last update of a confirming order.       *)
Age(o) ==
  /\ order[o].status = "confirming" /\ ~order[o].stale
  /\ order' = [order EXCEPT ![o].stale = TRUE]
  /\ UNCHANGED <<plan, refunds, sub, event, job, sweep, credit>>

-----------------------------------------------------------------------------
(* An awaited call fails before it has an effect: a database error, the credit
   service refusing or out of reach.                                       *)
Throws(p) ==
  /\ job[p] # Idle
  /\ Finish(p, FALSE)
  /\ UNCHANGED <<payment, sweep, credit>>

(* The process dies: a job leaves nothing but what it has written.         *)
Crash(p) ==
  /\ job[p] # Idle
  /\ job' = [job EXCEPT ![p] = Idle]
  /\ sweep' = IF p \in Sweepers THEN [sweep EXCEPT ![p] = {}] ELSE sweep
  /\ UNCHANGED <<payment, credit>>

(* The team spends a credit.                                               *)
UseCredit(t) ==
  /\ "use" \in Ops
  /\ balance[t] > 0
  /\ balance' = [balance EXCEPT ![t] = @ - 1]
  /\ UNCHANGED <<payment, job, sweep, granted, reversed, renewed>>

-----------------------------------------------------------------------------
Init ==
  /\ plan \in [Plans -> [price : Prices, deleted : {FALSE}]]
  /\ \E team \in [DOMAIN Placed -> Teams] :
       order = [o \in Orders |-> IF o \notin DOMAIN Placed THEN NoOrder
                                 ELSE [NoOrder EXCEPT !.status = "pending",
                                         !.plan = Placed[o], !.team = team[o]]]
  /\ refunds = [o \in Orders |-> 0]
  /\ sub = [s \in Subs |-> NoSub]
  /\ event = [e \in Events |-> NoEvent]
  /\ job = [p \in Procs |-> Idle]
  /\ sweep = [s \in Sweepers |-> {}]
  /\ granted = [o \in Orders |-> 0]
  /\ reversed = [o \in Orders |-> 0]
  /\ renewed = [s \in Subs |-> [q \in Periods \cup {None} |-> 0]]
  /\ balance = [t \in Teams |-> Funds]

Confirming(p) ==
  \/ ConfirmRead(p) \/ ConfirmPlan(p) \/ MarkConfirming(p)
  \/ GrantAnswered(p) \/ GrantAnswerLost(p) \/ MarkPaid(p)

(* The routes of the service.                                              *)
OrderRequests(p) == AskOrder(p) \/ CreateOrder(p)
RefundRequests(p) ==
  \/ RefundRequest(p) \/ RefundRead(p) \/ RefundPlan(p)
  \/ ReverseAnswered(p) \/ ReverseAnswerLost(p) \/ CloseRefund(p)
ProviderRequests(p) ==
  \/ \E e \in Events : Deliver(p, e)
  \/ SubscribePlan(p) \/ UpsertSubscription(p) \/ RenewAnswered(p) \/ RenewAnswerLost(p)
  \/ SettleEvent(p)
ReplayRequests(p) == \E e \in Events : ReplayEvent(p, e)
RecordRequests == \E e \in Events : RecordEvent(e)
PlanRequests(p) == EditPlan(p) \/ WritePlan(p)
LifecycleRequests == \E pl \in Plans : DeletePlan(pl) \/ RestorePlan(pl)
SweepRequests(s) == SweepStart(s) \/ \E o \in Orders : SweepNext(s, o)

Request(p) ==
  \/ OrderRequests(p) \/ AskAward(p) \/ ConfirmRequest(p) \/ RefundRequests(p)
  \/ ProviderRequests(p) \/ ReplayRequests(p) \/ PlanRequests(p)

Next ==
  \/ \E p \in Procs : Confirming(p) \/ Throws(p) \/ Crash(p)
  \/ \E p \in Workers : Request(p)
  \/ \E s \in Sweepers : SweepRequests(s)
  \/ RecordRequests
  \/ LifecycleRequests
  \/ \E o \in Orders : Age(o)
  \/ \E t \in Teams : UseCredit(t)

Spec == Init /\ [][Next]_vars

(* What the scheduling gives: time passes; setInterval starts a sweep over and
   over, whose loop goes on because a call returns or throws; and of the calls
   that sweeps make for orders on sale not all fail.  Nothing is assumed of
   requests, of operators or of a particular order.                        *)
OnSale(o) == o # None /\ order[o].plan # None /\ ~plan[order[o].plan].deleted

SweepLoop(s) == SweepRequests(s) \/ Confirming(s) \/ Throws(s) \/ Crash(s)

Fairness ==
  /\ \A o \in Orders : WF_vars(Age(o))
  /\ \A s \in Sweepers :
       /\ WF_vars(SweepLoop(s))
       /\ SF_vars(\E o \in Orders : OnSale(o) /\ SweepNext(s, o))
       /\ SF_vars(OnSale(job[s].order) /\ ConfirmRead(s))
       /\ SF_vars(OnSale(job[s].order) /\ ConfirmPlan(s))
       /\ SF_vars(OnSale(job[s].order) /\ MarkConfirming(s))
       /\ SF_vars(OnSale(job[s].order) /\ GrantAnswered(s))
       /\ SF_vars(OnSale(job[s].order) /\ MarkPaid(s))

FairSpec == Spec /\ Fairness

-----------------------------------------------------------------------------
(* Properties.                                                             *)

(* Every variable holds rows of the schema; no team's credit is negative.  *)
TypeOK ==
  /\ plan \in [Plans -> PlanRow]
  /\ order \in [Orders -> OrderRow]
  /\ refunds \in [Orders -> Nat]
  /\ sub \in [Subs -> SubRow]
  /\ event \in [Events -> EventRow]
  /\ job \in [Procs -> Job]
  /\ sweep \in [Sweepers -> SUBSET Orders]
  /\ granted \in [Orders -> Nat]
  /\ reversed \in [Orders -> Nat]
  /\ renewed \in [Subs -> [Periods \cup {None} -> Nat]]
  /\ balance \in [Teams -> Nat]

Rank == [none |-> 0, pending |-> 1, confirming |-> 2, paid |-> 3, refunded |-> 4]

(* An order's status only advances: a confirmation that wakes up after the order
   was paid or refunded by others never takes it back.                     *)
StatusAdvances ==
  [][\A o \in Orders : Rank[order'[o].status] >= Rank[order[o].status]]_order

(* Whoever marked it, an order is paid only with its team's credit granted: no
   crash, retry or race of two confirmations skips the grant.              *)
PaidMeansGranted ==
  0 \notin Prices =>
    \A o \in Orders : order[o].status \in {"paid", "refunded"} => granted[o] > 0

(* Credit is taken back only for an order that was paid and given its credit,
   whatever confirmations, refunds and sweeps are still under way.         *)
OnlyPaidReversed ==
  0 \notin Prices =>
    \A o \in Orders : reversed[o] > 0 =>
      order[o].status \in {"paid", "refunded"} /\ granted[o] > 0

(* An order has a refund row exactly when it is refunded, and only one, however
   many refunds of it ran.                                                 *)
OneRefundRow ==
  \A o \in Orders : refunds[o] = IF order[o].status = "refunded" THEN 1 ELSE 0

EffectDone(what) ==
  CASE what.kind = "payment" -> order[what.order].status \in {"paid", "refunded"}
    [] what.kind = "refund"  -> order[what.order].status = "refunded"
    [] what.kind = "subscription" ->
         /\ sub[what.sub].status # "none"
         /\ (what.status = "active" /\ 0 \notin Prices) => renewed[what.sub][what.period] > 0
    [] what.kind = "other" -> TRUE
    [] OTHER -> FALSE

(* An event is processed only when what it asks for has happened: the order is
   paid, refunded, the period's credit granted.                            *)
ProcessedMeansDone ==
  \A e \in Events : event[e].status = "processed" => EffectDone(event[e].what)

(* A processed event stays processed: a second run of it that fails later does
   not write its error over the success.                                   *)
ProcessedIsFinal ==
  [][\A e \in Events : event[e].status = "processed" => event'[e] = event[e]]_event

(* A confirmation that died after its intent was recorded is finished by the
   sweep, as long as the plan is not deleted for good; orders that cannot be
   finished do not keep the sweep from the others.                         *)
LiveOrdersPaid ==
  \A o \in Orders :
    (<>[]OnSale(o)) =>
      (order[o].status = "confirming" ~> order[o].status \in {"paid", "refunded"})

(* The payment service implements Purchase: every order moves credit to its team
   once, and back at most once and in full.                                *)
PurchaseState(o) ==
  CASE order[o].status = "paid"     -> "paid"
    [] order[o].status = "refunded" -> "refunded"
    [] OTHER                        -> "open"

Abstract == INSTANCE Purchase WITH
  state <- [o \in Orders |-> PurchaseState(o)],
  given <- granted,
  taken <- reversed

ImplementsPurchase == Abstract!Spec

=============================================================================
