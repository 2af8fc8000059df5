--------------------------- MODULE WebhookAdapters ---------------------------
(***************************************************************************)
(* How kokoro-payment reads the notifications of its payment providers     *)
(* (kokoro-payment/src/infrastructure/webhook): an adapter per provider    *)
(* checks the signature and turns the provider's own event into one of the *)
(* few events the service knows, Payments' Payload.                        *)
(*                                                                         *)
(* A notification is a record of what adapters look at; None is a field    *)
(* that is missing.  A report is a notification together with the fact it  *)
(* was sent for: what happened at the provider, as Payments would say it.  *)
(***************************************************************************)
CONSTANTS Orders, Subs, Plans, Teams, Periods, None  \* as in Payments

Nothing == [kind |-> "other", order |-> None, sub |-> None, plan |-> None, team |-> None,
            period |-> None, status |-> "none"]
Incomplete == [Nothing EXCEPT !.kind = "incomplete"]

(* type is the event's own name, or for Alipay the trade's status; order, plan and
   team are metadata the service gave the provider, trade is out_trade_no.  *)
Notice == [provider |-> "mock", type |-> "none", order |-> None, trade |-> None, sub |-> None,
           plan |-> None, team |-> None, period |-> None, status |-> "none",
           refundFee |-> FALSE, signed |-> TRUE, fresh |-> TRUE]

-----------------------------------------------------------------------------
(* verifySignature: of the raw bytes, with the provider's secret; where the
   signature has a timestamp, it is good for a while only.                 *)
StripeVerifies(n) == n.signed /\ n.fresh
WechatVerifies(n) == n.signed /\ n.fresh
AlipayVerifies(n) == n.signed
MockVerifies(n)   == n.signed

Verifies(n) ==
  CASE n.provider = "stripe" -> StripeVerifies(n)
    [] n.provider = "wechat" -> WechatVerifies(n)
    [] n.provider = "alipay" -> AlipayVerifies(n)
    [] n.provider = "mock"   -> MockVerifies(n)

-----------------------------------------------------------------------------
(* parseEvent.                                                             *)
OfOrder(kind, o) == IF o = None THEN Incomplete ELSE [Nothing EXCEPT !.kind = kind, !.order = o]

OfSubscription(n, status) ==
  IF n.team = None \/ n.plan = None THEN Incomplete
  ELSE [Nothing EXCEPT !.kind = "subscription", !.sub = n.sub, !.plan = n.plan,
                       !.team = n.team, !.period = n.period, !.status = status]

(* Where the metadata names no order, the merchant's own number does.      *)
TradeOrder(n) == IF n.order # None THEN n.order ELSE n.trade

StripeStatus(raw) ==
  CASE raw \in {"active", "trialing"}             -> "active"
    [] raw \in {"canceled", "incomplete_expired"} -> "canceled"
    [] OTHER                                      -> "past_due"

(* What Stripe sends under the prefix customer.subscription, but for the end of one. *)
SubscriptionTypes ==
  {"customer.subscription.created", "customer.subscription.updated",
   "customer.subscription.paused", "customer.subscription.resumed",
   "customer.subscription.trial_will_end", "customer.subscription.pending_update_applied",
   "customer.subscription.pending_update_expired"}

ParseStripe(n) ==
  CASE n.type \in {"payment_intent.succeeded", "checkout.session.completed"} ->
         OfOrder("payment", n.order)
    [] n.type = "charge.refunded" -> OfOrder("refund", n.order)
    [] n.type = "customer.subscription.deleted" -> OfSubscription(n, "canceled")
    [] n.type \in SubscriptionTypes -> OfSubscription(n, StripeStatus(n.status))
    [] OTHER -> Nothing

ParseWechat(n) ==
  CASE n.type = "TRANSACTION.SUCCESS" -> OfOrder("payment", TradeOrder(n))
    [] n.type = "REFUND.SUCCESS"      -> OfOrder("refund", TradeOrder(n))
    [] OTHER                          -> Nothing

(* A refund's notification has the trade's status as well.                 *)
ParseAlipay_StatusFirst(n) ==
  IF n.type \in {"TRADE_SUCCESS", "TRADE_FINISHED"} THEN OfOrder("payment", TradeOrder(n))
  ELSE IF n.refundFee THEN OfOrder("refund", TradeOrder(n)) ELSE Nothing
ParseAlipay(n) ==
  IF n.refundFee THEN OfOrder("refund", TradeOrder(n))
  ELSE IF n.type \in {"TRADE_SUCCESS", "TRADE_FINISHED"} THEN OfOrder("payment", TradeOrder(n))
  ELSE Nothing

ParseMock(n) ==
  CASE n.type = "payment_succeeded"    -> OfOrder("payment", n.order)
    [] n.type = "refund_succeeded"     -> OfOrder("refund", n.order)
    [] n.type = "subscription_updated" -> OfSubscription(n, n.status)
    [] OTHER                           -> Nothing

Parse(n) ==
  CASE n.provider = "stripe" -> ParseStripe(n)
    [] n.provider = "wechat" -> ParseWechat(n)
    [] n.provider = "alipay" -> ParseAlipay(n)
    [] n.provider = "mock"   -> ParseMock(n)

-----------------------------------------------------------------------------
(* What providers send for what happened.                                  *)
Report(fact, n) == [fact |-> fact, notice |-> n]

Stripe(type) == [Notice EXCEPT !.provider = "stripe", !.type = type]
StripeReports ==
  {Report(OfOrder("payment", o), [Stripe("checkout.session.completed") EXCEPT !.order = o]) :
     o \in Orders}
  \cup {Report(OfOrder("refund", o), [Stripe("charge.refunded") EXCEPT !.order = o]) : o \in Orders}

(* A subscription that is deleted keeps the status it had.                 *)
StripeSubscription(s, pl, t, q, status) ==
  LET fact   == [Nothing EXCEPT !.kind = "subscription", !.sub = s, !.plan = pl, !.team = t,
                                !.period = q, !.status = status]
      native == IF status = "active" THEN "trialing"
                ELSE IF status = "past_due" THEN "paused" ELSE "active"
      type   == IF status = "canceled" THEN "customer.subscription.deleted"
                ELSE IF status = "past_due" THEN "customer.subscription.paused"
                ELSE "customer.subscription.updated"
  IN  Report(fact, [Stripe(type) EXCEPT !.sub = s, !.plan = pl, !.team = t, !.period = q,
                                        !.status = native])
SubscriptionReports ==
  {StripeSubscription(s, pl, t, q, status) :
     s \in Subs, pl \in Plans, t \in Teams, q \in Periods,
     status \in {"active", "past_due", "canceled"}}
  \cup {StripeSubscription(s, pl, t, None, "active") : s \in Subs, pl \in Plans, t \in Teams}

Alipay(status, o, refundFee) ==
  [Notice EXCEPT !.provider = "alipay", !.type = status, !.trade = o, !.refundFee = refundFee]
AlipayReports ==
  {Report(Nothing, Alipay("WAIT_BUYER_PAY", o, FALSE)) : o \in Orders}
  \cup {Report(OfOrder("refund", o), Alipay("TRADE_SUCCESS", o, TRUE)) : o \in Orders}

Wechat(type, o) == [Notice EXCEPT !.provider = "wechat", !.type = type, !.trade = o]
WechatReports ==
  {Report(OfOrder("refund", o), Wechat("REFUND.SUCCESS", o)) : o \in Orders}
  \cup {Report(Nothing, Wechat("REFUND.ABNORMAL", o)) : o \in Orders}

MockReports ==
  {Report(OfOrder("payment", o), [Notice EXCEPT !.type = "payment_succeeded", !.order = o]) :
     o \in Orders}

(* A notification of somebody else, and one whose plan was made elsewhere. *)
Forged == {Report(Nothing, [Stripe("payment_intent.succeeded") EXCEPT !.order = o,
                                                                      !.signed = FALSE]) : o \in Orders}
Foreign == {Report(Incomplete, [Stripe("customer.subscription.updated") EXCEPT !.sub = s,
                                  !.status = "active"]) : s \in Subs}

Reports ==
  StripeReports \cup SubscriptionReports \cup AlipayReports \cup WechatReports \cup MockReports
    \cup Forged \cup Foreign
=============================================================================
