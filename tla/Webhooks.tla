------------------------------ MODULE Webhooks -------------------------------
(***************************************************************************)
(* Payments whose events are read as WebhookAdapters reads the providers'  *)
(* notifications (kokoro-payment/src/application/webhook-service.ts with   *)
(* the adapters of infrastructure/webhook).                                *)
(***************************************************************************)
EXTENDS Payments

Adapters == INSTANCE WebhookAdapters

(* The reports an event can have come of: what their notifications parse to is its
   payload, and their signature verifies.                                  *)
Reported(e) ==
  {report \in Adapters!Reports : /\ event[e].what = Adapters!Parse(report.notice)
                                 /\ Adapters!Verifies(report.notice)}

-----------------------------------------------------------------------------
(* An event is processed only when what happened at the provider has its effect
   here, whatever each provider calls it and however often the event was run; and
   an order that nobody confirms by hand is touched only by an event that stands
   for nothing but that order (process, and the adapters' verifySignature and
   parseEvent).                                                            *)
ProcessedAsSaid ==
  /\ \A e \in Events : event[e].status = "processed" =>
       \A report \in Reported(e) : EffectDone(report.fact)
  /\ \A o \in Orders : order[o].status # "pending" =>
       \E e \in Events : /\ event[e].what.order = o
                         /\ \A report \in Reported(e) : report.fact.order = o
=============================================================================
