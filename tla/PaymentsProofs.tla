--------------------------- MODULE PaymentsProofs ----------------------------
(***************************************************************************)
(* Theorems about Payments, and about the events that Webhooks reads, for  *)
(* every set of plans, orders, teams, events, requests and sweeps and      *)
(* every set of prices.                                                    *)
(*                                                                         *)
(* That an order marked paid has its credit is a fact about jobs in flight *)
(* as much as about rows: a job about to mark the order carries it from    *)
(* the step that granted, across whatever ran in between.  IInv adds to    *)
(* the properties what every job may rely on at the step it has reached.   *)
(***************************************************************************)
EXTENDS Webhooks, TLAPS

(* Rows that exist name their plan and team; events that exist have a payload a
   provider sends; plans have a price of the domain.                       *)
RowsWhole ==
  /\ \A o \in Orders : order[o].status # "none" =>
       order[o].plan \in Plans /\ order[o].team \in Teams
  /\ \A e \in Events : event[e].status # "none" => event[e].what \in Payloads
  /\ \A pl \in Plans : plan[pl].price \in Prices

(* What a job has learnt of rows on its way to the step it is at, and nobody can
   undo.                                                                   *)
Learnt(j) ==
  /\ j.at \in {"create", "award", "edit"} => j.plan \in Plans
  /\ j.at \in {"confirm", "refund", "plan", "mark", "grant", "paid", "price", "reverse", "close"}
       => j.order \in Orders
  /\ j.at \in {"plan", "mark", "grant", "paid", "price", "reverse", "close"}
       => order[j.order].status # "none"
  /\ j.at \in {"price", "reverse", "close"} => order[j.order].status \in {"paid", "refunded"}
  /\ j.at \in {"mark", "edit", "upsert", "grant", "reverse"} => j.price \in Prices
  /\ j.at \in {"grant", "reverse", "renew"} => j.price > 0
  /\ j.at = "paid" /\ 0 \notin Prices => granted[j.order] > 0

(* A job that serves an event does what the event asks, and ends well only when
   that has happened.                                                      *)
Asked(j) == event[j.event].what

Serves(j) ==
  /\ j.at \in {"subscribe", "upsert", "renew", "end"} => j.event \in Events
  /\ j.at \in {"subscribe", "upsert", "renew"} => Asked(j) \in SubPayloads
  /\ j.event \in Events => event[j.event].status # "none"
  /\ j.event \in Events /\ j.at \in {"confirm", "plan", "mark", "grant", "paid"} =>
       Asked(j).kind = "payment" /\ Asked(j).order = j.order
  /\ j.event \in Events /\ j.at \in {"refund", "price", "reverse", "close"} =>
       Asked(j).kind = "refund" /\ Asked(j).order = j.order
  /\ j.at = "renew" => sub[Asked(j).sub].status # "none"
  /\ j.at = "end" /\ j.ok => EffectDone(Asked(j))

Sound(j) == Learnt(j) /\ Serves(j)

AllSound == \A p \in Procs : Sound(job[p])

IInv ==
  /\ TypeOK
  /\ RowsWhole
  /\ AllSound
  /\ PaidMeansGranted
  /\ OnlyPaidReversed
  /\ OneRefundRow
  /\ ProcessedMeansDone

-----------------------------------------------------------------------------
(* Payloads and jobs.                                                      *)

(* A payload names what its kind is about.                                 *)
LEMMA PayloadShape ==
  ASSUME NEW what \in Payloads
  PROVE  /\ what \in Payload
         /\ \/ what.kind \in {"payment", "refund"} /\ what.order \in Orders
            \/ what.kind = "subscription" /\ what \in SubPayloads
            \/ what.kind \in {"other", "incomplete"}
BY DEF Payloads, OrderPayloads, SubPayloads, OtherPayloads, Payload, KindNames

(* A subscription payload names its subscription, plan and team.           *)
LEMMA SubPayloadShape ==
  ASSUME NEW what \in SubPayloads
  PROVE  /\ what \in Payloads
         /\ what.kind = "subscription"
         /\ what.sub \in Subs /\ what.plan \in Plans /\ what.team \in Teams
         /\ what.period \in Periods \cup {None}
         /\ what.status \in SubStatus
BY DEF Payloads, SubPayloads

(* What nobody undoes: rows stay, statuses advance, credit entries stay, an event
   keeps its payload.                                                      *)
Forward ==
  /\ \A o \in Orders :
       /\ order[o].status # "none" => order'[o].status # "none"
       /\ order[o].status \in {"paid", "refunded"} => order'[o].status \in {"paid", "refunded"}
       /\ order[o].status = "refunded" => order'[o].status = "refunded"
       /\ granted[o] > 0 => granted'[o] > 0
  /\ \A s \in Subs :
       /\ sub[s].status # "none" => sub'[s].status # "none"
       /\ \A q \in Periods \cup {None} : renewed[s][q] > 0 => renewed'[s][q] > 0
  /\ \A e \in Events : event[e].status # "none" =>
       event'[e].status # "none" /\ event'[e].what = event[e].what

(* An effect that has happened stays.                                      *)
LEMMA EffectStays ==
  ASSUME NEW what \in Payloads, Forward, EffectDone(what)
  PROVE  EffectDone(what)'
<1>1. CASE what.kind \in {"payment", "refund"}
  <2>1. what.order \in Orders
    BY <1>1, PayloadShape, SubPayloadShape
  <2>2. QED
    BY <1>1, <2>1 DEF EffectDone, Forward
<1>2. CASE what \in SubPayloads
  <2>1. /\ sub[what.sub].status # "none"
        /\ (what.status = "active" /\ 0 \notin Prices) => renewed[what.sub][what.period] > 0
    BY <1>2, SubPayloadShape DEF EffectDone
  <2>2. /\ sub'[what.sub].status # "none"
        /\ (what.status = "active" /\ 0 \notin Prices) => renewed'[what.sub][what.period] > 0
    BY <1>2, <2>1, SubPayloadShape DEF Forward
  <2>3. QED
    BY <1>2, <2>2, SubPayloadShape DEF EffectDone
<1>3. CASE what.kind \in {"other", "incomplete"}
  BY <1>3 DEF EffectDone
<1>4. QED
  BY <1>1, <1>2, <1>3, PayloadShape

(* What a job may rely on stays true while others run.                     *)
LEMMA SoundStays ==
  ASSUME TypeOK, RowsWhole, NEW j \in Job, Sound(j), Forward
  PROVE  Sound(j)'
<1>1. Learnt(j)'
  BY DEF Learnt, Sound, Forward, TypeOK
<1>2. Serves(j)'
  <2>1. j.event \in Events => /\ event[j.event].status # "none"
                              /\ event'[j.event].status # "none"
                              /\ Asked(j)' = Asked(j) /\ Asked(j) \in Payloads
    BY DEF Sound, Serves, Forward, Asked, RowsWhole
  <2>2. j.at = "renew" => sub'[Asked(j).sub].status # "none"
    BY SubPayloadShape DEF Sound, Serves, Forward
  <2>3. j.at = "end" /\ j.ok => EffectDone(Asked(j))'
    <3>1. SUFFICES ASSUME j.at = "end", j.ok PROVE EffectDone(Asked(j))'
      OBVIOUS
    <3>2. j.event \in Events /\ EffectDone(Asked(j))
      BY <3>1 DEF Sound, Serves
    <3>3. PICK what \in Payloads : what = Asked(j) /\ what = Asked(j)'
      BY <2>1, <3>2
    <3>4. EffectDone(what)
      BY <3>2, <3>3
    <3>5. EffectDone(what)'
      BY <3>4, EffectStays
    <3>6. QED
      BY <3>3, <3>5
  <2>4. QED
    BY <2>1, <2>2, <2>3 DEF Sound, Serves
<1>3. QED
  BY <1>1, <1>2 DEF Sound

-----------------------------------------------------------------------------
(* Steps of one job.                                                       *)

(* Rows that do not change go forward.                                     *)
LEMMA StillForward ==
  ASSUME UNCHANGED <<payment, credit>>
  PROVE  Forward
BY DEF payment, credit, Forward

(* An idle job relies on nothing.                                          *)
LEMMA IdleIsSound ==
  /\ Idle \in Job
  /\ Sound(Idle) /\ Sound(Idle)'
BY PaymentsAssumption DEF Idle, Job, Steps, Sound, Learnt, Serves

(* One job moves to a sound place and the others stay sound.               *)
LEMMA JobsKept ==
  ASSUME TypeOK, RowsWhole, AllSound, Forward, NEW p \in Procs, NEW j \in Job,
         job' = [job EXCEPT ![p] = j], Sound(j)'
  PROVE  job' \in [Procs -> Job] /\ AllSound'
<1>1. job' \in [Procs -> Job]
  BY DEF TypeOK
<1>2. ASSUME NEW q \in Procs PROVE Sound(job[q])'
  <2>1. PICK k \in Job : job'[q] = k /\ Sound(k)'
    <3>1. CASE q = p
      BY <3>1 DEF TypeOK
    <3>2. CASE q # p
      <4>1. PICK k \in Job : k = job[q] /\ Sound(k)
        BY DEF TypeOK, AllSound
      <4>2. job'[q] = k
        BY <3>2, <4>1 DEF TypeOK
      <4>3. Sound(k)'
        BY <4>1, SoundStays
      <4>4. QED
        BY <4>2, <4>3
    <3>3. QED
      BY <3>1, <3>2
  <2>2. Learnt(job[q])'
    BY <2>1 DEF Sound, Learnt
  <2>3. Serves(job[q])'
    BY <2>1 DEF Sound, Serves, Asked, EffectDone
  <2>4. QED
    BY <2>2, <2>3 DEF Sound
<1>3. QED
  BY <1>1, <1>2 DEF AllSound

(* Jobs stay sound while others write rows.                                *)
LEMMA JobsStay ==
  ASSUME TypeOK, RowsWhole, AllSound, Forward, UNCHANGED job
  PROVE  job' \in [Procs -> Job] /\ AllSound'
<1>1. SUFFICES ASSUME NEW p \in Procs PROVE Sound(job[p])'
  BY DEF AllSound, TypeOK
<1>2. PICK j \in Job : j = job[p] /\ Sound(j)
  BY DEF TypeOK, AllSound
<1>3. job' = [job EXCEPT ![p] = j]
  BY <1>2 DEF TypeOK
<1>4. AllSound'
  BY <1>2, <1>3, SoundStays, JobsKept
<1>5. QED
  BY <1>4 DEF AllSound

(* A handler that returns or throws leaves an idle job or one about to record its
   outcome; a success has to be one of the event's effect.                 *)
LEMMA FinishKept ==
  ASSUME TypeOK, RowsWhole, AllSound, Forward, NEW p \in Procs, NEW ok \in BOOLEAN,
         NEW what, job[p].event \in Events /\ ok => what = Asked(job[p]) /\ EffectDone(what)',
         Finish(p, ok)
  PROVE  job' \in [Procs -> Job] /\ AllSound'
<1>1. CASE job[p].event = None
  <2>1. job' = [job EXCEPT ![p] = Idle]
    BY <1>1 DEF Finish, TypeOK
  <2>2. QED
    BY <2>1, IdleIsSound, JobsKept
<1>2. CASE job[p].event # None
  <2>1. job[p] \in Job /\ Sound(job[p])
    BY DEF TypeOK, AllSound
  <2>2. PICK j : j = [job[p] EXCEPT !.at = "end", !.ok = ok]
    OBVIOUS
  <2>3. job' = [job EXCEPT ![p] = j]
    BY <1>2, <2>2 DEF Finish, TypeOK
  <2>4. /\ j \in Job
        /\ j.at = "end" /\ j.ok = ok /\ j.event = job[p].event /\ j.event \in Events
    BY <1>2, <2>1, <2>2 DEF Job, Steps
  <2>5. event[j.event].status # "none"
    BY <2>1, <2>4 DEF Sound, Serves
  <2>6. event'[j.event].status # "none"
    BY <2>4, <2>5 DEF Forward
  <2>7. ok => EffectDone(Asked(j))'
    <3>1. ok => Asked(j)' = what /\ EffectDone(what)'
      BY <2>4, <2>5 DEF Asked, Forward
    <3>2. QED
      BY <3>1
  <2>8. Sound(j)'
    BY <2>4, <2>6, <2>7 DEF Sound, Learnt, Serves
  <2>9. QED
    BY <2>3, <2>4, <2>8, JobsKept
<1>3. QED
  BY <1>1, <1>2

(* A step that changes no row and no credit keeps IInv when the jobs stay sound. *)
LEMMA JobStep ==
  ASSUME IInv, UNCHANGED <<payment, credit>>, sweep' \in [Sweepers -> SUBSET Orders],
         job' \in [Procs -> Job], AllSound'
  PROVE  IInv'
<1>1. TypeOK' /\ RowsWhole'
  BY DEF IInv, TypeOK, RowsWhole, payment, credit
<1>2. PaidMeansGranted' /\ OnlyPaidReversed' /\ OneRefundRow'
  BY DEF IInv, PaidMeansGranted, OnlyPaidReversed, OneRefundRow, payment, credit
<1>3. ProcessedMeansDone'
  BY DEF IInv, ProcessedMeansDone, EffectDone, payment, credit
<1>4. QED
  BY <1>1, <1>2, <1>3 DEF IInv

(* The two ways a job moves while rows stay: to a sound place, or to its end. *)
LEMMA MoveStep ==
  ASSUME IInv, UNCHANGED <<payment, credit>>, sweep' \in [Sweepers -> SUBSET Orders],
         NEW p \in Procs, NEW j \in Job, Sound(j), job' = [job EXCEPT ![p] = j]
  PROVE  IInv'
<1>1. Forward
  BY StillForward
<1>2. Sound(j)'
  BY <1>1, SoundStays DEF IInv
<1>3. QED
  BY <1>1, <1>2, JobsKept, JobStep DEF IInv

(* A job ends while rows stay.                                             *)
LEMMA FinishStep ==
  ASSUME IInv, UNCHANGED <<payment, credit>>, sweep' \in [Sweepers -> SUBSET Orders],
         NEW p \in Procs, NEW ok \in BOOLEAN, Finish(p, ok),
         job[p].event \in Events /\ ok => EffectDone(Asked(job[p]))
  PROVE  IInv'
<1>1. Forward
  BY StillForward
<1>2. PICK what : what = Asked(job[p])
  OBVIOUS
<1>3. job[p].event \in Events /\ ok => EffectDone(what)'
  <2>1. SUFFICES ASSUME job[p].event \in Events, ok PROVE EffectDone(what)'
    OBVIOUS
  <2>2. what \in Payloads
    BY <1>2, <2>1 DEF IInv, TypeOK, AllSound, Sound, Serves, RowsWhole, Asked
  <2>3. EffectDone(what)
    BY <1>2, <2>1
  <2>4. QED
    BY <1>1, <2>2, <2>3, EffectStays
<1>4. QED
  BY <1>1, <1>2, <1>3, FinishKept, JobStep DEF IInv

-----------------------------------------------------------------------------
(* Actions that only read.                                                 *)

(* A checkout reads a plan on sale.                                        *)
LEMMA ReadSellableStep ==
  ASSUME IInv, NEW p \in Procs, NEW step \in {"create", "award"}, ReadSellable(p, step)
  PROVE  IInv'
<1>1. PICK pl \in Plans : Begin(p, step, [Idle EXCEPT !.plan = pl])
  BY DEF ReadSellable
<1>2. PICK j : j = [Idle EXCEPT !.plan = pl, !.at = step]
  OBVIOUS
<1>3. job' = [job EXCEPT ![p] = j]
  BY <1>1, <1>2 DEF Begin, Idle
<1>4. j \in Job /\ Sound(j)
  BY <1>2, PaymentsAssumption DEF Idle, Job, Steps, Sound, Learnt, Serves
<1>5. QED
  BY <1>3, <1>4, MoveStep DEF ReadSellable, IInv, TypeOK

(* A request to confirm names an order.                                    *)
LEMMA ConfirmRequestStep ==
  ASSUME IInv, NEW p \in Procs, ConfirmRequest(p)
  PROVE  IInv'
<1>1. PICK o \in Orders : Begin(p, "confirm", [Idle EXCEPT !.order = o])
  BY DEF ConfirmRequest
<1>2. PICK j : j = [Idle EXCEPT !.order = o, !.at = "confirm"]
  OBVIOUS
<1>3. job' = [job EXCEPT ![p] = j]
  BY <1>1, <1>2 DEF Begin, Idle
<1>4. j \in Job /\ Sound(j)
  BY <1>2, PaymentsAssumption DEF Idle, Job, Steps, Sound, Learnt, Serves
<1>5. QED
  BY <1>3, <1>4, MoveStep DEF ConfirmRequest, IInv, TypeOK

(* A request to refund names an order.                                     *)
LEMMA RefundRequestStep ==
  ASSUME IInv, NEW p \in Procs, RefundRequest(p)
  PROVE  IInv'
<1>1. PICK o \in Orders : Begin(p, "refund", [Idle EXCEPT !.order = o])
  BY DEF RefundRequest
<1>2. PICK j : j = [Idle EXCEPT !.order = o, !.at = "refund"]
  OBVIOUS
<1>3. job' = [job EXCEPT ![p] = j]
  BY <1>1, <1>2 DEF Begin, Idle
<1>4. j \in Job /\ Sound(j)
  BY <1>2, PaymentsAssumption DEF Idle, Job, Steps, Sound, Learnt, Serves
<1>5. QED
  BY <1>3, <1>4, MoveStep DEF RefundRequest, IInv, TypeOK

(* An edit brings a price of the domain.                                   *)
LEMMA EditPlanStep ==
  ASSUME IInv, NEW p \in Procs, EditPlan(p)
  PROVE  IInv'
<1>1. PICK pl \in Plans, n \in Prices : Begin(p, "edit", [Idle EXCEPT !.plan = pl, !.price = n])
  BY DEF EditPlan
<1>2. PICK j : j = [Idle EXCEPT !.plan = pl, !.price = n, !.at = "edit"]
  OBVIOUS
<1>3. job' = [job EXCEPT ![p] = j]
  BY <1>1, <1>2 DEF Begin, Idle
<1>4. j \in Job /\ Sound(j)
  BY <1>2, PaymentsAssumption DEF Idle, Job, Steps, Sound, Learnt, Serves
<1>5. QED
  BY <1>3, <1>4, MoveStep DEF EditPlan, IInv, TypeOK

(* A sweep takes up an order of its list.                                  *)
LEMMA SweepNextStep ==
  ASSUME IInv, NEW s \in Sweepers, NEW o \in Orders, SweepNext(s, o)
  PROVE  IInv'
<1>1. Begin(s, "confirm", [Idle EXCEPT !.order = o])
  BY DEF SweepNext
<1>2. PICK j : j = [Idle EXCEPT !.order = o, !.at = "confirm"]
  OBVIOUS
<1>3. job' = [job EXCEPT ![s] = j]
  BY <1>1, <1>2 DEF Begin, Idle
<1>4. j \in Job /\ Sound(j)
  BY <1>2, PaymentsAssumption DEF Idle, Job, Steps, Sound, Learnt, Serves
<1>5. sweep' \in [Sweepers -> SUBSET Orders]
  BY DEF SweepNext, IInv, TypeOK
<1>6. s \in Procs
  BY DEF Procs
<1>7. QED
  BY <1>3, <1>4, <1>5, <1>6, MoveStep DEF SweepNext

(* A sweep lists orders.                                                   *)
LEMMA SweepStartStep ==
  ASSUME IInv, NEW s \in Sweepers, SweepStart(s)
  PROVE  IInv'
<1>1. sweep' \in [Sweepers -> SUBSET Orders]
  BY DEF SweepStart, IInv, TypeOK
<1>2. s \in Procs /\ job' = [job EXCEPT ![s] = job[s]] /\ job[s] \in Job /\ Sound(job[s])
  BY DEF SweepStart, Procs, IInv, TypeOK, AllSound
<1>3. QED
  BY <1>1, <1>2, MoveStep DEF SweepStart

(* A confirmation goes on with an order that exists, or answers for a paid one. *)
LEMMA ConfirmReadStep ==
  ASSUME IInv, NEW p \in Procs, ConfirmRead(p)
  PROVE  IInv'
<1> DEFINE o == job[p].order
<1>1. job[p] \in Job /\ Sound(job[p]) /\ job[p].at = "confirm" /\ o \in Orders
  BY DEF IInv, TypeOK, AllSound, Sound, Learnt, ConfirmRead, At
<1>2. CASE Confirmable(o)
  <2>1. PICK j : j = [job[p] EXCEPT !.at = "plan"]
    OBVIOUS
  <2>2. job' = [job EXCEPT ![p] = j]
    BY <1>2, <2>1 DEF ConfirmRead, Goto, IInv, TypeOK
  <2>3. j \in Job /\ Sound(j)
    BY <1>1, <1>2, <2>1 DEF Confirmable, Job, Steps, Sound, Learnt, Serves, Asked
  <2>4. QED
    BY <2>2, <2>3, MoveStep DEF ConfirmRead, IInv, TypeOK
<1>3. CASE ~Confirmable(o)
  <2>1. PICK ok \in BOOLEAN : ok = (order[o].status = "paid") /\ Finish(p, ok)
    BY <1>3 DEF ConfirmRead
  <2>2. job[p].event \in Events /\ ok => EffectDone(Asked(job[p]))
    BY <1>1, <2>1 DEF Sound, Serves, EffectDone
  <2>3. QED
    BY <2>1, <2>2, FinishStep DEF ConfirmRead, IInv, TypeOK
<1>4. QED
  BY <1>2, <1>3

(* A confirmation takes the price of the order's plan.                     *)
LEMMA ConfirmPlanStep ==
  ASSUME IInv, NEW p \in Procs, ConfirmPlan(p)
  PROVE  IInv'
<1> DEFINE pl == order[job[p].order].plan
<1>1. /\ job[p] \in Job /\ Sound(job[p]) /\ job[p].at = "plan"
      /\ pl \in Plans /\ plan[pl].price \in Prices /\ plan[pl].price \in Nat
  BY PaymentsAssumption DEF IInv, TypeOK, RowsWhole, AllSound, Sound, Learnt, ConfirmPlan, At
<1>2. CASE ~plan[pl].deleted
  <2>1. PICK j : j = [job[p] EXCEPT !.at = "mark", !.price = plan[pl].price]
    OBVIOUS
  <2>2. job' = [job EXCEPT ![p] = j]
    BY <1>1, <1>2, <2>1 DEF ConfirmPlan, ReadPlan, IInv, TypeOK
  <2>3. j \in Job /\ Sound(j)
    BY <1>1, <2>1 DEF Job, Steps, Sound, Learnt, Serves, Asked
  <2>4. QED
    BY <2>2, <2>3, MoveStep DEF ConfirmPlan, IInv, TypeOK
<1>3. CASE plan[pl].deleted
  BY <1>3, FinishStep DEF ConfirmPlan, IInv, TypeOK
<1>4. QED
  BY <1>2, <1>3

(* A refund goes on only with an order it has seen paid, which stays so or refunded. *)
LEMMA RefundReadStep ==
  ASSUME IInv, NEW p \in Procs, RefundRead(p)
  PROVE  IInv'
<1> DEFINE o == job[p].order
<1>1. job[p] \in Job /\ Sound(job[p]) /\ job[p].at = "refund" /\ o \in Orders
  BY DEF IInv, TypeOK, AllSound, Sound, Learnt, RefundRead, At
<1>2. CASE Refundable(o)
  <2>1. PICK j : j = [job[p] EXCEPT !.at = "price"]
    OBVIOUS
  <2>2. job' = [job EXCEPT ![p] = j]
    BY <1>2, <2>1 DEF RefundRead, Goto, IInv, TypeOK
  <2>3. j \in Job /\ Sound(j)
    BY <1>1, <1>2, <2>1 DEF Refundable, Job, Steps, Sound, Learnt, Serves, Asked
  <2>4. QED
    BY <2>2, <2>3, MoveStep DEF RefundRead, IInv, TypeOK
<1>3. CASE ~Refundable(o)
  <2>1. PICK ok \in BOOLEAN : ok = (order[o].status = "refunded" /\ refunds[o] > 0) /\ Finish(p, ok)
    BY <1>3 DEF RefundRead
  <2>2. job[p].event \in Events /\ ok => EffectDone(Asked(job[p]))
    BY <1>1, <2>1 DEF Sound, Serves, EffectDone
  <2>3. QED
    BY <2>1, <2>2, FinishStep DEF RefundRead, IInv, TypeOK
<1>4. QED
  BY <1>2, <1>3

(* A refund takes the price of the order's plan.                           *)
LEMMA RefundPlanStep ==
  ASSUME IInv, NEW p \in Procs, RefundPlan(p)
  PROVE  IInv'
<1> DEFINE pl == order[job[p].order].plan
<1>1. /\ job[p] \in Job /\ Sound(job[p]) /\ job[p].at = "price"
      /\ pl \in Plans /\ plan[pl].price \in Prices /\ plan[pl].price \in Nat
  BY PaymentsAssumption DEF IInv, TypeOK, RowsWhole, AllSound, Sound, Learnt, RefundPlan, At
<1>2. PICK j : j = [job[p] EXCEPT !.at = IF plan[pl].price > 0 THEN "reverse" ELSE "close",
                                  !.price = plan[pl].price]
  OBVIOUS
<1>3. job' = [job EXCEPT ![p] = j]
  BY <1>1, <1>2 DEF RefundPlan, ReadPlan, IInv, TypeOK
<1>4. j \in Job /\ Sound(j)
  BY <1>1, <1>2 DEF Job, Steps, Sound, Learnt, Serves, Asked
<1>5. QED
  BY <1>3, <1>4, MoveStep DEF RefundPlan, IInv, TypeOK

(* A subscription event takes the price of its plan.                       *)
LEMMA SubscribePlanStep ==
  ASSUME IInv, NEW p \in Procs, SubscribePlan(p)
  PROVE  IInv'
<1> DEFINE pl == event[job[p].event].what.plan
<1>1. job[p] \in Job /\ Sound(job[p]) /\ job[p].at = "subscribe"
  BY DEF IInv, TypeOK, AllSound, SubscribePlan, At
<1>2. pl \in Plans /\ plan[pl].price \in Prices /\ plan[pl].price \in Nat
  BY <1>1, SubPayloadShape, PaymentsAssumption DEF IInv, RowsWhole, Sound, Serves, Asked
<1>3. CASE ~plan[pl].deleted
  <2>1. PICK j : j = [job[p] EXCEPT !.at = "upsert", !.price = plan[pl].price]
    OBVIOUS
  <2>2. job' = [job EXCEPT ![p] = j]
    BY <1>1, <1>3, <2>1 DEF SubscribePlan, ReadPlan, IInv, TypeOK
  <2>3. j \in Job /\ Sound(j)
    BY <1>1, <1>2, <2>1 DEF Job, Steps, Sound, Learnt, Serves, Asked
  <2>4. QED
    BY <2>2, <2>3, MoveStep DEF SubscribePlan, IInv, TypeOK
<1>4. CASE plan[pl].deleted
  BY <1>4, FinishStep DEF SubscribePlan, IInv, TypeOK
<1>5. QED
  BY <1>3, <1>4

(* A run of an event starts at the step of its kind.                       *)
LEMMA ProcessIsSound ==
  ASSUME TypeOK, NEW e \in Events, NEW what \in Payloads,
         event[e].what = what, event[e].status # "none",
         NEW j, j = [[Idle EXCEPT !.event = e, !.order = what.order,
                                  !.ok = what.kind = "other"] EXCEPT !.at = FirstStep(what)]
  PROVE  j \in Job /\ Sound(j)
<1>1. /\ j.event = e /\ j.order = what.order /\ j.at = FirstStep(what)
      /\ j.ok = (what.kind = "other")
      /\ j.plan = None /\ j.price = 0
      /\ FirstStep(what) \in {"confirm", "refund", "subscribe", "end"}
      /\ Asked(j) = what
  BY DEF Idle, FirstStep, Asked
<1>2. j \in Job
  BY <1>1, PayloadShape DEF Job, Steps, Payload, Idle
<1>3. Learnt(j)
  BY <1>1, PayloadShape DEF Learnt, FirstStep
<1>4. Serves(j)
  BY <1>1, PayloadShape DEF Serves, FirstStep, EffectDone
<1>5. QED
  BY <1>2, <1>3, <1>4 DEF Sound

(* A replay processes an event that is on record.                          *)
LEMMA ReplayEventStep ==
  ASSUME IInv, NEW p \in Procs, NEW e \in Events, ReplayEvent(p, e)
  PROVE  IInv'
<1>1. PICK what \in Payloads : what = event[e].what
  BY DEF ReplayEvent, IInv, RowsWhole
<1>2. PICK j : j = [[Idle EXCEPT !.event = e, !.order = what.order,
                                 !.ok = what.kind = "other"] EXCEPT !.at = FirstStep(what)]
  OBVIOUS
<1>3. event[e].status # "none"
  BY DEF ReplayEvent
<1>4. j \in Job /\ Sound(j)
  BY <1>1, <1>2, <1>3, ProcessIsSound DEF IInv
<1>5. job' = [job EXCEPT ![p] = j]
  BY <1>1, <1>2 DEF ReplayEvent, Process, Begin
<1>6. QED
  BY <1>4, <1>5, MoveStep DEF ReplayEvent, IInv, TypeOK

(* A call that throws ends its job without success.                        *)
LEMMA ThrowsStep ==
  ASSUME IInv, NEW p \in Procs, Throws(p)
  PROVE  IInv'
BY FinishStep DEF Throws, IInv, TypeOK

(* A crash leaves an idle job.                                             *)
LEMMA CrashStep ==
  ASSUME IInv, NEW p \in Procs, Crash(p)
  PROVE  IInv'
<1>1. sweep' \in [Sweepers -> SUBSET Orders]
  BY DEF Crash, IInv, TypeOK
<1>2. QED
  BY <1>1, IdleIsSound, MoveStep DEF Crash

-----------------------------------------------------------------------------
(* Actions that write an order.                                            *)

(* Processed events keep their effect while rows go forward.               *)
LEMMA DoneStays ==
  ASSUME IInv, Forward, UNCHANGED event
  PROVE  ProcessedMeansDone'
<1>1. SUFFICES ASSUME NEW e \in Events, event'[e].status = "processed"
               PROVE  EffectDone(event[e].what)'
  BY DEF ProcessedMeansDone
<1>2. PICK what \in Payloads : what = event[e].what /\ EffectDone(what)
  BY <1>1 DEF IInv, RowsWhole, ProcessedMeansDone
<1>3. EffectDone(what)'
  BY <1>2, EffectStays
<1>4. event'[e].what = what
  BY <1>2
<1>5. QED
  BY <1>3, <1>4 DEF EffectDone

(* One order advances; a status that counts as paid needs the grant.       *)
LEMMA OrderForward ==
  ASSUME TypeOK, NEW o \in Orders, NEW row \in OrderRow, order' = [order EXCEPT ![o] = row],
         UNCHANGED <<sub, event, credit>>,
         row.status # "none",
         order[o].status \in {"paid", "refunded"} => row.status \in {"paid", "refunded"},
         order[o].status = "refunded" => row.status = "refunded"
  PROVE  Forward
BY DEF Forward, TypeOK, credit

(* Writing one order keeps the invariant, given the grant behind a paid one. *)
LEMMA OrderStep ==
  ASSUME IInv, Forward,
         NEW o \in Orders, NEW row \in OrderRow, order' = [order EXCEPT ![o] = row],
         UNCHANGED <<plan, sub, event, sweep, credit>>,
         row.plan \in Plans, row.team \in Teams,
         row.status \in {"paid", "refunded"} /\ 0 \notin Prices => granted[o] > 0,
         refunds' \in [Orders -> Nat], OneRefundRow',
         job' \in [Procs -> Job], AllSound'
  PROVE  IInv'
<1>1. TypeOK'
  BY DEF IInv, TypeOK, credit
<1>2. RowsWhole'
  BY DEF IInv, TypeOK, RowsWhole
<1>3. PaidMeansGranted'
  BY DEF IInv, TypeOK, PaidMeansGranted, credit
<1>4. OnlyPaidReversed'
  BY DEF IInv, TypeOK, OnlyPaidReversed, Forward, credit
<1>5. QED
  BY <1>1, <1>2, <1>3, <1>4, DoneStays DEF IInv

(* An order is created with a plan and a team.                             *)
LEMMA CreateOrderStep ==
  ASSUME IInv, NEW p \in Procs, CreateOrder(p)
  PROVE  IInv'
<1>1. PICK o \in Orders, t \in Teams :
        /\ order[o] = NoOrder
        /\ order' = [order EXCEPT ![o] = [NoOrder EXCEPT !.status = "pending",
                                            !.plan = job[p].plan, !.team = t]]
        /\ job' = [job EXCEPT ![p] = IF At(p, "create") THEN Idle
                                     ELSE [Idle EXCEPT !.at = "confirm", !.order = o]]
  BY DEF CreateOrder
<1>2. job[p].plan \in Plans
  BY DEF CreateOrder, At, IInv, AllSound, Sound, Learnt
<1>3. PICK row : row = [NoOrder EXCEPT !.status = "pending", !.plan = job[p].plan, !.team = t]
  OBVIOUS
<1>4. /\ row \in OrderRow /\ order' = [order EXCEPT ![o] = row]
      /\ row.status = "pending" /\ row.plan \in Plans /\ row.team \in Teams
  BY <1>1, <1>2, <1>3 DEF NoOrder, OrderRow, OrderStatus
<1>5. order[o].status = "none"
  BY <1>1 DEF NoOrder
<1>6. Forward
  BY <1>4, <1>5, OrderForward DEF CreateOrder, IInv
<1>7. OneRefundRow' /\ refunds' \in [Orders -> Nat]
  BY <1>4, <1>5 DEF IInv, TypeOK, OneRefundRow, CreateOrder
<1>8. job' \in [Procs -> Job] /\ AllSound'
  <2>1. CASE At(p, "create")
    BY <1>1, <1>6, <2>1, IdleIsSound, JobsKept DEF IInv
  <2>2. CASE ~At(p, "create")
    <3>1. PICK j : j = [Idle EXCEPT !.at = "confirm", !.order = o]
      OBVIOUS
    <3>2. j \in Job /\ Sound(j)'
      BY <3>1, PaymentsAssumption DEF Idle, Job, Steps, Sound, Learnt, Serves
    <3>3. QED
      BY <1>1, <1>6, <2>2, <3>1, <3>2, JobsKept DEF IInv
  <2>3. QED
    BY <2>1, <2>2
<1>9. QED
  BY <1>4, <1>6, <1>7, <1>8, OrderStep DEF CreateOrder

(* The row of an order whose status is set.                                *)
LEMMA SetStatusRow ==
  ASSUME IInv, NEW o \in Orders, NEW status \in OrderStatus, SetStatus(o, status),
         order[o].status # "none"
  PROVE  \E row \in OrderRow : /\ order' = [order EXCEPT ![o] = row]
                               /\ row.status = status
                               /\ row.plan \in Plans /\ row.team \in Teams
<1>1. PICK row : row = [order[o] EXCEPT !.status = status, !.stale = FALSE]
  OBVIOUS
<1>2. order[o] \in OrderRow /\ order[o].plan \in Plans /\ order[o].team \in Teams
  BY DEF IInv, TypeOK, RowsWhole
<1>3. row \in OrderRow /\ row.status = status /\ row.plan \in Plans /\ row.team \in Teams
  BY <1>1, <1>2 DEF OrderRow
<1>4. order' = [order EXCEPT ![o] = row]
  BY <1>1 DEF SetStatus, IInv, TypeOK
<1>5. QED
  BY <1>3, <1>4

(* A confirmation goes on without a grant only if its price is 0.          *)
LEMMA MarkConfirmingStep ==
  ASSUME IInv, NEW p \in Procs, MarkConfirming(p)
  PROVE  IInv'
<1> DEFINE o == job[p].order
<1>1. /\ job[p] \in Job /\ Sound(job[p]) /\ job[p].at = "mark" /\ o \in Orders
      /\ job[p].price \in Prices /\ job[p].price \in Nat
  BY PaymentsAssumption DEF IInv, TypeOK, AllSound, Sound, Learnt, MarkConfirming, At
<1>2. PICK j : j = [job[p] EXCEPT !.at = AfterMark(p)]
  OBVIOUS
<1>3. j \in Job /\ Sound(j)
  BY <1>1, <1>2 DEF AfterMark, Job, Steps, Sound, Learnt, Serves, Asked
<1>4. Goto(p, AfterMark(p)) => job' = [job EXCEPT ![p] = j]
  BY <1>2 DEF Goto, IInv, TypeOK
<1>5. CASE order[o].status = "pending"
  <2>1. SetStatus(o, "confirming") /\ job' = [job EXCEPT ![p] = j]
    BY <1>4, <1>5 DEF MarkConfirming
  <2>2. PICK row \in OrderRow : /\ order' = [order EXCEPT ![o] = row]
                                /\ row.status = "confirming"
                                /\ row.plan \in Plans /\ row.team \in Teams
    BY <1>1, <1>5, <2>1, SetStatusRow DEF OrderStatus
  <2>3. Forward
    BY <1>1, <1>5, <2>2, OrderForward DEF IInv, MarkConfirming
  <2>4. OneRefundRow' /\ refunds' \in [Orders -> Nat]
    BY <1>1, <1>5, <2>2 DEF IInv, TypeOK, OneRefundRow, MarkConfirming
  <2>5. Sound(j)'
    BY <1>3, <2>3, SoundStays DEF IInv
  <2>6. job' \in [Procs -> Job] /\ AllSound'
    BY <1>3, <2>1, <2>3, <2>5, JobsKept DEF IInv
  <2>7. QED
    BY <1>1, <2>2, <2>3, <2>4, <2>6, OrderStep DEF MarkConfirming
<1>6. CASE order[o].status \in {"confirming", "paid"}
  <2>1. job' = [job EXCEPT ![p] = j] /\ UNCHANGED <<payment, credit, sweep>>
    BY <1>4, <1>6 DEF MarkConfirming, payment
  <2>2. QED
    BY <1>3, <2>1, MoveStep DEF IInv, TypeOK
<1>7. CASE order[o].status \notin {"pending", "confirming", "paid"}
  <2>1. Finish(p, FALSE) /\ UNCHANGED <<payment, credit, sweep>>
    BY <1>7 DEF MarkConfirming, payment
  <2>2. QED
    BY <2>1, FinishStep DEF IInv, TypeOK
<1>8. QED
  BY <1>5, <1>6, <1>7

(* An order is marked paid by a job that has seen its grant.               *)
LEMMA MarkPaidStep ==
  ASSUME IInv, NEW p \in Procs, MarkPaid(p)
  PROVE  IInv'
<1> DEFINE o == job[p].order
<1>1. /\ job[p] \in Job /\ Sound(job[p]) /\ job[p].at = "paid" /\ o \in Orders
      /\ order[o].status # "none"
      /\ 0 \notin Prices => granted[o] > 0
  BY DEF IInv, TypeOK, AllSound, Sound, Learnt, MarkPaid, At
<1>2. CASE Payable(o)
  <2>1. SetStatus(o, "paid") /\ Finish(p, TRUE)
    BY <1>2 DEF MarkPaid
  <2>2. PICK row \in OrderRow : /\ order' = [order EXCEPT ![o] = row]
                                /\ row.status = "paid"
                                /\ row.plan \in Plans /\ row.team \in Teams
    BY <1>1, <2>1, SetStatusRow DEF OrderStatus
  <2>3. Forward
    BY <1>1, <1>2, <2>2, OrderForward DEF IInv, MarkPaid, Payable
  <2>4. OneRefundRow' /\ refunds' \in [Orders -> Nat]
    BY <1>1, <1>2, <2>2 DEF IInv, TypeOK, OneRefundRow, MarkPaid, Payable
  <2>5. PICK what : what = Asked(job[p])
    OBVIOUS
  <2>6. job[p].event \in Events => EffectDone(what)'
    BY <1>1, <2>2, <2>5 DEF Sound, Serves, EffectDone, IInv, TypeOK
  <2>7. job' \in [Procs -> Job] /\ AllSound'
    BY <2>1, <2>3, <2>5, <2>6, FinishKept DEF IInv
  <2>8. QED
    BY <1>1, <2>2, <2>3, <2>4, <2>7, OrderStep DEF MarkPaid
<1>3. CASE ~Payable(o)
  <2>1. PICK ok \in BOOLEAN : ok = (order[o].status = "paid") /\ Finish(p, ok)
    BY <1>3 DEF MarkPaid
  <2>2. job[p].event \in Events /\ ok => EffectDone(Asked(job[p]))
    BY <1>1, <2>1 DEF Sound, Serves, EffectDone
  <2>3. UNCHANGED <<payment, credit, sweep>>
    BY <1>3 DEF MarkPaid, payment
  <2>4. QED
    BY <2>1, <2>2, <2>3, FinishStep DEF IInv, TypeOK
<1>4. QED
  BY <1>2, <1>3

(* The transition guard lets one refund write its row.                     *)
LEMMA CloseRefundStep ==
  ASSUME IInv, NEW p \in Procs, CloseRefund(p)
  PROVE  IInv'
<1> DEFINE o == job[p].order
<1>1. /\ job[p] \in Job /\ Sound(job[p]) /\ job[p].at = "close" /\ o \in Orders
      /\ order[o].status \in {"paid", "refunded"}
  BY DEF IInv, TypeOK, AllSound, Sound, Learnt, CloseRefund, At
<1>2. CASE Closable(o)
  <2>1. /\ SetStatus(o, "refunded") /\ refunds' = [refunds EXCEPT ![o] = @ + 1]
        /\ Finish(p, TRUE)
    BY <1>2 DEF CloseRefund
  <2>2. PICK row \in OrderRow : /\ order' = [order EXCEPT ![o] = row]
                                /\ row.status = "refunded"
                                /\ row.plan \in Plans /\ row.team \in Teams
    BY <1>1, <2>1, SetStatusRow DEF OrderStatus
  <2>3. Forward
    BY <1>1, <2>2, OrderForward DEF IInv, CloseRefund
  <2>4. OneRefundRow' /\ refunds' \in [Orders -> Nat]
    BY <1>1, <1>2, <2>1, <2>2 DEF IInv, TypeOK, OneRefundRow, Closable
  <2>5. PICK what : what = Asked(job[p])
    OBVIOUS
  <2>6. job[p].event \in Events => EffectDone(what)'
    BY <1>1, <2>2, <2>5 DEF Sound, Serves, EffectDone, IInv, TypeOK
  <2>7. job' \in [Procs -> Job] /\ AllSound'
    BY <2>1, <2>3, <2>5, <2>6, FinishKept DEF IInv
  <2>8. 0 \notin Prices => granted[o] > 0
    BY <1>1 DEF IInv, PaidMeansGranted
  <2>9. QED
    BY <1>1, <2>2, <2>3, <2>4, <2>7, <2>8, OrderStep DEF CloseRefund
<1>3. CASE ~Closable(o)
  <2>1. PICK ok \in BOOLEAN : ok = (Closable(o) \/ refunds[o] > 0) /\ Finish(p, ok)
    BY DEF CloseRefund, Closable, Finish
  <2>2. job[p].event \in Events /\ ok => EffectDone(Asked(job[p]))
    <3>1. ok => order[o].status = "refunded"
      BY <1>1, <1>3, <2>1 DEF IInv, OneRefundRow, Closable
    <3>2. QED
      BY <1>1, <3>1 DEF Sound, Serves, EffectDone
  <2>3. UNCHANGED <<payment, credit, sweep>>
    BY <1>3 DEF CloseRefund, payment
  <2>4. QED
    BY <2>1, <2>2, <2>3, FinishStep DEF IInv, TypeOK
<1>4. QED
  BY <1>2, <1>3

(* Time changes no status.                                                 *)
LEMMA AgeStep ==
  ASSUME IInv, NEW o \in Orders, Age(o)
  PROVE  IInv'
<1>1. PICK row : row = [order[o] EXCEPT !.stale = TRUE]
  OBVIOUS
<1>2. /\ row \in OrderRow /\ row.status = "confirming"
      /\ row.plan \in Plans /\ row.team \in Teams
      /\ order' = [order EXCEPT ![o] = row]
  BY <1>1 DEF Age, IInv, TypeOK, RowsWhole, OrderRow
<1>3. Forward
  BY <1>2, OrderForward DEF Age, IInv
<1>4. OneRefundRow' /\ refunds' \in [Orders -> Nat]
  BY <1>2 DEF Age, IInv, TypeOK, OneRefundRow
<1>5. job' \in [Procs -> Job] /\ AllSound'
  BY <1>3, JobsStay DEF Age, IInv
<1>6. QED
  BY <1>2, <1>3, <1>4, <1>5, OrderStep DEF Age

-----------------------------------------------------------------------------
(* Actions of the credit service.                                          *)

(* A credit entry keeps the invariant if reversals are of paid orders.     *)
LEMMA CreditStep ==
  ASSUME IInv, Forward, UNCHANGED <<payment, sweep>>,
         granted' \in [Orders -> Nat], reversed' \in [Orders -> Nat],
         renewed' \in [Subs -> [Periods \cup {None} -> Nat]], balance' \in [Teams -> Nat],
         \A o \in Orders : reversed'[o] > 0 =>
           reversed[o] > 0 \/ order[o].status \in {"paid", "refunded"},
         job' \in [Procs -> Job], AllSound'
  PROVE  IInv'
<1>1. TypeOK' /\ RowsWhole' /\ OneRefundRow'
  BY DEF IInv, TypeOK, RowsWhole, OneRefundRow, payment
<1>2. PaidMeansGranted'
  BY DEF IInv, PaidMeansGranted, Forward, payment
<1>3. OnlyPaidReversed'
  BY <1>2 DEF IInv, OnlyPaidReversed, PaidMeansGranted, payment
<1>4. UNCHANGED event
  BY DEF payment
<1>5. QED
  BY <1>1, <1>2, <1>3, <1>4, DoneStays DEF IInv

(* A grant leaves an entry, and the balance no smaller.                    *)
LEMMA GrantingKept ==
  ASSUME IInv, NEW p \in Procs, Granting(p)
  PROVE  /\ Forward
         /\ granted' \in [Orders -> Nat] /\ granted'[job[p].order] > 0
         /\ balance' \in [Teams -> Nat]
<1> DEFINE o == job[p].order
           n == GrantEntry(o, job[p].price)
<1>1. /\ job[p] \in Job /\ Sound(job[p]) /\ job[p].at = "grant" /\ o \in Orders
      /\ order[o].team \in Teams
      /\ job[p].price \in Nat /\ job[p].price > 0
  BY DEF IInv, TypeOK, RowsWhole, AllSound, Sound, Learnt, Granting, At, Job
<1>2. granted[o] \in Nat /\ n \in Nat /\ n > 0 /\ n - granted[o] \in Nat
  BY <1>1 DEF IInv, TypeOK, GrantEntry
<1> HIDE DEF n
<1>3. granted' = [granted EXCEPT ![o] = n]
  BY DEF Granting, n
<1>4. granted' \in [Orders -> Nat] /\ granted'[o] > 0
  BY <1>1, <1>2, <1>3 DEF IInv, TypeOK
<1>5. balance' = [balance EXCEPT ![order[o].team] = @ + (n - granted[o])]
  BY DEF Granting, n
<1>6. balance' \in [Teams -> Nat]
  BY <1>1, <1>2, <1>5 DEF IInv, TypeOK
<1>7. Forward
  BY <1>1, <1>2, <1>3 DEF Forward, Granting, payment, IInv, TypeOK
<1>8. QED
  BY <1>4, <1>6, <1>7

(* A job goes on to mark the order knowing of its entry.                   *)
LEMMA GrantAnsweredStep ==
  ASSUME IInv, NEW p \in Procs, GrantAnswered(p)
  PROVE  IInv'
<1>1. Granting(p) /\ Goto(p, "paid")
  BY DEF GrantAnswered
<1>2. /\ Forward
      /\ granted' \in [Orders -> Nat] /\ granted'[job[p].order] > 0
      /\ balance' \in [Teams -> Nat]
  BY <1>1, GrantingKept
<1>3. job[p] \in Job /\ Sound(job[p]) /\ job[p].at = "grant"
  BY <1>1 DEF IInv, TypeOK, AllSound, Granting, At
<1>4. PICK j : j = [job[p] EXCEPT !.at = "paid"]
  OBVIOUS
<1>5. job' = [job EXCEPT ![p] = j]
  BY <1>1, <1>4 DEF Goto, IInv, TypeOK
<1>6. j \in Job /\ Sound(j)'
  BY <1>1, <1>2, <1>3, <1>4 DEF Job, Steps, Sound, Learnt, Serves, Asked, Granting, payment
<1>7. job' \in [Procs -> Job] /\ AllSound'
  BY <1>2, <1>5, <1>6, JobsKept DEF IInv
<1>8. QED
  BY <1>1, <1>2, <1>7, CreditStep DEF Granting, IInv, TypeOK

(* A lost answer leaves the entry and ends the job.                        *)
LEMMA GrantAnswerLostStep ==
  ASSUME IInv, NEW p \in Procs, GrantAnswerLost(p)
  PROVE  IInv'
<1>1. Granting(p) /\ Finish(p, FALSE)
  BY DEF GrantAnswerLost
<1>2. /\ Forward
      /\ granted' \in [Orders -> Nat]
      /\ balance' \in [Teams -> Nat]
  BY <1>1, GrantingKept
<1>3. job' \in [Procs -> Job] /\ AllSound'
  BY <1>1, <1>2, FinishKept DEF IInv
<1>4. QED
  BY <1>1, <1>2, <1>3, CreditStep DEF Granting, IInv, TypeOK

(* A reversal is of a paid order and covered by its team's balance.        *)
LEMMA ReversingKept ==
  ASSUME IInv, NEW p \in Procs, Reversing(p)
  PROVE  /\ Forward
         /\ reversed' \in [Orders -> Nat]
         /\ balance' \in [Teams -> Nat]
         /\ \A o \in Orders : reversed'[o] > 0 =>
              reversed[o] > 0 \/ order[o].status \in {"paid", "refunded"}
<1> DEFINE o == job[p].order
           n == ReversalEntry(o, job[p].price)
<1>1. /\ job[p] \in Job /\ job[p].at = "reverse" /\ o \in Orders
      /\ order[o].status \in {"paid", "refunded"}
      /\ order[o].team \in Teams
      /\ job[p].price \in Nat
  BY DEF IInv, TypeOK, RowsWhole, AllSound, Sound, Learnt, Reversing, At, Job
<1>2. reversed[o] \in Nat /\ n \in Nat /\ n - reversed[o] \in Nat
  BY <1>1 DEF IInv, TypeOK, ReversalEntry
<1> HIDE DEF n
<1>3. reversed' = [reversed EXCEPT ![o] = n]
  BY DEF Reversing, n
<1>4. balance' = [balance EXCEPT ![order[o].team] = @ - (n - reversed[o])]
  BY DEF Reversing, n
<1>5. n - reversed[o] <= balance[order[o].team]
  BY DEF Reversing, Covered, n
<1>6. balance' \in [Teams -> Nat]
  BY <1>1, <1>2, <1>4, <1>5 DEF IInv, TypeOK
<1>7. Forward
  BY DEF Forward, Reversing, payment
<1>8. QED
  BY <1>1, <1>2, <1>3, <1>6, <1>7 DEF IInv, TypeOK

(* A refund goes on to close the order.                                    *)
LEMMA ReverseAnsweredStep ==
  ASSUME IInv, NEW p \in Procs, ReverseAnswered(p)
  PROVE  IInv'
<1>1. Reversing(p) /\ Goto(p, "close")
  BY DEF ReverseAnswered
<1>2. job[p] \in Job /\ Sound(job[p]) /\ job[p].at = "reverse"
  BY <1>1 DEF IInv, TypeOK, AllSound, Reversing, At
<1>3. PICK j : j = [job[p] EXCEPT !.at = "close"]
  OBVIOUS
<1>4. job' = [job EXCEPT ![p] = j]
  BY <1>1, <1>3 DEF Goto, IInv, TypeOK
<1>5. j \in Job /\ Sound(j)'
  BY <1>1, <1>2, <1>3 DEF Job, Steps, Sound, Learnt, Serves, Asked, Reversing, payment
<1>6. job' \in [Procs -> Job] /\ AllSound'
  BY <1>1, <1>4, <1>5, ReversingKept, JobsKept DEF IInv
<1>7. QED
  BY <1>1, <1>6, ReversingKept, CreditStep DEF Reversing, IInv, TypeOK

(* A lost answer leaves the reversal and ends the job.                     *)
LEMMA ReverseAnswerLostStep ==
  ASSUME IInv, NEW p \in Procs, ReverseAnswerLost(p)
  PROVE  IInv'
<1>1. Reversing(p) /\ Finish(p, FALSE)
  BY DEF ReverseAnswerLost
<1>2. job' \in [Procs -> Job] /\ AllSound'
  BY <1>1, ReversingKept, FinishKept DEF IInv
<1>3. QED
  BY <1>1, <1>2, ReversingKept, CreditStep DEF Reversing, IInv, TypeOK

(* A team spends what it has.                                              *)
LEMMA UseCreditStep ==
  ASSUME IInv, NEW t \in Teams, UseCredit(t)
  PROVE  IInv'
<1>1. balance' \in [Teams -> Nat]
  BY DEF UseCredit, IInv, TypeOK
<1>2. Forward
  BY DEF Forward, UseCredit, payment
<1>3. job' \in [Procs -> Job] /\ AllSound'
  BY <1>2, JobsStay DEF UseCredit, IInv
<1>4. QED
  BY <1>1, <1>2, <1>3, CreditStep DEF UseCredit, IInv, TypeOK

-----------------------------------------------------------------------------
(* Subscriptions.                                                          *)

(* The row is written; without a period to grant the event has had its effect. *)
LEMMA UpsertSubscriptionStep ==
  ASSUME IInv, NEW p \in Procs, UpsertSubscription(p)
  PROVE  IInv'
<1>1. PICK what : what = event[job[p].event].what
  OBVIOUS
<1>2. /\ job[p] \in Job /\ Sound(job[p]) /\ job[p].at = "upsert"
      /\ job[p].event \in Events /\ job[p].price \in Prices /\ job[p].price \in Nat
      /\ what \in SubPayloads
  BY <1>1, PaymentsAssumption
     DEF IInv, TypeOK, AllSound, Sound, Learnt, Serves, Asked, UpsertSubscription, At
<1>3. /\ what.sub \in Subs /\ what.status \in SubStatus /\ what.period \in Periods \cup {None}
      /\ what \in Payloads /\ what.kind = "subscription"
  BY <1>2, SubPayloadShape
<1>4. PICK row : row = [status |-> what.status, period |-> what.period]
  OBVIOUS
<1>5. row \in SubRow /\ row.status # "none"
  BY <1>3, <1>4 DEF SubRow, SubStatus
<1>6. sub' = [sub EXCEPT ![what.sub] = row]
  BY <1>1, <1>4 DEF UpsertSubscription
<1>7. sub' \in [Subs -> SubRow] /\ sub'[what.sub].status # "none"
  BY <1>3, <1>5, <1>6 DEF IInv, TypeOK
<1>8. Forward
  BY <1>3, <1>5, <1>6 DEF Forward, UpsertSubscription, credit, IInv, TypeOK
<1>9. job' \in [Procs -> Job] /\ AllSound'
  <2>1. CASE Renews(job[p].price, what)
    <3>1. PICK j : j = [job[p] EXCEPT !.at = "renew"]
      OBVIOUS
    <3>2. job' = [job EXCEPT ![p] = j]
      BY <1>1, <2>1, <3>1 DEF UpsertSubscription, Goto, IInv, TypeOK
    <3>3. j \in Job /\ j.at = "renew" /\ j.event = job[p].event /\ j.price > 0
      BY <1>2, <2>1, <3>1 DEF Job, Steps, Renews
    <3>4. Asked(j)' = what /\ event'[j.event].status # "none"
      BY <1>1, <1>2, <3>3 DEF Asked, UpsertSubscription, Sound, Serves
    <3>5. Sound(j)'
      BY <1>2, <1>7, <3>3, <3>4 DEF Sound, Learnt, Serves
    <3>6. QED
      BY <1>8, <3>2, <3>3, <3>5, JobsKept DEF IInv
  <2>2. CASE ~Renews(job[p].price, what)
    <3>1. Finish(p, TRUE)
      BY <1>1, <2>2 DEF UpsertSubscription
    <3>2. ~(what.status = "active" /\ 0 \notin Prices)
      BY <1>2, <2>2 DEF Renews
    <3>3. EffectDone(what)'
      BY <1>3, <1>7, <3>2 DEF EffectDone
    <3>4. QED
      BY <1>1, <1>8, <3>1, <3>3, FinishKept DEF IInv, Asked
  <2>3. QED
    BY <2>1, <2>2
<1>10. TypeOK' /\ RowsWhole'
  BY <1>7, <1>9 DEF IInv, TypeOK, RowsWhole, UpsertSubscription, credit
<1>11. PaidMeansGranted' /\ OnlyPaidReversed' /\ OneRefundRow'
  BY DEF IInv, PaidMeansGranted, OnlyPaidReversed, OneRefundRow, UpsertSubscription, credit
<1>12. ProcessedMeansDone'
  BY <1>8, DoneStays DEF UpsertSubscription
<1>13. QED
  BY <1>9, <1>10, <1>11, <1>12 DEF IInv

(* A renewal leaves an entry for its period.                               *)
LEMMA RenewingKept ==
  ASSUME IInv, NEW p \in Procs, Renewing(p),
         NEW what, what = Asked(job[p])
  PROVE  /\ Forward
         /\ renewed' \in [Subs -> [Periods \cup {None} -> Nat]]
         /\ balance' \in [Teams -> Nat]
         /\ EffectDone(what)'
<1>1. /\ job[p] \in Job /\ Sound(job[p]) /\ job[p].at = "renew"
      /\ job[p].price \in Nat /\ job[p].price > 0
      /\ what \in SubPayloads /\ sub[what.sub].status # "none"
  BY DEF IInv, TypeOK, AllSound, Sound, Learnt, Serves, Renewing, At, Job
<1>2. /\ what.sub \in Subs /\ what.period \in Periods \cup {None}
      /\ what.team \in Teams /\ what.kind = "subscription"
  BY <1>1, SubPayloadShape
<1>3. PICK old : old = renewed[what.sub][what.period]
  OBVIOUS
<1>4. PICK new : new = IF old > 0 THEN old ELSE job[p].price
  OBVIOUS
<1>5. old \in Nat /\ new \in Nat /\ new > 0 /\ new - old \in Nat
  BY <1>1, <1>2, <1>3, <1>4 DEF IInv, TypeOK
<1>6. /\ renewed' = [renewed EXCEPT ![what.sub][what.period] = new]
      /\ balance' = [balance EXCEPT ![what.team] = @ + (new - old)]
  BY <1>3, <1>4 DEF Renewing, Asked
<1>7. /\ renewed' \in [Subs -> [Periods \cup {None} -> Nat]]
      /\ renewed'[what.sub][what.period] > 0
  BY <1>2, <1>5, <1>6 DEF IInv, TypeOK
<1>8. balance' \in [Teams -> Nat]
  BY <1>2, <1>5, <1>6 DEF IInv, TypeOK
<1>9. Forward
  <2>1. ASSUME NEW s \in Subs, NEW q \in Periods \cup {None}, renewed[s][q] > 0
        PROVE  renewed'[s][q] > 0
    <3>1. CASE s = what.sub /\ q = what.period
      BY <1>7, <3>1
    <3>2. CASE ~(s = what.sub /\ q = what.period)
      <4>1. renewed'[s][q] = renewed[s][q]
        BY <1>2, <1>6, <3>2 DEF IInv, TypeOK
      <4>2. QED
        BY <2>1, <4>1
    <3>3. QED
      BY <3>1, <3>2
  <2>2. QED
    BY <2>1 DEF Forward, Renewing, payment
<1>10. EffectDone(what)'
  BY <1>1, <1>2, <1>7 DEF EffectDone, Renewing, payment
<1>11. QED
  BY <1>7, <1>8, <1>9, <1>10

(* With or without an answer the renewal's entry is there.                 *)
LEMMA RenewStep ==
  ASSUME IInv, NEW p \in Procs, RenewAnswered(p) \/ RenewAnswerLost(p)
  PROVE  IInv'
<1>1. PICK ok \in BOOLEAN : Renewing(p) /\ Finish(p, ok)
  BY DEF RenewAnswered, RenewAnswerLost
<1>2. PICK what : what = Asked(job[p])
  OBVIOUS
<1>3. /\ Forward
      /\ renewed' \in [Subs -> [Periods \cup {None} -> Nat]]
      /\ balance' \in [Teams -> Nat]
      /\ EffectDone(what)'
  BY <1>1, <1>2, RenewingKept
<1>4. job' \in [Procs -> Job] /\ AllSound'
  BY <1>1, <1>2, <1>3, FinishKept DEF IInv
<1>5. QED
  BY <1>1, <1>3, <1>4, CreditStep DEF Renewing, IInv, TypeOK

-----------------------------------------------------------------------------
(* Events.                                                                 *)

(* An event that is written keeps its payload.                             *)
LEMMA EventForward ==
  ASSUME TypeOK, NEW e \in Events, NEW row \in EventRow, event' = [event EXCEPT ![e] = row],
         UNCHANGED <<order, sub, credit>>,
         row.status # "none",
         event[e].status # "none" => row.what = event[e].what
  PROVE  Forward
BY DEF Forward, TypeOK, credit

(* Writing one event keeps the invariant, given the effect of a processed one. *)
LEMMA EventStep ==
  ASSUME IInv, Forward, NEW e \in Events, NEW row \in EventRow,
         event' = [event EXCEPT ![e] = row],
         UNCHANGED <<plan, order, refunds, sub, sweep, credit>>,
         row.status # "none", row.what \in Payloads,
         row.status = "processed" => EffectDone(row.what),
         job' \in [Procs -> Job], AllSound'
  PROVE  IInv'
<1>1. TypeOK' /\ RowsWhole'
  BY DEF IInv, TypeOK, RowsWhole, credit
<1>2. PaidMeansGranted' /\ OnlyPaidReversed' /\ OneRefundRow'
  BY DEF IInv, PaidMeansGranted, OnlyPaidReversed, OneRefundRow, credit
<1>3. ASSUME NEW d \in Events, event'[d].status = "processed"
      PROVE  EffectDone(event'[d].what)
  <2>1. CASE d = e
    BY <1>3, <2>1 DEF IInv, TypeOK
  <2>2. CASE d # e
    BY <1>3, <2>2 DEF IInv, TypeOK, ProcessedMeansDone
  <2>3. QED
    BY <2>1, <2>2
<1>4. ProcessedMeansDone'
  BY <1>3 DEF ProcessedMeansDone, EffectDone, credit
<1>5. QED
  BY <1>1, <1>2, <1>4 DEF IInv

(* A delivery records the payload it processes, or finds the same one.     *)
LEMMA DeliverStep ==
  ASSUME IInv, NEW p \in Procs, NEW e \in Events, Deliver(p, e)
  PROVE  IInv'
<1>1. PICK what \in Payloads :
        /\ \/ event[e] = NoEvent
           \/ event[e] = [status |-> "received", what |-> what]
        /\ event' = [event EXCEPT ![e] = [status |-> "received", what |-> what]]
        /\ Process(p, e, what)
  BY DEF Deliver, Recordable
<1>2. PICK row : row = [status |-> "received", what |-> what]
  OBVIOUS
<1>3. row \in EventRow /\ row.status = "received" /\ row.what = what
  BY <1>2, PayloadShape DEF EventRow
<1>4. event[e].status # "none" => what = event[e].what
  BY <1>1 DEF NoEvent
<1>5. Forward
  BY <1>1, <1>2, <1>3, <1>4, EventForward DEF Deliver, IInv
<1>6. PICK j : j = [[Idle EXCEPT !.event = e, !.order = what.order,
                                 !.ok = what.kind = "other"] EXCEPT !.at = FirstStep(what)]
  OBVIOUS
<1>7. job' = [job EXCEPT ![p] = j]
  BY <1>1, <1>6 DEF Process, Begin
<1>8. j \in Job /\ Sound(j)'
  <2>1. /\ j.event = e /\ j.order = what.order /\ j.at = FirstStep(what)
        /\ j.ok = (what.kind = "other")
        /\ j.plan = None /\ j.price = 0
        /\ FirstStep(what) \in {"confirm", "refund", "subscribe", "end"}
    BY <1>6 DEF Idle, FirstStep
  <2>2. j \in Job
    BY <1>6, <2>1, PayloadShape DEF Job, Steps, Payload, Idle
  <2>3. Asked(j)' = what /\ event'[e].status # "none"
    BY <1>1, <2>1 DEF Asked, IInv, TypeOK
  <2>4. Learnt(j)'
    BY <2>1, PayloadShape DEF Learnt, FirstStep
  <2>5. Serves(j)'
    BY <2>1, <2>3, PayloadShape DEF Serves, FirstStep, EffectDone
  <2>6. QED
    BY <2>2, <2>4, <2>5 DEF Sound
<1>9. job' \in [Procs -> Job] /\ AllSound'
  BY <1>5, <1>7, <1>8, JobsKept DEF IInv
<1>10. QED
  BY <1>1, <1>2, <1>3, <1>5, <1>9, EventStep DEF Deliver

(* Recording an event starts no job.                                       *)
LEMMA RecordEventStep ==
  ASSUME IInv, NEW e \in Events, RecordEvent(e)
  PROVE  IInv'
<1>1. PICK what \in Payloads :
        /\ event[e] = NoEvent
        /\ event' = [event EXCEPT ![e] = [status |-> "received", what |-> what]]
  BY DEF RecordEvent
<1>2. PICK row : row = [status |-> "received", what |-> what]
  OBVIOUS
<1>3. row \in EventRow /\ row.status = "received" /\ row.what = what
  BY <1>2, PayloadShape DEF EventRow
<1>4. event[e].status = "none"
  BY <1>1 DEF NoEvent
<1>5. Forward
  BY <1>1, <1>2, <1>3, <1>4, EventForward DEF RecordEvent, IInv
<1>6. job' \in [Procs -> Job] /\ AllSound'
  BY <1>5, JobsStay DEF RecordEvent, IInv
<1>7. QED
  BY <1>1, <1>2, <1>3, <1>5, <1>6, EventStep DEF RecordEvent

(* A success recorded is one whose effect has happened.                    *)
LEMMA SettleEventStep ==
  ASSUME IInv, NEW p \in Procs, SettleEvent(p)
  PROVE  IInv'
<1> DEFINE e == job[p].event
<1>1. /\ job[p] \in Job /\ Sound(job[p]) /\ job[p].at = "end" /\ e \in Events
      /\ event[e] \in EventRow /\ event[e].status # "none" /\ event[e].what \in Payloads
      /\ job[p].ok => EffectDone(event[e].what)
  BY DEF IInv, TypeOK, RowsWhole, AllSound, Sound, Serves, Asked, SettleEvent, At
<1>2. PICK row : row = IF Settleable(e) THEN [event[e] EXCEPT !.status = Outcome(job[p].ok)]
                                        ELSE event[e]
  OBVIOUS
<1>3. /\ row \in EventRow /\ row.status # "none" /\ row.what = event[e].what
      /\ row.status = "processed" => job[p].ok \/ event[e].status = "processed"
  <2>1. CASE Settleable(e)
    <3>1. PICK status \in {"processed", "failed"} :
            status = Outcome(job[p].ok) /\ (status = "processed" => job[p].ok)
      BY DEF Outcome
    <3>2. row = [event[e] EXCEPT !.status = status]
      BY <1>2, <2>1, <3>1
    <3>3. QED
      BY <1>1, <3>1, <3>2 DEF EventRow
  <2>2. CASE ~Settleable(e)
    BY <1>1, <1>2, <2>2
  <2>3. QED
    BY <2>1, <2>2
<1>4. event' = [event EXCEPT ![e] = row]
  BY <1>1, <1>2 DEF SettleEvent, IInv, TypeOK
<1>5. row.status = "processed" => EffectDone(row.what)
  BY <1>1, <1>3 DEF IInv, ProcessedMeansDone
<1>6. Forward
  BY <1>1, <1>3, <1>4, EventForward DEF SettleEvent, IInv
<1>7. job' \in [Procs -> Job] /\ AllSound'
  BY <1>6, IdleIsSound, JobsKept DEF SettleEvent, IInv
<1>8. QED
  BY <1>1, <1>3, <1>4, <1>5, <1>6, <1>7, EventStep DEF SettleEvent

-----------------------------------------------------------------------------
(* Plans.                                                                  *)

(* Writing plans keeps the invariant.                                      *)
LEMMA PlanStep ==
  ASSUME IInv, UNCHANGED <<order, refunds, sub, event, sweep, credit>>,
         plan' \in [Plans -> PlanRow], \A pl \in Plans : plan'[pl].price \in Prices,
         UNCHANGED job \/ \E p \in Procs : job' = [job EXCEPT ![p] = Idle]
  PROVE  IInv'
<1>1. Forward
  BY DEF Forward, credit
<1>2. job' \in [Procs -> Job] /\ AllSound'
  BY <1>1, JobsStay, JobsKept, IdleIsSound DEF IInv
<1>3. TypeOK' /\ RowsWhole'
  BY <1>2 DEF IInv, TypeOK, RowsWhole, credit
<1>4. PaidMeansGranted' /\ OnlyPaidReversed' /\ OneRefundRow'
  BY DEF IInv, PaidMeansGranted, OnlyPaidReversed, OneRefundRow, credit
<1>5. QED
  BY <1>1, <1>2, <1>3, <1>4, DoneStays DEF IInv

(* An edit writes the price it brought.                                    *)
LEMMA WritePlanStep ==
  ASSUME IInv, NEW p \in Procs, WritePlan(p)
  PROVE  IInv'
<1>1. job[p].plan \in Plans /\ job[p].price \in Prices /\ job[p].price \in Nat
  BY PaymentsAssumption DEF WritePlan, At, IInv, AllSound, Sound, Learnt
<1>2. plan' \in [Plans -> PlanRow] /\ \A pl \in Plans : plan'[pl].price \in Prices
  BY <1>1 DEF WritePlan, IInv, TypeOK, RowsWhole, PlanRow
<1>3. QED
  BY <1>2, PlanStep DEF WritePlan

(* Deleting and restoring leave prices.                                    *)
LEMMA DeletePlanStep ==
  ASSUME IInv, NEW pl \in Plans, DeletePlan(pl) \/ RestorePlan(pl)
  PROVE  IInv'
<1>1. plan' \in [Plans -> PlanRow] /\ \A x \in Plans : plan'[x].price \in Prices
  BY DEF DeletePlan, RestorePlan, IInv, TypeOK, RowsWhole, PlanRow
<1>2. QED
  BY <1>1, PlanStep DEF DeletePlan, RestorePlan

-----------------------------------------------------------------------------
(* The invariant.                                                          *)

(* The invariant holds at the start.                                       *)
LEMMA InitIInv == Init => IInv
<1> SUFFICES ASSUME Init PROVE IInv
  OBVIOUS
<1>1. /\ NoOrder \in OrderRow /\ NoOrder.status = "none"
      /\ NoSub \in SubRow
      /\ NoEvent \in EventRow /\ NoEvent.status = "none"
      /\ Idle \in Job
  BY IdleIsSound DEF NoOrder, OrderRow, NoSub, SubRow, NoEvent, EventRow, NoPayload, Payload
<1>2. /\ order \in [Orders -> OrderRow]
      /\ \A o \in Orders : /\ order[o].status \in {"none", "pending"}
                           /\ order[o].status # "none" => order[o].plan \in Plans /\ order[o].team \in Teams
  <2>1. PICK team \in [DOMAIN Placed -> Teams] :
          order = [o \in Orders |-> IF o \notin DOMAIN Placed THEN NoOrder
                                    ELSE [NoOrder EXCEPT !.status = "pending",
                                            !.plan = Placed[o], !.team = team[o]]]
    BY DEF Init
  <2>2. ASSUME NEW o \in Orders
        PROVE  /\ order[o] \in OrderRow
               /\ order[o].status \in {"none", "pending"}
               /\ order[o].status # "none" => order[o].plan \in Plans /\ order[o].team \in Teams
    <3>1. CASE o \notin DOMAIN Placed
      BY <1>1, <2>1, <3>1
    <3>2. CASE o \in DOMAIN Placed
      <4>1. Placed[o] \in Plans /\ team[o] \in Teams
        BY <3>2, PaymentsAssumption
      <4>2. order[o] = [NoOrder EXCEPT !.status = "pending", !.plan = Placed[o], !.team = team[o]]
        BY <2>1, <3>2
      <4>3. QED
        BY <4>1, <4>2 DEF NoOrder, OrderRow, OrderStatus
    <3>3. QED
      BY <3>1, <3>2
  <2>3. QED
    BY <2>1, <2>2
<1>3. plan \in [Plans -> PlanRow] /\ \A pl \in Plans : plan[pl].price \in Prices
  BY PaymentsAssumption DEF Init, PlanRow
<1>4. TypeOK
  BY <1>1, <1>2, <1>3, PaymentsAssumption DEF Init, TypeOK
<1>5. RowsWhole
  BY <1>1, <1>2, <1>3 DEF Init, RowsWhole
<1>6. AllSound
  BY IdleIsSound DEF Init, AllSound
<1>7. PaidMeansGranted /\ OnlyPaidReversed /\ OneRefundRow
  <2>1. \A o \in Orders : /\ order[o].status \in {"none", "pending"}
                          /\ refunds[o] = 0 /\ reversed[o] = 0
    BY <1>2 DEF Init
  <2>2. QED
    BY <2>1 DEF PaidMeansGranted, OnlyPaidReversed, OneRefundRow
<1>8. ProcessedMeansDone
  BY <1>1 DEF Init, ProcessedMeansDone
<1>9. QED
  BY <1>4, <1>5, <1>6, <1>7, <1>8 DEF IInv

(* Every step keeps the invariant.                                         *)
LEMMA NextIInv == IInv /\ [Next]_vars => IInv'
<1> SUFFICES ASSUME IInv, [Next]_vars PROVE IInv'
  OBVIOUS
<1>1. ASSUME NEW p \in Procs, Confirming(p) PROVE IInv'
  BY <1>1, ConfirmReadStep, ConfirmPlanStep, MarkConfirmingStep, GrantAnsweredStep,
     GrantAnswerLostStep, MarkPaidStep DEF Confirming
<1>2. ASSUME NEW p \in Procs, Throws(p) \/ Crash(p) PROVE IInv'
  BY <1>2, ThrowsStep, CrashStep
<1>3. ASSUME NEW p \in Workers, Request(p) PROVE IInv'
  <2>1. p \in Procs
    BY DEF Procs
  <2>2. CASE AskOrder(p) \/ AskAward(p) \/ CreateOrder(p) \/ ConfirmRequest(p)
    BY <2>1, <2>2, ReadSellableStep, CreateOrderStep, ConfirmRequestStep DEF AskOrder, AskAward
  <2>3. CASE \/ RefundRequest(p) \/ RefundRead(p) \/ RefundPlan(p)
             \/ ReverseAnswered(p) \/ ReverseAnswerLost(p) \/ CloseRefund(p)
    BY <2>1, <2>3, RefundRequestStep, RefundReadStep, RefundPlanStep, ReverseAnsweredStep,
       ReverseAnswerLostStep, CloseRefundStep
  <2>4. CASE SubscribePlan(p) \/ UpsertSubscription(p) \/ RenewAnswered(p) \/ RenewAnswerLost(p)
    BY <2>1, <2>4, SubscribePlanStep, UpsertSubscriptionStep, RenewStep
  <2>5. ASSUME NEW e \in Events, Deliver(p, e) \/ ReplayEvent(p, e) PROVE IInv'
    BY <2>1, <2>5, DeliverStep, ReplayEventStep
  <2>6. CASE SettleEvent(p) \/ EditPlan(p) \/ WritePlan(p)
    BY <2>1, <2>6, SettleEventStep, EditPlanStep, WritePlanStep
  <2>7. QED
    BY <1>3, <2>2, <2>3, <2>4, <2>5, <2>6
       DEF Request, OrderRequests, RefundRequests, ProviderRequests, ReplayRequests, PlanRequests
<1>4. ASSUME NEW s \in Sweepers, SweepStart(s) PROVE IInv'
  BY <1>4, SweepStartStep
<1>5. ASSUME NEW s \in Sweepers, NEW o \in Orders, SweepNext(s, o) PROVE IInv'
  BY <1>5, SweepNextStep
<1>6. ASSUME NEW e \in Events, RecordEvent(e) PROVE IInv'
  BY <1>6, RecordEventStep
<1>7. ASSUME NEW pl \in Plans, DeletePlan(pl) \/ RestorePlan(pl) PROVE IInv'
  BY <1>7, DeletePlanStep
<1>8. ASSUME NEW o \in Orders, Age(o) PROVE IInv'
  BY <1>8, AgeStep
<1>9. ASSUME NEW t \in Teams, UseCredit(t) PROVE IInv'
  BY <1>9, UseCreditStep
<1>10. CASE UNCHANGED vars
  <2>1. UNCHANGED <<payment, credit>> /\ UNCHANGED sweep /\ UNCHANGED job
    BY <1>10 DEF vars
  <2>2. AllSound' /\ job' \in [Procs -> Job]
    BY <2>1, StillForward, JobsStay DEF IInv
  <2>3. QED
    BY <2>1, <2>2, JobStep DEF IInv, TypeOK
<1>11. QED
  BY <1>1, <1>2, <1>3, <1>4, <1>5, <1>6, <1>7, <1>8, <1>9, <1>10
     DEF Next, SweepRequests, RecordRequests, LifecycleRequests

(* Every reachable state, with any number of jobs in flight, satisfies IInv. *)
THEOREM Invariance == Spec => []IInv
BY InitIInv, NextIInv, PTL DEF Spec

-----------------------------------------------------------------------------
(* Theorems.                                                               *)

(* Rows keep their schema; no team's credit is ever negative.              *)
THEOREM TypeCorrect == Spec => []TypeOK
BY Invariance, PTL DEF IInv

(* An order is paid or refunded only with its team's credit granted: by whichever
   confirmation, after whatever crashes, retries and lost answers.         *)
THEOREM PaidIsGranted == Spec => []PaidMeansGranted
BY Invariance, PTL DEF IInv

(* Credit is taken back only for an order that was paid and given credit.  *)
THEOREM ReversedWasPaid == Spec => []OnlyPaidReversed
BY Invariance, PTL DEF IInv

(* A refunded order has one refund row, and no other order has one.        *)
THEOREM RefundIsSingle == Spec => []OneRefundRow
BY Invariance, PTL DEF IInv

(* An event counts as processed only when what it asks for has happened.   *)
THEOREM ProcessedHasEffect == Spec => []ProcessedMeansDone
BY Invariance, PTL DEF IInv

(* Every step leaves an order's status or moves it on.                     *)
LEMMA StepAdvances ==
  ASSUME IInv, Next, NEW o \in Orders
  PROVE  Rank[order'[o].status] >= Rank[order[o].status]
<1> DEFINE Advances(old, new) ==
             \/ new = old
             \/ old = "none" /\ new = "pending"
             \/ old = "pending" /\ new = "confirming"
             \/ old \in {"pending", "confirming"} /\ new = "paid"
             \/ old = "paid" /\ new = "refunded"
<1>1. order \in [Orders -> OrderRow]
  BY DEF IInv, TypeOK
<1>2. Advances(order[o].status, order'[o].status)
  <2>1. ASSUME NEW p \in Procs, CreateOrder(p)
        PROVE  Advances(order[o].status, order'[o].status)
    BY <1>1, <2>1 DEF CreateOrder, NoOrder
  <2>2. ASSUME NEW p \in Procs, MarkConfirming(p)
        PROVE  Advances(order[o].status, order'[o].status)
    BY <1>1, <2>2 DEF MarkConfirming, SetStatus, OrderRow
  <2>3. ASSUME NEW p \in Procs, MarkPaid(p)
        PROVE  Advances(order[o].status, order'[o].status)
    BY <1>1, <2>3 DEF MarkPaid, SetStatus, Payable, OrderRow
  <2>4. ASSUME NEW p \in Procs, CloseRefund(p)
        PROVE  Advances(order[o].status, order'[o].status)
    BY <1>1, <2>4 DEF CloseRefund, SetStatus, Closable, OrderRow
  <2>5. ASSUME NEW d \in Orders, Age(d)
        PROVE  Advances(order[o].status, order'[o].status)
    BY <1>1, <2>5 DEF Age, OrderRow
  <2>6. ASSUME UNCHANGED order
        PROVE  Advances(order[o].status, order'[o].status)
    BY <2>6
  <2> HIDE DEF Advances
  <2>7. ASSUME NEW p \in Procs, Confirming(p) \/ Throws(p) \/ Crash(p)
        PROVE  Advances(order[o].status, order'[o].status)
    BY <2>2, <2>3, <2>6, <2>7 DEF Confirming, ConfirmRead, ConfirmPlan, GrantAnswered,
       GrantAnswerLost, Granting, Throws, Crash, payment
  <2>8. ASSUME NEW p \in Workers, Request(p)
        PROVE  Advances(order[o].status, order'[o].status)
    <3>1. p \in Procs
      BY DEF Procs
    <3>2. QED
      BY <2>1, <2>4, <2>6, <2>8, <3>1
         DEF Request, OrderRequests, RefundRequests, ProviderRequests, ReplayRequests,
         PlanRequests, AskOrder, AskAward, ReadSellable, ConfirmRequest, RefundRequest, RefundRead, RefundPlan, ReverseAnswered, ReverseAnswerLost, Reversing, SubscribePlan,
         UpsertSubscription, RenewAnswered, RenewAnswerLost, Renewing, Deliver, ReplayEvent,
         SettleEvent, EditPlan, WritePlan, payment
  <2>9. ASSUME NEW s \in Sweepers, SweepRequests(s)
        PROVE  Advances(order[o].status, order'[o].status)
    BY <2>6, <2>9 DEF SweepRequests, SweepStart, SweepNext, payment
  <2>10. QED
    BY <2>5, <2>6, <2>7, <2>8, <2>9 DEF Next, RecordRequests, RecordEvent,
       LifecycleRequests, DeletePlan, RestorePlan, UseCredit, payment
<1>3. order[o].status \in {"none", "pending", "confirming", "paid", "refunded"}
  BY <1>1 DEF OrderRow, OrderStatus
<1>4. QED
  BY <1>2, <1>3 DEF Rank

(* An order's status never goes back, whatever confirmation or refund wakes up late. *)
THEOREM StatusNeverBack == Spec => StatusAdvances
<1>1. IInv /\ [Next]_vars =>
        [\A o \in Orders : Rank[order'[o].status] >= Rank[order[o].status]]_order
  <2> SUFFICES ASSUME IInv, [Next]_vars, order' # order
               PROVE  \A o \in Orders : Rank[order'[o].status] >= Rank[order[o].status]
    OBVIOUS
  <2>1. Next
    BY DEF vars, payment
  <2>2. QED
    BY <2>1, StepAdvances
<1>2. QED
  BY <1>1, Invariance, PTL DEF Spec, StatusAdvances

(* Every step leaves a processed event.                                    *)
LEMMA StepKeepsProcessed ==
  ASSUME IInv, Next, NEW e \in Events, event[e].status = "processed"
  PROVE  event'[e] = event[e]
<1>1. event \in [Events -> EventRow]
  BY DEF IInv, TypeOK
<1>2. ASSUME NEW p \in Procs, NEW d \in Events, Deliver(p, d) PROVE event'[e] = event[e]
  BY <1>1, <1>2 DEF Deliver, Recordable, NoEvent
<1>3. ASSUME NEW p \in Procs, SettleEvent(p) PROVE event'[e] = event[e]
  BY <1>1, <1>3 DEF SettleEvent, Settleable
<1>4. ASSUME NEW d \in Events, RecordEvent(d) PROVE event'[e] = event[e]
  BY <1>1, <1>4 DEF RecordEvent, NoEvent
<1>5. ASSUME NEW p \in Procs, Confirming(p) \/ Throws(p) \/ Crash(p) PROVE event'[e] = event[e]
  BY <1>5 DEF Confirming, ConfirmRead, ConfirmPlan, MarkConfirming, GrantAnswered,
     GrantAnswerLost, Granting, MarkPaid, Throws, Crash, payment
<1>6. ASSUME NEW p \in Workers, Request(p) PROVE event'[e] = event[e]
  <2>1. p \in Procs
    BY DEF Procs
  <2>2. QED
    BY <1>2, <1>3, <1>6, <2>1
       DEF Request, OrderRequests, RefundRequests, ProviderRequests, ReplayRequests,
       PlanRequests, AskOrder, AskAward, ReadSellable, CreateOrder, ConfirmRequest,
       RefundRequest, RefundRead, RefundPlan, ReverseAnswered, ReverseAnswerLost, Reversing,
       CloseRefund, SubscribePlan, UpsertSubscription, RenewAnswered, RenewAnswerLost,
       Renewing, ReplayEvent, EditPlan, WritePlan, payment
<1>7. ASSUME NEW s \in Sweepers, SweepRequests(s)
      PROVE  event'[e] = event[e]
  BY <1>7 DEF SweepRequests, SweepStart, SweepNext, payment
<1>8. QED
  BY <1>4, <1>5, <1>6, <1>7
     DEF Next, RecordRequests, LifecycleRequests, DeletePlan, RestorePlan, Age, UseCredit, payment

(* A processed event is final: neither a late failure nor a replay rewrites it. *)
THEOREM ProcessedForGood == Spec => ProcessedIsFinal
<1>1. IInv /\ [Next]_vars =>
        [\A e \in Events : event[e].status = "processed" => event'[e] = event[e]]_event
  <2> SUFFICES ASSUME IInv, [Next]_vars, event' # event
               PROVE  \A e \in Events : event[e].status = "processed" => event'[e] = event[e]
    OBVIOUS
  <2>1. Next
    BY DEF vars, payment
  <2>2. QED
    BY <2>1, StepKeepsProcessed
<1>2. QED
  BY <1>1, Invariance, PTL DEF Spec, ProcessedIsFinal

-----------------------------------------------------------------------------
(* Refinement.                                                             *)

(* Purchase promises that what is taken back is what was given, which holds while
   every plan keeps one positive price.                                    *)
FixedPrice == \E n \in Nat \ {0} : Prices = {n}

(* Both entries of an order are of that price, and the one that takes back exists
   before the order is closed.                                             *)
Balanced ==
  /\ \A o \in Orders : /\ granted[o] > 0 => granted[o] \in Prices
                       /\ reversed[o] > 0 => reversed[o] \in Prices
                       /\ order[o].status = "refunded" => reversed[o] > 0
  /\ \A p \in Procs : job[p].at = "close" => reversed[job[p].order] > 0

(* One positive price: any two prices are equal and none is 0.             *)
LEMMA FixedPriceFacts ==
  ASSUME FixedPrice
  PROVE  /\ 0 \notin Prices
         /\ \A x, y \in Prices : x = y /\ x \in Nat /\ x > 0
BY DEF FixedPrice

(* No job comes to the step that closes a refund.                          *)
NoneComesToClose ==
  \A q \in Procs : job'[q].at = "close" => job[q].at = "close" /\ job'[q].order = job[q].order

(* The ways to move a job, none of which leads to close.                   *)
LEMMA MovesElsewhere ==
  ASSUME IInv, NEW p \in Procs,
         \/ UNCHANGED job
         \/ \E ok \in BOOLEAN : Finish(p, ok)
         \/ \E step \in Steps \ {"close"}, fields \in Job : Begin(p, step, fields)
         \/ \E step \in Steps \ {"close"} : Goto(p, step)
         \/ \E step \in Steps \ {"close"}, pl \in Plans : ReadPlan(p, pl, step)
         \/ job' = [job EXCEPT ![p] = Idle]
  PROVE  NoneComesToClose
<1>1. job \in [Procs -> Job] /\ Idle.at = "idle"
  BY DEF IInv, TypeOK, Idle
<1>2. CASE UNCHANGED job
  BY <1>2 DEF NoneComesToClose
<1>3. ASSUME NEW ok \in BOOLEAN, Finish(p, ok) PROVE NoneComesToClose
  <2>1. PICK j : /\ j = IF job[p].event = None THEN Idle
                         ELSE [job[p] EXCEPT !.at = "end", !.ok = ok]
                 /\ job' = [job EXCEPT ![p] = j]
    BY <1>1, <1>3 DEF Finish
  <2>2. j.at # "close"
    BY <1>1, <2>1 DEF Job
  <2>3. QED
    BY <1>1, <2>1, <2>2 DEF NoneComesToClose
<1>4. ASSUME NEW step \in Steps \ {"close"}, NEW fields \in Job, Begin(p, step, fields)
      PROVE  NoneComesToClose
  BY <1>1, <1>4 DEF Begin, NoneComesToClose, Job
<1>5. ASSUME NEW step \in Steps \ {"close"}, Goto(p, step) PROVE NoneComesToClose
  BY <1>1, <1>5 DEF Goto, NoneComesToClose, Job
<1>6. ASSUME NEW step \in Steps \ {"close"}, NEW pl \in Plans, ReadPlan(p, pl, step)
      PROVE  NoneComesToClose
  BY <1>1, <1>6 DEF ReadPlan, NoneComesToClose, Job
<1>7. CASE job' = [job EXCEPT ![p] = Idle]
  BY <1>1, <1>7 DEF NoneComesToClose
<1>8. QED
  BY <1>2, <1>3, <1>4, <1>5, <1>6, <1>7

(* A step that moves no credit of an order and leaves it open, paid or refunded
   is no step of Purchase.                                                 *)
LEMMA Stutters ==
  ASSUME Balanced, NoneComesToClose, UNCHANGED <<granted, reversed>>,
         \A o \in Orders : /\ PurchaseState(o)' = PurchaseState(o)
                           /\ order'[o].status = "refunded" => order[o].status = "refunded"
  PROVE  Balanced' /\ UNCHANGED Abstract!vars
<1>1. Balanced'
  BY DEF Balanced, NoneComesToClose
<1>2. UNCHANGED Abstract!vars
  BY DEF Abstract!vars
<1>3. QED
  BY <1>1, <1>2

(* A step that writes no order and moves none of its credit.               *)
LEMMA UnwrittenOrderStutters ==
  ASSUME Balanced, NoneComesToClose, UNCHANGED <<order, granted, reversed>>
  PROVE  Balanced' /\ UNCHANGED Abstract!vars
BY Stutters DEF PurchaseState

(* No confirmation comes to close a refund.                                *)
LEMMA ConfirmationsMoveElsewhere ==
  ASSUME IInv, NEW p \in Procs, Confirming(p) \/ Throws(p) \/ Crash(p)
  PROVE  NoneComesToClose
<1>1. CASE ConfirmRead(p)
  BY <1>1, MovesElsewhere DEF ConfirmRead, Steps
<1>2. CASE ConfirmPlan(p)
  <2>1. order[job[p].order].plan \in Plans
    BY <1>2 DEF ConfirmPlan, At, IInv, RowsWhole, AllSound, Sound, Learnt
  <2>2. QED
    BY <1>2, <2>1, MovesElsewhere DEF ConfirmPlan, Steps
<1>3. CASE MarkConfirming(p)
  <2>1. AfterMark(p) \in Steps \ {"close"}
    BY DEF AfterMark, Steps
  <2>2. QED
    BY <1>3, <2>1, MovesElsewhere DEF MarkConfirming
<1>4. CASE GrantAnswered(p) \/ GrantAnswerLost(p)
  BY <1>4, MovesElsewhere DEF GrantAnswered, GrantAnswerLost, Steps
<1>5. CASE MarkPaid(p)
  <2>1. \E ok \in BOOLEAN : Finish(p, ok)
    BY <1>5 DEF MarkPaid, Payable
  <2>2. QED
    BY <2>1, MovesElsewhere
<1>6. CASE Throws(p) \/ Crash(p)
  BY <1>6, MovesElsewhere DEF Throws, Crash
<1>7. QED
  BY <1>1, <1>2, <1>3, <1>4, <1>5, <1>6 DEF Confirming

(* Of all requests only an answered reversal comes to close a refund.      *)
LEMMA RequestsMoveElsewhere ==
  ASSUME IInv, FixedPrice, NEW p \in Procs, Request(p), ~ReverseAnswered(p)
  PROVE  NoneComesToClose
<1>1. CASE AskOrder(p) \/ AskAward(p) \/ ConfirmRequest(p) \/ RefundRequest(p) \/ EditPlan(p)
  <2>1. ASSUME NEW o \in Orders \cup {None}, NEW pl \in Plans \cup {None}, NEW n \in Nat
        PROVE  /\ [Idle EXCEPT !.order = o] \in Job
               /\ [Idle EXCEPT !.plan = pl] \in Job
               /\ [Idle EXCEPT !.plan = pl, !.price = n] \in Job
    BY DEF Idle, Job, Steps
  <2>2. \E step \in Steps \ {"close"}, fields \in Job : Begin(p, step, fields)
    <3>1. CASE AskOrder(p) \/ AskAward(p)
      BY <2>1, <3>1 DEF AskOrder, AskAward, ReadSellable, Steps
    <3>2. CASE ConfirmRequest(p) \/ RefundRequest(p)
      BY <2>1, <3>2 DEF ConfirmRequest, RefundRequest, Steps
    <3>3. CASE EditPlan(p)
      BY <2>1, <3>3, PaymentsAssumption DEF EditPlan, Steps
    <3>4. QED
      BY <1>1, <3>1, <3>2, <3>3
  <2>3. QED
    BY <2>2, MovesElsewhere
<1>2. CASE CreateOrder(p)
  <2>1. PICK j : j.at # "close" /\ job' = [job EXCEPT ![p] = j]
    BY <1>2 DEF CreateOrder, Idle
  <2>2. QED
    BY <2>1 DEF NoneComesToClose, IInv, TypeOK
<1>3. CASE RefundRead(p)
  <2>1. Goto(p, "price") \/ \E ok \in BOOLEAN : Finish(p, ok)
    BY <1>3 DEF RefundRead
  <2>2. QED
    BY <2>1, MovesElsewhere DEF Steps
<1>4. CASE RefundPlan(p)
  <2>1. PICK pl \in Plans : pl = order[job[p].order].plan /\ plan[pl].price > 0
    BY <1>4, FixedPriceFacts DEF RefundPlan, At, IInv, RowsWhole, AllSound, Sound, Learnt
  <2>2. ReadPlan(p, pl, "reverse")
    BY <1>4, <2>1 DEF RefundPlan
  <2>3. QED
    BY <2>2, MovesElsewhere DEF Steps
<1>5. CASE ReverseAnswerLost(p)
  BY <1>5, MovesElsewhere DEF ReverseAnswerLost
<1>6. CASE CloseRefund(p)
  <2>1. \E ok \in BOOLEAN : Finish(p, ok)
    BY <1>6 DEF CloseRefund, Closable
  <2>2. QED
    BY <2>1, MovesElsewhere
<1>7. CASE SubscribePlan(p)
  <2>1. event[job[p].event].what.plan \in Plans
    BY <1>7, SubPayloadShape DEF SubscribePlan, At, IInv, AllSound, Sound, Serves, Asked
  <2>2. QED
    BY <1>7, <2>1, MovesElsewhere DEF SubscribePlan, Steps
<1>8. CASE UpsertSubscription(p) \/ RenewAnswered(p) \/ RenewAnswerLost(p)
  BY <1>8, MovesElsewhere DEF UpsertSubscription, RenewAnswered, RenewAnswerLost, Steps
<1>9. ASSUME NEW e \in Events, Deliver(p, e) \/ ReplayEvent(p, e)
      PROVE  NoneComesToClose
  <2>1. PICK what \in Payloads : Process(p, e, what)
    BY <1>9 DEF Deliver, ReplayEvent, IInv, RowsWhole
  <2>2. PICK fields : fields = [Idle EXCEPT !.event = e, !.order = what.order,
                                            !.ok = what.kind = "other"]
    OBVIOUS
  <2>3. fields \in Job
    BY <2>2, PayloadShape, PaymentsAssumption DEF Idle, Job, Steps, Payload
  <2>4. FirstStep(what) \in Steps \ {"close"}
    BY DEF FirstStep, Steps
  <2>5. Begin(p, FirstStep(what), fields)
    BY <2>1, <2>2 DEF Process
  <2>6. QED
    BY <2>3, <2>4, <2>5, MovesElsewhere
<1>10. CASE SettleEvent(p) \/ WritePlan(p)
  BY <1>10, MovesElsewhere DEF SettleEvent, WritePlan
<1>11. QED
  BY <1>1, <1>2, <1>3, <1>4, <1>5, <1>6, <1>7, <1>8, <1>9, <1>10
     DEF Request, OrderRequests, RefundRequests, ProviderRequests, ReplayRequests, PlanRequests

(* A grant is Give the first time and nothing after that.                  *)
LEMMA GrantingGives ==
  ASSUME IInv, FixedPrice, Balanced, NEW p \in Procs, Granting(p), NoneComesToClose
  PROVE  Balanced' /\ [Abstract!Next]_(Abstract!vars)
<1> DEFINE o == job[p].order
<1>1. /\ o \in Orders /\ job[p].price \in Prices
      /\ job[p].price \in Nat /\ job[p].price > 0
  BY FixedPriceFacts DEF IInv, AllSound, Sound, Learnt, Granting, At
<1>2. granted \in [Orders -> Nat] /\ UNCHANGED <<order, reversed>>
  BY DEF Granting, payment, IInv, TypeOK
<1>3. CASE granted[o] > 0
  <2>1. granted' = granted
    BY <1>1, <1>2, <1>3 DEF Granting, GrantEntry
  <2>2. QED
    BY <1>2, <2>1, UnwrittenOrderStutters
<1>4. CASE ~(granted[o] > 0)
  <2>1. granted[o] = 0
    BY <1>1, <1>2, <1>4
  <2>2. granted' = [granted EXCEPT ![o] = job[p].price]
    BY <1>4 DEF Granting, GrantEntry
  <2>3. order[o].status \notin {"paid", "refunded"}
    BY <1>1, <2>1, FixedPriceFacts DEF IInv, PaidMeansGranted
  <2>4. Abstract!Give(o)
    <3>1. PurchaseState(o) = "open"
      BY <2>3 DEF PurchaseState
    <3>2. UNCHANGED [d \in Orders |-> PurchaseState(d)]
      BY <1>2 DEF PurchaseState
    <3>3. granted'[o] = job[p].price /\ granted' = [granted EXCEPT ![o] = granted'[o]]
      BY <1>1, <1>2, <2>2
    <3>4. QED
      BY <1>1, <1>2, <2>1, <3>1, <3>2, <3>3 DEF Abstract!Give
  <2>5. Balanced'
    BY <1>1, <1>2, <2>2 DEF Balanced, NoneComesToClose
  <2>6. QED
    BY <1>1, <2>4, <2>5 DEF Abstract!Next
<1>5. QED
  BY <1>3, <1>4

(* A reversal is Take the first time and nothing after that.               *)
LEMMA ReversingTakes ==
  ASSUME IInv, FixedPrice, Balanced, NEW p \in Procs, Reversing(p),
         Goto(p, "close") \/ NoneComesToClose
  PROVE  Balanced' /\ [Abstract!Next]_(Abstract!vars)
<1> DEFINE o == job[p].order
<1>1. /\ job[p] \in Job /\ o \in Orders /\ order[o].status \in {"paid", "refunded"}
      /\ job[p].price \in Prices /\ job[p].price \in Nat /\ job[p].price > 0
  BY FixedPriceFacts DEF IInv, TypeOK, AllSound, Sound, Learnt, Reversing, At
<1>2. reversed \in [Orders -> Nat] /\ UNCHANGED <<order, granted>>
  BY DEF Reversing, payment, IInv, TypeOK
<1>3. PICK n : /\ n = ReversalEntry(o, job[p].price)
               /\ reversed' = [reversed EXCEPT ![o] = n]
               /\ n \in Prices /\ n > 0
               /\ reversed[o] > 0 => n = reversed[o]
  BY <1>1, <1>2, FixedPriceFacts DEF Reversing, ReversalEntry, Balanced
<1>4. Balanced'
  <2>1. ASSUME NEW q \in Procs, job'[q].at = "close" PROVE reversed'[job'[q].order] > 0
    <3>1. job'[q].order \in Orders /\ (job'[q].order = o \/ reversed[job'[q].order] > 0)
      <4>1. CASE NoneComesToClose
        BY <2>1, <4>1 DEF NoneComesToClose, Balanced, IInv, AllSound, Sound, Learnt
      <4>2. CASE Goto(p, "close") /\ q = p
        BY <1>1, <2>1, <4>2 DEF Goto, IInv, TypeOK, Job
      <4>3. CASE Goto(p, "close") /\ q # p
        BY <2>1, <4>3 DEF Goto, Balanced, IInv, TypeOK, AllSound, Sound, Learnt
      <4>4. QED
        BY <4>1, <4>2, <4>3
    <3>2. QED
      BY <1>2, <1>3, <3>1
  <2>2. QED
    BY <1>1, <1>2, <1>3, <2>1 DEF Balanced
<1>5. CASE reversed[o] > 0
  <2>1. reversed' = reversed
    BY <1>2, <1>3, <1>5
  <2>2. UNCHANGED Abstract!vars
    BY <1>2, <2>1 DEF Abstract!vars, PurchaseState
  <2>3. QED
    BY <1>4, <2>2
<1>6. CASE ~(reversed[o] > 0)
  <2>1. reversed[o] = 0 /\ order[o].status = "paid"
    BY <1>1, <1>2, <1>6 DEF Balanced
  <2>2. granted[o] = n
    BY <1>1, <1>3, FixedPriceFacts DEF Balanced, IInv, PaidMeansGranted
  <2>3. Abstract!Take(o)
    BY <1>1, <1>2, <1>3, <2>1, <2>2 DEF Abstract!Take, PurchaseState
  <2>4. QED
    BY <1>1, <1>4, <2>3 DEF Abstract!Next
<1>7. QED
  BY <1>5, <1>6

(* Marking an order paid is Pay.                                           *)
LEMMA MarkPaidPays ==
  ASSUME IInv, FixedPrice, Balanced, NEW p \in Procs, MarkPaid(p), NoneComesToClose
  PROVE  Balanced' /\ [Abstract!Next]_(Abstract!vars)
<1> DEFINE o == job[p].order
<1>1. /\ o \in Orders /\ granted[o] > 0
      /\ order \in [Orders -> OrderRow] /\ UNCHANGED <<granted, reversed>>
  BY FixedPriceFacts DEF IInv, TypeOK, AllSound, Sound, Learnt, MarkPaid, At, credit
<1>2. CASE Payable(o)
  <2>1. \A d \in Orders : order'[d].status = IF d = o THEN "paid" ELSE order[d].status
    BY <1>1, <1>2 DEF MarkPaid, SetStatus, OrderRow
  <2>2. Abstract!Pay(o)
    BY <1>1, <1>2, <2>1 DEF Abstract!Pay, PurchaseState, Payable
  <2>3. Balanced'
    BY <1>1, <2>1 DEF Balanced, NoneComesToClose
  <2>4. QED
    BY <1>1, <2>2, <2>3 DEF Abstract!Next
<1>3. CASE ~Payable(o)
  BY <1>1, <1>3, UnwrittenOrderStutters DEF MarkPaid
<1>4. QED
  BY <1>2, <1>3

(* Closing a refund is Refund, in full.                                    *)
LEMMA CloseRefunds ==
  ASSUME IInv, FixedPrice, Balanced, NEW p \in Procs, CloseRefund(p), NoneComesToClose
  PROVE  Balanced' /\ [Abstract!Next]_(Abstract!vars)
<1> DEFINE o == job[p].order
<1>1. /\ o \in Orders /\ reversed[o] > 0
      /\ order \in [Orders -> OrderRow] /\ UNCHANGED <<granted, reversed>>
  BY DEF IInv, TypeOK, AllSound, Sound, Learnt, CloseRefund, At, credit, Balanced
<1>2. CASE Closable(o)
  <2>1. \A d \in Orders : order'[d].status = IF d = o THEN "refunded" ELSE order[d].status
    BY <1>1, <1>2 DEF CloseRefund, SetStatus, OrderRow
  <2>2. reversed[o] = granted[o]
    BY <1>1, <1>2, FixedPriceFacts DEF Balanced, IInv, PaidMeansGranted, Closable
  <2>3. Abstract!Refund(o)
    BY <1>1, <1>2, <2>1, <2>2 DEF Abstract!Refund, PurchaseState, Closable
  <2>4. Balanced'
    BY <1>1, <2>1 DEF Balanced, NoneComesToClose
  <2>5. QED
    BY <1>1, <2>3, <2>4 DEF Abstract!Next
<1>3. CASE ~Closable(o)
  BY <1>1, <1>3, UnwrittenOrderStutters DEF CloseRefund
<1>4. QED
  BY <1>2, <1>3

(* Every step is a step of Purchase or none.                               *)
LEMMA StepRefines ==
  ASSUME IInv, FixedPrice, Balanced, [Next]_vars
  PROVE  Balanced' /\ [Abstract!Next]_(Abstract!vars)
<1> DEFINE Refined == Balanced' /\ [Abstract!Next]_(Abstract!vars)
<1>1. ASSUME NoneComesToClose, UNCHANGED <<order, granted, reversed>> PROVE Refined
  BY <1>1, UnwrittenOrderStutters
<1>2. ASSUME NEW p \in Procs, Confirming(p) \/ Throws(p) \/ Crash(p) PROVE Refined
  <2>1. NoneComesToClose
    BY <1>2, ConfirmationsMoveElsewhere
  <2>2. CASE MarkConfirming(p)
    <3>1. \A d \in Orders : \/ order'[d].status = order[d].status
                            \/ order[d].status = "pending" /\ order'[d].status = "confirming"
      <4>1. order \in [Orders -> OrderRow] /\ job[p].order \in Orders
        BY <2>2 DEF MarkConfirming, At, IInv, TypeOK, AllSound, Sound, Learnt
      <4>2. CASE order[job[p].order].status = "pending"
        BY <2>2, <4>1, <4>2 DEF MarkConfirming, SetStatus, OrderRow
      <4>3. CASE order[job[p].order].status # "pending"
        BY <2>2, <4>3 DEF MarkConfirming
      <4>4. QED
        BY <4>2, <4>3
    <3>2. QED
      BY <2>1, <2>2, <3>1, Stutters DEF MarkConfirming, credit, PurchaseState
  <2>3. CASE GrantAnswered(p) \/ GrantAnswerLost(p)
    BY <2>1, <2>3, GrantingGives DEF GrantAnswered, GrantAnswerLost
  <2>4. CASE MarkPaid(p)
    BY <2>1, <2>4, MarkPaidPays
  <2>5. CASE ConfirmRead(p) \/ ConfirmPlan(p) \/ Throws(p) \/ Crash(p)
    BY <1>1, <2>1, <2>5 DEF ConfirmRead, ConfirmPlan, Throws, Crash, payment, credit
  <2>6. QED
    BY <1>2, <2>2, <2>3, <2>4, <2>5 DEF Confirming
<1>3. ASSUME NEW p \in Workers, Request(p) PROVE Refined
  <2>1. p \in Procs
    BY DEF Procs
  <2>2. CASE ReverseAnswered(p)
    BY <2>1, <2>2, ReversingTakes DEF ReverseAnswered
  <2>3. CASE ~ReverseAnswered(p)
    <3>1. NoneComesToClose
      BY <1>3, <2>1, <2>3, RequestsMoveElsewhere
    <3>2. CASE CreateOrder(p)
      <4>1. \A d \in Orders : \/ order'[d].status = order[d].status
                              \/ order[d].status = "none" /\ order'[d].status = "pending"
        BY <3>2 DEF CreateOrder, NoOrder, IInv, TypeOK, OrderRow
      <4>2. QED
        BY <3>1, <3>2, <4>1, Stutters DEF CreateOrder, credit, PurchaseState
    <3>3. CASE ReverseAnswerLost(p)
      BY <2>1, <3>1, <3>3, ReversingTakes DEF ReverseAnswerLost
    <3>4. CASE CloseRefund(p)
      BY <2>1, <3>1, <3>4, CloseRefunds
    <3>5. CASE ~(CreateOrder(p) \/ ReverseAnswerLost(p) \/ CloseRefund(p))
      BY <1>1, <1>3, <2>3, <3>1, <3>5
         DEF Request, OrderRequests, RefundRequests, ProviderRequests, ReplayRequests,
         PlanRequests, AskOrder, AskAward, ReadSellable, ConfirmRequest, RefundRequest, RefundRead, RefundPlan, SubscribePlan, UpsertSubscription, RenewAnswered,
         RenewAnswerLost, Renewing, Deliver, ReplayEvent, SettleEvent, EditPlan, WritePlan,
         payment, credit
    <3>6. QED
      BY <3>2, <3>3, <3>4, <3>5
  <2>4. QED
    BY <2>2, <2>3
<1>4. ASSUME NEW s \in Sweepers, SweepStart(s) PROVE Refined
  BY <1>1, <1>4 DEF SweepStart, NoneComesToClose, payment, credit
<1>5. ASSUME NEW s \in Sweepers, NEW o \in Orders, SweepNext(s, o) PROVE Refined
  <2>1. s \in Procs /\ [Idle EXCEPT !.order = o] \in Job
    BY DEF Procs, Idle, Job, Steps
  <2>2. NoneComesToClose
    BY <1>5, <2>1, MovesElsewhere DEF SweepNext, Steps
  <2>3. QED
    BY <1>1, <1>5, <2>2 DEF SweepNext, payment, credit
<1>6. ASSUME NEW o \in Orders, Age(o) PROVE Refined
  <2>1. \A d \in Orders : order'[d].status = order[d].status
    BY <1>6 DEF Age, IInv, TypeOK, OrderRow
  <2>2. QED
    BY <1>6, <2>1, Stutters DEF Age, credit, PurchaseState, NoneComesToClose
<1>7. CASE \/ \E e \in Events : RecordEvent(e)
           \/ \E pl \in Plans : DeletePlan(pl) \/ RestorePlan(pl)
           \/ \E t \in Teams : UseCredit(t)
           \/ UNCHANGED vars
  BY <1>1, <1>7 DEF RecordEvent, DeletePlan, RestorePlan, UseCredit, vars, NoneComesToClose,
     payment, credit
<1>8. QED
  BY <1>2, <1>3, <1>4, <1>5, <1>6, <1>7
     DEF Next, SweepRequests, RecordRequests, LifecycleRequests

(* With plans of one price the payment service implements Purchase, for any number
   of orders, requests, sweeps, events and failures: every order moves its credit
   to the team once, before it counts as paid, and back once and in full, before
   it counts as refunded.                                                  *)
THEOREM PurchaseImplemented == FixedPrice /\ Spec => ImplementsPurchase
<1>1. FixedPrice /\ Init => FixedPrice /\ IInv /\ Balanced /\ Abstract!Init
  <2> SUFFICES ASSUME FixedPrice, Init PROVE Balanced /\ Abstract!Init
    BY InitIInv
  <2>1. \A o \in Orders : order[o].status \in {"none", "pending"}
    <3>1. PICK team \in [DOMAIN Placed -> Teams] :
            order = [o \in Orders |-> IF o \notin DOMAIN Placed THEN NoOrder
                                      ELSE [NoOrder EXCEPT !.status = "pending",
                                              !.plan = Placed[o], !.team = team[o]]]
      BY DEF Init
    <3>2. QED
      BY <3>1 DEF NoOrder
  <2>2. Balanced
    <3>1. /\ \A o \in Orders : granted[o] = 0 /\ reversed[o] = 0
          /\ \A p \in Procs : job[p].at = "idle"
      BY DEF Init, Idle
    <3>2. QED
      BY <2>1, <3>1 DEF Balanced
  <2>3. Abstract!Init
    BY <2>1 DEF Init, Abstract!Init, PurchaseState
  <2>4. QED
    BY <2>2, <2>3
<1>2. FixedPrice /\ IInv /\ Balanced /\ [Next]_vars
        => (FixedPrice /\ IInv /\ Balanced)' /\ [Abstract!Next]_(Abstract!vars)
  BY NextIInv, StepRefines DEF FixedPrice
<1>3. QED
  BY <1>1, <1>2, PTL DEF Spec, ImplementsPurchase, Abstract!Spec

-----------------------------------------------------------------------------
(* What the adapters make of notifications.                                *)

(* Each notification goes to the adapter of its provider.                  *)
LEMMA Parsed ==
  ASSUME NEW n
  PROVE  /\ n.provider = "stripe" => Adapters!Parse(n) = Adapters!ParseStripe(n)
         /\ n.provider = "wechat" => Adapters!Parse(n) = Adapters!ParseWechat(n)
         /\ n.provider = "alipay" => Adapters!Parse(n) = Adapters!ParseAlipay(n)
         /\ n.provider = "mock" => Adapters!Parse(n) = Adapters!ParseMock(n)
BY DEF Adapters!Parse

(* Stripe's notifications about orders.                                    *)
LEMMA StripeOrdersParsed ==
  ASSUME NEW r \in Adapters!StripeReports
  PROVE  Adapters!Parse(r.notice) = r.fact
<1>1. None \notin Orders
  BY PaymentsAssumption
<1>2. ASSUME NEW o \in Orders, NEW n, n = [Adapters!Stripe("checkout.session.completed") EXCEPT !.order = o],
             r = Adapters!Report(Adapters!OfOrder("payment", o), n)
      PROVE  Adapters!Parse(r.notice) = r.fact
  <2>1. r.notice = n /\ r.fact = Adapters!OfOrder("payment", o)
    BY <1>2 DEF Adapters!Report
  <2>2. n.provider = "stripe" /\ n.type = "checkout.session.completed" /\ n.order = o
    BY <1>2 DEF Adapters!Stripe, Adapters!Notice
  <2>3. QED
    BY <1>1, <2>1, <2>2, Parsed DEF Adapters!ParseStripe, Adapters!SubscriptionTypes
<1>3. ASSUME NEW o \in Orders, NEW n, n = [Adapters!Stripe("charge.refunded") EXCEPT !.order = o],
             r = Adapters!Report(Adapters!OfOrder("refund", o), n)
      PROVE  Adapters!Parse(r.notice) = r.fact
  <2>1. r.notice = n /\ r.fact = Adapters!OfOrder("refund", o)
    BY <1>3 DEF Adapters!Report
  <2>2. n.provider = "stripe" /\ n.type = "charge.refunded" /\ n.order = o
    BY <1>3 DEF Adapters!Stripe, Adapters!Notice
  <2>3. QED
    BY <1>1, <2>1, <2>2, Parsed DEF Adapters!ParseStripe, Adapters!SubscriptionTypes
<1>4. QED
  BY <1>2, <1>3 DEF Adapters!StripeReports

(* Stripe's notifications about subscriptions.                             *)
LEMMA SubscriptionsParsed ==
  ASSUME NEW s, NEW pl \in Plans, NEW t \in Teams, NEW q, NEW status \in {"active", "past_due", "canceled"},
         NEW r, r = Adapters!StripeSubscription(s, pl, t, q, status)
  PROVE  Adapters!Parse(r.notice) = r.fact
<1>1. PICK native : native = IF status = "active" THEN "trialing"
                             ELSE IF status = "past_due" THEN "paused" ELSE "active"
  OBVIOUS
<1>2. PICK type : type = IF status = "canceled" THEN "customer.subscription.deleted"
                         ELSE IF status = "past_due" THEN "customer.subscription.paused"
                         ELSE "customer.subscription.updated"
  OBVIOUS
<1>3. PICK n : n = [Adapters!Stripe(type) EXCEPT !.sub = s, !.plan = pl, !.team = t, !.period = q,
                                                 !.status = native]
  OBVIOUS
<1>4. PICK fact : fact = [Adapters!Nothing EXCEPT !.kind = "subscription", !.sub = s, !.plan = pl, !.team = t,
                                !.period = q, !.status = status]
  OBVIOUS
<1>5. r.notice = n /\ r.fact = fact
  BY <1>1, <1>2, <1>3, <1>4 DEF Adapters!StripeSubscription, Adapters!Report
<1>6. /\ n.provider = "stripe" /\ n.type = type /\ n.sub = s /\ n.plan = pl /\ n.team = t
      /\ n.period = q /\ n.status = native
  BY <1>3 DEF Adapters!Stripe, Adapters!Notice
<1>7. pl # None /\ t # None
  BY PaymentsAssumption
<1>8. Adapters!OfSubscription(n, status) = fact
  BY <1>4, <1>6, <1>7 DEF Adapters!OfSubscription
<1>9. CASE status = "canceled"
  BY <1>2, <1>5, <1>6, <1>8, <1>9, Parsed DEF Adapters!ParseStripe, Adapters!SubscriptionTypes
<1>10. CASE status # "canceled"
  <2>1. /\ type \in {"customer.subscription.updated", "customer.subscription.paused"}
        /\ Adapters!StripeStatus(native) = status
    BY <1>1, <1>2, <1>10 DEF Adapters!StripeStatus
  <2>2. QED
    BY <1>5, <1>6, <1>8, <2>1, Parsed DEF Adapters!ParseStripe, Adapters!SubscriptionTypes
<1>11. QED
  BY <1>9, <1>10

(* Alipay's, WeChat's and the mock provider's, which name orders by trade number. *)
LEMMA TradesParsed ==
  ASSUME NEW r \in Adapters!AlipayReports \cup Adapters!WechatReports \cup Adapters!MockReports
  PROVE  Adapters!Parse(r.notice) = r.fact
<1>1. CASE r \in Adapters!AlipayReports
  <2>1. PICK o \in Orders :
          \/ r = Adapters!Report(Adapters!Nothing, Adapters!Alipay("WAIT_BUYER_PAY", o, FALSE))
          \/ r = Adapters!Report(Adapters!OfOrder("refund", o), Adapters!Alipay("TRADE_SUCCESS", o, TRUE))
    BY <1>1 DEF Adapters!AlipayReports
  <2>2. CASE r = Adapters!Report(Adapters!Nothing, Adapters!Alipay("WAIT_BUYER_PAY", o, FALSE))
    <3>1. PICK n : n = Adapters!Alipay("WAIT_BUYER_PAY", o, FALSE)
      OBVIOUS
    <3>2. r.notice = n /\ r.fact = Adapters!Nothing
      BY <2>2, <3>1 DEF Adapters!Report
    <3>3. n.provider = "alipay" /\ n.type = "WAIT_BUYER_PAY" /\ n.refundFee = FALSE
      BY <3>1 DEF Adapters!Alipay, Adapters!Notice
    <3>4. QED
      BY <3>2, <3>3, Parsed DEF Adapters!ParseAlipay
  <2>3. CASE r = Adapters!Report(Adapters!OfOrder("refund", o), Adapters!Alipay("TRADE_SUCCESS", o, TRUE))
    <3>1. PICK n : n = Adapters!Alipay("TRADE_SUCCESS", o, TRUE)
      OBVIOUS
    <3>2. r.notice = n /\ r.fact = Adapters!OfOrder("refund", o)
      BY <2>3, <3>1 DEF Adapters!Report
    <3>3. n.provider = "alipay" /\ n.refundFee = TRUE /\ Adapters!TradeOrder(n) = o
      BY <3>1 DEF Adapters!Alipay, Adapters!Notice, Adapters!TradeOrder
    <3>4. QED
      BY <3>2, <3>3, Parsed DEF Adapters!ParseAlipay
  <2>4. QED
    BY <2>1, <2>2, <2>3
<1>2. CASE r \in Adapters!WechatReports
  <2>1. PICK o \in Orders :
          \/ r = Adapters!Report(Adapters!OfOrder("refund", o), Adapters!Wechat("REFUND.SUCCESS", o))
          \/ r = Adapters!Report(Adapters!Nothing, Adapters!Wechat("REFUND.ABNORMAL", o))
    BY <1>2 DEF Adapters!WechatReports
  <2>2. PICK type, n :
          /\ n = Adapters!Wechat(type, o) /\ r.notice = n
          /\ \/ type = "REFUND.SUCCESS" /\ r.fact = Adapters!OfOrder("refund", o)
             \/ type = "REFUND.ABNORMAL" /\ r.fact = Adapters!Nothing
    BY <2>1 DEF Adapters!Report
  <2>3. n.provider = "wechat" /\ n.type = type /\ Adapters!TradeOrder(n) = o
    BY <2>2 DEF Adapters!Wechat, Adapters!Notice, Adapters!TradeOrder
  <2>4. CASE type = "REFUND.SUCCESS"
    BY <2>2, <2>3, <2>4, Parsed DEF Adapters!ParseWechat
  <2>5. CASE type = "REFUND.ABNORMAL"
    BY <2>2, <2>3, <2>5, Parsed DEF Adapters!ParseWechat
  <2>6. QED
    BY <2>2, <2>4, <2>5
<1>3. CASE r \in Adapters!MockReports
  <2>1. PICK o \in Orders :
          r = Adapters!Report(Adapters!OfOrder("payment", o),
                              [Adapters!Notice EXCEPT !.type = "payment_succeeded", !.order = o])
    BY <1>3 DEF Adapters!MockReports
  <2>2. PICK n : n = [Adapters!Notice EXCEPT !.type = "payment_succeeded", !.order = o]
    OBVIOUS
  <2>3. r.notice = n /\ r.fact = Adapters!OfOrder("payment", o)
    BY <2>1, <2>2 DEF Adapters!Report
  <2>4. n.provider = "mock" /\ n.type = "payment_succeeded" /\ n.order = o
    BY <2>2 DEF Adapters!Notice
  <2>5. QED
    BY <2>3, <2>4, Parsed DEF Adapters!ParseMock
<1>4. QED
  BY <1>1, <1>2, <1>3

(* What an adapter makes of a notification it accepts is what it was sent for. *)
LEMMA ParsedAsMeant ==
  ASSUME NEW r \in Adapters!Reports, Adapters!Verifies(r.notice)
  PROVE  Adapters!Parse(r.notice) = r.fact
<1>1. CASE r \in Adapters!SubscriptionReports
  BY <1>1, SubscriptionsParsed DEF Adapters!SubscriptionReports
<1>2. CASE r \in Adapters!Forged
  <2>1. PICK n : /\ \E o \in Orders : n = [Adapters!Stripe("payment_intent.succeeded")
                                              EXCEPT !.order = o, !.signed = FALSE]
                 /\ r = Adapters!Report(Adapters!Nothing, n)
    BY <1>2 DEF Adapters!Forged
  <2>2. n.provider = "stripe" /\ n.signed = FALSE /\ r.notice = n
    BY <2>1 DEF Adapters!Stripe, Adapters!Notice, Adapters!Report
  <2>3. QED
    BY <2>2 DEF Adapters!Verifies, Adapters!StripeVerifies
<1>3. CASE r \in Adapters!Foreign
  <2>1. PICK n : /\ \E s \in Subs : n = [Adapters!Stripe("customer.subscription.updated")
                                            EXCEPT !.sub = s, !.status = "active"]
                 /\ r = Adapters!Report(Adapters!Incomplete, n)
    BY <1>3 DEF Adapters!Foreign
  <2>2. /\ n.provider = "stripe" /\ n.type = "customer.subscription.updated" /\ n.team = None
        /\ r.notice = n /\ r.fact = Adapters!Incomplete
    BY <2>1 DEF Adapters!Stripe, Adapters!Notice, Adapters!Report
  <2>3. QED
    BY <2>2, Parsed DEF Adapters!ParseStripe, Adapters!SubscriptionTypes, Adapters!OfSubscription
<1>4. QED
  BY <1>1, <1>2, <1>3, StripeOrdersParsed, TradesParsed DEF Adapters!Reports

-----------------------------------------------------------------------------
(* Where all orders are placed and nobody confirms or refunds by hand, whatever
   touches an order goes back to an event that names it.                   *)
ByEventsOnly == DOMAIN Placed = Orders /\ Ops \cap {"confirm", "refund"} = {}

Named(o) == \E e \in Events : event[e].status # "none" /\ event[e].what.order = o

Traced ==
  /\ \A o \in Orders : order[o].status # "none"
  /\ \A o \in Orders : order[o].status # "pending" => Named(o)
  /\ \A p \in Procs : job[p].order # None => Named(job[p].order)
  /\ \A s \in Sweepers : \A o \in sweep[s] : Named(o)

(* The same after a step.                                                  *)
NamedNow(o) == \E e \in Events : event'[e].status # "none" /\ event'[e].what.order = o

(* An event that is there keeps its payload.                               *)
EventsStay ==
  \A e \in Events : event[e].status # "none" =>
    event'[e].status # "none" /\ event'[e].what = event[e].what

(* What a step may do to orders, requests and sweeps.                      *)
LEMMA TraceKept ==
  ASSUME Traced, EventsStay,
         \A o \in Orders : /\ order[o].status # "none" => order'[o].status # "none"
                           /\ order'[o].status = order[o].status \/ Named(o),
         \A p \in Procs : job'[p].order \in {None, job[p].order} \/ NamedNow(job'[p].order),
         \A s \in Sweepers : \A o \in sweep'[s] : o \in sweep[s] \/ Named(o)
  PROVE  Traced'
<1>1. ASSUME NEW o, Named(o) PROVE NamedNow(o)
  BY <1>1 DEF Named, NamedNow, EventsStay
<1>2. \A o \in Orders : order'[o].status # "none" /\ (order'[o].status # "pending" => NamedNow(o))
  BY <1>1 DEF Traced
<1>3. ASSUME NEW p \in Procs, job'[p].order # None PROVE NamedNow(job'[p].order)
  <2>1. job'[p].order = job[p].order => Named(job'[p].order)
    BY <1>3 DEF Traced
  <2>2. QED
    BY <1>1, <1>3, <2>1
<1>4. \A s \in Sweepers : \A o \in sweep'[s] : NamedNow(o)
  BY <1>1 DEF Traced
<1>5. QED
  BY <1>2, <1>3, <1>4 DEF Traced, Named, NamedNow

(* One request moves on, with the order it had or none.                    *)
LEMMA OneMoves ==
  ASSUME TypeOK, Traced, EventsStay, NEW p \in Procs, NEW j,
         job' = [job EXCEPT ![p] = j], j.order \in {None, job[p].order} \/ NamedNow(j.order),
         \A o \in Orders : /\ order[o].status # "none" => order'[o].status # "none"
                           /\ order'[o].status = order[o].status \/ Named(o),
         \A s \in Sweepers : \A o \in sweep'[s] : o \in sweep[s] \/ Named(o)
  PROVE  Traced'
<1>1. ASSUME NEW q \in Procs
      PROVE  job'[q].order \in {None, job[q].order} \/ NamedNow(job'[q].order)
  <2>1. CASE q = p
    <3>1. job'[q] = j
      BY <2>1 DEF TypeOK
    <3>2. QED
      BY <2>1, <3>1
  <2>2. CASE q # p
    BY <2>2 DEF TypeOK
  <2>3. QED
    BY <2>1, <2>2
<1>2. QED
  BY <1>1, TraceKept

(* A handler that returns or throws.                                       *)
LEMMA FinishMoves ==
  ASSUME TypeOK, NEW p \in Procs, NEW ok, Finish(p, ok)
  PROVE  \E j : job' = [job EXCEPT ![p] = j] /\ j.order \in {None, job[p].order}
<1>1. job[p] \in Job
  BY DEF TypeOK
<1>2. CASE job[p].event = None
  <2>1. job' = [job EXCEPT ![p] = Idle] /\ Idle.order = None
    BY <1>2 DEF Finish, TypeOK, Idle
  <2>2. QED
    BY <2>1
<1>3. CASE job[p].event # None
  <2>1. PICK j : j = [job[p] EXCEPT !.at = "end", !.ok = ok]
    OBVIOUS
  <2>2. job' = [job EXCEPT ![p] = j]
    BY <1>3, <2>1 DEF Finish, TypeOK
  <2>3. j.order = job[p].order
    BY <1>1, <2>1 DEF Job
  <2>4. QED
    BY <2>2, <2>3
<1>4. QED
  BY <1>2, <1>3

(* It goes on to another step.                                             *)
LEMMA GotoMoves ==
  ASSUME TypeOK, NEW p \in Procs, NEW step, Goto(p, step)
  PROVE  \E j : job' = [job EXCEPT ![p] = j] /\ j.order \in {None, job[p].order}
<1>1. PICK j : j = [job[p] EXCEPT !.at = step]
  OBVIOUS
<1>2. job' = [job EXCEPT ![p] = j] /\ j.order = job[p].order
  BY <1>1 DEF TypeOK, Job, Goto
<1>3. QED
  BY <1>2

(* It reads a plan's price.                                                *)
LEMMA ReadPlanMoves ==
  ASSUME TypeOK, NEW p \in Procs, NEW pl, NEW step, ReadPlan(p, pl, step)
  PROVE  \E j : job' = [job EXCEPT ![p] = j] /\ j.order \in {None, job[p].order}
<1>1. PICK j : j = [job[p] EXCEPT !.at = step, !.price = plan[pl].price]
  OBVIOUS
<1>2. job' = [job EXCEPT ![p] = j] /\ j.order = job[p].order
  BY <1>1 DEF TypeOK, Job, ReadPlan
<1>3. QED
  BY <1>2

(* A request moves on while no event and no sweep's list changes.          *)
LEMMA Passes ==
  ASSUME TypeOK, Traced, NEW p \in Procs, UNCHANGED <<event, sweep>>,
         \E j : job' = [job EXCEPT ![p] = j] /\ j.order \in {None, job[p].order},
         \A o \in Orders : /\ order[o].status # "none" => order'[o].status # "none"
                           /\ order'[o].status = order[o].status \/ Named(o)
  PROVE  Traced'
<1>1. EventsStay
  BY DEF EventsStay
<1>2. QED
  BY <1>1, OneMoves

(* It may write the order it is about.                                     *)
LEMMA OrderWritten ==
  ASSUME IInv, Traced, NEW p \in Procs, NEW status \in OrderStatus,
         job[p].at \in {"mark", "paid", "close"},
         UNCHANGED order \/ SetStatus(job[p].order, status)
  PROVE  \A o \in Orders : /\ order[o].status # "none" => order'[o].status # "none"
                           /\ order'[o].status = order[o].status \/ Named(o)
<1>1. job[p].order \in Orders /\ job[p].order # None
  BY PaymentsAssumption DEF IInv, AllSound, Sound, Learnt
<1>2. Named(job[p].order)
  BY <1>1 DEF Traced
<1>3. CASE UNCHANGED order
  BY <1>3
<1>4. ASSUME NEW o, o = job[p].order, SetStatus(o, status)
      PROVE  /\ order'[o].status = status
             /\ \A q \in Orders : q # o => order'[q] = order[q]
  BY <1>1, <1>4 DEF SetStatus, IInv, TypeOK, OrderRow
<1>5. CASE SetStatus(job[p].order, status)
  BY <1>2, <1>4, <1>5 DEF OrderStatus
<1>6. QED
  BY <1>3, <1>5

(* Confirmations.                                                          *)
LEMMA ConfirmingTraced ==
  ASSUME IInv, Traced, NEW p \in Procs, Confirming(p)
  PROVE  Traced'
<1> DEFINE Moved == \E j : job' = [job EXCEPT ![p] = j] /\ j.order \in {None, job[p].order}
<1> DEFINE Kept == \A o \in Orders : /\ order[o].status # "none" => order'[o].status # "none"
                                     /\ order'[o].status = order[o].status \/ Named(o)
<1>1. TypeOK
  BY DEF IInv
<1>2. UNCHANGED <<event, sweep>>
  BY DEF Confirming, ConfirmRead, ConfirmPlan, MarkConfirming, GrantAnswered, GrantAnswerLost,
         Granting, MarkPaid, payment
<1>3. Moved
  BY <1>1, FinishMoves, GotoMoves, ReadPlanMoves
     DEF Confirming, ConfirmRead, ConfirmPlan, MarkConfirming, GrantAnswered, GrantAnswerLost, MarkPaid
<1>4. Kept
  <2>1. CASE ConfirmRead(p) \/ ConfirmPlan(p) \/ GrantAnswered(p) \/ GrantAnswerLost(p)
    BY <2>1 DEF ConfirmRead, ConfirmPlan, GrantAnswered, GrantAnswerLost, Granting, payment
  <2>2. CASE MarkConfirming(p)
    BY <2>2, OrderWritten DEF MarkConfirming, At, OrderStatus
  <2>3. CASE MarkPaid(p)
    BY <2>3, OrderWritten DEF MarkPaid, At, OrderStatus
  <2>4. QED
    BY <2>1, <2>2, <2>3 DEF Confirming
<1>5. QED
  BY <1>1, <1>2, <1>3, <1>4, Passes

(* A request fails or dies.                                                *)
LEMMA FailingTraced ==
  ASSUME IInv, Traced, NEW p \in Procs, Throws(p) \/ Crash(p)
  PROVE  Traced'
<1>1. TypeOK /\ UNCHANGED <<order, event>>
  BY DEF IInv, Throws, Crash, payment
<1>2. CASE Throws(p)
  BY <1>1, <1>2, FinishMoves, Passes DEF Throws
<1>3. CASE Crash(p)
  <2>1. job' = [job EXCEPT ![p] = Idle] /\ Idle.order = None
    BY <1>3 DEF Crash, Idle
  <2>2. \A s \in Sweepers : sweep'[s] \subseteq sweep[s]
    BY <1>1, <1>3 DEF Crash, TypeOK
  <2>3. EventsStay
    BY <1>1 DEF EventsStay
  <2>4. QED
    BY <1>1, <2>1, <2>2, <2>3, OneMoves
<1>4. QED
  BY <1>2, <1>3

(* Refunds, which here only events begin.                                  *)
LEMMA RefundsTraced ==
  ASSUME ByEventsOnly, IInv, Traced, NEW p \in Procs, RefundRequests(p)
  PROVE  Traced'
<1> DEFINE Kept == \A o \in Orders : /\ order[o].status # "none" => order'[o].status # "none"
                                     /\ order'[o].status = order[o].status \/ Named(o)
<1>1. TypeOK /\ ~RefundRequest(p)
  BY DEF IInv, ByEventsOnly, RefundRequest
<1>2. UNCHANGED <<event, sweep>>
  BY <1>1 DEF RefundRequests, RefundRead, RefundPlan, ReverseAnswered, ReverseAnswerLost, Reversing,
              CloseRefund, payment
<1>3. \E j : job' = [job EXCEPT ![p] = j] /\ j.order \in {None, job[p].order}
  BY <1>1, FinishMoves, GotoMoves, ReadPlanMoves
     DEF RefundRequests, RefundRead, RefundPlan, ReverseAnswered, ReverseAnswerLost, CloseRefund
<1>4. Kept
  <2>1. CASE RefundRead(p) \/ RefundPlan(p) \/ ReverseAnswered(p) \/ ReverseAnswerLost(p)
    BY <2>1 DEF RefundRead, RefundPlan, ReverseAnswered, ReverseAnswerLost, Reversing, payment
  <2>2. CASE CloseRefund(p)
    BY <2>2, OrderWritten DEF CloseRefund, At, OrderStatus
  <2>3. QED
    BY <1>1, <2>1, <2>2 DEF RefundRequests
<1>5. QED
  BY <1>1, <1>2, <1>3, <1>4, Passes

(* A request that begins with fields that name no order.                   *)
LEMMA BeginMoves ==
  ASSUME NEW p \in Procs, NEW step, NEW fields, Begin(p, step, fields),
         \/ \E pl : fields = [Idle EXCEPT !.plan = pl]
         \/ \E pl, n : fields = [Idle EXCEPT !.plan = pl, !.price = n]
  PROVE  \E j : job' = [job EXCEPT ![p] = j] /\ j.order \in {None, job[p].order}
<1>1. PICK j : j = [fields EXCEPT !.at = step]
  OBVIOUS
<1>2. job' = [job EXCEPT ![p] = j]
  BY <1>1 DEF Begin
<1>3. \/ fields = [Idle EXCEPT !.plan = fields.plan]
      \/ fields = [Idle EXCEPT !.plan = fields.plan, !.price = fields.price]
  BY DEF Idle
<1>4. j.order = None
  BY <1>1, <1>3 DEF Idle
<1>5. QED
  BY <1>2, <1>4

(* Requests of buyers and operators: they name no order, and write none.   *)
LEMMA OthersTraced ==
  ASSUME ByEventsOnly, IInv, Traced, NEW p \in Procs,
         \/ AskOrder(p) \/ AskAward(p) \/ CreateOrder(p) \/ ConfirmRequest(p) \/ PlanRequests(p)
  PROVE  Traced'
<1>1. TypeOK /\ ~ConfirmRequest(p)
  BY DEF IInv, ByEventsOnly, ConfirmRequest
<1>2. ~CreateOrder(p)
  <2>1. NoOrder.status = "none"
    BY DEF NoOrder
  <2>2. \A o \in Orders : order[o] # NoOrder
    BY <2>1 DEF Traced
  <2>3. QED
    BY <2>2 DEF CreateOrder
<1>3. UNCHANGED <<order, event, sweep>>
  BY <1>1, <1>2 DEF AskOrder, AskAward, ReadSellable, PlanRequests, EditPlan, WritePlan, payment
<1>4. \E j : job' = [job EXCEPT ![p] = j] /\ j.order \in {None, job[p].order}
  <2>1. CASE AskOrder(p) \/ AskAward(p)
    <3>1. PICK pl \in Plans : \E step : Begin(p, step, [Idle EXCEPT !.plan = pl])
      BY <2>1 DEF AskOrder, AskAward, ReadSellable
    <3>2. PICK fields : fields = [Idle EXCEPT !.plan = pl]
      OBVIOUS
    <3>3. QED
      BY <3>1, <3>2, BeginMoves
  <2>2. CASE EditPlan(p)
    <3>1. PICK pl \in Plans, n \in Prices : Begin(p, "edit", [Idle EXCEPT !.plan = pl, !.price = n])
      BY <2>2 DEF EditPlan
    <3>2. PICK fields : fields = [Idle EXCEPT !.plan = pl, !.price = n]
      OBVIOUS
    <3>3. QED
      BY <3>1, <3>2, BeginMoves
  <2>3. CASE WritePlan(p)
    <3>1. job' = [job EXCEPT ![p] = Idle]
      BY <2>3 DEF WritePlan
    <3>2. Idle.order = None
      BY DEF Idle
    <3>3. QED
      BY <3>1, <3>2
  <2>4. QED
    BY <1>1, <1>2, <2>1, <2>2, <2>3 DEF PlanRequests
<1>5. QED
  BY <1>1, <1>3, <1>4, Passes

(* A notification names the order its event does.                          *)
LEMMA ProcessTraced ==
  ASSUME TypeOK, Traced, EventsStay, NEW p \in Procs, NEW e \in Events, NEW what, Process(p, e, what),
         event'[e].status # "none", event'[e].what = what, UNCHANGED <<order, sweep>>
  PROVE  Traced'
<1>1. PICK j : j = [[Idle EXCEPT !.event = e, !.order = what.order, !.ok = what.kind = "other"]
                      EXCEPT !.at = FirstStep(what)]
  OBVIOUS
<1>2. job' = [job EXCEPT ![p] = j]
  BY <1>1 DEF Process, Begin
<1>3. j.order = what.order
  BY <1>1 DEF Idle
<1>4. NamedNow(j.order)
  BY <1>3 DEF NamedNow
<1>5. QED
  BY <1>2, <1>4, OneMoves

(* Deliveries, replays and what they start.                                *)
LEMMA ProviderTraced ==
  ASSUME IInv, Traced, NEW p \in Procs, ProviderRequests(p) \/ ReplayRequests(p)
  PROVE  Traced'
<1>1. TypeOK
  BY DEF IInv
<1>2. ASSUME NEW e \in Events, Deliver(p, e) PROVE Traced'
  <2>1. PICK what \in Payloads :
          /\ event[e] = NoEvent \/ event[e] = [status |-> "received", what |-> what]
          /\ event' = [event EXCEPT ![e] = [status |-> "received", what |-> what]]
          /\ Process(p, e, what)
    BY <1>2 DEF Deliver, Recordable
  <2>2. event'[e].status # "none" /\ event'[e].what = what
    BY <1>1, <2>1 DEF TypeOK
  <2>3. event[e].status # "none" => event[e].what = what
    BY <2>1 DEF NoEvent
  <2>4. EventsStay
    BY <1>1, <2>1, <2>2, <2>3 DEF EventsStay, TypeOK
  <2>5. UNCHANGED <<order, sweep>>
    BY <1>2 DEF Deliver
  <2>6. QED
    BY <1>1, <2>1, <2>2, <2>4, <2>5, ProcessTraced
<1>3. ASSUME NEW e \in Events, ReplayEvent(p, e) PROVE Traced'
  <2>1. /\ event[e].status # "none" /\ Process(p, e, event[e].what)
        /\ UNCHANGED <<order, event, sweep>>
    BY <1>3 DEF ReplayEvent, payment
  <2>2. EventsStay
    BY <2>1 DEF EventsStay
  <2>3. QED
    BY <1>1, <2>1, <2>2, ProcessTraced
<1>4. CASE SubscribePlan(p) \/ UpsertSubscription(p) \/ RenewAnswered(p) \/ RenewAnswerLost(p)
  <2>1. UNCHANGED <<order, event, sweep>>
    BY <1>4 DEF SubscribePlan, UpsertSubscription, RenewAnswered, RenewAnswerLost, Renewing, payment
  <2>2. \E j : job' = [job EXCEPT ![p] = j] /\ j.order \in {None, job[p].order}
    BY <1>1, <1>4, FinishMoves, GotoMoves, ReadPlanMoves
       DEF SubscribePlan, UpsertSubscription, RenewAnswered, RenewAnswerLost
  <2>3. QED
    BY <1>1, <2>1, <2>2, Passes
<1>5. CASE SettleEvent(p)
  <2>1. job' = [job EXCEPT ![p] = Idle] /\ UNCHANGED <<order, sweep>>
    BY <1>5 DEF SettleEvent
  <2>2. Idle.order = None
    BY DEF Idle
  <2>3. EventsStay
    <3>1. PICK e : e = job[p].event
      OBVIOUS
    <3>2. CASE UNCHANGED event
      BY <3>2 DEF EventsStay
    <3>3. CASE event' = [event EXCEPT ![e].status = Outcome(job[p].ok)]
      <4>1. \A d \in Events : /\ d # e => event'[d] = event[d]
                              /\ d = e => event'[d] = [event[d] EXCEPT !.status = Outcome(job[p].ok)]
        BY <1>1, <3>3 DEF TypeOK
      <4>2. PICK outcome : outcome = Outcome(job[p].ok) /\ outcome # "none"
        BY DEF Outcome
      <4>3. ASSUME NEW d \in Events, d = e
            PROVE  event'[d].status # "none" /\ event'[d].what = event[d].what
        <5>1. event[d] \in EventRow /\ event'[d] = [event[d] EXCEPT !.status = outcome]
          BY <1>1, <4>1, <4>2, <4>3 DEF TypeOK
        <5>2. QED
          BY <4>2, <5>1 DEF EventRow
      <4>4. QED
        BY <4>1, <4>3 DEF EventsStay
    <3>4. QED
      BY <1>5, <3>1, <3>2, <3>3 DEF SettleEvent
  <2>4. QED
    BY <1>1, <2>1, <2>2, <2>3, OneMoves
<1>6. QED
  BY <1>2, <1>3, <1>4, <1>5 DEF ProviderRequests, ReplayRequests

(* Sweeps list orders that are confirming.                                 *)
LEMMA SweepTraced ==
  ASSUME IInv, Traced, NEW s \in Sweepers, SweepRequests(s)
  PROVE  Traced'
<1>1. TypeOK /\ s \in Procs
  BY DEF IInv, Procs
<1>2. UNCHANGED <<order, event>>
  BY DEF SweepRequests, SweepStart, SweepNext, payment
<1>3. EventsStay
  BY <1>2 DEF EventsStay
<1>4. CASE SweepStart(s)
  <2>1. UNCHANGED job /\ sweep' = [sweep EXCEPT ![s] = {o \in Orders : order[o].status = "confirming" /\ order[o].stale}]
    BY <1>4 DEF SweepStart
  <2>2. \A r \in Sweepers : \A o \in sweep'[r] : o \in sweep[r] \/ Named(o)
    BY <1>1, <2>1 DEF TypeOK, Traced
  <2>3. QED
    BY <1>2, <1>3, <2>1, <2>2, TraceKept
<1>5. ASSUME NEW o \in Orders, SweepNext(s, o) PROVE Traced'
  <2>1. /\ o \in sweep[s] /\ sweep' = [sweep EXCEPT ![s] = @ \ {o}]
        /\ Begin(s, "confirm", [Idle EXCEPT !.order = o])
    BY <1>5 DEF SweepNext
  <2>2. PICK j : j = [[Idle EXCEPT !.order = o] EXCEPT !.at = "confirm"]
    OBVIOUS
  <2>3. job' = [job EXCEPT ![s] = j] /\ j.order = o
    BY <2>1, <2>2 DEF Begin, Idle
  <2>4. NamedNow(o)
    BY <1>2, <2>1 DEF Traced, Named, NamedNow
  <2>5. \A r \in Sweepers : sweep'[r] \subseteq sweep[r]
    BY <1>1, <2>1 DEF TypeOK
  <2>6. QED
    BY <1>1, <1>2, <1>3, <2>3, <2>4, <2>5, OneMoves
<1>6. QED
  BY <1>4, <1>5 DEF SweepRequests

(* At first all orders are pending and nothing is under way.               *)
LEMMA InitTraced ==
  ASSUME ByEventsOnly, Init
  PROVE  Traced
<1>1. \A o \in Orders : order[o].status = "pending"
  <2>1. PICK team : order = [o \in Orders |-> IF o \notin DOMAIN Placed THEN NoOrder
                               ELSE [NoOrder EXCEPT !.status = "pending",
                                       !.plan = Placed[o], !.team = team[o]]]
    BY DEF Init
  <2>2. \A o \in Orders : order[o] = [NoOrder EXCEPT !.status = "pending", !.plan = Placed[o], !.team = team[o]]
    BY <2>1 DEF ByEventsOnly
  <2>3. QED
    BY <2>2 DEF NoOrder
<1>2. /\ \A p \in Procs : job[p] = Idle
      /\ \A s \in Sweepers : sweep[s] = {}
      /\ Idle.order = None
  BY DEF Init, Idle
<1>3. QED
  BY <1>1, <1>2 DEF Traced

(* No step does otherwise.                                                 *)
LEMMA NextTraced ==
  ASSUME ByEventsOnly, IInv, Traced, [Next]_vars
  PROVE  Traced'
<1>1. ASSUME NEW p \in Procs, Confirming(p) \/ Throws(p) \/ Crash(p) PROVE Traced'
  BY <1>1, ConfirmingTraced, FailingTraced
<1>2. ASSUME NEW p \in Workers, Request(p) PROVE Traced'
  <2>1. p \in Procs
    BY DEF Procs
  <2>2. QED
    BY <1>2, <2>1, RefundsTraced, OthersTraced, ProviderTraced DEF Request, OrderRequests
<1>3. ASSUME NEW s \in Sweepers, SweepRequests(s) PROVE Traced'
  BY <1>3, SweepTraced
<1>4. ASSUME UNCHANGED <<job, sweep>>, EventsStay,
             \A o \in Orders : order'[o].status = order[o].status
      PROVE  Traced'
  BY <1>4, TraceKept
<1>5. ASSUME NEW e \in Events, RecordEvent(e) PROVE Traced'
  <2>1. PICK what \in Payloads : /\ event[e] = NoEvent
                                 /\ event' = [event EXCEPT ![e] = [status |-> "received", what |-> what]]
    BY <1>5 DEF RecordEvent
  <2>2. EventsStay
    BY <2>1 DEF EventsStay, NoEvent, IInv, TypeOK
  <2>3. QED
    BY <1>4, <1>5, <2>2 DEF RecordEvent
<1>6. CASE LifecycleRequests \/ (\E t \in Teams : UseCredit(t)) \/ UNCHANGED vars
  <2>1. UNCHANGED <<order, event, job, sweep>>
    BY <1>6 DEF LifecycleRequests, DeletePlan, RestorePlan, UseCredit, vars, payment
  <2>2. QED
    BY <1>4, <2>1 DEF EventsStay
<1>7. ASSUME NEW q \in Orders, Age(q) PROVE Traced'
  <2>1. \A o \in Orders : order'[o].status = order[o].status
    BY <1>7 DEF Age, IInv, TypeOK, OrderRow
  <2>2. UNCHANGED <<event, job, sweep>>
    BY <1>7 DEF Age
  <2>3. QED
    BY <1>4, <2>1, <2>2 DEF EventsStay
<1>8. QED
  BY <1>1, <1>2, <1>3, <1>5, <1>6, <1>7 DEF Next, RecordRequests

(* An event is processed only when what happened at the provider has its effect here,
   and an order is touched only by an event that stands for nothing but that order
   (the adapters' parseEvent and verifySignature, and WebhookService.process). *)
THEOREM ReportsHaveEffect == ByEventsOnly /\ Spec => []ProcessedAsSaid
<1>1. ByEventsOnly => ByEventsOnly'
  BY DEF ByEventsOnly
<1>2. ByEventsOnly /\ Init => Traced
  BY InitTraced
<1>3. ByEventsOnly /\ IInv /\ Traced /\ [Next]_vars => Traced'
  BY NextTraced
<1>4. IInv /\ Traced => ProcessedAsSaid
  <2>1. ASSUME IInv, NEW e \in Events, event[e].status = "processed", NEW report \in Reported(e)
        PROVE  EffectDone(report.fact)
    <3>1. report.fact = event[e].what
      BY <2>1, ParsedAsMeant DEF Reported
    <3>2. EffectDone(event[e].what)
      BY <2>1 DEF IInv, ProcessedMeansDone
    <3>3. QED
      BY <3>1, <3>2
  <2>2. ASSUME Traced, NEW o \in Orders, order[o].status # "pending"
        PROVE  \E e \in Events : /\ event[e].what.order = o
                                 /\ \A report \in Reported(e) : report.fact.order = o
    <3>1. PICK e \in Events : event[e].what.order = o
      BY <2>2 DEF Traced, Named
    <3>2. \A report \in Reported(e) : report.fact = event[e].what
      BY ParsedAsMeant DEF Reported
    <3>3. QED
      BY <3>1, <3>2
  <2>3. QED
    BY <2>1, <2>2 DEF ProcessedAsSaid
<1>5. QED
  BY <1>1, <1>2, <1>3, <1>4, Invariance, PTL DEF Spec
=============================================================================
