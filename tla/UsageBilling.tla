---------------------------- MODULE UsageBilling -----------------------------
(***************************************************************************)
(* How kokoro-credit charges runs (kokoro-credit/src/application/          *)
(* credit-service.ts, with the pricing rules, quotas and usage records of  *)
(* its repository): a run is held for at its start by an estimate, and     *)
(* settled at its end by the tokens it used.                               *)
(*                                                                         *)
(* The service awaits each repository call: every call is one step of a    *)
(* job, and what it returned may be old when it is used.  The repository's *)
(* transactions on accounts and holds are single steps here, and buckets   *)
(* are added up: CreditLedger has them in full.                            *)
(***************************************************************************)
EXTENDS ActiveChecks, Totals

CONSTANTS
  Runs,           \* idempotency keys of holds and settlements: one run each
  AccountOf,      \* the account a run is charged to
  Units,          \* <<inputUnit, outputUnit>>
  Labels,         \* labels runs are priced under
  LabelOf,        \* of each run; None has no label
  UsageOf,        \* the tokens each run used, by unit
  Estimate,       \* the tokens a run is expected to use, by unit
  BufferPercent,  \* what is held above the estimate
  Credit,         \* MICROS_PER_CREDIT
  Welcome,        \* welcomeGrantMicros
  Gifts,          \* amounts operators grant
  Quotas,         \* quotas operators set; None lifts it
  Prices,         \* prices a rule may have; 0 is no rule in force
  HoldTtl, Month, \* how long a hold lives; the length of a month
  Scenes,         \* bound: the mixes of requests that behaviours have
  MaxBalance, MaxTime  \* bounds

OpNames == {"hold", "settle", "release", "sweep", "gift", "quota", "price"}

ASSUME UsageAssumption ==
  /\ None \notin Accounts \cup Runs \cup Labels \cup Nat
  /\ IsFiniteSet(Runs)
  /\ AccountOf \in [Runs -> Accounts] /\ LabelOf \in [Runs -> Labels \cup {None}]
  /\ Estimate \in [1 .. Len(Units) -> Nat]
  /\ UsageOf \in [Runs -> [1 .. Len(Units) -> Nat]]
  /\ Prices \subseteq Nat /\ Gifts \subseteq Nat \ {0} /\ Quotas \subseteq (Nat \ {0}) \cup {None}
  /\ BufferPercent \in Nat /\ Credit \in Nat \ {0} /\ Welcome \in Nat
  /\ HoldTtl \in Nat /\ Month \in Nat \ {0}
  /\ MaxBalance \in Nat /\ MaxTime \in Nat
  /\ Scenes \subseteq SUBSET OpNames

VARIABLES
  time,
  rule,     \* pricing_rules: the price in force of each label (None: of none) and unit
  account,  \* credit_accounts
  hold,     \* credit_holds, by idempotency key
  usage,    \* usage_records and the ledger entries of captures, by idempotency key
  ops,      \* what runs and operators do in this behaviour
  req,      \* where each request is in its handler
  answer    \* history: what the last answered settlement of each run said

usageVars == <<time, rule, account, hold, usage, ops, req, answer>>

-----------------------------------------------------------------------------
(* Rows, before there is one.                                              *)
Lines == 1 .. Len(Units)
NoAccount == [open |-> FALSE, balance |-> 0, held |-> 0, quota |-> None]
NoHold == [status |-> "none", amount |-> 0, expiresAt |-> 0]
NoUsage == [amount |-> 0, at |-> 0]
NoAnswer == [outcome |-> "none", amount |-> 0]

(* A request in its handler: the step it is at, what it read and computed; raced
   (no part of the code) if the account's holds, usage or quota have changed since
   it read the account.                                                    *)
NoReq == [at |-> "idle", op |-> "none", run |-> None, account |-> None, held |-> 0,
          quota |-> None, line |-> 0, sum |-> 0, until |-> 0, raced |-> FALSE]

At(p, step) == req[p].at = step
Begin(p, fields) == req[p] = NoReq /\ req' = [req EXCEPT ![p] = fields]
Finish(p) == req' = [req EXCEPT ![p] = NoReq]

(* requests, after a change to account a.                                  *)
Noticing(requests, a) ==
  [q \in Workers |-> IF requests[q].account = a THEN [requests[q] EXCEPT !.raced = TRUE]
                     ELSE requests[q]]
FinishChanging(p, a) == req' = Noticing([req EXCEPT ![p] = NoReq], a)

-----------------------------------------------------------------------------
(* Money.                                                                  *)
CeilToCredit(n) == n + ((Credit - (n % Credit)) % Credit)
Buffered(n) == (n * (100 + BufferPercent)) \div 100
HoldAmount(estimate) == CeilToCredit(IF Buffered(estimate) > 0 THEN Buffered(estimate) ELSE 1)

Clamped_Unclamped(actual, held) == CeilToCredit(actual)
Clamped(actual, held) == IF CeilToCredit(actual) < held THEN CeilToCredit(actual) ELSE held

MonthStart(t) == t - (t % Month)
RunsOf(a) == {r \in Runs : AccountOf[r] = a}

(* sumCapturedUsageSince.                                                  *)
CapturedSince(a, t) == Total([r \in {q \in RunsOf(a) : usage[q].at >= t} |-> usage[r].amount])

(* findPricingRule: the rule of the label, or the one without.             *)
PriceOf(label, i) ==
  IF label # None /\ rule[label][i] > 0 THEN rule[label][i] ELSE rule[None][i]

-----------------------------------------------------------------------------
(* ensureAccount: after its checks of owner and site (ActiveChecks), which may
   refuse.  Whoever creates the account gives it its welcome.              *)
EnsureAccount(p) ==
  LET a    == req[p].account
      next == IF req[p].op = "gift" THEN "gift" ELSE "price"
  IN  /\ At(p, "ensure")
      /\ account' = [account EXCEPT ![a].open = TRUE]
      /\ req' = [req EXCEPT ![p] = [@ EXCEPT
                   !.at = IF ~account[a].open /\ Welcome > 0 THEN "welcome" ELSE next,
                   !.held = account[a].held, !.quota = account[a].quota, !.raced = FALSE]]
      /\ UNCHANGED <<ops, time, rule, hold, usage, answer>>

GrantWelcome(p) ==
  /\ At(p, "welcome")
  /\ account' = [account EXCEPT ![req[p].account].balance = @ + Welcome]
  /\ req' = [req EXCEPT ![p].at = IF req[p].op = "gift" THEN "gift" ELSE "price"]
  /\ UNCHANGED <<ops, time, rule, hold, usage, answer>>

(* POST /admin/credits/grant.                                              *)
AskGift(p) ==
  \E a \in Accounts, g \in Gifts :
    /\ "gift" \in ops
    /\ Begin(p, [NoReq EXCEPT !.at = "ensure", !.op = "gift", !.account = a, !.sum = g])
    /\ UNCHANGED <<ops, time, rule, account, hold, usage, answer>>

Gift(p) ==
  LET a == req[p].account
  IN  /\ At(p, "gift")
      /\ account[a].balance + req[p].sum <= MaxBalance
      /\ account' = [account EXCEPT ![a].balance = @ + req[p].sum]
      /\ Finish(p)
      /\ UNCHANGED <<ops, time, rule, hold, usage, answer>>

(* POST /admin/credits/accounts/:id/quota.                                 *)
SetAccountQuota(a, q) ==
  /\ "quota" \in ops
  /\ account[a].open /\ account[a].quota # q
  /\ account' = [account EXCEPT ![a].quota = q]
  /\ req' = Noticing(req, a)
  /\ UNCHANGED <<ops, time, rule, hold, usage, answer>>

(* Rules are created, edited, deleted, restored, come into force and lapse: what
   is in force for a label and a unit may change at any time.              *)
ChangePrice(label, i, price) ==
  /\ "price" \in ops
  /\ rule[label][i] # price
  /\ rule' = [rule EXCEPT ![label][i] = price]
  /\ UNCHANGED <<ops, time, account, hold, usage, req, answer>>

-----------------------------------------------------------------------------
(* holdForUsage.                                                           *)
AskHold(p) ==
  \E r \in Runs :
    /\ "hold" \in ops
    /\ Begin(p, [NoReq EXCEPT !.at = "ensure", !.op = "hold", !.run = r,
                              !.account = AccountOf[r]])
    /\ UNCHANGED <<ops, time, rule, account, hold, usage, answer>>

(* priceUsage, line by line: a line without tokens needs no rule; one without a
   rule refuses the request.                                               *)
PriceLine(p) ==
  LET i      == req[p].line + 1
      tokens == IF req[p].op = "hold" THEN Estimate[i] ELSE UsageOf[req[p].run][i]
      price  == PriceOf(LabelOf[req[p].run], i)
  IN  /\ At(p, "price") /\ i \in Lines
      /\ IF tokens > 0 /\ price = 0 THEN Finish(p)
         ELSE req' = [req EXCEPT ![p].line = i, ![p].sum = @ + (price * tokens)]
      /\ UNCHANGED <<ops, time, rule, account, hold, usage, answer>>

(* assertWithinQuota: by the held amount and the quota ensureAccount returned. *)
WithinQuota_SettledOnly(p, amount) ==
  req[p].quota # None =>
    CapturedSince(req[p].account, MonthStart(time)) + amount <= req[p].quota
WithinQuota(p, amount) ==
  req[p].quota # None =>
    CapturedSince(req[p].account, MonthStart(time)) + req[p].held + amount <= req[p].quota

Gate(p) ==
  /\ At(p, "price") /\ req[p].op = "hold" /\ req[p].line = Len(Units)
  /\ IF WithinQuota(p, HoldAmount(req[p].sum))
     THEN req' = [req EXCEPT ![p].at = "hold", ![p].sum = HoldAmount(req[p].sum),
                             ![p].until = time + HoldTtl]
     ELSE Finish(p)
  /\ UNCHANGED <<ops, time, rule, account, hold, usage, answer>>

(* holdCredits: a key that has a hold gets that hold, whatever became of it. *)
HoldCredits(p) ==
  LET r == req[p].run
      a == req[p].account
      n == req[p].sum
  IN  /\ At(p, "hold")
      /\ IF hold[r] # NoHold \/ account[a].balance < n
         THEN Finish(p) /\ UNCHANGED <<account, hold>>
         ELSE /\ account' = [account EXCEPT ![a].balance = @ - n, ![a].held = @ + n]
              /\ hold' = [hold EXCEPT ![r] = [status |-> "active", amount |-> n,
                                              expiresAt |-> req[p].until]]
              /\ FinishChanging(p, a)
      /\ UNCHANGED <<ops, time, rule, usage, answer>>

-----------------------------------------------------------------------------
(* settleUsage.                                                            *)
AskSettle(p) ==
  \E r \in Runs :
    /\ "settle" \in ops
    /\ hold[r] # NoHold
    /\ Begin(p, [NoReq EXCEPT !.at = "price", !.op = "settle", !.run = r])
    /\ UNCHANGED <<ops, time, rule, account, hold, usage, answer>>

(* A hold is left: n of it is spent, the rest goes back.                   *)
CloseHold(r, status, n) ==
  LET a == AccountOf[r]
  IN  /\ hold' = [hold EXCEPT ![r].status = status]
      /\ account' = [account EXCEPT ![a].balance = @ + (hold[r].amount - n),
                                    ![a].held = @ - hold[r].amount]

(* What a capture answers is the entry it finds or makes.                  *)
Answered_Recomputed(r, n) == [outcome |-> "captured", amount |-> n]
Answered(r, n) == [outcome |-> "captured", amount |-> usage'[r].amount]

Settle(p) ==
  LET r == req[p].run
      n == Clamped(req[p].sum, hold[r].amount)
  IN  /\ At(p, "price") /\ req[p].op = "settle" /\ req[p].line = Len(Units)
      /\ \/ /\ n = 0 /\ hold[r].status = "active"
            /\ CloseHold(r, "released", 0)
            /\ answer' = [answer EXCEPT ![r] = [outcome |-> "released", amount |-> 0]]
            /\ UNCHANGED usage
            /\ FinishChanging(p, AccountOf[r])
         \/ /\ n = 0 /\ hold[r].status = "released"
            /\ answer' = [answer EXCEPT ![r] = [outcome |-> "released", amount |-> 0]]
            /\ UNCHANGED <<account, hold, usage>>
            /\ Finish(p)
         \/ /\ n > 0 /\ usage[r] = NoUsage /\ hold[r].status = "active"
            /\ CloseHold(r, "captured", n)
            /\ usage' = [usage EXCEPT ![r] = [amount |-> n, at |-> time]]
            /\ answer' = [answer EXCEPT ![r] = Answered(r, n)]
            /\ FinishChanging(p, AccountOf[r])
         \/ /\ n > 0 /\ usage[r] # NoUsage
            /\ UNCHANGED <<account, hold, usage>>
            /\ answer' = [answer EXCEPT ![r] = Answered(r, n)]
            /\ Finish(p)
         \/ /\ IF n = 0 THEN hold[r].status \notin {"active", "released"}
               ELSE usage[r] = NoUsage /\ hold[r].status # "active"
            /\ UNCHANGED <<account, hold, usage, answer>>
            /\ Finish(p)
      /\ UNCHANGED <<ops, time, rule>>

(* The run gives up, or the sweep finds its hold expired.                  *)
Release(r) ==
  /\ "release" \in ops
  /\ hold[r].status = "active"
  /\ CloseHold(r, "released", 0)
  /\ req' = Noticing(req, AccountOf[r])
  /\ UNCHANGED <<ops, time, rule, usage, answer>>

Expire(r) ==
  /\ "sweep" \in ops
  /\ hold[r].status = "active" /\ hold[r].expiresAt < time
  /\ CloseHold(r, "expired", 0)
  /\ req' = Noticing(req, AccountOf[r])
  /\ UNCHANGED <<ops, time, rule, usage, answer>>

(* A check refuses, a call throws or the process dies.                     *)
Throws(p) ==
  /\ req[p] # NoReq
  /\ Finish(p)
  /\ UNCHANGED <<ops, time, rule, account, hold, usage, answer>>

Tick ==
  /\ time < MaxTime
  /\ time' = time + 1
  /\ UNCHANGED <<ops, rule, account, hold, usage, req, answer>>

-----------------------------------------------------------------------------
(* What the rules in force may charge for the lines of a label.            *)
PricingRules == [Lines -> Prices]

InitUsage ==
  /\ time = 0
  /\ ops \in Scenes
  /\ rule \in [Labels \cup {None} -> PricingRules]
  /\ account = [a \in Accounts |-> NoAccount]
  /\ hold = [r \in Runs |-> NoHold]
  /\ usage = [r \in Runs |-> NoUsage]
  /\ req = [p \in Workers |-> NoReq]
  /\ answer = [r \in Runs |-> NoAnswer]

(* The routes of runs and of operators.                                    *)
RunRequests(p) ==
  AskHold(p) \/ EnsureAccount(p) \/ GrantWelcome(p) \/ PriceLine(p) \/ Gate(p)
    \/ HoldCredits(p) \/ AskSettle(p) \/ Settle(p)
OperatorRequests(p) == AskGift(p) \/ Gift(p)
QuotaRequests == \E a \in Accounts, q \in Quotas : SetAccountQuota(a, q)
RuleRequests ==
  \E label \in Labels \cup {None}, i \in Lines, price \in Prices : ChangePrice(label, i, price)

NextUsage ==
  \/ \E p \in Workers : RunRequests(p) \/ OperatorRequests(p) \/ Throws(p)
  \/ QuotaRequests
  \/ RuleRequests
  \/ \E r \in Runs : Release(r) \/ Expire(r)
  \/ Tick

UsageSpec == InitUsage /\ [][NextUsage]_usageVars

-----------------------------------------------------------------------------
(* What the account's active holds add up to.                              *)
HeldBy(a) == Total([r \in {q \in RunsOf(a) : hold[q].status = "active"} |-> hold[r].amount])

(* A hold that no other change to the account overlapped leaves what is settled
   this month and what is held within the quota, although the gate reads the
   two at different moments and a run captured in this month may have been held
   for in the last (assertWithinQuota).                                    *)
QuotaRespected ==
  [][\A p \in Workers, r \in Runs :
       /\ At(p, "hold") /\ req[p].run = r /\ ~req[p].raced
       /\ req'[p] = NoReq /\ hold[r] = NoHold /\ hold'[r] # NoHold
       => LET a == AccountOf[r]
          IN  account[a].quota # None =>
                CapturedSince(a, MonthStart(time)) + HeldBy(a)' <= account[a].quota]_usageVars

(* A settlement that is repeated and answered gets the answer of the first, though
   prices change, rules lapse and releases and sweeps come in between
   (settleUsage: a replay has the same result).                            *)
SettlementsAgree ==
  [][\A r \in Runs : answer[r] # NoAnswer => answer'[r] = answer[r]]_usageVars

(* Runs use the ledger only as an escrow: a hold opens with what leaves the balance
   and closes once, giving back what was not spent; no account or run touches
   another (CreditEscrow, which CreditLedger implements as well).          *)
EscrowState(status) ==
  CASE status = "none"     -> "unopened"
    [] status = "active"   -> "open"
    [] status = "captured" -> "settled"
    [] OTHER               -> "returned"

Escrow == INSTANCE CreditEscrow WITH
  Escrows <- Runs,
  paid <- [a \in Accounts |-> account[a].balance],
  escrow <- [r \in Runs |->
    [state  |-> EscrowState(hold[r].status),
     owner  |-> IF hold[r] = NoHold THEN None ELSE AccountOf[r],
     amount |-> IF hold[r].status = "active" THEN hold[r].amount ELSE 0]]

UsesEscrow == Escrow!Spec
=============================================================================
