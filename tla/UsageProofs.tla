---------------------------- MODULE UsageProofs -----------------------------
(***************************************************************************)
(* Proofs about UsageBilling, that holds keep to the quota, settlements    *)
(* agree and runs use the ledger only as an escrow, for any accounts, runs, *)
(* prices, quotas and number of requests at once; and about ActiveChecks,  *)
(* that a suspension takes effect within one TTL.                          *)
(***************************************************************************)
EXTENDS UsageBilling, LedgerArithmetic

-----------------------------------------------------------------------------
(* Rows.                                                                   *)
ReqRow == [at : {"idle", "ensure", "welcome", "price", "hold", "gift"},
           op : {"none", "hold", "settle", "gift"},
           run : Runs \cup {None}, account : Accounts \cup {None}, held : Int,
           quota : Quotas \cup {None}, line : Nat, sum : Nat, until : Nat, raced : BOOLEAN]
AccountRow == [open : BOOLEAN, balance : Nat, held : Int, quota : Quotas \cup {None}]
HoldRow == [status : {"none", "active", "captured", "released", "expired"},
            amount : Nat, expiresAt : Nat]
UsageRow == [amount : Nat, at : Nat]
AnswerRow == [outcome : {"none", "captured", "released"}, amount : Nat]

RowsOK ==
  /\ time \in Nat
  /\ rule \in [Labels \cup {None} -> [Lines -> Nat]]
  /\ account \in [Accounts -> AccountRow]
  /\ hold \in [Runs -> HoldRow]
  /\ usage \in [Runs -> UsageRow]
  /\ answer \in [Runs -> AnswerRow]
  /\ req \in [Workers -> ReqRow]

(* What a request is about.                                                *)
ReqWhole(j) ==
  /\ j.op = "none" <=> j.at = "idle"
  /\ j.op = "hold" => j.run \in Runs /\ j.account = AccountOf[j.run]
  /\ j.op = "settle" => j.at = "price" /\ j.run \in Runs /\ j.account = None
  /\ j.op = "gift" => j.at # "price" /\ j.account \in Accounts
  /\ j.at = "hold" => j.op = "hold"
  /\ j.at = "gift" => j.op = "gift"

(* What a hold may rely on as long as nobody changed the account: what it read of
   the account, and that the gate let it through.                          *)
ReqFresh(j) ==
  /\ j.op = "hold" /\ j.at # "ensure" /\ ~j.raced =>
       j.held = account[j.account].held /\ j.quota = account[j.account].quota
  /\ j.at = "hold" /\ ~j.raced /\ j.quota # None =>
       CapturedSince(j.account, MonthStart(time)) + j.held + j.sum <= j.quota

ReqsWhole == \A p \in Workers : ReqWhole(req[p]) /\ ReqFresh(req[p])

(* A hold that has no status is none; usage is of captured holds; an answer tells
   what became of the hold, for good; and what is held is what the active holds
   add up to.                                                              *)
HoldsWhole == \A r \in Runs : hold[r].status = "none" => hold[r] = NoHold
UsageTells == \A r \in Runs : usage[r] # NoUsage => hold[r].status = "captured"
AnswersTell ==
  \A r \in Runs :
    \/ answer[r] = NoAnswer
    \/ /\ answer[r] = [outcome |-> "released", amount |-> 0]
       /\ hold[r].status = "released"
    \/ /\ answer[r] = [outcome |-> "captured", amount |-> usage[r].amount]
       /\ usage[r] # NoUsage
HeldExact == \A a \in Accounts : account[a].held = HeldBy(a)

IInv == RowsOK /\ ReqsWhole /\ HoldsWhole /\ UsageTells /\ AnswersTell /\ HeldExact

-----------------------------------------------------------------------------
(* Sums.                                                                   *)

(* A sum over fewer rows is no larger.                                     *)
LEMMA TotalOfFewer ==
  ASSUME NEW D, IsFiniteSet(D), NEW f \in [D -> Nat], NEW S \in SUBSET D
  PROVE  Total([x \in S |-> f[x]]) <= Total(f)
<1> DEFINE g == [x \in S |-> f[x]]
<1>1. IsFiniteSet(Markers(f)) /\ Cardinality(Markers(f)) \in Nat
  BY MarkersFinite, FS_CardinalityType
<1>2. Markers(g) \subseteq Markers(f)
  <2>1. \A x \in S : {x} \X (1 .. g[x]) = {x} \X (1 .. f[x])
    OBVIOUS
  <2>2. DOMAIN g = S /\ DOMAIN f = D
    OBVIOUS
  <2>3. QED
    BY <2>1, <2>2 DEF Markers
<1>3. QED
  BY <1>1, <1>2, FS_Subset DEF Total

(* The runs of an account, and those of which a sum is taken, are finitely many. *)
LEMMA RunsFinite ==
  ASSUME RowsOK, NEW a \in Accounts, NEW S \in SUBSET RunsOf(a)
  PROVE  /\ IsFiniteSet(S) /\ S \subseteq Runs
         /\ [r \in S |-> hold[r].amount] \in [S -> Nat]
         /\ [r \in S |-> usage[r].amount] \in [S -> Nat]
<1>1. S \subseteq Runs
  BY DEF RunsOf
<1>2. IsFiniteSet(S)
  BY <1>1, UsageAssumption, FS_Subset
<1>3. QED
  BY <1>1, <1>2 DEF RowsOK, HoldRow, UsageRow

Active(a) == {r \in RunsOf(a) : hold[r].status = "active"}

(* What is held and what was captured are natural numbers.                 *)
LEMMA SumsAreNat ==
  ASSUME RowsOK, NEW a \in Accounts, NEW t
  PROVE  HeldBy(a) \in Nat /\ CapturedSince(a, t) \in Nat
<1>1. Active(a) \subseteq RunsOf(a) /\ {q \in RunsOf(a) : usage[q].at >= t} \subseteq RunsOf(a)
  BY DEF Active
<1>2. HeldBy(a) \in Nat
  BY <1>1, RunsFinite, TotalIsNat DEF HeldBy, Active
<1>3. CapturedSince(a, t) \in Nat
  BY <1>1, RunsFinite, TotalIsNat DEF CapturedSince
<1>4. QED
  BY <1>2, <1>3

(* The holds of an account stay, and so does what it holds.                *)
LEMMA HeldStays ==
  ASSUME NEW a, \A r \in RunsOf(a) : hold'[r] = hold[r]
  PROVE  HeldBy(a)' = HeldBy(a)
<1>1. {q \in RunsOf(a) : hold'[q].status = "active"} = {q \in RunsOf(a) : hold[q].status = "active"}
  OBVIOUS
<1>2. RunsOf(a)' = RunsOf(a)
  BY DEF RunsOf
<1>3. QED
  BY <1>1, <1>2 DEF HeldBy, RunsOf

(* The usage of an account stays, and so does what it captured.            *)
LEMMA CapturedStays ==
  ASSUME NEW a, NEW t, \A r \in RunsOf(a) : usage'[r] = usage[r]
  PROVE  CapturedSince(a, t)' = CapturedSince(a, t)
<1>1. {q \in RunsOf(a) : usage'[q].at >= t} = {q \in RunsOf(a) : usage[q].at >= t}
  OBVIOUS
<1>2. QED
  BY <1>1 DEF CapturedSince, RunsOf

(* What was captured since a later time is no more.                        *)
LEMMA CapturedLater ==
  ASSUME RowsOK, NEW a \in Accounts, NEW s \in Int, NEW t \in Int, s <= t
  PROVE  CapturedSince(a, t) <= CapturedSince(a, s)
<1> DEFINE S == {q \in RunsOf(a) : usage[q].at >= s}
           T == {q \in RunsOf(a) : usage[q].at >= t}
           f == [r \in S |-> usage[r].amount]
<1>1. S \subseteq RunsOf(a) /\ T \subseteq S
  BY DEF RowsOK, UsageRow, RunsOf
<1>2. IsFiniteSet(S) /\ f \in [S -> Nat]
  BY <1>1, RunsFinite
<1>3. [r \in T |-> f[r]] = [r \in T |-> usage[r].amount]
  BY <1>1
<1> HIDE DEF f
<1>4. Total([r \in T |-> f[r]]) <= Total(f)
  BY <1>1, <1>2, TotalOfFewer
<1>5. QED
  BY <1>3, <1>4 DEF CapturedSince, f

(* A hold becomes active, or ceases to be.                                 *)
LEMMA HeldMore ==
  ASSUME RowsOK, NEW r \in Runs, hold[r].status # "active",
         NEW row \in HoldRow, row.status = "active", hold' = [hold EXCEPT ![r] = row]
  PROVE  HeldBy(AccountOf[r])' = HeldBy(AccountOf[r]) + row.amount
<1> DEFINE a == AccountOf[r]
           D == Active(a)
           f == [q \in D \cup {r} |-> hold'[q].amount]
<1>1. a \in Accounts /\ r \in RunsOf(a) /\ D \subseteq RunsOf(a) /\ r \notin D /\ IsFiniteSet(D)
  BY UsageAssumption, RunsFinite DEF RunsOf, Active
<1>2. D \subseteq Runs /\ \A q \in D : hold'[q] = hold[q] /\ hold[q].amount \in Nat
  BY <1>1 DEF RunsOf, RowsOK, HoldRow
<1>3. hold'[r] = row /\ row.amount \in Nat
  BY DEF RowsOK, HoldRow
<1>4. f \in [D \cup {r} -> Nat] /\ f[r] = row.amount
  BY <1>2, <1>3
<1>5. {q \in RunsOf(a) : hold'[q].status = "active"} = D \cup {r}
  BY <1>1, <1>3 DEF Active, RunsOf, RowsOK
<1>6. HeldBy(a)' = Total(f)
  BY <1>5 DEF HeldBy, RunsOf
<1>7. [q \in D |-> f[q]] = [q \in D |-> hold[q].amount]
  BY <1>2
<1>8. HeldBy(a) = Total([q \in D |-> f[q]])
  BY <1>7 DEF HeldBy, Active
<1> HIDE DEF D, f
<1>9. Total(f) = Total([q \in D |-> f[q]]) + f[r]
  BY <1>1, <1>4, TotalWith
<1>10. QED
  BY <1>4, <1>6, <1>8, <1>9

LEMMA HeldLess ==
  ASSUME RowsOK, NEW r \in Runs, hold[r].status = "active", NEW s, s # "active",
         hold' = [hold EXCEPT ![r].status = s]
  PROVE  HeldBy(AccountOf[r])' = HeldBy(AccountOf[r]) - hold[r].amount
<1> DEFINE a == AccountOf[r]
           D == Active(a)
           f == [q \in D |-> hold[q].amount]
<1>1. a \in Accounts /\ r \in D /\ D \subseteq RunsOf(a)
  BY UsageAssumption DEF RunsOf, Active
<1>2. IsFiniteSet(D) /\ f \in [D -> Nat]
  BY <1>1, RunsFinite
<1>3. f[r] = hold[r].amount
  BY <1>1
<1>4. hold'[r].status = s /\ \A q \in Runs : q # r => hold'[q] = hold[q]
  BY DEF RowsOK, HoldRow
<1>5. {q \in RunsOf(a) : hold'[q].status = "active"} = D \ {r}
  BY <1>4 DEF Active, RunsOf
<1>6. [q \in D \ {r} |-> hold'[q].amount] = [q \in D \ {r} |-> f[q]]
  BY <1>1, <1>4 DEF RunsOf
<1>7. HeldBy(a)' = Total([q \in D \ {r} |-> f[q]])
  BY <1>5, <1>6 DEF HeldBy, RunsOf
<1>8. HeldBy(a) = Total(f)
  BY DEF HeldBy, Active
<1>9. Total([q \in D \ {r} |-> f[q]]) \in Nat
  <2>1. IsFiniteSet(D \ {r})
    BY <1>2, FS_RemoveElement
  <2>2. [q \in D \ {r} |-> f[q]] \in [D \ {r} -> Nat]
    BY <1>2
  <2> HIDE DEF D, f
  <2>3. QED
    BY <2>1, <2>2, TotalIsNat
<1> HIDE DEF D, f
<1>10. Total(f) = Total([q \in D \ {r} |-> f[q]]) + f[r]
  BY <1>1, <1>2, TotalWithout
<1>11. f[r] \in Nat
  BY <1>1, <1>2
<1>12. QED
  BY <1>3, <1>7, <1>8, <1>9, <1>10, <1>11

-----------------------------------------------------------------------------
(* Money.                                                                  *)

(* A charge that is rounded up is an amount, and is clamped to its hold.   *)
LEMMA Charges ==
  ASSUME NEW n \in Nat, NEW h \in Nat
  PROVE  CeilToCredit(n) \in Nat /\ HoldAmount(n) \in Nat /\ Clamped(n, h) \in 0 .. h
<1>1. ASSUME NEW m \in Nat PROVE CeilToCredit(m) \in Nat
  <2>1. PICK c \in Nat : c = Credit /\ c > 0
    BY UsageAssumption
  <2>2. PICK r \in 0 .. c - 1 : r = m % c
    BY <2>1
  <2>3. PICK k \in Nat : k = c - r
    BY <2>1, <2>2
  <2>4. k % c \in Nat
    BY <2>1, <2>3
  <2>5. PICK d \in Nat : d = k % c
    BY <2>4
  <2>6. CeilToCredit(m) = m + d
    BY <2>1, <2>2, <2>3, <2>5 DEF CeilToCredit
  <2>7. QED
    BY <2>5, <2>6
<1>2. Buffered(n) \in Nat
  <2>1. PICK k \in Nat : k = n * (100 + BufferPercent)
    BY UsageAssumption
  <2>2. QED
    BY <2>1 DEF Buffered
<1>3. CeilToCredit(n) \in Nat /\ CeilToCredit(IF Buffered(n) > 0 THEN Buffered(n) ELSE 1) \in Nat
  BY <1>1, <1>2
<1>4. QED
  BY <1>3 DEF HoldAmount, Clamped

(* The start of a month only moves on.                                     *)
LEMMA MonthGoesOn ==
  ASSUME NEW t \in Nat
  PROVE  MonthStart(t) \in Nat /\ MonthStart(t) <= MonthStart(t + 1)
<1>1. PICK m \in Nat : m = Month /\ m > 0
  BY UsageAssumption
<1>2. PICK r \in 0 .. m - 1 : r = t % m
  BY <1>1
<1>3. PICK s \in 0 .. m - 1 : s = (t + 1) % m
  BY <1>1
<1>4. s <= r + 1
  <2>1. PICK q \in Int : t = m * q + r
    BY <1>1, <1>2
  <2>2. PICK n \in Int : t + 1 = m * n + s
    BY <1>1, <1>3
  <2>3. m * (n - q) = r + 1 - s
    BY <1>1, <2>1, <2>2
  <2>4. ASSUME s > r + 1 PROVE FALSE
    <3>1. PICK d \in Int : d = n - q
      OBVIOUS
    <3>2. m * d = r + 1 - s /\ m * d < 0 /\ m * d > -m
      BY <1>1, <2>3, <2>4, <3>1
    <3>3. CASE d >= 0
      BY <1>1, <3>2, <3>3
    <3>4. CASE d <= -1
      <4>1. PICK e \in Nat : e = -1 - d
        BY <3>4
      <4>2. m * d = -m - m * e /\ m * e >= 0
        BY <1>1, <4>1
      <4>3. QED
        BY <1>1, <3>2, <4>2
    <3>5. QED
      BY <3>3, <3>4
  <2>5. QED
    BY <2>4
<1>5. r <= t
  BY <1>1, <1>2
<1>6. QED
  BY <1>1, <1>2, <1>3, <1>4, <1>5 DEF MonthStart

-----------------------------------------------------------------------------
(* Requests in flight.                                                     *)

(* The accounts are as they were, but for balances and whether they are open. *)
AccountsAlike ==
  /\ account' \in [Accounts -> AccountRow]
  /\ \A a \in Accounts : account'[a].held = account[a].held /\ account'[a].quota = account[a].quota

(* What a request relies on outlasts a step that changes no hold, usage or quota. *)
LEMMA FreshStays ==
  ASSUME AccountsAlike, UNCHANGED <<time, usage>>, NEW j \in ReqRow, ReqWhole(j), ReqFresh(j)
  PROVE  ReqFresh(j)'
<1>1. j.op = "hold" => j.account \in Accounts
  BY UsageAssumption DEF ReqWhole
<1>2. ASSUME NEW a \in Accounts
      PROVE  CapturedSince(a, MonthStart(time))' = CapturedSince(a, MonthStart(time))
  BY DEF CapturedSince, RunsOf, MonthStart
<1>3. j.at = "hold" => j.op = "hold"
  BY DEF ReqWhole
<1>4. QED
  BY <1>1, <1>2, <1>3 DEF ReqFresh, AccountsAlike

(* One request goes a step further, and may be answered; or none does.    *)
LEMMA ProceedsAnswering ==
  ASSUME IInv, AccountsAlike, UNCHANGED <<time, rule, hold, usage>>,
         answer' \in [Runs -> AnswerRow], AnswersTell',
         NEW p \in Workers, NEW j \in ReqRow, req' = [req EXCEPT ![p] = j], ReqWhole(j), ReqFresh(j)
  PROVE  IInv'
<1>1. RowsOK'
  BY DEF IInv, RowsOK, AccountsAlike
<1>2. ReqsWhole'
  <2> SUFFICES ASSUME NEW q \in Workers PROVE ReqWhole(req[q])' /\ ReqFresh(req[q])'
    BY DEF ReqsWhole
  <2>1. PICK k \in ReqRow : k = req'[q] /\ ReqWhole(k) /\ ReqFresh(k)
    BY DEF IInv, RowsOK, ReqsWhole
  <2>2. ReqFresh(k)'
    BY <2>1, FreshStays
  <2>3. QED
    BY <2>1, <2>2 DEF ReqWhole, ReqFresh
<1>3. HoldsWhole' /\ UsageTells'
  BY DEF IInv, HoldsWhole, UsageTells
<1>4. HeldExact'
  <2>1. \A a \in Accounts : HeldBy(a)' = HeldBy(a)
    BY HeldStays DEF RunsOf
  <2>2. QED
    BY <2>1 DEF IInv, HeldExact, AccountsAlike
<1>5. QED
  BY <1>1, <1>2, <1>3, <1>4 DEF IInv

LEMMA Proceeds ==
  ASSUME IInv, AccountsAlike, UNCHANGED <<time, rule, hold, usage, answer>>,
         NEW p \in Workers, NEW j \in ReqRow, req' = [req EXCEPT ![p] = j], ReqWhole(j), ReqFresh(j)
  PROVE  IInv'
<1>1. answer' \in [Runs -> AnswerRow] /\ AnswersTell'
  BY DEF IInv, RowsOK, AnswersTell
<1>2. QED
  BY <1>1, ProceedsAnswering

(* A request that is over.                                                 *)
LEMMA Over == NoReq \in ReqRow /\ ReqWhole(NoReq) /\ ReqFresh(NoReq)
BY DEF NoReq, ReqRow, ReqWhole, ReqFresh

LEMMA Ends ==
  ASSUME IInv, UNCHANGED <<time, rule, account, hold, usage, answer>>, NEW p \in Workers, Finish(p)
  PROVE  IInv'
<1>1. AccountsAlike
  BY DEF AccountsAlike, IInv, RowsOK
<1>2. QED
  BY <1>1, Over, Proceeds DEF Finish

(* Somebody changes account a: whoever had read it knows, the others are as before. *)
LEMMA Overtaken ==
  ASSUME IInv, NEW a \in Accounts,
         NEW jobs \in [Workers -> ReqRow], req' = Noticing(jobs, a),
         \A q \in Workers : jobs[q] = req[q] \/ jobs[q] = NoReq,
         \A b \in Accounts : b # a => account'[b] = account[b],
         \A r \in Runs : AccountOf[r] # a => usage'[r] = usage[r],
         time' = time
  PROVE  req' \in [Workers -> ReqRow] /\ ReqsWhole'
<1> SUFFICES ASSUME NEW q \in Workers
             PROVE  req'[q] \in ReqRow /\ ReqWhole(req[q])' /\ ReqFresh(req[q])'
  BY DEF ReqsWhole, Noticing
<1>1. PICK j \in ReqRow : j = jobs[q] /\ ReqWhole(j) /\ ReqFresh(j)
  BY Over DEF IInv, RowsOK, ReqsWhole
<1>2. CASE j.account = a
  <2>1. PICK k : k = [j EXCEPT !.raced = TRUE]
    OBVIOUS
  <2>2. req'[q] = k
    BY <1>1, <1>2, <2>1 DEF Noticing
  <2>3. /\ k \in ReqRow /\ k.raced /\ k.at = j.at /\ k.op = j.op /\ k.run = j.run
        /\ k.account = j.account
    BY <2>1 DEF ReqRow
  <2>4. QED
    BY <1>1, <2>2, <2>3 DEF ReqWhole, ReqFresh
<1>3. CASE j.account # a
  <2>1. req'[q] = j
    BY <1>1, <1>3 DEF Noticing
  <2>2. j.op = "hold" => j.account \in Accounts
    BY <1>1, UsageAssumption DEF ReqWhole
  <2>3. ASSUME NEW b \in Accounts, b # a
        PROVE  CapturedSince(b, MonthStart(time))' = CapturedSince(b, MonthStart(time))
    <3>1. \A r \in RunsOf(b) : usage'[r] = usage[r]
      BY <2>3 DEF RunsOf
    <3>2. PICK t : t = MonthStart(time)
      OBVIOUS
    <3>3. MonthStart(time)' = t
      BY <3>2 DEF MonthStart
    <3>4. CapturedSince(b, t)' = CapturedSince(b, t)
      BY <3>1, CapturedStays
    <3>5. CapturedSince(b, MonthStart(time))' = CapturedSince(b, t)'
      BY <3>3 DEF CapturedSince
    <3>6. QED
      BY <3>2, <3>4, <3>5
  <2>4. j.at = "hold" => j.op = "hold"
    BY <1>1 DEF ReqWhole
  <2>5. ReqFresh(j)'
    BY <1>1, <1>3, <2>2, <2>3, <2>4 DEF ReqFresh
  <2>6. QED
    BY <1>1, <2>1, <2>5 DEF ReqWhole, ReqFresh
<1>4. QED
  BY <1>2, <1>3

-----------------------------------------------------------------------------
(* Steps that change no hold, usage or quota.                              *)

(* The row of a request, as the invariant has it.                          *)
LEMMA RequestIs ==
  ASSUME IInv, NEW p \in Workers
  PROVE  req[p] \in ReqRow /\ ReqWhole(req[p]) /\ ReqFresh(req[p])
BY DEF IInv, RowsOK, ReqsWhole

(* An account is opened or its balance grows: no request has read that.    *)
LEMMA AccountGrows ==
  ASSUME IInv, NEW a \in Accounts, NEW row \in AccountRow, account' = [account EXCEPT ![a] = row],
         row.held = account[a].held, row.quota = account[a].quota
  PROVE  AccountsAlike
BY DEF IInv, RowsOK, AccountsAlike

LEMMA EnsureAccountKeeps ==
  ASSUME IInv, NEW p \in Workers, EnsureAccount(p) PROVE IInv'
<1>1. PICK k \in ReqRow : k = req[p] /\ ReqWhole(k) /\ k.at = "ensure"
  BY RequestIs DEF EnsureAccount, At
<1>2. k.account \in Accounts /\ k.op \in {"hold", "gift"}
  BY <1>1, UsageAssumption DEF ReqWhole, ReqRow
<1>3. PICK row \in AccountRow : row = account[k.account]
  BY <1>2 DEF IInv, RowsOK
<1>4. PICK open : open = [row EXCEPT !.open = TRUE]
  OBVIOUS
<1>5. open \in AccountRow /\ open.held = row.held /\ open.quota = row.quota
  BY <1>4 DEF AccountRow
<1>6. account' = [account EXCEPT ![k.account] = open]
  BY <1>1, <1>3, <1>4 DEF EnsureAccount
<1>7. AccountsAlike
  BY <1>2, <1>3, <1>5, <1>6, AccountGrows
<1>8. PICK at : at = IF ~account[k.account].open /\ Welcome > 0 THEN "welcome"
                     ELSE IF k.op = "gift" THEN "gift" ELSE "price"
  OBVIOUS
<1>9. PICK j : j = [k EXCEPT !.at = at, !.held = row.held, !.quota = row.quota, !.raced = FALSE]
  OBVIOUS
<1>10. req' = [req EXCEPT ![p] = j]
  BY <1>1, <1>3, <1>8, <1>9 DEF EnsureAccount
<1>11. j \in ReqRow /\ j.at = at /\ j.op = k.op /\ j.run = k.run /\ j.account = k.account
       /\ j.held = row.held /\ j.quota = row.quota
  BY <1>8, <1>9 DEF ReqRow, AccountRow
<1>12. ReqWhole(j)
  BY <1>1, <1>2, <1>8, <1>11 DEF ReqWhole
<1>13. ReqFresh(j)
  BY <1>2, <1>3, <1>8, <1>11 DEF ReqFresh
<1>14. QED
  BY <1>7, <1>10, <1>11, <1>12, <1>13, Proceeds DEF EnsureAccount

LEMMA GrantWelcomeKeeps ==
  ASSUME IInv, NEW p \in Workers, GrantWelcome(p) PROVE IInv'
<1>1. PICK k \in ReqRow : k = req[p] /\ ReqWhole(k) /\ ReqFresh(k) /\ k.at = "welcome"
  BY RequestIs DEF GrantWelcome, At
<1>2. k.account \in Accounts /\ k.op \in {"hold", "gift"}
  BY <1>1, UsageAssumption DEF ReqWhole, ReqRow
<1>3. PICK row \in AccountRow : row = account[k.account]
  BY <1>2 DEF IInv, RowsOK
<1>4. PICK new : new = [row EXCEPT !.balance = @ + Welcome]
  OBVIOUS
<1>5. new \in AccountRow /\ new.held = row.held /\ new.quota = row.quota
  <2>1. row.balance + Welcome \in Nat
    BY UsageAssumption DEF AccountRow
  <2>2. QED
    BY <1>4, <2>1 DEF AccountRow
<1>6. account' = [account EXCEPT ![k.account] = new]
  BY <1>1, <1>3, <1>4 DEF GrantWelcome
<1>7. AccountsAlike
  BY <1>2, <1>3, <1>5, <1>6, AccountGrows
<1>8. PICK at : at = IF k.op = "gift" THEN "gift" ELSE "price"
  OBVIOUS
<1>9. PICK j : j = [k EXCEPT !.at = at]
  OBVIOUS
<1>10. req' = [req EXCEPT ![p] = j]
  BY <1>1, <1>8, <1>9 DEF GrantWelcome
<1>11. j \in ReqRow /\ j.at = at /\ j.op = k.op /\ j.run = k.run /\ j.account = k.account
       /\ j.held = k.held /\ j.quota = k.quota /\ j.raced = k.raced
  BY <1>8, <1>9 DEF ReqRow
<1>12. ReqWhole(j) /\ ReqFresh(j)
  BY <1>1, <1>2, <1>8, <1>11 DEF ReqWhole, ReqFresh
<1>13. QED
  BY <1>7, <1>10, <1>11, <1>12, Proceeds DEF GrantWelcome

(* A request begins.                                                       *)
LEMMA Begins ==
  ASSUME IInv, NEW p \in Workers, NEW j \in ReqRow, Begin(p, j), ReqWhole(j), ReqFresh(j),
         UNCHANGED <<time, rule, account, hold, usage, answer>>
  PROVE  IInv'
<1>1. AccountsAlike
  BY DEF AccountsAlike, IInv, RowsOK
<1>2. QED
  BY <1>1, Proceeds DEF Begin

LEMMA AskGiftKeeps ==
  ASSUME IInv, NEW p \in Workers, AskGift(p) PROVE IInv'
<1>1. PICK a \in Accounts, g \in Gifts :
        Begin(p, [NoReq EXCEPT !.at = "ensure", !.op = "gift", !.account = a, !.sum = g])
  BY DEF AskGift
<1>2. PICK j : j = [NoReq EXCEPT !.at = "ensure", !.op = "gift", !.account = a, !.sum = g]
  OBVIOUS
<1>3. j = [at |-> "ensure", op |-> "gift", run |-> None, account |-> a, held |-> 0,
           quota |-> None, line |-> 0, sum |-> g, until |-> 0, raced |-> FALSE]
  BY <1>2 DEF NoReq
<1>4. j \in ReqRow /\ ReqWhole(j) /\ ReqFresh(j)
  BY <1>3, UsageAssumption DEF ReqRow, ReqWhole, ReqFresh
<1>5. QED
  BY <1>1, <1>2, <1>4, Begins DEF AskGift

LEMMA AskHoldKeeps ==
  ASSUME IInv, NEW p \in Workers, AskHold(p) PROVE IInv'
<1>1. PICK r \in Runs : Begin(p, [NoReq EXCEPT !.at = "ensure", !.op = "hold", !.run = r,
                                               !.account = AccountOf[r]])
  BY DEF AskHold
<1>2. PICK j : j = [NoReq EXCEPT !.at = "ensure", !.op = "hold", !.run = r,
                                 !.account = AccountOf[r]]
  OBVIOUS
<1>3. j = [at |-> "ensure", op |-> "hold", run |-> r, account |-> AccountOf[r], held |-> 0,
           quota |-> None, line |-> 0, sum |-> 0, until |-> 0, raced |-> FALSE]
  BY <1>2 DEF NoReq
<1>4. j \in ReqRow /\ ReqWhole(j) /\ ReqFresh(j)
  BY <1>3, UsageAssumption DEF ReqRow, ReqWhole, ReqFresh
<1>5. QED
  BY <1>1, <1>2, <1>4, Begins DEF AskHold

LEMMA AskSettleKeeps ==
  ASSUME IInv, NEW p \in Workers, AskSettle(p) PROVE IInv'
<1>1. PICK r \in Runs : Begin(p, [NoReq EXCEPT !.at = "price", !.op = "settle", !.run = r])
  BY DEF AskSettle
<1>2. PICK j : j = [NoReq EXCEPT !.at = "price", !.op = "settle", !.run = r]
  OBVIOUS
<1>3. j = [at |-> "price", op |-> "settle", run |-> r, account |-> None, held |-> 0,
           quota |-> None, line |-> 0, sum |-> 0, until |-> 0, raced |-> FALSE]
  BY <1>2 DEF NoReq
<1>4. j \in ReqRow /\ ReqWhole(j) /\ ReqFresh(j)
  BY <1>3, UsageAssumption DEF ReqRow, ReqWhole, ReqFresh
<1>5. QED
  BY <1>1, <1>2, <1>4, Begins DEF AskSettle

LEMMA GiftKeeps ==
  ASSUME IInv, NEW p \in Workers, Gift(p) PROVE IInv'
<1>1. PICK k \in ReqRow : k = req[p] /\ ReqWhole(k) /\ k.at = "gift"
  BY RequestIs DEF Gift, At
<1>2. k.account \in Accounts /\ k.sum \in Nat
  BY <1>1, UsageAssumption DEF ReqWhole, ReqRow
<1>3. PICK row \in AccountRow : row = account[k.account]
  BY <1>2 DEF IInv, RowsOK
<1>4. PICK new : new = [row EXCEPT !.balance = @ + k.sum]
  OBVIOUS
<1>5. new \in AccountRow /\ new.held = row.held /\ new.quota = row.quota
  BY <1>2, <1>4 DEF AccountRow
<1>6. account' = [account EXCEPT ![k.account] = new]
  BY <1>1, <1>3, <1>4 DEF Gift
<1>7. AccountsAlike
  BY <1>2, <1>3, <1>5, <1>6, AccountGrows
<1>8. QED
  BY <1>7, Over, Proceeds DEF Gift, Finish

(* What a line is charged is an amount.                                    *)
LEMMA LineCharged ==
  ASSUME IInv, NEW p \in Workers, req[p].at = "price", req[p].line + 1 \in Lines,
         NEW tokens, tokens = (IF req[p].op = "hold" THEN Estimate[req[p].line + 1]
                               ELSE UsageOf[req[p].run][req[p].line + 1])
  PROVE  req[p].sum + (PriceOf(LabelOf[req[p].run], req[p].line + 1) * tokens) \in Nat
<1>1. PICK k \in ReqRow : k = req[p] /\ ReqWhole(k) /\ k.at = "price" /\ k.run \in Runs
  BY RequestIs DEF ReqWhole, ReqRow
<1>2. tokens \in Nat
  BY <1>1, UsageAssumption DEF Lines
<1>3. LabelOf[k.run] \in Labels \cup {None}
  BY <1>1, UsageAssumption
<1>4. PriceOf(LabelOf[k.run], k.line + 1) \in Nat
  BY <1>1, <1>3 DEF PriceOf, IInv, RowsOK
<1>5. PICK n \in Nat : n = PriceOf(LabelOf[k.run], k.line + 1)
  BY <1>4
<1>6. n * tokens \in Nat
  BY <1>2
<1>7. QED
  BY <1>1, <1>5, <1>6 DEF ReqRow

LEMMA PriceLineKeeps ==
  ASSUME IInv, NEW p \in Workers, PriceLine(p) PROVE IInv'
<1>1. PICK k \in ReqRow : k = req[p] /\ ReqWhole(k) /\ ReqFresh(k) /\ k.at = "price"
  BY RequestIs DEF PriceLine, At
<1>2. k.line + 1 \in Lines
  BY <1>1 DEF PriceLine
<1>3. PICK tokens : tokens = IF req[p].op = "hold" THEN Estimate[req[p].line + 1]
                             ELSE UsageOf[req[p].run][req[p].line + 1]
  OBVIOUS
<1>4. PICK n \in Nat : n = req[p].sum + (PriceOf(LabelOf[req[p].run], req[p].line + 1) * tokens)
  BY <1>1, <1>2, <1>3, LineCharged
<1>5. CASE Finish(p)
  BY <1>5, Ends DEF PriceLine
<1>6. CASE ~Finish(p)
  <2>1. req' = [req EXCEPT ![p].line = req[p].line + 1,
                           ![p].sum = @ + (PriceOf(LabelOf[req[p].run], req[p].line + 1) * tokens)]
    BY <1>3, <1>6 DEF PriceLine
  <2>2. PICK j : j = [k EXCEPT !.line = k.line + 1, !.sum = n]
    OBVIOUS
  <2>3. req' = [req EXCEPT ![p] = j]
    BY <1>1, <1>4, <2>1, <2>2 DEF IInv, RowsOK, ReqRow
  <2>4. j \in ReqRow /\ j.at = k.at /\ j.op = k.op /\ j.run = k.run /\ j.account = k.account
        /\ j.held = k.held /\ j.quota = k.quota /\ j.raced = k.raced
    <3>1. k.line + 1 \in Nat
      BY DEF ReqRow
    <3>2. QED
      BY <2>2, <3>1 DEF ReqRow
  <2>5. ReqWhole(j) /\ ReqFresh(j)
    BY <1>1, <2>4 DEF ReqWhole, ReqFresh
  <2>6. AccountsAlike
    BY DEF PriceLine, AccountsAlike, IInv, RowsOK
  <2>7. QED
    BY <2>3, <2>4, <2>5, <2>6, Proceeds DEF PriceLine
<1>7. QED
  BY <1>5, <1>6

LEMMA GateKeeps ==
  ASSUME IInv, NEW p \in Workers, Gate(p) PROVE IInv'
<1>1. PICK k \in ReqRow : k = req[p] /\ ReqWhole(k) /\ ReqFresh(k) /\ k.at = "price" /\ k.op = "hold"
  BY RequestIs DEF Gate, At
<1>2. PICK n \in Nat : n = HoldAmount(k.sum)
  BY Charges DEF ReqRow
<1>3. CASE ~WithinQuota(p, n)
  BY <1>1, <1>2, <1>3, Ends DEF Gate
<1>4. CASE WithinQuota(p, n)
  <2>1. PICK j : j = [k EXCEPT !.at = "hold", !.sum = n, !.until = time + HoldTtl]
    OBVIOUS
  <2>2. req' = [req EXCEPT ![p] = j]
    <3>1. req' = [req EXCEPT ![p].at = "hold", ![p].sum = HoldAmount(req[p].sum),
                             ![p].until = time + HoldTtl]
      BY <1>1, <1>2, <1>4 DEF Gate
    <3>2. QED
      BY <1>1, <1>2, <2>1, <3>1 DEF IInv, RowsOK, ReqRow
  <2>3. time + HoldTtl \in Nat
    BY UsageAssumption DEF IInv, RowsOK
  <2>4. j \in ReqRow /\ j.at = "hold" /\ j.op = k.op /\ j.run = k.run /\ j.account = k.account
        /\ j.held = k.held /\ j.quota = k.quota /\ j.raced = k.raced /\ j.sum = n
    BY <2>1, <2>3 DEF ReqRow
  <2>5. k.quota # None => CapturedSince(k.account, MonthStart(time)) + k.held + n <= k.quota
    BY <1>1, <1>4 DEF WithinQuota
  <2>6. ReqWhole(j) /\ ReqFresh(j)
    BY <1>1, <2>4, <2>5 DEF ReqWhole, ReqFresh
  <2>7. AccountsAlike
    BY DEF Gate, AccountsAlike, IInv, RowsOK
  <2>8. QED
    BY <2>2, <2>4, <2>6, <2>7, Proceeds DEF Gate
<1>5. QED
  BY <1>3, <1>4

(* Prices and quotas change.                                               *)
LEMMA ChangePriceKeeps ==
  ASSUME IInv, NEW label \in Labels \cup {None}, NEW i \in Lines, NEW price \in Prices,
         ChangePrice(label, i, price)
  PROVE  IInv'
<1>1. AccountsAlike /\ UNCHANGED <<time, usage>>
  BY DEF ChangePrice, AccountsAlike, IInv, RowsOK
<1>2. RowsOK'
  <2>1. rule' \in [Labels \cup {None} -> [Lines -> Nat]]
    BY UsageAssumption DEF ChangePrice, IInv, RowsOK
  <2>2. QED
    BY <2>1 DEF ChangePrice, IInv, RowsOK
<1>3. ReqsWhole'
  <2> SUFFICES ASSUME NEW q \in Workers PROVE ReqWhole(req[q])' /\ ReqFresh(req[q])'
    BY DEF ReqsWhole
  <2>1. PICK k \in ReqRow : k = req'[q] /\ ReqWhole(k) /\ ReqFresh(k)
    BY RequestIs DEF ChangePrice
  <2>2. ReqFresh(k)'
    BY <1>1, <2>1, FreshStays
  <2>3. QED
    BY <2>1, <2>2 DEF ReqWhole, ReqFresh
<1>4. HoldsWhole' /\ UsageTells' /\ AnswersTell'
  BY DEF ChangePrice, IInv, HoldsWhole, UsageTells, AnswersTell
<1>5. HeldExact'
  <2>1. \A a \in Accounts : HeldBy(a)' = HeldBy(a)
    BY HeldStays DEF ChangePrice, RunsOf
  <2>2. QED
    BY <2>1 DEF ChangePrice, IInv, HeldExact
<1>6. QED
  BY <1>2, <1>3, <1>4, <1>5 DEF IInv

LEMMA SetAccountQuotaKeeps ==
  ASSUME IInv, NEW a \in Accounts, NEW q \in Quotas, SetAccountQuota(a, q) PROVE IInv'
<1>1. PICK row \in AccountRow : row = account[a]
  BY DEF IInv, RowsOK
<1>2. PICK new : new = [row EXCEPT !.quota = q]
  OBVIOUS
<1>3. new \in AccountRow /\ new.held = row.held
  BY <1>2 DEF AccountRow
<1>4. account' = [account EXCEPT ![a] = new]
  BY <1>1, <1>2 DEF SetAccountQuota
<1>5. account' \in [Accounts -> AccountRow]
      /\ \A b \in Accounts : account'[b].held = account[b].held /\ (b # a => account'[b] = account[b])
  BY <1>1, <1>3, <1>4 DEF IInv, RowsOK
<1>6. req' \in [Workers -> ReqRow] /\ ReqsWhole'
  <2>1. req \in [Workers -> ReqRow]
    BY DEF IInv, RowsOK
  <2>2. req' = Noticing(req, a) /\ time' = time /\ usage' = usage
    BY DEF SetAccountQuota
  <2>3. QED
    BY <1>5, <2>1, <2>2, Overtaken
<1>7. RowsOK'
  BY <1>5, <1>6 DEF SetAccountQuota, IInv, RowsOK
<1>8. HoldsWhole' /\ UsageTells' /\ AnswersTell'
  BY DEF SetAccountQuota, IInv, HoldsWhole, UsageTells, AnswersTell
<1>9. HeldExact'
  <2>1. \A b \in Accounts : HeldBy(b)' = HeldBy(b)
    BY HeldStays DEF SetAccountQuota, RunsOf
  <2>2. QED
    BY <1>5, <2>1 DEF IInv, HeldExact
<1>10. QED
  BY <1>6, <1>7, <1>8, <1>9 DEF IInv

(* A month may begin, and what was captured before it counts no more.      *)
LEMMA TickKeeps ==
  ASSUME IInv, Tick PROVE IInv'
<1>1. PICK t \in Nat : t = time /\ time' = t + 1
  BY DEF Tick, IInv, RowsOK
<1>2. RowsOK'
  BY <1>1 DEF Tick, IInv, RowsOK
<1>3. ReqsWhole'
  <2> SUFFICES ASSUME NEW q \in Workers PROVE ReqWhole(req[q])' /\ ReqFresh(req[q])'
    BY DEF ReqsWhole
  <2>1. PICK k \in ReqRow : k = req'[q] /\ ReqWhole(k) /\ ReqFresh(k)
    BY RequestIs DEF Tick
  <2>2. k.at = "hold" => k.op = "hold" /\ k.account \in Accounts
    BY <2>1, UsageAssumption DEF ReqWhole
  <2>3. ASSUME NEW a \in Accounts
        PROVE  CapturedSince(a, MonthStart(time))' <= CapturedSince(a, MonthStart(time))
               /\ CapturedSince(a, MonthStart(time))' \in Nat
               /\ CapturedSince(a, MonthStart(time)) \in Nat
    <3>1. PICK u, v \in Nat : u = MonthStart(t) /\ v = MonthStart(t + 1) /\ u <= v
      BY MonthGoesOn
    <3>2. CapturedSince(a, v) <= CapturedSince(a, u)
      BY <3>1, CapturedLater DEF IInv
    <3>3. CapturedSince(a, v)' = CapturedSince(a, v)
      BY CapturedStays DEF Tick
    <3>4. CapturedSince(a, MonthStart(time))' = CapturedSince(a, v)'
      BY <1>1, <3>1 DEF CapturedSince, MonthStart
    <3>5. CapturedSince(a, u) \in Nat /\ CapturedSince(a, v) \in Nat
      BY SumsAreNat DEF IInv
    <3>6. QED
      BY <1>1, <3>1, <3>2, <3>3, <3>4, <3>5
  <2>4. ReqFresh(k)'
    <3>1. k.op = "hold" /\ k.at # "ensure" /\ ~k.raced =>
            k.held = account'[k.account].held /\ k.quota = account'[k.account].quota
      BY <2>1 DEF ReqFresh, Tick
    <3>2. ASSUME k.at = "hold", ~k.raced, k.quota # None
          PROVE  CapturedSince(k.account, MonthStart(time))' + k.held + k.sum <= k.quota
      <4>1. PICK c, d \in Nat : c = CapturedSince(k.account, MonthStart(time)) /\ d <= c
                                /\ d = CapturedSince(k.account, MonthStart(time))'
        BY <2>2, <2>3, <3>2
      <4>2. c + k.held + k.sum <= k.quota
        BY <2>1, <3>2, <4>1 DEF ReqFresh
      <4>3. k.held \in Int /\ k.sum \in Nat /\ k.quota \in Nat
        BY <3>2, UsageAssumption DEF ReqRow
      <4>4. QED
        BY <4>1, <4>2, <4>3
    <3>3. QED
      BY <3>1, <3>2 DEF ReqFresh
  <2>5. QED
    BY <2>1, <2>4 DEF ReqWhole, ReqFresh
<1>4. HoldsWhole' /\ UsageTells' /\ AnswersTell'
  BY DEF Tick, IInv, HoldsWhole, UsageTells, AnswersTell
<1>5. HeldExact'
  <2>1. \A a \in Accounts : HeldBy(a)' = HeldBy(a)
    BY HeldStays DEF Tick, RunsOf
  <2>2. QED
    BY <2>1 DEF Tick, IInv, HeldExact
<1>6. QED
  BY <1>2, <1>3, <1>4, <1>5 DEF IInv

-----------------------------------------------------------------------------
(* Holds come and go.                                                      *)

(* The account of a hold, after a step that changes what it holds.         *)
LEMMA HoldsExactly ==
  ASSUME IInv, NEW r \in Runs, NEW row \in AccountRow,
         account' = [account EXCEPT ![AccountOf[r]] = row],
         \A q \in Runs : q # r => hold'[q] = hold[q],
         row.held = HeldBy(AccountOf[r])'
  PROVE  /\ account' \in [Accounts -> AccountRow]
         /\ \A b \in Accounts : b # AccountOf[r] => account'[b] = account[b]
         /\ HeldExact'
<1>1. /\ account' \in [Accounts -> AccountRow] /\ AccountOf[r] \in Accounts
      /\ account'[AccountOf[r]] = row
      /\ \A b \in Accounts : b # AccountOf[r] => account'[b] = account[b]
  BY UsageAssumption DEF IInv, RowsOK
<1>2. \A b \in Accounts : b # AccountOf[r] => HeldBy(b)' = HeldBy(b)
  BY HeldStays DEF RunsOf
<1>3. QED
  BY <1>1, <1>2 DEF IInv, HeldExact

LEMMA HoldCreditsKeeps ==
  ASSUME IInv, NEW p \in Workers, HoldCredits(p) PROVE IInv'
<1>1. PICK k \in ReqRow : k = req[p] /\ ReqWhole(k) /\ k.at = "hold" /\ k.op = "hold"
  BY RequestIs DEF HoldCredits, At, ReqWhole
<1>2. PICK r \in Runs : r = k.run /\ k.account = AccountOf[r] /\ AccountOf[r] \in Accounts
  BY <1>1, UsageAssumption DEF ReqWhole
<1>3. PICK row \in AccountRow : row = account[AccountOf[r]]
  BY <1>2 DEF IInv, RowsOK
<1>4. PICK n \in Nat : n = k.sum
  BY DEF ReqRow
<1>5. CASE hold[r] # NoHold \/ row.balance < n
  BY <1>1, <1>2, <1>3, <1>4, <1>5, Ends DEF HoldCredits
<1>6. CASE hold[r] = NoHold /\ ~(row.balance < n)
  <2>1. /\ account' = [account EXCEPT ![AccountOf[r]].balance = @ - n, ![AccountOf[r]].held = @ + n]
        /\ hold' = [hold EXCEPT ![r] = [status |-> "active", amount |-> n,
                                        expiresAt |-> k.until]]
        /\ FinishChanging(p, AccountOf[r])
        /\ UNCHANGED <<ops, time, rule, usage, answer>>
    BY <1>1, <1>2, <1>3, <1>4, <1>6 DEF HoldCredits
  <2>2. PICK new : new = [row EXCEPT !.balance = @ - n, !.held = @ + n]
    OBVIOUS
  <2>3. new \in AccountRow /\ new.held = row.held + n
    <3>1. row.balance - n \in Nat /\ row.held + n \in Int
      BY <1>6 DEF AccountRow
    <3>2. QED
      BY <2>2, <3>1 DEF AccountRow
  <2>4. account' = [account EXCEPT ![AccountOf[r]] = new]
    BY <1>2, <1>3, <2>1, <2>2 DEF IInv, RowsOK
  <2>5. PICK h : h = [status |-> "active", amount |-> n, expiresAt |-> k.until]
    OBVIOUS
  <2>6. h \in HoldRow /\ h.status = "active" /\ h.amount = n /\ hold' = [hold EXCEPT ![r] = h]
    BY <2>1, <2>5 DEF HoldRow, ReqRow
  <2>7. hold' \in [Runs -> HoldRow] /\ hold'[r] = h /\ \A q \in Runs : q # r => hold'[q] = hold[q]
    BY <2>6 DEF IInv, RowsOK
  <2>8. hold[r].status = "none"
    BY <1>6 DEF NoHold
  <2>9. HeldBy(AccountOf[r])' = HeldBy(AccountOf[r]) + n
    BY <2>6, <2>8, HeldMore DEF IInv
  <2>10. new.held = HeldBy(AccountOf[r])'
    BY <1>2, <1>3, <2>3, <2>9 DEF IInv, HeldExact
  <2>11. /\ account' \in [Accounts -> AccountRow]
         /\ \A b \in Accounts : b # AccountOf[r] => account'[b] = account[b]
         /\ HeldExact'
    BY <2>3, <2>4, <2>7, <2>10, HoldsExactly
  <2>12. req' \in [Workers -> ReqRow] /\ ReqsWhole'
    <3>1. PICK jobs : jobs = [req EXCEPT ![p] = NoReq]
      OBVIOUS
    <3>2. jobs \in [Workers -> ReqRow] /\ \A q \in Workers : jobs[q] = req[q] \/ jobs[q] = NoReq
      BY <3>1, Over DEF IInv, RowsOK
    <3>3. req' = Noticing(jobs, AccountOf[r])
      BY <2>1, <3>1 DEF FinishChanging
    <3>4. QED
      BY <1>2, <2>1, <2>11, <3>2, <3>3, Overtaken
  <2>13. RowsOK'
    BY <2>1, <2>7, <2>11, <2>12 DEF IInv, RowsOK
  <2>14. HoldsWhole'
    BY <2>6, <2>7 DEF IInv, HoldsWhole
  <2>15. usage[r] = NoUsage /\ answer[r] = NoAnswer
    BY <2>8 DEF IInv, UsageTells, AnswersTell
  <2>16. UsageTells'
    BY <2>1, <2>7, <2>15 DEF IInv, UsageTells
  <2>17. AnswersTell'
    BY <2>1, <2>7, <2>15 DEF IInv, AnswersTell
  <2>18. QED
    BY <2>11, <2>12, <2>13, <2>14, <2>16, <2>17 DEF IInv
<1>7. QED
  BY <1>5, <1>6

(* A hold is closed: its credit leaves what is held, all of it.            *)
LEMMA Closes ==
  ASSUME IInv, NEW r \in Runs, hold[r].status = "active",
         NEW s \in {"captured", "released", "expired"}, NEW n \in 0 .. hold[r].amount,
         CloseHold(r, s, n)
  PROVE  /\ hold' \in [Runs -> HoldRow] /\ hold'[r].status = s
         /\ \A q \in Runs : q # r => hold'[q] = hold[q]
         /\ account' \in [Accounts -> AccountRow]
         /\ \A b \in Accounts : b # AccountOf[r] => account'[b] = account[b]
         /\ HoldsWhole' /\ HeldExact'
         /\ usage[r] = NoUsage /\ answer[r] = NoAnswer
<1>1. PICK h \in HoldRow : h = hold[r] /\ h.amount \in Nat
  BY DEF IInv, RowsOK, HoldRow
<1>2. PICK a \in Accounts : a = AccountOf[r]
  BY UsageAssumption
<1>3. PICK row \in AccountRow : row = account[a]
  BY DEF IInv, RowsOK
<1>4. PICK new : new = [row EXCEPT !.balance = @ + (h.amount - n), !.held = @ - h.amount]
  OBVIOUS
<1>5. new \in AccountRow /\ new.held = row.held - h.amount
  <2>1. row.balance + (h.amount - n) \in Nat /\ row.held - h.amount \in Int
    BY <1>1 DEF AccountRow
  <2>2. QED
    BY <1>4, <2>1 DEF AccountRow
<1>6. account' = [account EXCEPT ![AccountOf[r]] = new]
  BY <1>1, <1>2, <1>3, <1>4 DEF CloseHold, IInv, RowsOK
<1>7. hold' = [hold EXCEPT ![r].status = s]
  BY DEF CloseHold
<1>8. hold' \in [Runs -> HoldRow] /\ hold'[r].status = s /\ \A q \in Runs : q # r => hold'[q] = hold[q]
  BY <1>7 DEF IInv, RowsOK, HoldRow
<1>9. HeldBy(AccountOf[r])' = HeldBy(AccountOf[r]) - h.amount
  BY <1>1, <1>7, HeldLess DEF IInv
<1>10. new.held = HeldBy(AccountOf[r])'
  BY <1>2, <1>3, <1>5, <1>9 DEF IInv, HeldExact
<1>11. /\ account' \in [Accounts -> AccountRow]
       /\ \A b \in Accounts : b # AccountOf[r] => account'[b] = account[b]
       /\ HeldExact'
  BY <1>5, <1>6, <1>8, <1>10, HoldsExactly
<1>12. HoldsWhole'
  BY <1>8 DEF IInv, HoldsWhole
<1>13. usage[r] = NoUsage /\ answer[r] = NoAnswer
  BY DEF IInv, UsageTells, AnswersTell
<1>14. QED
  BY <1>8, <1>11, <1>12, <1>13

(* The run gives up, or the hold expires.                                  *)
LEMMA GivenBack ==
  ASSUME IInv, NEW r \in Runs, hold[r].status = "active", NEW s \in {"released", "expired"},
         CloseHold(r, s, 0), req' = Noticing(req, AccountOf[r]),
         UNCHANGED <<time, rule, usage, answer>>
  PROVE  IInv'
<1>1. 0 \in 0 .. hold[r].amount
  BY DEF IInv, RowsOK, HoldRow
<1>2. /\ hold' \in [Runs -> HoldRow] /\ hold'[r].status = s
      /\ \A q \in Runs : q # r => hold'[q] = hold[q]
      /\ account' \in [Accounts -> AccountRow]
      /\ \A b \in Accounts : b # AccountOf[r] => account'[b] = account[b]
      /\ HoldsWhole' /\ HeldExact'
      /\ usage[r] = NoUsage /\ answer[r] = NoAnswer
  BY <1>1, Closes
<1>3. req' \in [Workers -> ReqRow] /\ ReqsWhole'
  <2>1. req \in [Workers -> ReqRow] /\ AccountOf[r] \in Accounts
    BY UsageAssumption DEF IInv, RowsOK
  <2>2. QED
    BY <1>2, <2>1, Overtaken
<1>4. RowsOK'
  BY <1>2, <1>3 DEF IInv, RowsOK
<1>5. UsageTells' /\ AnswersTell'
  BY <1>2 DEF IInv, UsageTells, AnswersTell
<1>6. QED
  BY <1>2, <1>3, <1>4, <1>5 DEF IInv

(* A settlement closes the hold, or finds it closed.                       *)
LEMMA SettledNow ==
  ASSUME IInv, NEW p \in Workers, NEW r \in Runs, hold[r].status = "active",
         NEW s \in {"captured", "released"}, NEW n \in 0 .. hold[r].amount,
         CloseHold(r, s, n), FinishChanging(p, AccountOf[r]),
         UNCHANGED <<time, rule>>,
         IF s = "released" THEN usage' = usage
         ELSE usage' = [usage EXCEPT ![r] = [amount |-> n, at |-> time]] /\ n > 0,
         answer' = [answer EXCEPT ![r] =
                      IF s = "released" THEN [outcome |-> "released", amount |-> 0]
                      ELSE [outcome |-> "captured", amount |-> n]]
  PROVE  IInv'
<1>1. /\ hold' \in [Runs -> HoldRow] /\ hold'[r].status = s
      /\ \A q \in Runs : q # r => hold'[q] = hold[q]
      /\ account' \in [Accounts -> AccountRow]
      /\ \A b \in Accounts : b # AccountOf[r] => account'[b] = account[b]
      /\ HoldsWhole' /\ HeldExact'
      /\ usage[r] = NoUsage /\ answer[r] = NoAnswer
  BY Closes
<1>2. n \in Nat
  BY DEF IInv, RowsOK, HoldRow
<1>3. usage' \in [Runs -> UsageRow] /\ \A q \in Runs : q # r => usage'[q] = usage[q]
  BY <1>2 DEF IInv, RowsOK, UsageRow
<1>4. answer' \in [Runs -> AnswerRow] /\ \A q \in Runs : q # r => answer'[q] = answer[q]
  BY <1>2 DEF IInv, RowsOK, AnswerRow
<1>5. req' \in [Workers -> ReqRow] /\ ReqsWhole'
  <2>1. PICK jobs : jobs = [req EXCEPT ![p] = NoReq]
    OBVIOUS
  <2>2. jobs \in [Workers -> ReqRow] /\ \A q \in Workers : jobs[q] = req[q] \/ jobs[q] = NoReq
    BY <2>1, Over DEF IInv, RowsOK
  <2>3. req' = Noticing(jobs, AccountOf[r]) /\ AccountOf[r] \in Accounts
    BY <2>1, UsageAssumption DEF FinishChanging
  <2>4. \A q \in Runs : AccountOf[q] # AccountOf[r] => usage'[q] = usage[q]
    BY <1>3
  <2>5. QED
    BY <1>1, <2>2, <2>3, <2>4, Overtaken
<1>6. RowsOK'
  BY <1>1, <1>3, <1>4, <1>5 DEF IInv, RowsOK
<1>7. UsageTells'
  BY <1>1, <1>3 DEF IInv, UsageTells
<1>8. AnswersTell'
  <2> SUFFICES ASSUME NEW q \in Runs
               PROVE  \/ answer'[q] = NoAnswer
                      \/ /\ answer'[q] = [outcome |-> "released", amount |-> 0]
                         /\ hold'[q].status = "released"
                      \/ /\ answer'[q] = [outcome |-> "captured", amount |-> usage'[q].amount]
                         /\ usage'[q] # NoUsage
    BY DEF AnswersTell
  <2>1. CASE q # r
    BY <1>1, <1>3, <1>4, <2>1 DEF IInv, AnswersTell
  <2>2. CASE q = r /\ s = "released"
    <3>1. answer'[q] = [outcome |-> "released", amount |-> 0]
      BY <2>2 DEF IInv, RowsOK
    <3>2. QED
      BY <1>1, <2>2, <3>1
  <2>3. CASE q = r /\ s = "captured"
    <3>1. answer'[q] = [outcome |-> "captured", amount |-> n]
      BY <2>3 DEF IInv, RowsOK
    <3>2. usage'[q] = [amount |-> n, at |-> time] /\ n > 0
      BY <2>3 DEF IInv, RowsOK
    <3>3. usage'[q].amount = n /\ usage'[q] # NoUsage
      BY <3>2 DEF NoUsage
    <3>4. QED
      BY <3>1, <3>3
  <2>4. QED
    BY <2>1, <2>2, <2>3
<1>9. QED
  BY <1>1, <1>5, <1>6, <1>7, <1>8 DEF IInv

LEMMA AnsweredAgain ==
  ASSUME IInv, NEW p \in Workers, NEW r \in Runs, Finish(p),
         UNCHANGED <<time, rule, account, hold, usage>>,
         \/ /\ hold[r].status = "released"
            /\ answer' = [answer EXCEPT ![r] = [outcome |-> "released", amount |-> 0]]
         \/ /\ usage[r] # NoUsage
            /\ answer' = [answer EXCEPT ![r] = [outcome |-> "captured", amount |-> usage[r].amount]]
  PROVE  IInv'
<1>1. AccountsAlike
  BY DEF AccountsAlike, IInv, RowsOK
<1>2. answer' \in [Runs -> AnswerRow]
  BY DEF IInv, RowsOK, AnswerRow, UsageRow
<1>3. AnswersTell'
  BY DEF IInv, RowsOK, AnswersTell
<1>4. QED
  BY <1>1, <1>2, <1>3, Over, ProceedsAnswering DEF Finish

LEMMA SettleKeeps ==
  ASSUME IInv, NEW p \in Workers, Settle(p) PROVE IInv'
<1>1. PICK k \in ReqRow : k = req[p] /\ ReqWhole(k) /\ k.op = "settle"
  BY RequestIs DEF Settle
<1>2. PICK r \in Runs : r = k.run
  BY <1>1 DEF ReqWhole
<1>3. PICK n \in 0 .. hold[r].amount : n = Clamped(k.sum, hold[r].amount)
  BY Charges DEF IInv, RowsOK, HoldRow, ReqRow
<1>4. UNCHANGED <<ops, time, rule>>
  BY DEF Settle
<1>5. CASE /\ hold[r].status = "active"
           /\ CloseHold(r, "released", 0)
           /\ answer' = [answer EXCEPT ![r] = [outcome |-> "released", amount |-> 0]]
           /\ UNCHANGED usage
           /\ FinishChanging(p, AccountOf[r])
  <2>1. 0 \in 0 .. hold[r].amount
    BY DEF IInv, RowsOK, HoldRow
  <2>2. QED
    BY <1>4, <1>5, <2>1, SettledNow
<1>6. CASE /\ hold[r].status = "released"
           /\ answer' = [answer EXCEPT ![r] = [outcome |-> "released", amount |-> 0]]
           /\ UNCHANGED <<account, hold, usage>>
           /\ Finish(p)
  BY <1>4, <1>6, AnsweredAgain
<1>7. CASE /\ n > 0 /\ hold[r].status = "active"
           /\ CloseHold(r, "captured", n)
           /\ usage' = [usage EXCEPT ![r] = [amount |-> n, at |-> time]]
           /\ answer' = [answer EXCEPT ![r] = Answered(r, n)]
           /\ FinishChanging(p, AccountOf[r])
  <2>1. Answered(r, n) = [outcome |-> "captured", amount |-> n]
    BY <1>7 DEF Answered, IInv, RowsOK
  <2>2. QED
    BY <1>4, <1>7, <2>1, SettledNow
<1>8. CASE /\ usage[r] # NoUsage
           /\ UNCHANGED <<account, hold, usage>>
           /\ answer' = [answer EXCEPT ![r] = Answered(r, n)]
           /\ Finish(p)
  <2>1. Answered(r, n) = [outcome |-> "captured", amount |-> usage[r].amount]
    BY <1>8 DEF Answered
  <2>2. QED
    BY <1>4, <1>8, <2>1, AnsweredAgain
<1>9. CASE UNCHANGED <<account, hold, usage, answer>> /\ Finish(p)
  BY <1>4, <1>9, Ends
<1>10. QED
  BY <1>1, <1>2, <1>3, <1>5, <1>6, <1>7, <1>8, <1>9 DEF Settle

-----------------------------------------------------------------------------
(* Every step.                                                             *)
LEMMA NextKeeps ==
  ASSUME IInv, [NextUsage]_usageVars PROVE IInv'
<1>1. CASE UNCHANGED usageVars
  <2>1. \A p \in Workers : ReqWhole(req[p])' /\ ReqFresh(req[p])'
    <3> SUFFICES ASSUME NEW q \in Workers PROVE ReqWhole(req[q])' /\ ReqFresh(req[q])'
      OBVIOUS
    <3>1. PICK k \in ReqRow : k = req'[q] /\ ReqWhole(k) /\ ReqFresh(k)
      BY <1>1, RequestIs DEF usageVars
    <3>2. AccountsAlike
      BY <1>1 DEF usageVars, AccountsAlike, IInv, RowsOK
    <3>3. ReqFresh(k)'
      BY <1>1, <3>1, <3>2, FreshStays DEF usageVars
    <3>4. QED
      BY <3>1, <3>3 DEF ReqWhole, ReqFresh
  <2>2. \A a \in Accounts : HeldBy(a)' = HeldBy(a)
    BY <1>1, HeldStays DEF usageVars, RunsOf
  <2>3. QED
    BY <1>1, <2>1, <2>2 DEF usageVars, IInv, RowsOK, ReqsWhole, HoldsWhole, UsageTells,
                            AnswersTell, HeldExact
<1>2. ASSUME NEW p \in Workers, RunRequests(p) PROVE IInv'
  BY <1>2, AskHoldKeeps, EnsureAccountKeeps, GrantWelcomeKeeps, PriceLineKeeps, GateKeeps,
     HoldCreditsKeeps, AskSettleKeeps, SettleKeeps DEF RunRequests
<1>3. ASSUME NEW p \in Workers, OperatorRequests(p) PROVE IInv'
  BY <1>3, AskGiftKeeps, GiftKeeps DEF OperatorRequests
<1>4. ASSUME NEW p \in Workers, Throws(p) PROVE IInv'
  BY <1>4, Ends DEF Throws
<1>5. CASE QuotaRequests
  BY <1>5, SetAccountQuotaKeeps DEF QuotaRequests
<1>6. CASE RuleRequests
  BY <1>6, ChangePriceKeeps DEF RuleRequests
<1>7. ASSUME NEW r \in Runs, Release(r) PROVE IInv'
  BY <1>7, GivenBack DEF Release
<1>8. ASSUME NEW r \in Runs, Expire(r) PROVE IInv'
  BY <1>8, GivenBack DEF Expire
<1>9. QED
  BY <1>1, <1>2, <1>3, <1>4, <1>5, <1>6, <1>7, <1>8, TickKeeps DEF NextUsage

(* At first nothing is held or captured.                                   *)
LEMMA InitKeeps == ASSUME InitUsage PROVE IInv
<1>1. RowsOK
  <2>1. rule \in [Labels \cup {None} -> [Lines -> Nat]]
    <3>1. Prices \subseteq Nat
      BY UsageAssumption
    <3>2. [Lines -> Prices] \subseteq [Lines -> Nat]
      BY <3>1
    <3>3. QED
      BY <3>2 DEF InitUsage, PricingRules
  <2>2. /\ NoAccount \in AccountRow /\ NoHold \in HoldRow /\ NoUsage \in UsageRow
        /\ NoAnswer \in AnswerRow
    <3>1. NoAccount \in AccountRow
      BY UsageAssumption DEF NoAccount, AccountRow
    <3>2. QED
      BY <3>1 DEF NoHold, HoldRow, NoUsage, UsageRow, NoAnswer, AnswerRow
  <2>3. QED
    BY <2>1, <2>2, Over DEF InitUsage, RowsOK
<1>2. ReqsWhole
  BY Over DEF InitUsage, ReqsWhole
<1>3. HoldsWhole /\ UsageTells /\ AnswersTell
  BY DEF InitUsage, HoldsWhole, UsageTells, AnswersTell
<1>4. HeldExact
  <2> SUFFICES ASSUME NEW a \in Accounts PROVE account[a].held = HeldBy(a)
    BY DEF HeldExact
  <2>1. {q \in RunsOf(a) : hold[q].status = "active"} = {}
    BY DEF InitUsage, NoHold, RunsOf
  <2>2. HeldBy(a) = 0
    BY <2>1, TotalOfNone DEF HeldBy
  <2>3. QED
    BY <2>2 DEF InitUsage, NoAccount
<1>5. QED
  BY <1>1, <1>2, <1>3, <1>4 DEF IInv

(* The invariant of usage billing: what an account holds is what its active holds
   add up to, an answer tells what became of a hold for good, and a hold that passed
   its gate unraced is within the quota.                                   *)
THEOREM Invariance == UsageSpec => []IInv
<1>1. InitUsage => IInv
  BY InitKeeps
<1>2. IInv /\ [NextUsage]_usageVars => IInv'
  BY NextKeeps
<1>3. QED
  BY <1>1, <1>2, PTL DEF UsageSpec

-----------------------------------------------------------------------------
(* Answers.                                                                *)

(* An answer that was given stays, whatever a step does.                   *)
LEMMA AnswerStays ==
  ASSUME IInv, [NextUsage]_usageVars, NEW r \in Runs, answer[r] # NoAnswer
  PROVE  answer'[r] = answer[r]
<1>1. ASSUME NEW p \in Workers, Settle(p) PROVE answer'[r] = answer[r]
  <2>1. PICK s \in Runs : s = req[p].run
    BY <1>1, RequestIs DEF Settle, ReqWhole
  <2>2. PICK n : n = Clamped(req[p].sum, hold[s].amount)
    OBVIOUS
  <2>3. CASE s # r
    <3>1. \/ answer' = answer
          \/ answer' = [answer EXCEPT ![s] = [outcome |-> "released", amount |-> 0]]
          \/ answer' = [answer EXCEPT ![s] = Answered(s, n)]
      BY <1>1, <2>1, <2>2 DEF Settle
    <3>2. QED
      BY <2>3, <3>1 DEF IInv, RowsOK
  <2>4. CASE s = r /\ hold[r].status = "active"
    <3>1. usage[r] = NoUsage /\ answer[r] = NoAnswer
      BY <2>4 DEF IInv, UsageTells, AnswersTell
    <3>2. QED
      BY <3>1
  <2>5. CASE /\ s = r /\ hold[r].status = "released"
             /\ answer' = [answer EXCEPT ![r] = [outcome |-> "released", amount |-> 0]]
    BY <2>5 DEF IInv, RowsOK, UsageTells, AnswersTell
  <2>6. CASE /\ s = r /\ usage[r] # NoUsage /\ usage' = usage
             /\ answer' = [answer EXCEPT ![r] = Answered(r, n)]
    BY <2>6 DEF IInv, RowsOK, UsageTells, AnswersTell, Answered
  <2>7. CASE UNCHANGED answer
    BY <2>7
  <2>8. QED
    BY <1>1, <2>1, <2>2, <2>3, <2>4, <2>5, <2>6, <2>7 DEF Settle
<1>2. ASSUME NEW p \in Workers, RunRequests(p) \/ OperatorRequests(p) \/ Throws(p), ~Settle(p)
      PROVE  answer' = answer
  BY <1>2 DEF RunRequests, OperatorRequests, Throws, AskHold, EnsureAccount, GrantWelcome,
              PriceLine, Gate, HoldCredits, AskSettle, AskGift, Gift
<1>3. ASSUME QuotaRequests \/ RuleRequests \/ Tick \/ UNCHANGED usageVars PROVE answer' = answer
  BY <1>3 DEF QuotaRequests, RuleRequests, Tick, usageVars, SetAccountQuota, ChangePrice
<1>4. ASSUME NEW q \in Runs, Release(q) \/ Expire(q) PROVE answer' = answer
  BY <1>4 DEF Release, Expire
<1>5. QED
  BY <1>1, <1>2, <1>3, <1>4 DEF NextUsage

(* A settlement that is repeated and answered gets the answer of the first, for any
   prices, releases and sweeps in between (settleUsage: a replay has the same
   result).                                                                *)
THEOREM AnswersAgree == UsageSpec => SettlementsAgree
<1>1. IInv /\ [NextUsage]_usageVars =>
        [\A r \in Runs : answer[r] # NoAnswer => answer'[r] = answer[r]]_usageVars
  BY AnswerStays
<1>2. QED
  BY <1>1, Invariance, PTL DEF UsageSpec, SettlementsAgree

-----------------------------------------------------------------------------
(* Quotas.                                                                 *)

(* Only a request whose gate was for it opens a hold.                      *)
LEMMA HoldOpens ==
  ASSUME IInv, [NextUsage]_usageVars, NEW p \in Workers, NEW r \in Runs,
         At(p, "hold"), req[p].run = r, req'[p] = NoReq, hold[r] = NoHold, hold'[r] # NoHold
  PROVE  HoldCredits(p)
<1>1. ASSUME NEW q \in Workers, RunRequests(q) \/ OperatorRequests(q) \/ Throws(q), ~HoldCredits(q),
             ~Settle(q)
      PROVE  hold' = hold
  BY <1>1 DEF RunRequests, OperatorRequests, Throws, AskHold, EnsureAccount, GrantWelcome,
              PriceLine, Gate, AskSettle, AskGift, Gift
<1>2. ASSUME QuotaRequests \/ RuleRequests \/ Tick \/ UNCHANGED usageVars PROVE hold' = hold
  BY <1>2 DEF QuotaRequests, RuleRequests, Tick, usageVars, SetAccountQuota, ChangePrice
<1>3. ASSUME NEW s \in Runs, NEW status, NEW n, hold[s].status = "active", CloseHold(s, status, n)
      PROVE  hold'[r] = hold[r]
  <2>1. s # r
    BY <1>3 DEF NoHold
  <2>2. QED
    BY <1>3, <2>1 DEF CloseHold
<1>4. ASSUME NEW s \in Runs, Release(s) \/ Expire(s) PROVE hold'[r] = hold[r]
  BY <1>3, <1>4 DEF Release, Expire
<1>5. ASSUME NEW q \in Workers, Settle(q) PROVE hold'[r] = hold[r]
  <2>1. PICK s \in Runs : s = req[q].run
    BY <1>5, RequestIs DEF Settle, ReqWhole
  <2>2. QED
    BY <1>3, <1>5, <2>1 DEF Settle
<1>6. ASSUME NEW q \in Workers, HoldCredits(q) PROVE q = p
  <2>1. PICK k \in ReqRow : k = req[p] /\ k.at = "hold"
    BY RequestIs DEF At
  <2>2. SUFFICES ASSUME q # p PROVE FALSE
    OBVIOUS
  <2>3. PICK new : new = [k EXCEPT !.raced = TRUE]
    OBVIOUS
  <2>4. req'[p] = k \/ req'[p] = new
    BY <1>6, <2>1, <2>2, <2>3 DEF HoldCredits, Finish, FinishChanging, Noticing, IInv, RowsOK
  <2>5. new.at = "hold"
    BY <2>1, <2>3 DEF ReqRow
  <2>6. NoReq.at = "idle"
    BY DEF NoReq
  <2>7. QED
    BY <2>1, <2>4, <2>5, <2>6
<1>7. QED
  BY <1>1, <1>2, <1>4, <1>5, <1>6 DEF NextUsage

(* A hold that opens and whose account nobody else changed is within the quota. *)
LEMMA HoldWithinQuota ==
  ASSUME IInv, [NextUsage]_usageVars, NEW p \in Workers, NEW r \in Runs,
         At(p, "hold"), req[p].run = r, ~req[p].raced, req'[p] = NoReq,
         hold[r] = NoHold, hold'[r] # NoHold, account[AccountOf[r]].quota # None
  PROVE  CapturedSince(AccountOf[r], MonthStart(time)) + HeldBy(AccountOf[r])'
           <= account[AccountOf[r]].quota
<1>1. HoldCredits(p)
  BY HoldOpens
<1>2. PICK k \in ReqRow : k = req[p] /\ ReqWhole(k) /\ ReqFresh(k) /\ k.at = "hold" /\ k.op = "hold"
  BY RequestIs DEF At, ReqWhole
<1>3. PICK a \in Accounts : a = AccountOf[r] /\ k.account = a
  BY <1>2, UsageAssumption DEF ReqWhole
<1>4. PICK n \in Nat : n = k.sum
  BY DEF ReqRow
<1>5. PICK h : h = [status |-> "active", amount |-> n, expiresAt |-> k.until]
  OBVIOUS
<1>6. h \in HoldRow /\ h.status = "active" /\ h.amount = n
  BY <1>5 DEF HoldRow, ReqRow
<1>7. hold' = [hold EXCEPT ![r] = h]
  BY <1>1, <1>2, <1>4, <1>5 DEF HoldCredits
<1>8. hold[r].status # "active"
  BY DEF NoHold
<1>9. HeldBy(AccountOf[r])' = HeldBy(AccountOf[r]) + n
  BY <1>6, <1>7, <1>8, HeldMore DEF IInv
<1>10. HeldBy(a)' = account[a].held + n
  BY <1>3, <1>9 DEF IInv, HeldExact
<1>11. k.held = account[a].held /\ k.quota = account[a].quota
  BY <1>2, <1>3 DEF ReqFresh
<1>12. CapturedSince(a, MonthStart(time)) + k.held + n <= k.quota
  BY <1>2, <1>3, <1>4, <1>11 DEF ReqFresh
<1>13. PICK c \in Nat : c = CapturedSince(a, MonthStart(time))
  BY SumsAreNat DEF IInv
<1>14. k.held \in Int
  BY DEF ReqRow
<1>15. c + (k.held + n) <= k.quota
  <2>1. k.quota \in Nat
    BY <1>3, <1>11, UsageAssumption DEF ReqRow
  <2>2. QED
    BY <1>12, <1>13, <1>14, <2>1
<1>16. QED
  BY <1>3, <1>10, <1>11, <1>13, <1>15

(* A hold that no other change to the account overlapped leaves what is settled this
   month and what is held within the quota, for any quota, month, prices and number
   of requests at once (assertWithinQuota).                                *)
THEOREM QuotaIsRespected == UsageSpec => QuotaRespected
<1> DEFINE Within ==
      \A p \in Workers, r \in Runs :
        /\ At(p, "hold") /\ req[p].run = r /\ ~req[p].raced
        /\ req'[p] = NoReq /\ hold[r] = NoHold /\ hold'[r] # NoHold
        => LET a == AccountOf[r]
           IN  account[a].quota # None =>
                 CapturedSince(a, MonthStart(time)) + HeldBy(a)' <= account[a].quota
<1>1. IInv /\ [NextUsage]_usageVars => Within
  BY HoldWithinQuota
<1>2. QED
  BY <1>1, Invariance, PTL DEF UsageSpec, QuotaRespected

-----------------------------------------------------------------------------
(* The escrow that runs use.                                               *)
Paid == [a \in Accounts |-> account[a].balance]
EscrowOf(r) == [state  |-> EscrowState(hold[r].status),
                owner  |-> IF hold[r] = NoHold THEN None ELSE AccountOf[r],
                amount |-> IF hold[r].status = "active" THEN hold[r].amount ELSE 0]
Escrows == [r \in Runs |-> EscrowOf(r)]

(* Holds untouched, escrows untouched.                                     *)
LEMMA EscrowsStay == ASSUME hold' = hold PROVE Escrows' = Escrows
BY DEF Escrows, EscrowOf

(* A step that moves no balance and no hold.                               *)
LEMMA NothingMoves ==
  ASSUME account' = account, hold' = hold
  PROVE  [Escrow!Next]_(Escrow!vars)
BY DEF Escrow!vars

(* A balance moves by itself: a gift, a welcome, or nothing but a quota.   *)
LEMMA BalanceMoves ==
  ASSUME IInv, NEW a \in Accounts, NEW row \in AccountRow,
         account' = [account EXCEPT ![a] = row], hold' = hold
  PROVE  [Escrow!Next]_(Escrow!vars)
<1>1. /\ Paid' = [Paid EXCEPT ![a] = row.balance] /\ Paid'[a] = row.balance
      /\ row.balance \in Nat
  BY DEF IInv, RowsOK, Paid, AccountRow
<1>2. Escrow!Adjust(a)
  BY <1>1, EscrowsStay DEF Escrow!Adjust, Paid, Escrows, EscrowOf
<1>3. QED
  BY <1>2 DEF Escrow!Next

(* A hold opens an escrow.                                                 *)
LEMMA HoldOpensEscrow ==
  ASSUME IInv, NEW p \in Workers, HoldCredits(p)
  PROVE  [Escrow!Next]_(Escrow!vars)
<1>1. PICK k \in ReqRow : k = req[p] /\ ReqWhole(k) /\ k.at = "hold" /\ k.op = "hold"
  BY RequestIs DEF HoldCredits, At, ReqWhole
<1>2. PICK r \in Runs, a \in Accounts : r = k.run /\ k.account = a /\ a = AccountOf[r]
  BY <1>1, UsageAssumption DEF ReqWhole
<1>3. PICK n \in Nat : n = k.sum
  BY DEF ReqRow
<1>4. CASE UNCHANGED <<account, hold>>
  BY <1>4, NothingMoves
<1>5. CASE ~UNCHANGED <<account, hold>>
  <2>1. /\ hold[r] = NoHold /\ ~(account[a].balance < n)
        /\ account' = [account EXCEPT ![a].balance = @ - n, ![a].held = @ + n]
        /\ hold' = [hold EXCEPT ![r] = [status |-> "active", amount |-> n,
                                        expiresAt |-> k.until]]
    BY <1>1, <1>2, <1>3, <1>5 DEF HoldCredits
  <2>2. \A b \in Accounts :
          account'[b].balance = IF b = a THEN account[b].balance - n ELSE account[b].balance
    BY <2>1 DEF IInv, RowsOK, AccountRow
  <2>3. account[a].balance \in Nat
    BY DEF IInv, RowsOK, AccountRow
  <2>4. /\ Paid[a] \in Nat /\ Paid'[a] = Paid[a] - n /\ n <= Paid[a]
        /\ Paid' = [Paid EXCEPT ![a] = Paid'[a]]
    <3>1. PICK b \in Nat : b = account[a].balance
      BY <2>3
    <3>2. n <= b /\ account'[a].balance = b - n
      <4>1. ~(account[a].balance < n)
        BY <2>1
      <4>2. account'[a].balance = account[a].balance - n
        BY <2>2
      <4>3. QED
        BY <3>1, <4>1, <4>2
    <3>3. Paid[a] = b /\ Paid'[a] = b - n
      BY <3>1, <3>2 DEF Paid
    <3>4. Paid' = [Paid EXCEPT ![a] = account'[a].balance]
      BY <2>2 DEF Paid
    <3>5. QED
      BY <3>2, <3>3, <3>4
  <2>5. /\ hold'[r].status = "active" /\ hold'[r].amount = n /\ hold'[r] # NoHold
        /\ \A q \in Runs : q # r => hold'[q] = hold[q]
    BY <2>1 DEF IInv, RowsOK, NoHold
  <2>6. Escrows[r] = [state |-> "unopened", owner |-> None, amount |-> 0]
    BY <2>1 DEF Escrows, EscrowOf, EscrowState, NoHold
  <2>7. EscrowOf(r)' = [state |-> "open", owner |-> a, amount |-> n]
    BY <1>2, <2>5 DEF EscrowOf, EscrowState
  <2>8. Escrows' = [Escrows EXCEPT ![r] = [state |-> "open", owner |-> a, amount |-> n]]
    <3>1. \A q \in Runs : q # r => EscrowOf(q)' = EscrowOf(q)
      BY <2>5 DEF EscrowOf
    <3>2. QED
      BY <2>7, <3>1 DEF Escrows
  <2>9. Paid[a] - Paid'[a] = n /\ Paid'[a] \in 0 .. Paid[a]
    BY <2>4
  <2>10. Escrow!OpenEscrow(r, a)
    <3>1. /\ Escrows[r] = Escrow!Unopened
          /\ Paid'[a] \in 0 .. Paid[a]
          /\ Paid' = [Paid EXCEPT ![a] = Paid'[a]]
          /\ Escrows' = [Escrows EXCEPT ![r] =
                           [state |-> "open", owner |-> a, amount |-> Paid[a] - Paid'[a]]]
      BY <2>4, <2>6, <2>8, <2>9 DEF Escrow!Unopened
    <3>2. QED
      BY <3>1 DEF Escrow!OpenEscrow, Paid, Escrows, EscrowOf
  <2>11. QED
    BY <2>10 DEF Escrow!Next
<1>6. QED
  BY <1>4, <1>5

(* A hold that is closed shuts its escrow.                                 *)
LEMMA CloseShuts ==
  ASSUME IInv, NEW r \in Runs, hold[r].status = "active",
         NEW s \in {"captured", "released", "expired"}, NEW n \in 0 .. hold[r].amount,
         CloseHold(r, s, n)
  PROVE  LET a == AccountOf[r]
         IN  /\ a \in Accounts /\ Paid[a] \in Nat /\ hold[r].amount \in Nat
             /\ Paid'[a] = Paid[a] + (hold[r].amount - n)
             /\ Paid' = [Paid EXCEPT ![a] = Paid'[a]]
             /\ Escrows[r] = [state |-> "open", owner |-> a, amount |-> hold[r].amount]
             /\ Escrows' = [Escrows EXCEPT ![r] =
                              [state |-> EscrowState(s), owner |-> a, amount |-> 0]]
<1>1. PICK a \in Accounts : a = AccountOf[r]
  BY UsageAssumption
<1>2. PICK h \in HoldRow : h = hold[r]
  BY DEF IInv, RowsOK
<1>3. h.amount \in Nat /\ account[a].balance \in Nat
  BY DEF HoldRow, IInv, RowsOK, AccountRow
<1>4. \A b \in Accounts : account'[b].balance =
                           IF b = a THEN account[b].balance + (h.amount - n) ELSE account[b].balance
  BY <1>1, <1>2 DEF CloseHold, IInv, RowsOK, AccountRow
<1>5. /\ Paid[a] \in Nat /\ Paid'[a] = Paid[a] + (h.amount - n)
      /\ Paid' = [Paid EXCEPT ![a] = Paid'[a]]
  BY <1>3, <1>4 DEF Paid
<1>6. hold[r] # NoHold
  BY DEF NoHold
<1>7. Escrows[r] = [state |-> "open", owner |-> a, amount |-> h.amount]
  BY <1>1, <1>2, <1>6 DEF Escrows, EscrowOf, EscrowState
<1>8. hold'[r].status = s /\ hold'[r] # NoHold /\ \A q \in Runs : q # r => hold'[q] = hold[q]
  BY DEF CloseHold, IInv, RowsOK, HoldRow, NoHold
<1>9. EscrowOf(r)' = [state |-> EscrowState(s), owner |-> a, amount |-> 0]
  BY <1>1, <1>8 DEF EscrowOf
<1>10. \A q \in Runs : q # r => EscrowOf(q)' = EscrowOf(q)
  BY <1>8 DEF EscrowOf
<1>11. Escrows' = [Escrows EXCEPT ![r] = [state |-> EscrowState(s), owner |-> a, amount |-> 0]]
  BY <1>9, <1>10 DEF Escrows
<1>12. QED
  BY <1>1, <1>2, <1>3, <1>5, <1>7, <1>11

Shutting(es, r, to) == [es EXCEPT ![r].state = to, ![r].amount = 0]

(* Rewriting two fields of an escrow is rewriting it.                      *)
LEMMA ShutIs ==
  ASSUME NEW es, NEW r \in DOMAIN es, NEW a, NEW m,
         es[r] = [state |-> "open", owner |-> a, amount |-> m], NEW to
  PROVE  Shutting(es, r, to) = [es EXCEPT ![r] = [state |-> to, owner |-> a, amount |-> 0]]
<1>1. PICK e : e = [state |-> "open", owner |-> a, amount |-> m]
  OBVIOUS
<1>2. PICK q : q = [e EXCEPT !.state = to]
  OBVIOUS
<1>3. q = [state |-> to, owner |-> a, amount |-> m]
  BY <1>1, <1>2
<1>4. PICK z : z = [q EXCEPT !.amount = 0]
  OBVIOUS
<1>5. z = [state |-> to, owner |-> a, amount |-> 0]
  BY <1>3, <1>4
<1>6. [es EXCEPT ![r].state = to, ![r].amount = 0] = [es EXCEPT ![r] = z]
  BY <1>1, <1>2, <1>4
<1>7. QED
  BY <1>5, <1>6 DEF Shutting

(* A capture settles its escrow.                                           *)
LEMMA CaptureSettles ==
  ASSUME IInv, NEW r \in Runs, hold[r].status = "active", NEW n \in 0 .. hold[r].amount,
         CloseHold(r, "captured", n)
  PROVE  [Escrow!Next]_(Escrow!vars)
<1>1. PICK a \in Accounts : a = AccountOf[r]
  BY UsageAssumption
<1>2. /\ Paid[a] \in Nat /\ hold[r].amount \in Nat
      /\ Paid'[a] = Paid[a] + (hold[r].amount - n)
      /\ Paid' = [Paid EXCEPT ![a] = Paid'[a]]
      /\ Escrows[r] = [state |-> "open", owner |-> a, amount |-> hold[r].amount]
      /\ Escrows' = [Escrows EXCEPT ![r] =
                       [state |-> EscrowState("captured"), owner |-> a, amount |-> 0]]
  BY <1>1, CloseShuts
<1>3. PICK m \in Nat : m = hold[r].amount
  BY <1>2
<1>4. PICK b \in Nat : b = Paid[a]
  BY <1>2
<1>5. Paid'[a] \in b .. b + m
  BY <1>2, <1>3, <1>4
<1>6. EscrowState("captured") = "settled"
  BY DEF EscrowState
<1>7. Escrows[r].state = "open" /\ Escrows[r].owner = a /\ Escrows[r].amount = m
  BY <1>2, <1>3
<1>8. Escrows' = [Escrows EXCEPT ![r].state = "settled", ![r].amount = 0]
  <2>1. PICK es : es = Escrows
    OBVIOUS
  <2>2. r \in DOMAIN es
    BY <2>1 DEF Escrows
  <2>3. Shutting(es, r, "settled") =
          [es EXCEPT ![r] = [state |-> "settled", owner |-> a, amount |-> 0]]
    BY <1>2, <2>1, <2>2, ShutIs
  <2>4. QED
    BY <1>2, <1>6, <2>1, <2>3 DEF Shutting
<1>9. LET o == Escrows[r].owner
      IN  /\ Escrows[r].state = "open"
          /\ Paid'[o] \in Paid[o] .. Paid[o] + Escrows[r].amount
          /\ Paid' = [Paid EXCEPT ![o] = Paid'[o]]
          /\ Escrows' = [Escrows EXCEPT ![r].state = "settled", ![r].amount = 0]
  BY <1>2, <1>4, <1>5, <1>7, <1>8
<1>10. Escrow!SettleEscrow(r)
  BY <1>9 DEF Escrow!SettleEscrow, Escrow!Shut, Paid, Escrows, EscrowOf
<1>11. QED
  BY <1>10 DEF Escrow!Next

(* A release or an expiry returns it.                                      *)
LEMMA CloseReturns ==
  ASSUME IInv, NEW r \in Runs, hold[r].status = "active", NEW s \in {"released", "expired"},
         CloseHold(r, s, 0)
  PROVE  [Escrow!Next]_(Escrow!vars)
<1>0. 0 \in 0 .. hold[r].amount
  BY DEF IInv, RowsOK, HoldRow
<1>1. PICK a \in Accounts : a = AccountOf[r]
  BY UsageAssumption
<1>2. /\ Paid[a] \in Nat /\ hold[r].amount \in Nat
      /\ Paid'[a] = Paid[a] + (hold[r].amount - 0)
      /\ Paid' = [Paid EXCEPT ![a] = Paid'[a]]
      /\ Escrows[r] = [state |-> "open", owner |-> a, amount |-> hold[r].amount]
      /\ Escrows' = [Escrows EXCEPT ![r] =
                       [state |-> EscrowState(s), owner |-> a, amount |-> 0]]
  BY <1>1, <1>0, CloseShuts
<1>3. EscrowState(s) = "returned"
  BY DEF EscrowState
<1>4. Escrows[r].state = "open" /\ Escrows[r].owner = a /\ Escrows[r].amount = hold[r].amount
  BY <1>2
<1>5. Escrows' = [Escrows EXCEPT ![r].state = "returned", ![r].amount = 0]
  <2>1. PICK es : es = Escrows
    OBVIOUS
  <2>2. r \in DOMAIN es
    BY <2>1 DEF Escrows
  <2>3. Shutting(es, r, "returned") =
          [es EXCEPT ![r] = [state |-> "returned", owner |-> a, amount |-> 0]]
    BY <1>2, <2>1, <2>2, ShutIs
  <2>4. QED
    BY <1>2, <1>3, <2>1, <2>3 DEF Shutting
<1>6. Paid' = [Paid EXCEPT ![a] = @ + hold[r].amount]
  BY <1>2
<1>7. /\ Escrows[r].state = "open"
      /\ Paid' = [Paid EXCEPT ![Escrows[r].owner] = @ + Escrows[r].amount]
      /\ Escrows' = [Escrows EXCEPT ![r].state = "returned", ![r].amount = 0]
  BY <1>4, <1>5, <1>6
<1>8. Escrow!ReturnEscrow(r)
  BY <1>7 DEF Escrow!ReturnEscrow, Escrow!Shut, Paid, Escrows, EscrowOf
<1>9. QED
  BY <1>8 DEF Escrow!Next

(* Every step of usage billing is one escrow step or none.                 *)
LEMMA StepIsEscrowStep ==
  ASSUME IInv, IInv', [NextUsage]_usageVars
  PROVE  [Escrow!Next]_(Escrow!vars)
<1>1. ASSUME NEW p \in Workers,
             \/ AskHold(p) \/ PriceLine(p) \/ Gate(p) \/ AskSettle(p) \/ AskGift(p) \/ Throws(p)
      PROVE  [Escrow!Next]_(Escrow!vars)
  BY <1>1, NothingMoves DEF AskHold, PriceLine, Gate, AskSettle, AskGift, Throws
<1>2. CASE RuleRequests \/ Tick \/ UNCHANGED usageVars
  BY <1>2, NothingMoves DEF RuleRequests, ChangePrice, Tick, usageVars
<1>3. ASSUME NEW a \in Accounts, NEW row, account' = [account EXCEPT ![a] = row], hold' = hold
      PROVE  [Escrow!Next]_(Escrow!vars)
  <2>1. row \in AccountRow
    BY <1>3 DEF IInv, RowsOK
  <2>2. QED
    BY <1>3, <2>1, BalanceMoves
<1>4. ASSUME NEW p \in Workers, EnsureAccount(p) \/ GrantWelcome(p) \/ Gift(p)
      PROVE  [Escrow!Next]_(Escrow!vars)
  <2>1. req[p].account \in Accounts
    BY <1>4, RequestIs, UsageAssumption
       DEF EnsureAccount, GrantWelcome, Gift, At, ReqWhole, ReqRow
  <2>2. CASE EnsureAccount(p)
    BY <1>3, <2>1, <2>2 DEF EnsureAccount
  <2>3. CASE GrantWelcome(p)
    BY <1>3, <2>1, <2>3 DEF GrantWelcome
  <2>4. CASE Gift(p)
    BY <1>3, <2>1, <2>4 DEF Gift
  <2>5. QED
    BY <1>4, <2>2, <2>3, <2>4
<1>5. CASE QuotaRequests
  BY <1>3, <1>5 DEF QuotaRequests, SetAccountQuota
<1>6. ASSUME NEW r \in Runs, Release(r) \/ Expire(r) PROVE [Escrow!Next]_(Escrow!vars)
  BY <1>6, CloseReturns DEF Release, Expire
<1>7. ASSUME NEW p \in Workers, Settle(p) PROVE [Escrow!Next]_(Escrow!vars)
  <2>1. PICK r \in Runs : r = req[p].run
    BY <1>7, RequestIs DEF Settle, ReqWhole
  <2>2. PICK n \in 0 .. hold[r].amount : n = Clamped(req[p].sum, hold[r].amount)
    BY RequestIs, Charges DEF IInv, RowsOK, HoldRow, ReqRow
  <2>3. \/ UNCHANGED <<account, hold>>
        \/ hold[r].status = "active" /\ CloseHold(r, "released", 0)
        \/ hold[r].status = "active" /\ CloseHold(r, "captured", n)
    BY <1>7, <2>1, <2>2 DEF Settle
  <2>4. QED
    BY <2>3, NothingMoves, CloseReturns, CaptureSettles
<1>8. QED
  BY <1>1, <1>2, <1>4, <1>5, <1>6, <1>7, HoldOpensEscrow
     DEF NextUsage, RunRequests, OperatorRequests

(* Runs use the ledger only as an escrow, for any accounts, runs, prices and requests:
   what a hold takes from a balance is spent by its capture or comes back to that
   balance, once (CreditEscrow, which CreditLedger implements as well).    *)
THEOREM EscrowUsed == UsageSpec => UsesEscrow
<1>1. InitUsage /\ IInv => Escrow!Init
  <2> SUFFICES ASSUME InitUsage, IInv PROVE Escrow!Init
    OBVIOUS
  <2>1. Paid \in [Accounts -> Nat]
    BY DEF Paid, IInv, RowsOK, AccountRow
  <2>2. Escrows = [r \in Runs |-> [state |-> "unopened", owner |-> None, amount |-> 0]]
    BY DEF InitUsage, Escrows, EscrowOf, EscrowState, NoHold
  <2>3. QED
    BY <2>1, <2>2 DEF Escrow!Init, Escrow!Unopened, Paid, Escrows, EscrowOf
<1>2. IInv /\ IInv' /\ [NextUsage]_usageVars => [Escrow!Next]_(Escrow!vars)
  BY StepIsEscrowStep
<1>3. QED
  BY <1>1, <1>2, Invariance, PTL DEF UsageSpec, UsesEscrow, Escrow!Spec

-----------------------------------------------------------------------------
(* Active checks (ActiveChecks): what is kept of an answer is gone one TTL after
   the subject was last heard to be active, or suspended.                  *)
Entry == [key : Subjects, until : Int]
CheckRow == [at : {"idle", "look", "call", "said", "passed"}, dim : Dims,
             account : Accounts \cup {None}]

ChecksTypeOK ==
  /\ now \in Nat
  /\ up \in [Subjects -> BOOLEAN]
  /\ cache \in [Dims -> Seq(Entry)]
  /\ check \in [Workers -> CheckRow]
  /\ last \in [Subjects -> Int]

Asking == \A p \in Workers : check[p].at \in {"look", "call", "said"} => check[p].account \in Accounts

(* The entries of a cache, by what is kept for whom.                       *)
Outlived(entries) ==
  \A i \in 1 .. Len(entries) : entries[i].until <= last[entries[i].key] + Ttl

CacheInv ==
  /\ ChecksTypeOK /\ Asking
  /\ \A s \in Subjects : last[s] <= now
  /\ \A d \in Dims : Outlived(cache[d])

(* Entries that are left out, or pushed out by the limit.                  *)
LEMMA Fewer ==
  ASSUME NEW entries \in Seq(Entry), NEW key
  PROVE  /\ Without(entries, key) \in Seq(Entry)
         /\ \A i \in 1 .. Len(Without(entries, key)) :
              \E j \in 1 .. Len(entries) : Without(entries, key)[i] = entries[j]
<1>1. CASE \E i \in DOMAIN entries : entries[i].key = key
  <2>1. PICK k \in 1 .. Len(entries) :
          k = CHOOSE i \in DOMAIN entries : entries[i].key = key
    BY <1>1
  <2>2. PICK n \in Nat : n = Len(entries)
    OBVIOUS
  <2>3. PICK head : head = SubSeq(entries, 1, k - 1)
    OBVIOUS
  <2>4. PICK tail : tail = SubSeq(entries, k + 1, n)
    OBVIOUS
  <2>5. /\ head \in Seq(Entry) /\ Len(head) = k - 1
        /\ \A i \in 1 .. k - 1 : head[i] = entries[i]
    BY <2>2, <2>3
  <2>6. /\ tail \in Seq(Entry) /\ Len(tail) = n - k
        /\ \A i \in 1 .. n - k : tail[i] = entries[i + k]
    BY <2>2, <2>4
  <2>7. Without(entries, key) = head \o tail
    BY <1>1, <2>1, <2>2, <2>3, <2>4 DEF Without, RemoveAt
  <2>8. /\ head \o tail \in Seq(Entry) /\ Len(head \o tail) = (k - 1) + (n - k)
        /\ \A i \in 1 .. (k - 1) + (n - k) :
             (head \o tail)[i] = IF i <= k - 1 THEN head[i] ELSE tail[i - (k - 1)]
    BY <2>5, <2>6
  <2>9. ASSUME NEW i \in 1 .. Len(Without(entries, key))
        PROVE  \E j \in 1 .. Len(entries) : Without(entries, key)[i] = entries[j]
    <3>1. CASE i <= k - 1
      BY <2>2, <2>5, <2>7, <2>8, <3>1
    <3>2. CASE i > k - 1
      <4>1. PICK m \in 1 .. n - k : m = i - (k - 1)
        BY <2>2, <2>7, <2>8, <3>2
      <4>2. m + k \in 1 .. Len(entries) /\ tail[m] = entries[m + k]
        BY <2>2, <2>6
      <4>3. Without(entries, key)[i] = tail[m]
        BY <2>2, <2>7, <2>8, <3>2, <4>1
      <4>4. QED
        BY <4>2, <4>3
    <3>3. QED
      BY <2>2, <2>7, <2>8, <3>1, <3>2
  <2>10. QED
    BY <2>7, <2>8, <2>9
<1>2. CASE ~\E i \in DOMAIN entries : entries[i].key = key
  <2>1. Without(entries, key) = entries
    BY <1>2 DEF Without
  <2>2. QED
    BY <2>1
<1>3. QED
  BY <1>1, <1>2

(* What a positive answer leaves in a cache: older entries, and its own.   *)
LEMMA SetAdds ==
  ASSUME ChecksTypeOK, NEW d \in Dims, NEW key \in Subjects
  PROVE  /\ Set(d, key) \in Seq(Entry)
         /\ \A i \in 1 .. Len(Set(d, key)) :
              \/ \E j \in 1 .. Len(cache[d]) : Set(d, key)[i] = cache[d][j]
              \/ Set(d, key)[i] = [key |-> key, until |-> now + Ttl]
<1> DEFINE others == Without(cache[d], key)
           kept == IF Len(others) >= MaxEntries THEN Tail(others) ELSE others
           new == [key |-> key, until |-> now + Ttl]
<1>1. cache[d] \in Seq(Entry)
  BY DEF ChecksTypeOK
<1>2. /\ others \in Seq(Entry)
      /\ \A i \in 1 .. Len(others) : \E j \in 1 .. Len(cache[d]) : others[i] = cache[d][j]
  BY <1>1, Fewer
<1>3. new \in Entry
  BY ChecksAssumption DEF ChecksTypeOK, Entry
<1> HIDE DEF others, new
<1>4. /\ kept \in Seq(Entry)
      /\ \A i \in 1 .. Len(kept) : \E j \in 1 .. Len(others) : kept[i] = others[j]
  <2>1. CASE Len(others) >= MaxEntries
    <3>1. kept = Tail(others) /\ others # <<>>
      BY <1>2, <2>1, ChecksAssumption
    <3>2. /\ Tail(others) \in Seq(Entry) /\ Len(Tail(others)) = Len(others) - 1
          /\ \A i \in 1 .. Len(others) - 1 : Tail(others)[i] = others[i + 1]
      BY <1>2, <3>1
    <3>3. \A i \in 1 .. Len(others) - 1 : i + 1 \in 1 .. Len(others)
      BY <1>2
    <3>4. QED
      BY <3>1, <3>2, <3>3
  <2>2. CASE ~(Len(others) >= MaxEntries)
    BY <1>2, <2>2
  <2>3. QED
    BY <2>1, <2>2
<1> HIDE DEF kept
<1>5. /\ Append(kept, new) \in Seq(Entry) /\ Len(Append(kept, new)) = Len(kept) + 1
      /\ \A i \in 1 .. Len(kept) : Append(kept, new)[i] = kept[i]
      /\ Append(kept, new)[Len(kept) + 1] = new
  BY <1>3, <1>4
<1>6. Set(d, key) = IF Ttl = 0 THEN cache[d] ELSE Append(kept, new)
  BY DEF Set, kept, others, new
<1>7. CASE Ttl = 0
  BY <1>1, <1>6, <1>7
<1>8. CASE Ttl # 0
  <2>1. Set(d, key) = Append(kept, new)
    BY <1>6, <1>8
  <2>2. ASSUME NEW i \in 1 .. Len(Append(kept, new))
        PROVE  \/ \E j \in 1 .. Len(cache[d]) : Append(kept, new)[i] = cache[d][j]
               \/ Append(kept, new)[i] = new
    <3>1. CASE i \in 1 .. Len(kept)
      BY <1>2, <1>4, <1>5, <3>1
    <3>2. CASE i = Len(kept) + 1
      BY <1>5, <3>2
    <3>3. QED
      BY <1>4, <1>5, <3>1, <3>2
  <2>3. QED
    BY <1>5, <2>1, <2>2 DEF new
<1>9. QED
  BY <1>7, <1>8

(* Entries that were within their TTL stay so, as last only moves on.      *)
LEMMA StillOutlived ==
  ASSUME ChecksTypeOK, last' \in [Subjects -> Int], \A s \in Subjects : last[s] <= last'[s],
         NEW old \in Seq(Entry), Outlived(old), NEW entries \in Seq(Entry),
         \A i \in 1 .. Len(entries) :
           \/ \E j \in 1 .. Len(old) : entries[i] = old[j]
           \/ entries[i].until <= last'[entries[i].key] + Ttl
  PROVE  Outlived(entries)'
<1> SUFFICES ASSUME NEW i \in 1 .. Len(entries)
             PROVE  entries[i].until <= last'[entries[i].key] + Ttl
  BY DEF Outlived
<1>1. CASE \E j \in 1 .. Len(old) : entries[i] = old[j]
  <2>1. PICK j \in 1 .. Len(old) : entries[i] = old[j]
    BY <1>1
  <2>2. PICK e \in Entry : e = old[j]
    OBVIOUS
  <2>3. e.until <= last[e.key] + Ttl
    BY <2>2 DEF Outlived
  <2>4. e.until \in Int /\ last[e.key] \in Int /\ last'[e.key] \in Int /\ last[e.key] <= last'[e.key]
    BY DEF Entry, ChecksTypeOK
  <2>5. QED
    BY <2>1, <2>2, <2>3, <2>4, ChecksAssumption
<1>2. QED
  BY <1>1

(* A check is about a subject.                                             *)
LEMMA CheckIs ==
  ASSUME CacheInv, NEW p \in Workers, check[p].at \in {"look", "call", "said"}
  PROVE  /\ check[p] \in CheckRow /\ check[p].dim \in Dims /\ check[p].account \in Accounts
         /\ Key(check[p].dim, check[p].account) = Subject(check[p].dim, check[p].account)
         /\ Subject(check[p].dim, check[p].account) \in Subjects
<1>1. check[p] \in CheckRow /\ check[p].dim \in Dims /\ check[p].account \in Accounts
  BY DEF CacheInv, ChecksTypeOK, Asking, CheckRow
<1>2. QED
  BY <1>1, ChecksAssumption DEF Key, Subject, Subjects

(* Where a check goes, and one check moving while last and time move on.   *)
LEMMA PassedIs ==
  ASSUME NEW c \in CheckRow, c.account \in Accounts
  PROVE  Passed(c) \in CheckRow /\ (Passed(c).at = "look" => Passed(c).account \in Accounts)
         /\ Passed(c).at \in {"look", "passed"}
<1>1. PICK d : d = [c EXCEPT !.at = "look", !.dim = "owner"]
  OBVIOUS
<1>2. d \in CheckRow /\ d.at = "look" /\ d.account = c.account
  BY <1>1 DEF CheckRow, Dims
<1>3. PICK e : e = [NoCheck EXCEPT !.at = "passed"]
  OBVIOUS
<1>4. e \in CheckRow /\ e.at = "passed"
  BY <1>3 DEF NoCheck, CheckRow, Dims
<1>5. Passed(c) = d \/ Passed(c) = e
  BY <1>1, <1>3 DEF Passed
<1>6. QED
  BY <1>2, <1>4, <1>5

LEMMA ChecksMove ==
  ASSUME CacheInv, UNCHANGED now, up' \in [Subjects -> BOOLEAN],
         last' \in [Subjects -> Int], \A s \in Subjects : last[s] <= last'[s] /\ last'[s] <= now,
         cache' \in [Dims -> Seq(Entry)],
         \A d \in Dims : \A i \in 1 .. Len(cache'[d]) :
           \/ \E j \in 1 .. Len(cache[d]) : cache'[d][i] = cache[d][j]
           \/ cache'[d][i].until <= last'[cache'[d][i].key] + Ttl,
         check' \in [Workers -> CheckRow],
         \A p \in Workers : \/ check'[p] = check[p] \/ check'[p].at \in {"idle", "passed"}
                             \/ check'[p].account \in Accounts
  PROVE  CacheInv'
<1>1. ChecksTypeOK'
  BY DEF CacheInv, ChecksTypeOK
<1>2. Asking'
  BY DEF CacheInv, Asking
<1>3. \A s \in Subjects : last'[s] <= now'
  OBVIOUS
<1>4. ASSUME NEW d \in Dims PROVE Outlived(cache[d])'
  <2>1. PICK old \in Seq(Entry) : old = cache[d] /\ Outlived(old)
    BY DEF CacheInv, ChecksTypeOK
  <2>2. PICK entries \in Seq(Entry) : entries = cache'[d]
    OBVIOUS
  <2>3. Outlived(entries)'
    BY <2>1, <2>2, StillOutlived DEF CacheInv
  <2>4. QED
    BY <2>2, <2>3 DEF Outlived
<1>5. QED
  BY <1>1, <1>2, <1>3, <1>4 DEF CacheInv

(* Every step keeps it.                                                    *)
LEMMA ChecksKeep ==
  ASSUME CacheInv, [NextChecks]_checkVars PROVE CacheInv'
<1>1. /\ now \in Nat /\ up \in [Subjects -> BOOLEAN] /\ cache \in [Dims -> Seq(Entry)]
      /\ check \in [Workers -> CheckRow] /\ last \in [Subjects -> Int]
      /\ \A s \in Subjects : last[s] <= last[s] /\ last[s] <= now
      /\ \A d \in Dims : \A i \in 1 .. Len(cache[d]) :
           \E j \in 1 .. Len(cache[d]) : cache[d][i] = cache[d][j]
  BY DEF CacheInv, ChecksTypeOK
<1>2. NoCheck \in CheckRow /\ NoCheck.at = "idle"
  BY DEF NoCheck, CheckRow, Dims
<1>3. ASSUME NEW p \in Workers, NEW row \in CheckRow, check' = [check EXCEPT ![p] = row],
             row.at \in {"idle", "passed"} \/ row.account \in Accounts,
             UNCHANGED <<now, up, cache, last>>
      PROVE  CacheInv'
  BY <1>1, <1>3, ChecksMove
<1>4. ASSUME NEW p \in Workers, NEW a \in Accounts, BeginCheck(p, a) PROVE CacheInv'
  <2>1. PICK row : row = [NoCheck EXCEPT !.at = "look", !.account = a]
    OBVIOUS
  <2>2. row \in CheckRow /\ row.account = a
    BY <2>1 DEF NoCheck, CheckRow, Dims
  <2>3. QED
    BY <1>3, <1>4, <2>1, <2>2 DEF BeginCheck
<1>5. ASSUME NEW p \in Workers, Hit(p) PROVE CacheInv'
  <2>1. Passed(check[p]) \in CheckRow
        /\ (Passed(check[p]).at \in {"idle", "passed"} \/ Passed(check[p]).account \in Accounts)
    BY <1>5, CheckIs, PassedIs DEF Hit
  <2>2. QED
    BY <1>3, <1>5, <2>1 DEF Hit, Renewed
<1>6. ASSUME NEW p \in Workers, Miss(p) PROVE CacheInv'
  <2>1. PICK c \in CheckRow : c = check[p] /\ c.account \in Accounts /\ c.dim \in Dims
    BY <1>6, CheckIs DEF Miss
  <2>2. PICK row : row = [c EXCEPT !.at = "call"]
    OBVIOUS
  <2>3. row \in CheckRow /\ row.account = c.account /\ check' = [check EXCEPT ![p] = row]
    BY <1>6, <2>1, <2>2 DEF Miss, CheckRow
  <2>4. PICK less : less = IF Ttl = 0 THEN cache[c.dim]
                           ELSE Without(cache[c.dim], Key(c.dim, c.account))
    OBVIOUS
  <2>5. /\ less \in Seq(Entry)
        /\ \A i \in 1 .. Len(less) : \E j \in 1 .. Len(cache[c.dim]) : less[i] = cache[c.dim][j]
    <3>1. PICK old \in Seq(Entry) : old = cache[c.dim]
      BY <1>1, <2>1
    <3>2. CASE Ttl = 0
      BY <2>4, <3>1, <3>2
    <3>3. CASE Ttl # 0
      <4>1. PICK key : key = Key(c.dim, c.account)
        OBVIOUS
      <4>2. less = Without(old, key)
        BY <2>4, <3>1, <3>3, <4>1
      <4>3. QED
        BY <3>1, <4>2, Fewer
    <3>4. QED
      BY <3>2, <3>3
  <2>6. cache' = [cache EXCEPT ![c.dim] = less]
    BY <1>6, <2>1, <2>4 DEF Miss
  <2>7. cache' \in [Dims -> Seq(Entry)] /\ \A d \in Dims : cache'[d] = IF d = c.dim THEN less ELSE cache[d]
    BY <1>1, <2>5, <2>6
  <2>8. \A d \in Dims : \A i \in 1 .. Len(cache'[d]) :
          \E j \in 1 .. Len(cache[d]) : cache'[d][i] = cache[d][j]
    <3> SUFFICES ASSUME NEW d \in Dims, NEW i \in 1 .. Len(cache'[d])
                 PROVE  \E j \in 1 .. Len(cache[d]) : cache'[d][i] = cache[d][j]
      OBVIOUS
    <3>1. CASE d = c.dim
      BY <2>5, <2>7, <3>1
    <3>2. CASE d # c.dim
      <4>1. cache'[d] = cache[d]
        BY <2>7, <3>2
      <4>2. QED
        BY <4>1
    <3>3. QED
      BY <3>1, <3>2
  <2>9. UNCHANGED <<now, up, last>>
    BY <1>6 DEF Miss
  <2>10. check' \in [Workers -> CheckRow]
         /\ \A q \in Workers : check'[q] = check[q] \/ check'[q].account \in Accounts
    BY <1>1, <2>1, <2>3
  <2>11. QED
    BY <1>1, <2>7, <2>8, <2>9, <2>10, ChecksMove
<1>7. ASSUME NEW p \in Workers, Answer(p) PROVE CacheInv'
  <2>1. PICK c \in CheckRow : c = check[p] /\ c.account \in Accounts
    BY <1>7, CheckIs DEF Answer
  <2>2. PICK said : said = [c EXCEPT !.at = "said"]
    OBVIOUS
  <2>3. said \in CheckRow /\ said.account = c.account
    BY <2>2 DEF CheckRow
  <2>4. PICK row : row = IF up[Subject(c.dim, c.account)] THEN said ELSE NoCheck
    OBVIOUS
  <2>5. check' = [check EXCEPT ![p] = row]
    BY <1>7, <2>1, <2>2, <2>4 DEF Answer
  <2>6. QED
    BY <1>2, <1>3, <1>7, <2>1, <2>3, <2>4, <2>5 DEF Answer
<1>8. ASSUME NEW p \in Workers, Hear(p) PROVE CacheInv'
  <2>1. PICK c \in CheckRow : c = check[p] /\ c.account \in Accounts /\ c.dim \in Dims
    BY <1>8, CheckIs DEF Hear
  <2>2. PICK s \in Subjects : s = Subject(c.dim, c.account) /\ s = Key(c.dim, c.account)
    BY <1>8, <2>1, CheckIs DEF Hear
  <2>3. PICK more \in Seq(Entry) : more = Set(c.dim, s)
    BY <2>1, SetAdds DEF CacheInv
  <2>4. cache' = [cache EXCEPT ![c.dim] = more] /\ last' = [last EXCEPT ![s] = now]
    BY <1>8, <2>1, <2>2, <2>3 DEF Hear
  <2>5. cache' \in [Dims -> Seq(Entry)] /\ \A d \in Dims : cache'[d] = IF d = c.dim THEN more ELSE cache[d]
    BY <1>1, <2>4
  <2>6. /\ last' \in [Subjects -> Int] /\ last'[s] = now
        /\ \A t \in Subjects : last[t] <= last'[t] /\ last'[t] <= now
    BY <1>1, <2>4
  <2>7. \A i \in 1 .. Len(more) :
          \/ \E j \in 1 .. Len(cache[c.dim]) : more[i] = cache[c.dim][j]
          \/ more[i].until <= last'[more[i].key] + Ttl
    <3>1. \A i \in 1 .. Len(more) :
            \/ \E j \in 1 .. Len(cache[c.dim]) : more[i] = cache[c.dim][j]
            \/ more[i] = [key |-> s, until |-> now + Ttl]
      BY <2>1, <2>3, SetAdds DEF CacheInv
    <3>2. now + Ttl <= last'[s] + Ttl
      BY <1>1, <2>6, ChecksAssumption
    <3>3. QED
      BY <3>1, <3>2
  <2>8. \A d \in Dims : \A i \in 1 .. Len(cache'[d]) :
          \/ \E j \in 1 .. Len(cache[d]) : cache'[d][i] = cache[d][j]
          \/ cache'[d][i].until <= last'[cache'[d][i].key] + Ttl
    BY <1>1, <2>5, <2>7
  <2>9. Passed(c) \in CheckRow
        /\ (Passed(c).at \in {"idle", "passed"} \/ Passed(c).account \in Accounts)
    BY <2>1, PassedIs
  <2>10. check' \in [Workers -> CheckRow]
         /\ \A q \in Workers : \/ check'[q] = check[q] \/ check'[q].at \in {"idle", "passed"}
                                \/ check'[q].account \in Accounts
    <3>1. check' = [check EXCEPT ![p] = Passed(c)]
      BY <1>8, <2>1 DEF Hear
    <3>2. QED
      BY <1>1, <2>9, <3>1
  <2>11. UNCHANGED <<now, up>>
    BY <1>8 DEF Hear
  <2>12. QED
    BY <1>1, <2>5, <2>6, <2>8, <2>10, <2>11, ChecksMove
<1>9. ASSUME NEW p \in Workers, Unreachable(p) PROVE CacheInv'
  BY <1>2, <1>3, <1>9 DEF Unreachable
<1>10. CASE Restart
  <2>1. /\ cache' \in [Dims -> Seq(Entry)] /\ \A d \in Dims : Len(cache'[d]) = 0
        /\ check' \in [Workers -> CheckRow] /\ \A p \in Workers : check'[p].at = "idle"
        /\ UNCHANGED <<now, up, last>>
    BY <1>2, <1>10 DEF Restart
  <2>2. QED
    BY <1>1, <2>1, ChecksMove
<1>11. ASSUME NEW s \in Switched, NEW active \in BOOLEAN, SetActive(s, active) PROVE CacheInv'
  <2>1. s \in Subjects
    BY ChecksAssumption DEF Subjects
  <2>2. up' \in [Subjects -> BOOLEAN]
    BY <1>1, <1>11 DEF SetActive
  <2>3. /\ last' \in [Subjects -> Int]
        /\ \A t \in Subjects : last[t] <= last'[t] /\ last'[t] <= now
    BY <1>1, <1>11, <2>1 DEF SetActive
  <2>4. UNCHANGED <<now, cache, check>>
    BY <1>11 DEF SetActive
  <2>5. QED
    BY <1>1, <2>2, <2>3, <2>4, ChecksMove
<1>12. CASE CheckTick
  <2>1. now' \in Nat /\ \A s \in Subjects : last[s] <= now'
    BY <1>1, <1>12 DEF CheckTick
  <2>2. QED
    BY <1>12, <2>1 DEF CheckTick, CacheInv, ChecksTypeOK, Asking, Outlived
<1>13. CASE UNCHANGED checkVars
  BY <1>13 DEF checkVars, CacheInv, ChecksTypeOK, Asking, Outlived
<1>14. QED
  BY <1>4, <1>5, <1>6, <1>7, <1>8, <1>9, <1>10, <1>11, <1>12, <1>13 DEF NextChecks

LEMMA ChecksBegin == ASSUME InitChecks PROVE CacheInv
<1>1. NoCheck \in CheckRow /\ NoCheck.at = "idle"
  BY DEF NoCheck, CheckRow, Dims
<1>2. \A d \in Dims : cache[d] \in Seq(Entry) /\ Len(cache[d]) = 0
  BY DEF InitChecks
<1>3. ChecksTypeOK
  BY <1>1, ChecksAssumption DEF InitChecks, ChecksTypeOK
<1>4. \A s \in Subjects : last[s] <= now
  BY ChecksAssumption DEF InitChecks
<1>5. QED
  BY <1>1, <1>2, <1>3, <1>4 DEF InitChecks, CacheInv, Asking, Outlived

(* Only a kept answer takes a check on without asking.                     *)
LEMMA OnlyHits ==
  ASSUME CacheInv, [NextChecks]_checkVars, NEW p \in Workers,
         check[p].at = "look", check'[p] = Passed(check[p])
  PROVE  Hit(p)
<1>1. PICK c \in CheckRow : c = check[p] /\ c.account \in Accounts
  BY CheckIs
<1>2. Passed(c) # c
  <2>1. CASE c.dim = "site"
    <3>1. Passed(c).dim = "owner"
      BY <2>1 DEF Passed, CheckRow
    <3>2. QED
      BY <2>1, <3>1
  <2>2. CASE c.dim # "site"
    <3>1. Passed(c).at = "passed"
      BY <2>2 DEF Passed, NoCheck
    <3>2. QED
      BY <1>1, <3>1
  <2>3. QED
    BY <2>1, <2>2
<1>3. Passed(c).at \in {"look", "passed"}
  BY <1>1, PassedIs
<1>4. ASSUME check' = check PROVE FALSE
  BY <1>1, <1>2, <1>4
<1>5. ASSUME NEW q \in Workers, NEW row, check' = [check EXCEPT ![q] = row], q # p PROVE FALSE
  BY <1>1, <1>2, <1>5
<1>6. ASSUME NEW q \in Workers, NEW a \in Accounts, BeginCheck(q, a) PROVE FALSE
  <2>1. q # p
    BY <1>6 DEF BeginCheck
  <2>2. QED
    BY <1>5, <1>6, <2>1 DEF BeginCheck
<1>7. ASSUME NEW q \in Workers, Hit(q) PROVE Hit(p)
  BY <1>5, <1>7 DEF Hit
<1>8. ASSUME NEW q \in Workers, Miss(q) PROVE FALSE
  <2>1. PICK row : row = [check[q] EXCEPT !.at = "call"]
    OBVIOUS
  <2>2. check' = [check EXCEPT ![q] = row]
    BY <1>8, <2>1 DEF Miss
  <2>3. q = p
    BY <1>5, <2>2
  <2>4. row.at = "call"
    BY <1>1, <2>1, <2>3 DEF CheckRow
  <2>5. check'[p] = row
    BY <2>2, <2>3 DEF CacheInv, ChecksTypeOK
  <2>6. QED
    BY <1>1, <1>3, <2>4, <2>5
<1>9. ASSUME NEW q \in Workers, Answer(q) \/ Hear(q) \/ Unreachable(q) PROVE FALSE
  <2>1. q # p
    BY <1>9 DEF Answer, Hear, Unreachable
  <2>2. QED
    BY <1>5, <1>9, <2>1 DEF Answer, Hear, Unreachable
<1>10. ASSUME Restart PROVE FALSE
  <2>1. check'[p] = NoCheck /\ NoCheck.at = "idle"
    BY <1>10 DEF Restart, NoCheck
  <2>2. QED
    BY <1>1, <1>3, <2>1
<1>11. ASSUME CheckTick \/ (\E s \in Switched, active \in BOOLEAN : SetActive(s, active))
                \/ UNCHANGED checkVars
       PROVE  FALSE
  BY <1>4, <1>11 DEF CheckTick, SetActive, checkVars
<1>12. QED
  BY <1>6, <1>7, <1>8, <1>9, <1>10, <1>11 DEF NextChecks

(* A check that a kept answer takes on is about a subject that is active, or was less
   than one TTL ago heard to be, or suspended.                             *)
LEMMA KeptForOneTtl ==
  ASSUME CacheInv, [NextChecks]_checkVars, NEW p \in Workers, NEW a \in Accounts, NEW d \in Dims,
         check[p].account = a, check[p].dim = d, check[p].at = "look",
         check'[p] = Passed(check[p])
  PROVE  now < last[Subject(d, a)] + Ttl
<1>1. Hit(p)
  BY OnlyHits
<1>2. PICK s \in Subjects : s = Subject(d, a) /\ s = Key(d, a)
  BY CheckIs
<1>3. PICK i \in DOMAIN cache[d] : cache[d][i].key = s /\ now < cache[d][i].until
  BY <1>1, <1>2 DEF Hit, Fresh, Kept
<1>4. PICK e \in Entry : e = cache[d][i]
  BY <1>3 DEF CacheInv, ChecksTypeOK
<1>5. e.until <= last[s] + Ttl
  BY <1>3, <1>4 DEF CacheInv, ChecksTypeOK, Outlived
<1>6. e.until \in Int /\ last[s] \in Int /\ now \in Nat
  BY DEF Entry, CacheInv, ChecksTypeOK
<1>7. QED
  BY <1>2, <1>3, <1>4, <1>5, <1>6, ChecksAssumption

(* A suspended site or a banned owner is served from the cache for less than one TTL
   after the suspension, or after a positive answer that was under way then was
   heard, for any sites, owners, TTL and cache size (PositiveTtlCache: a ban takes
   full effect within one TTL).                                            *)
THEOREM BansTakeEffect == ChecksSpec => BanTakesEffect
<1> DEFINE InTime ==
      \A p \in Workers, a \in Accounts, d \in Dims :
        /\ check[p].account = a /\ check[p].dim = d /\ check[p].at = "look"
        /\ check'[p] = Passed(check[p])
        => LET s == Subject(d, a) IN up[s] \/ now < last[s] + Ttl
<1>1. InitChecks => CacheInv
  BY ChecksBegin
<1>2. CacheInv /\ [NextChecks]_checkVars => CacheInv'
  BY ChecksKeep
<1>3. CacheInv /\ [NextChecks]_checkVars => InTime
  BY KeptForOneTtl
<1>4. QED
  BY <1>1, <1>2, <1>3, PTL DEF ChecksSpec, BanTakesEffect
=============================================================================
