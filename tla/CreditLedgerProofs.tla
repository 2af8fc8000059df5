------------------------- MODULE CreditLedgerProofs -------------------------
(***************************************************************************)
(* Theorems about CreditLedger, for every set of accounts, keys, requests  *)
(* and sweeps, every plan and every calendar.                              *)
(*                                                                         *)
(* The invariant is not inductive as the runs state it: a settlement       *)
(* subtracts a hold's amount from held, and that held cannot go negative   *)
(* follows only from held being the sum of the active holds; that the sum  *)
(* stays right follows only from an open request naming rows that exist.   *)
(* IInv adds those facts.                                                  *)
(*                                                                         *)
(* Where the credit goes is the second half: every step of the ledger is   *)
(* one of seven movements of credit or none (Movement), and from what they *)
(* do to the sums of what accounts have, have reserved and have spent      *)
(* follow the theorems about time credit, charges, paid credit and the     *)
(* escrow.                                                                 *)
(***************************************************************************)
EXTENDS CreditLedger, LedgerWallets, LedgerArithmetic

(* A hold that exists belongs to an account.                               *)
HoldsOwned ==
  \A h \in HoldKeys : hold[h].status # "none" => hold[h].account \in Accounts

(* An open request is one clients issue and names the rows its operation works on,
   which outlive it: no row is ever removed, and the amount and account of a hold
   never change.                                                           *)
NamesRows(r) ==
  /\ r.op \in Ops \cup {"idle"}
  /\ r.op = "grant" => r.amount > 0
  /\ r.op \in {"grant", "spend", "reset", "hold", "delete", "restore"} => r.account \in Accounts
  /\ r.op \in {"grant", "spend", "reset", "capture"} => r.key \in EntryKeys
  /\ r.op \in {"hold", "capture", "release"} => r.hold \in HoldKeys
  /\ r.op = "capture" => /\ hold[r.hold].status # "none"
                         /\ r.account = hold[r.hold].account
                         /\ r.amount <= hold[r.hold].amount

RequestsNameRows == \A t \in Tx : NamesRows(tx[t])

IInv ==
  /\ TypeOK
  /\ HoldsOwned
  /\ RequestsNameRows
  /\ HeldMatchesHolds
  /\ BucketsWithinAllowance
  /\ SettledOnce

-----------------------------------------------------------------------------
(* Rows.                                                                   *)

WithinAllowance(row) == /\ row.bucket.daily <= Allowance.daily
                        /\ row.bucket.period <= Allowance.period

(* The boundaries of an instant are natural numbers.                       *)
LEMMA BoundaryIsNat ==
  ASSUME NEW t \in Nat
  PROVE  DailyBoundary(t) \in Nat /\ PeriodBoundary(t) \in Nat
BY LedgerAssumption DEF DailyBoundary, PeriodBoundary

(* A refresh keeps a row a row, within its allowance, with the same held.  *)
LEMMA RefreshRowKeepsRow ==
  ASSUME NEW row \in AccountRow, NEW t \in Nat, WithinAllowance(row)
  PROVE  /\ RefreshRow(row, t) \in AccountRow
         /\ WithinAllowance(RefreshRow(row, t))
         /\ RefreshRow(row, t).held = row.held
<1> DEFINE stale == [daily  |-> IsStale(row.dailyOn, DailyBoundary(t)),
                     period |-> IsStale(row.periodOn, PeriodBoundary(t))]
           b == Refresh(row.bucket, Allowance, stale)
<1>1. stale \in [daily : BOOLEAN, period : BOOLEAN]
  BY DEF IsStale
<1>2. Allowance \in Allowances
  BY LedgerAssumption
<1>3. row.bucket \in Bucket
  BY DEF AccountRow
<1>4. b \in Bucket
  BY <1>1, <1>2, <1>3, RefreshIsBucket
<1>5. b.daily <= Allowance.daily /\ b.period <= Allowance.period
  BY <1>2, <1>3 DEF Refresh, WithinAllowance, Allowances, Bucket
<1>6. DailyBoundary(t) \in Nat /\ PeriodBoundary(t) \in Nat
  BY BoundaryIsNat
<1>7. /\ RefreshRow(row, t).bucket = b
      /\ RefreshRow(row, t).held = row.held
      /\ RefreshRow(row, t) \in AccountRow
  <2> HIDE DEF b
  <2>1. RefreshRow(row, t) =
          [row EXCEPT !.bucket   = b,
                      !.dailyOn  = IF stale.daily THEN DailyBoundary(t) ELSE row.dailyOn,
                      !.periodOn = IF stale.period THEN PeriodBoundary(t) ELSE row.periodOn]
    BY DEF RefreshRow, b, AccountRow
  <2> HIDE DEF stale
  <2>2. QED
    BY <2>1, <1>4, <1>6 DEF AccountRow, Boundary
<1>8. QED
  BY <1>5, <1>7 DEF WithinAllowance

(* Taking a covered amount keeps a row a row, within its allowance.        *)
LEMMA TakenKeepsRow ==
  ASSUME NEW row \in AccountRow, NEW n \in Nat, WithinAllowance(row)
  PROVE  /\ Taken(row, n) \in AccountRow
         /\ WithinAllowance(Taken(row, n))
         /\ Taken(row, n).held = row.held
         /\ Taken(row, n).bucket = Minus(row.bucket, Debit(row.bucket, n))
<1> DEFINE b == Minus(row.bucket, Debit(row.bucket, n))
<1>1. row.bucket \in Bucket
  BY DEF AccountRow
<1>2. b \in Bucket
  BY <1>1, DebitLeaves
<1>3. b.daily <= row.bucket.daily /\ b.period <= row.bucket.period
  <2> DEFINE d == Debit(row.bucket, n)
  <2>1. d.daily \in 0 .. row.bucket.daily /\ d.period \in 0 .. row.bucket.period
    BY <1>1, DebitBounds
  <2> HIDE DEF d
  <2>2. Minus(row.bucket, d).daily <= row.bucket.daily /\ Minus(row.bucket, d).period <= row.bucket.period
    BY <1>1, <2>1 DEF Minus, Bucket
  <2>3. QED
    BY <2>2 DEF d
<1>4. Taken(row, n) = [row EXCEPT !.bucket = b]
  BY DEF Taken
<1> HIDE DEF b
<1>5. Taken(row, n) \in AccountRow /\ Taken(row, n).held = row.held /\ Taken(row, n).bucket = b
  BY <1>2, <1>4 DEF AccountRow
<1>6. b.daily <= Allowance.daily /\ b.period <= Allowance.period
  BY <1>1, <1>2, <1>3, LedgerAssumption DEF WithinAllowance, Bucket, Allowances
<1>7. QED
  BY <1>5, <1>6 DEF WithinAllowance, b

(* Returning a reservation keeps a row a row when held covers the hold.    *)
LEMMA ReturnKeepsRow ==
  ASSUME NEW row \in AccountRow, NEW unused \in Bucket, NEW n \in Nat, n <= row.held
  PROVE  /\ ApplyBucketReturn(row, unused, n) \in AccountRow
         /\ WithinAllowance(ApplyBucketReturn(row, unused, n))
         /\ ApplyBucketReturn(row, unused, n).held = row.held - n
<1> DEFINE b == CreditBack(row.bucket, unused, Allowance)
<1>1. row.bucket \in Bucket
  BY DEF AccountRow
<1>2. b \in Bucket /\ b.daily <= Allowance.daily /\ b.period <= Allowance.period
  BY <1>1, CreditBackIsBucket, LedgerAssumption
<1>3. ApplyBucketReturn(row, unused, n) = [row EXCEPT !.bucket = b, !.held = row.held - n]
  BY DEF ApplyBucketReturn, AccountRow
<1> HIDE DEF b
<1>4. row.held - n \in Nat
  BY DEF AccountRow
<1>5. /\ ApplyBucketReturn(row, unused, n) \in AccountRow
      /\ ApplyBucketReturn(row, unused, n).bucket = b
      /\ ApplyBucketReturn(row, unused, n).held = row.held - n
  BY <1>2, <1>3, <1>4 DEF AccountRow
<1>6. QED
  BY <1>2, <1>5 DEF WithinAllowance

-----------------------------------------------------------------------------
(* Sums over the active holds.                                             *)

(* The active holds of an account, and their amounts, are summable.        *)
LEMMA AmountsSummable ==
  ASSUME TypeOK, NEW a \in Accounts
  PROVE  /\ IsFiniteSet(ActiveHoldsOf(a))
         /\ [h \in ActiveHoldsOf(a) |-> hold[h].amount] \in [ActiveHoldsOf(a) -> Nat]
<1>1. ActiveHoldsOf(a) \in SUBSET HoldKeys
  BY DEF ActiveHoldsOf
<1>2. IsFiniteSet(ActiveHoldsOf(a))
  BY <1>1, LedgerAssumption, FS_Subset
<1>3. QED
  BY <1>1, <1>2 DEF TypeOK, HoldRow

(* held is at least the amount of each active hold, and what remains of it is the
   sum of the others.                                                      *)
LEMMA HeldCovers ==
  ASSUME TypeOK, HoldsOwned, HeldMatchesHolds,
         NEW h \in HoldKeys, hold[h].status = "active"
  PROVE  LET a    == hold[h].account
             rest == Total([g \in ActiveHoldsOf(a) \ {h} |-> hold[g].amount])
         IN  /\ a \in Accounts
             /\ rest \in Nat
             /\ account[a].held = rest + hold[h].amount
             /\ hold[h].amount <= account[a].held
<1> DEFINE a == hold[h].account
           D == ActiveHoldsOf(a)
           f == [g \in D |-> hold[g].amount]
           rest == [g \in D \ {h} |-> f[g]]
<1>1. a \in Accounts /\ h \in D /\ hold[h].amount \in Nat
  BY DEF HoldsOwned, ActiveHoldsOf, TypeOK, HoldRow
<1>2. IsFiniteSet(D) /\ f \in [D -> Nat]
  BY <1>1, AmountsSummable
<1>3. Total(f) = Total(rest) + f[h]
  <2> HIDE DEF D, f
  <2>1. QED
    BY <1>1, <1>2, TotalWithout
<1>4. Total(rest) \in Nat
  <2>1. IsFiniteSet(D \ {h}) /\ rest \in [D \ {h} -> Nat]
    BY <1>2, FS_RemoveElement
  <2> HIDE DEF D, f, rest
  <2>2. QED
    BY <2>1, TotalIsNat
<1>5. rest = [g \in D \ {h} |-> hold[g].amount] /\ f[h] = hold[h].amount
  BY <1>1
<1>6. account[a].held = Total(f)
  BY <1>1 DEF HeldMatchesHolds
<1>7. QED
  BY <1>1, <1>3, <1>4, <1>5, <1>6

(* A step that rewrites one account row, keeps its held, and moves no hold.  *)
LEMMA OneRowMoves ==
  ASSUME TypeOK, HeldMatchesHolds, BucketsWithinAllowance,
         NEW a \in Accounts, NEW row \in AccountRow, WithinAllowance(row),
         row.held = account[a].held,
         account' = [account EXCEPT ![a] = row], hold' = hold
  PROVE  /\ account' \in [Accounts -> AccountRow]
         /\ HeldMatchesHolds'
         /\ BucketsWithinAllowance'
<1>1. account' \in [Accounts -> AccountRow]
  BY DEF TypeOK
<1>2. \A b \in Accounts : account'[b].held = account[b].held
  BY DEF TypeOK
<1>3. \A b \in Accounts : ActiveHoldsOf(b)' = ActiveHoldsOf(b)
  BY DEF ActiveHoldsOf
<1>4. HeldMatchesHolds'
  BY <1>2, <1>3 DEF HeldMatchesHolds
<1>5. BucketsWithinAllowance'
  BY DEF BucketsWithinAllowance, WithinAllowance, TypeOK
<1>6. QED
  BY <1>1, <1>4, <1>5

(* A settlement of a hold by whichever way it is settled.                  *)
LEMMA SettleKeeps ==
  ASSUME TypeOK, HoldsOwned, HeldMatchesHolds, BucketsWithinAllowance,
         NEW h \in HoldKeys, NEW s \in HoldStatus \ {"active"}, NEW unused \in Bucket,
         Settle(h, s, unused)
  PROVE  /\ account' \in [Accounts -> AccountRow]
         /\ hold' \in [HoldKeys -> HoldRow]
         /\ hold[h].status = "active"
         /\ hold' = [hold EXCEPT ![h].status = s]
         /\ HoldsOwned'
         /\ HeldMatchesHolds'
         /\ BucketsWithinAllowance'
<1> DEFINE a == hold[h].account
           n == hold[h].amount
           row == ApplyBucketReturn(account[a], unused, n)
<1>1. hold[h].status = "active" /\ hold' = [hold EXCEPT ![h].status = s]
  BY DEF Settle, WinsHold
<1>2. a \in Accounts /\ n \in Nat /\ account[a] \in AccountRow
  BY <1>1 DEF HoldsOwned, TypeOK, HoldRow
<1>3. account' = [account EXCEPT ![a] = row]
  BY <1>2 DEF Settle, TypeOK
<1>4. n <= account[a].held
  BY <1>1, HeldCovers
<1>5. row \in AccountRow /\ WithinAllowance(row) /\ row.held = account[a].held - n
  BY <1>2, <1>4, ReturnKeepsRow
<1> HIDE DEF row
<1>6. account' \in [Accounts -> AccountRow]
  BY <1>2, <1>3, <1>5 DEF TypeOK
<1>7. hold' \in [HoldKeys -> HoldRow]
  BY <1>1 DEF TypeOK, HoldRow
<1>8. HoldsOwned'
  BY <1>1, <1>2 DEF HoldsOwned, TypeOK
<1>9. BucketsWithinAllowance'
  BY <1>2, <1>3, <1>5 DEF BucketsWithinAllowance, WithinAllowance, TypeOK
<1>10. HeldMatchesHolds'
  <2> SUFFICES ASSUME NEW b \in Accounts
               PROVE  account'[b].held =
                        Total([g \in ActiveHoldsOf(b)' |-> hold'[g].amount])
    BY DEF HeldMatchesHolds
  <2>1. \A g \in HoldKeys : /\ hold'[g].amount = hold[g].amount
                            /\ hold'[g].account = hold[g].account
                            /\ hold'[g].status = IF g = h THEN s ELSE hold[g].status
    BY <1>1 DEF TypeOK, HoldRow
  <2>2. ActiveHoldsOf(b)' = ActiveHoldsOf(b) \ {h}
    BY <2>1 DEF ActiveHoldsOf
  <2>3. [g \in ActiveHoldsOf(b)' |-> hold'[g].amount] =
        [g \in ActiveHoldsOf(b) \ {h} |-> hold[g].amount]
    BY <2>1, <2>2 DEF ActiveHoldsOf
  <2>4. CASE b = a
    <3>1. account'[a].held = account[a].held - n
      BY <1>2, <1>3, <1>5 DEF TypeOK
    <3>2. account[a].held = Total([g \in ActiveHoldsOf(a) \ {h} |-> hold[g].amount]) + n
          /\ Total([g \in ActiveHoldsOf(a) \ {h} |-> hold[g].amount]) \in Nat
      BY <1>1, HeldCovers
    <3>3. QED
      BY <1>2, <2>3, <2>4, <3>1, <3>2
  <2>5. CASE b # a
    <3>1. account'[b] = account[b]
      BY <1>3, <2>5 DEF TypeOK
    <3>2. ActiveHoldsOf(b) \ {h} = ActiveHoldsOf(b)
      BY <2>5 DEF ActiveHoldsOf
    <3>3. QED
      BY <2>3, <3>1, <3>2 DEF HeldMatchesHolds
  <2>6. QED
    BY <2>4, <2>5
<1>11. QED
  BY <1>1, <1>6, <1>7, <1>8, <1>9, <1>10

(* A hold that is made.                                                    *)
LEMMA HoldCommitKeeps ==
  ASSUME IInv, NEW t \in Tx, HoldCommit(t)
  PROVE  /\ account' \in [Accounts -> AccountRow]
         /\ hold' \in [HoldKeys -> HoldRow]
         /\ HoldsOwned'
         /\ HeldMatchesHolds'
         /\ BucketsWithinAllowance'
<1> DEFINE r == tx[t]
           a == r.account
           h == r.hold
           n == r.amount
           fresh == RefreshRow(account[a], r.at)
           left == Taken(fresh, n)
           row == [left EXCEPT !.held = @ + n]
           new == [status |-> "active", account |-> a, amount |-> n,
                   reserved |-> Minus(fresh.bucket, row.bucket),
                   expiresAt |-> r.expiresAt, raced |-> BeingDeleted(a)]
<1> USE DEF IInv
<1>1. r \in Request /\ r.op = "hold" /\ a \in Accounts /\ h \in HoldKeys
  BY DEF HoldCommit, Open, RequestsNameRows, NamesRows, TypeOK
<1>2. n \in Nat /\ r.at \in Nat /\ r.expiresAt \in Nat \cup {Never}
  BY <1>1 DEF Request
<1>3. account[a] \in AccountRow /\ WithinAllowance(account[a])
  BY <1>1 DEF TypeOK, BucketsWithinAllowance, WithinAllowance
<1>4. fresh \in AccountRow /\ WithinAllowance(fresh) /\ fresh.held = account[a].held
  BY <1>2, <1>3, RefreshRowKeepsRow
<1>5. /\ account' = [account EXCEPT ![a] = row]
      /\ hold' = [hold EXCEPT ![h] = new]
      /\ hold[h] = NoHold
  BY DEF HoldCommit
<1> HIDE DEF fresh
<1>6. /\ left \in AccountRow /\ WithinAllowance(left) /\ left.held = fresh.held
      /\ left.bucket = Minus(fresh.bucket, Debit(fresh.bucket, n))
  BY <1>2, <1>4, TakenKeepsRow
<1>7. Minus(fresh.bucket, left.bucket) \in Bucket
  <2>1. fresh.bucket \in Bucket
    BY <1>4 DEF AccountRow
  <2>2. QED
    BY <2>1, <1>2, <1>6, DebitTakes
<1> HIDE DEF left
<1>8. /\ row \in AccountRow /\ row.bucket = left.bucket
      /\ row.held = account[a].held + n
  BY <1>2, <1>4, <1>6 DEF AccountRow
<1> HIDE DEF row
<1>9. new \in HoldRow /\ new.status = "active" /\ new.account = a /\ new.amount = n
  BY <1>1, <1>2, <1>4, <1>7, <1>8 DEF HoldRow, HoldStatus, AccountRow, BeingDeleted
<1> HIDE DEF new, a, h, n
<1>10. account' \in [Accounts -> AccountRow]
  BY <1>1, <1>5, <1>8 DEF TypeOK
<1>11. hold' \in [HoldKeys -> HoldRow]
  BY <1>1, <1>5, <1>9 DEF TypeOK
<1>12. HoldsOwned'
  BY <1>1, <1>5, <1>9 DEF HoldsOwned, TypeOK
<1>13. BucketsWithinAllowance'
  BY <1>1, <1>5, <1>6, <1>8 DEF BucketsWithinAllowance, WithinAllowance, TypeOK
<1>14. HeldMatchesHolds'
  <2> SUFFICES ASSUME NEW b \in Accounts
               PROVE  account'[b].held =
                        Total([g \in ActiveHoldsOf(b)' |-> hold'[g].amount])
    BY DEF HeldMatchesHolds
  <2>1. \A g \in HoldKeys : hold'[g] = IF g = h THEN new ELSE hold[g]
    BY <1>1, <1>5 DEF TypeOK
  <2>2. h \notin ActiveHoldsOf(b)
    BY <1>5 DEF ActiveHoldsOf, NoHold
  <2>3. CASE b = a
    <3> DEFINE D == ActiveHoldsOf(a) \cup {h}
               f == [g \in D |-> hold'[g].amount]
               rest == [g \in D \ {h} |-> f[g]]
    <3>1. ActiveHoldsOf(b)' = D
      <4>1. \A g \in HoldKeys :
              hold'[g].status = "active" /\ hold'[g].account = b
                <=> g = h \/ (hold[g].status = "active" /\ hold[g].account = b)
        BY <1>9, <2>1, <2>3
      <4>2. QED
        BY <1>1, <2>3, <4>1 DEF ActiveHoldsOf
    <3>2. IsFiniteSet(ActiveHoldsOf(a)) /\ [g \in ActiveHoldsOf(a) |-> hold[g].amount] \in [ActiveHoldsOf(a) -> Nat]
      BY <1>1, AmountsSummable
    <3>3. IsFiniteSet(D)
      BY <3>2, FS_AddElement
    <3>4. f \in [D -> Nat]
      BY <1>1, <1>11 DEF HoldRow, ActiveHoldsOf
    <3>5. Total(f) = Total(rest) + f[h]
      <4>1. h \in D
        OBVIOUS
      <4> HIDE DEF D, f
      <4>2. QED
        BY <4>1, <3>3, <3>4, TotalWithout
    <3>6. rest = [g \in ActiveHoldsOf(a) |-> hold[g].amount]
      <4>1. D \ {h} = ActiveHoldsOf(a)
        BY <2>2, <2>3
      <4>2. \A g \in ActiveHoldsOf(a) : f[g] = hold[g].amount
        BY <2>1, <2>2, <2>3 DEF ActiveHoldsOf
      <4> HIDE DEF D, f
      <4>3. QED
        BY <4>1, <4>2
    <3>7. f[h] = n
      BY <1>1, <1>9, <2>1
    <3>8. account'[a].held = account[a].held + n
      BY <1>1, <1>5, <1>8 DEF TypeOK
    <3>9. account[a].held = Total([g \in ActiveHoldsOf(a) |-> hold[g].amount])
      BY <1>1 DEF HeldMatchesHolds
    <3>10. f = [g \in ActiveHoldsOf(b)' |-> hold'[g].amount]
      BY <2>3, <3>1
    <3> HIDE DEF D, f, rest
    <3>11. QED
      BY <2>3, <3>5, <3>6, <3>7, <3>8, <3>9, <3>10
  <2>4. CASE b # a
    <3>1. account'[b] = account[b]
      BY <1>5, <2>4 DEF TypeOK
    <3>2. ActiveHoldsOf(b)' = ActiveHoldsOf(b)
      BY <1>5, <1>9, <2>1, <2>4 DEF ActiveHoldsOf, NoHold
    <3>3. [g \in ActiveHoldsOf(b)' |-> hold'[g].amount] =
          [g \in ActiveHoldsOf(b) |-> hold[g].amount]
      BY <2>1, <2>2, <3>2 DEF ActiveHoldsOf
    <3>4. QED
      BY <3>1, <3>3 DEF HeldMatchesHolds
  <2>5. QED
    BY <2>3, <2>4
<1>15. QED
  BY <1>10, <1>11, <1>12, <1>13, <1>14

-----------------------------------------------------------------------------
(* Requests and entries.                                                   *)

HoldsPersist ==
  \A h \in HoldKeys : hold[h].status # "none" =>
    /\ hold'[h].status # "none"
    /\ hold'[h].account = hold[h].account
    /\ hold'[h].amount = hold[h].amount

(* A well-formed request stays one while holds persist.                    *)
LEMMA RequestsSurvive ==
  ASSUME IInv, HoldsPersist, tx' = tx \/ \E t \in Tx : tx' = [tx EXCEPT ![t] = Idle]
  PROVE  tx' \in [Tx -> Request] /\ RequestsNameRows'
<1>1. Idle \in Request
  BY DEF Idle, Request
<1>2. tx' \in [Tx -> Request]
  BY <1>1 DEF IInv, TypeOK
<1>3. ASSUME NEW u \in Tx PROVE NamesRows(tx[u])'
  <2>1. tx'[u] = tx[u] \/ tx'[u] = Idle
    BY DEF IInv, TypeOK
  <2>2. NamesRows(tx[u])
    BY DEF IInv, RequestsNameRows
  <2>3. tx[u].op = "capture" => tx[u].hold \in HoldKeys
    BY <2>2 DEF NamesRows
  <2>4. CASE tx'[u] = tx[u]
    BY <2>2, <2>3, <2>4 DEF NamesRows, HoldsPersist
  <2>5. CASE tx'[u] = Idle
    BY <2>5 DEF NamesRows, Idle
  <2>6. QED
    BY <2>1, <2>4, <2>5
<1>4. QED
  BY <1>2, <1>3 DEF RequestsNameRows

(* A transaction that only takes its snapshot keeps the invariant when its request
   is well formed.                                                         *)
LEMMA BeginKeeps ==
  ASSUME IInv, NEW t \in Tx, NEW r \in Request, NamesRows(r),
         tx' = [tx EXCEPT ![t] = r], UNCHANGED <<account, hold, entry, sweep, clock>>
  PROVE  IInv'
<1>1. tx' \in [Tx -> Request]
  BY DEF IInv, TypeOK
<1>2. \A u \in Tx : tx'[u] = IF u = t THEN r ELSE tx[u]
  BY DEF IInv, TypeOK
<1>3. RequestsNameRows'
  BY <1>2 DEF IInv, RequestsNameRows, NamesRows
<1>4. HeldMatchesHolds' /\ BucketsWithinAllowance' /\ SettledOnce' /\ HoldsOwned'
  BY DEF IInv, HeldMatchesHolds, ActiveHoldsOf, BucketsWithinAllowance, SettledOnce,
         Captures, HoldsOwned
<1>5. TypeOK'
  BY <1>1 DEF IInv, TypeOK
<1>6. QED
  BY <1>1, <1>3, <1>4, <1>5 DEF IInv

(* An entry that is no capture, posted under a free key.                   *)
LEMMA PostKeeps ==
  ASSUME IInv, NEW k \in EntryKeys, NEW e \in EntryRow, e.kind # "capture",
         FreeKey(k), entry' = [entry EXCEPT ![k] = e], hold' = hold
  PROVE  entry' \in [EntryKeys -> EntryRow] /\ SettledOnce'
<1>1. entry' \in [EntryKeys -> EntryRow]
  BY DEF IInv, TypeOK
<1>2. \A j \in EntryKeys : entry'[j] = IF j = k THEN e ELSE entry[j]
  BY DEF IInv, TypeOK
<1>3. entry[k].kind # "capture"
  BY DEF FreeKey, NoEntry
<1>4. \A h \in HoldKeys : Captures(h)' = Captures(h)
  BY <1>2, <1>3 DEF Captures
<1>5. \A h \in HoldKeys : \A j \in Captures(h) : entry'[j] = entry[j]
  BY <1>2, <1>3 DEF Captures
<1>6. SettledOnce'
  <2> SUFFICES ASSUME NEW h \in HoldKeys
               PROVE  IF hold'[h].status = "captured"
                      THEN \E j \in EntryKeys : Captures(h)' = {j} /\ -entry'[j].amount <= hold'[h].amount
                      ELSE Captures(h)' = {}
    BY DEF SettledOnce
  <2>1. QED
    BY <1>4, <1>5 DEF IInv, SettledOnce
<1>7. QED
  BY <1>1, <1>6

(* A step on one account row and one free entry key, as grants, spends and resets
   take.                                                                   *)
LEMMA MutationKeeps ==
  ASSUME IInv, NEW t \in Tx, NEW a \in Accounts, NEW row \in AccountRow, WithinAllowance(row),
         row.held = account[a].held, account' = [account EXCEPT ![a] = row],
         NEW k \in EntryKeys, NEW e \in EntryRow, e.kind # "capture",
         FreeKey(k), entry' = [entry EXCEPT ![k] = e],
         tx' = [tx EXCEPT ![t] = Idle], UNCHANGED <<hold, sweep, clock>>
  PROVE  IInv'
<1>1. /\ account' \in [Accounts -> AccountRow]
      /\ HeldMatchesHolds' /\ BucketsWithinAllowance'
  BY OneRowMoves DEF IInv
<1>2. entry' \in [EntryKeys -> EntryRow] /\ SettledOnce'
  BY PostKeeps
<1>3. HoldsPersist
  BY DEF HoldsPersist
<1>4. tx' \in [Tx -> Request] /\ RequestsNameRows'
  BY <1>3, RequestsSurvive
<1>5. QED
  BY <1>1, <1>2, <1>4 DEF IInv, TypeOK, HoldsOwned

(* A step on one account row alone.                                        *)
LEMMA RowStepKeeps ==
  ASSUME IInv, NEW a \in Accounts, NEW row \in AccountRow, WithinAllowance(row),
         row.held = account[a].held, account' = [account EXCEPT ![a] = row],
         tx' \in [Tx -> Request], RequestsNameRows',
         UNCHANGED <<hold, entry, sweep, clock>>
  PROVE  IInv'
<1>1. /\ account' \in [Accounts -> AccountRow]
      /\ HeldMatchesHolds' /\ BucketsWithinAllowance'
  BY OneRowMoves DEF IInv
<1>2. SettledOnce' /\ HoldsOwned'
  BY DEF IInv, SettledOnce, Captures, HoldsOwned
<1>3. QED
  BY <1>1, <1>2 DEF IInv, TypeOK

(* A settlement that posts nothing: a release or an expiry.                *)
LEMMA ReturnKeeps ==
  ASSUME IInv, NEW h \in HoldKeys, NEW s \in {"released", "expired"},
         Settle(h, s, hold[h].reserved), UNCHANGED <<entry, clock>>,
         tx' = tx \/ \E t \in Tx : tx' = [tx EXCEPT ![t] = Idle],
         sweep' \in [Sweepers -> SweepState]
  PROVE  IInv'
<1>1. hold[h].reserved \in Bucket
  BY DEF IInv, TypeOK, HoldRow
<1>2. s \in HoldStatus \ {"active"}
  BY DEF HoldStatus
<1>3. /\ account' \in [Accounts -> AccountRow]
      /\ hold' \in [HoldKeys -> HoldRow]
      /\ hold[h].status = "active"
      /\ hold' = [hold EXCEPT ![h].status = s]
      /\ HoldsOwned' /\ HeldMatchesHolds' /\ BucketsWithinAllowance'
  BY <1>1, <1>2, SettleKeeps DEF IInv
<1>4. \A g \in HoldKeys : /\ hold'[g].amount = hold[g].amount
                          /\ hold'[g].account = hold[g].account
                          /\ hold'[g].status = IF g = h THEN s ELSE hold[g].status
  BY <1>3 DEF IInv, TypeOK, HoldRow
<1>5. HoldsPersist
  BY <1>4 DEF HoldsPersist
<1>6. tx' \in [Tx -> Request] /\ RequestsNameRows'
  BY <1>5, RequestsSurvive
<1>7. SettledOnce'
  BY <1>3, <1>4 DEF IInv, SettledOnce, Captures
<1>8. QED
  BY <1>3, <1>6, <1>7 DEF IInv, TypeOK

-----------------------------------------------------------------------------
(* The operations.                                                         *)

(* Opening a transaction, of whatever kind, records a well-formed request. *)
LEMMA BeginStepsKeep ==
  ASSUME IInv, NEW t \in Tx,
         \/ GrantBegin(t) \/ SpendBegin(t) \/ ResetBegin(t) \/ HoldBegin(t)
         \/ CaptureBegin(t) \/ ReleaseBegin(t) \/ DeleteBegin(t) \/ RestoreBegin(t)
  PROVE  IInv'
<1> USE LedgerAssumption DEF Begin, Idle, Request, OpNames, Boundary
<1>0. clock \in Nat /\ Amounts \subseteq Nat \ {0} /\ Targets \subseteq Nat /\ Ttls \subseteq Nat
  BY DEF IInv, TypeOK, Time
<1>1. CASE GrantBegin(t)
  <2>1. PICK k \in EntryKeys, a \in Accounts, n \in Amounts :
          Begin(t, "grant", [Idle EXCEPT !.key = k, !.account = a, !.amount = n])
    BY <1>1 DEF GrantBegin
  <2> DEFINE r == [Idle EXCEPT !.op = "grant", !.key = k, !.account = a, !.amount = n]
  <2>9. "grant" \in Ops
    BY <2>1
  <2>8. n \in Nat /\ n > 0
    BY <1>0
  <2>2. r \in Request /\ NamesRows(r)
    BY <2>8, <2>9 DEF NamesRows
  <2>3. tx' = [tx EXCEPT ![t] = r]
    BY <2>1
  <2>4. QED
    BY <2>1, <2>2, <2>3, BeginKeeps
<1>2. CASE SpendBegin(t)
  <2>1. PICK k \in EntryKeys, a \in Accounts, n \in Amounts :
          Begin(t, "spend", [Idle EXCEPT !.key = k, !.account = a, !.amount = n, !.at = clock])
    BY <1>2 DEF SpendBegin
  <2> DEFINE r == [Idle EXCEPT !.op = "spend", !.key = k, !.account = a, !.amount = n,
                               !.at = clock]
  <2>9. "spend" \in Ops
    BY <2>1
  <2>2. r \in Request /\ NamesRows(r)
    BY <1>0, <2>9 DEF NamesRows
  <2>3. tx' = [tx EXCEPT ![t] = r]
    BY <2>1
  <2>4. QED
    BY <2>1, <2>2, <2>3, BeginKeeps
<1>3. CASE ResetBegin(t)
  <2>1. PICK k \in EntryKeys, a \in Accounts, n \in Targets :
          Begin(t, "reset", [Idle EXCEPT !.key = k, !.account = a, !.amount = n,
                                         !.base = account[a].bucket.permanent])
    BY <1>3 DEF ResetBegin
  <2> DEFINE r == [Idle EXCEPT !.op = "reset", !.key = k, !.account = a, !.amount = n,
                               !.base = account[a].bucket.permanent]
  <2>0. account[a].bucket.permanent \in Nat
    BY DEF IInv, TypeOK, AccountRow, Bucket
  <2>9. "reset" \in Ops
    BY <2>1
  <2>2. r \in Request /\ NamesRows(r)
    BY <1>0, <2>0, <2>9 DEF NamesRows
  <2>3. tx' = [tx EXCEPT ![t] = r]
    BY <2>1
  <2>4. QED
    BY <2>1, <2>2, <2>3, BeginKeeps
<1>4. CASE HoldBegin(t)
  <2>1. PICK h \in HoldKeys, a \in Accounts, n \in Amounts,
             e \in {Never} \cup {clock + ttl : ttl \in Ttls} :
          Begin(t, "hold", [Idle EXCEPT !.hold = h, !.account = a, !.amount = n,
                                        !.at = clock, !.expiresAt = e])
    BY <1>4 DEF HoldBegin
  <2> DEFINE r == [Idle EXCEPT !.op = "hold", !.hold = h, !.account = a, !.amount = n,
                               !.at = clock, !.expiresAt = e]
  <2>0. e \in Nat \cup {Never}
    <3>1. CASE e = Never
      BY <3>1
    <3>2. CASE \E ttl \in Ttls : e = clock + ttl
      BY <1>0, <3>2
    <3>3. QED
      BY <3>1, <3>2
  <2>9. "hold" \in Ops
    BY <2>1
  <2>2. r \in Request /\ NamesRows(r)
    BY <1>0, <2>0, <2>9 DEF NamesRows
  <2>3. tx' = [tx EXCEPT ![t] = r]
    BY <2>1
  <2>4. QED
    BY <2>1, <2>2, <2>3, BeginKeeps
<1>5. CASE CaptureBegin(t)
  <2>1. PICK k \in EntryKeys, h \in HoldKeys, n \in Amounts :
          /\ hold[h].status = "active"
          /\ n <= hold[h].amount
          /\ Begin(t, "capture", [Idle EXCEPT !.key = k, !.hold = h, !.amount = n,
                                              !.account = hold[h].account])
    BY <1>5 DEF CaptureBegin
  <2> DEFINE r == [Idle EXCEPT !.op = "capture", !.key = k, !.hold = h, !.amount = n,
                               !.account = hold[h].account]
  <2>0. hold[h].account \in Accounts
    BY <2>1 DEF IInv, HoldsOwned
  <2>9. "capture" \in Ops
    BY <2>1
  <2>2. r \in Request /\ NamesRows(r)
    BY <1>0, <2>0, <2>1, <2>9 DEF NamesRows
  <2>3. tx' = [tx EXCEPT ![t] = r]
    BY <2>1
  <2>4. QED
    BY <2>1, <2>2, <2>3, BeginKeeps
<1>6. CASE ReleaseBegin(t)
  <2>1. PICK h \in HoldKeys : Begin(t, "release", [Idle EXCEPT !.hold = h])
    BY <1>6 DEF ReleaseBegin
  <2> DEFINE r == [Idle EXCEPT !.op = "release", !.hold = h]
  <2>9. "release" \in Ops
    BY <2>1
  <2>2. r \in Request /\ NamesRows(r)
    BY <2>9 DEF NamesRows
  <2>3. tx' = [tx EXCEPT ![t] = r]
    BY <2>1
  <2>4. QED
    BY <2>1, <2>2, <2>3, BeginKeeps
<1>7. CASE DeleteBegin(t)
  <2>1. PICK a \in Accounts : Begin(t, "delete", [Idle EXCEPT !.account = a])
    BY <1>7 DEF DeleteBegin
  <2> DEFINE r == [Idle EXCEPT !.op = "delete", !.account = a]
  <2>9. "delete" \in Ops
    BY <2>1
  <2>2. r \in Request /\ NamesRows(r)
    BY <2>9 DEF NamesRows
  <2>3. tx' = [tx EXCEPT ![t] = r]
    BY <2>1
  <2>4. QED
    BY <2>1, <2>2, <2>3, BeginKeeps
<1>8. CASE RestoreBegin(t)
  <2>1. PICK a \in Accounts : Begin(t, "restore", [Idle EXCEPT !.account = a])
    BY <1>8 DEF RestoreBegin
  <2> DEFINE r == [Idle EXCEPT !.op = "restore", !.account = a]
  <2>9. "restore" \in Ops
    BY <2>1
  <2>2. r \in Request /\ NamesRows(r)
    BY <2>9 DEF NamesRows
  <2>3. tx' = [tx EXCEPT ![t] = r]
    BY <2>1
  <2>4. QED
    BY <2>1, <2>2, <2>3, BeginKeeps
<1>9. QED
  BY <1>1, <1>2, <1>3, <1>4, <1>5, <1>6, <1>7, <1>8

(* The facts an open transaction gives about its own request.              *)
LEMMA OpenRequest ==
  ASSUME IInv, NEW t \in Tx
  PROVE  /\ tx[t] \in Request
         /\ NamesRows(tx[t])
         /\ tx[t].amount \in Nat /\ tx[t].base \in Nat /\ tx[t].at \in Nat
BY DEF IInv, TypeOK, RequestsNameRows, Request

(* A grant adds to one account and posts one entry.                        *)
LEMMA GrantCommitKeeps ==
  ASSUME IInv, NEW t \in Tx, GrantCommit(t)
  PROVE  IInv'
<1> DEFINE r == tx[t]
           a == r.account
           row == [account[a] EXCEPT !.bucket.permanent = @ + r.amount]
           e == [kind |-> r.op, account |-> a, amount |-> r.amount,
                 after |-> row.bucket.permanent, hold |-> r.hold, taken |-> Empty]
<1>1. /\ r \in Request /\ r.op = "grant" /\ a \in Accounts /\ r.key \in EntryKeys
      /\ r.amount \in Nat /\ r.hold \in HoldKeys \cup {None}
  BY OpenRequest DEF GrantCommit, Open, NamesRows, Request
<1>2. account[a] \in AccountRow /\ WithinAllowance(account[a])
  BY <1>1 DEF IInv, TypeOK, BucketsWithinAllowance, WithinAllowance
<1>3. /\ row \in AccountRow /\ WithinAllowance(row) /\ row.held = account[a].held
      /\ row.bucket.permanent \in Nat
  BY <1>1, <1>2 DEF AccountRow, Bucket, WithinAllowance
<1>4. e \in EntryRow /\ e.kind # "capture"
  BY <1>1, <1>3 DEF EntryRow, Bucket, Empty
<1>5. /\ account' = [account EXCEPT ![a] = row]
      /\ entry' = [entry EXCEPT ![r.key] = e]
      /\ FreeKey(r.key)
      /\ tx' = [tx EXCEPT ![t] = Idle]
      /\ UNCHANGED <<hold, sweep, clock>>
  BY DEF GrantCommit, Post, Close
<1> HIDE DEF row, e, a, r
<1>6. QED
  BY <1>1, <1>3, <1>4, <1>5, MutationKeeps

(* A spend takes a covered amount and posts one entry.                     *)
LEMMA SpendCommitKeeps ==
  ASSUME IInv, NEW t \in Tx, SpendCommit(t)
  PROVE  IInv'
<1> DEFINE r == tx[t]
           a == r.account
           fresh == RefreshRow(account[a], r.at)
           row == Taken(fresh, r.amount)
           e == [kind |-> r.op, account |-> a, amount |-> -r.amount,
                 after |-> Available(row.bucket), hold |-> r.hold,
                 taken |-> Minus(fresh.bucket, row.bucket)]
<1>1. /\ r \in Request /\ r.op = "spend" /\ a \in Accounts /\ r.key \in EntryKeys
      /\ r.amount \in Nat /\ r.at \in Nat /\ r.hold \in HoldKeys \cup {None}
  BY OpenRequest DEF SpendCommit, Open, NamesRows, Request
<1>2. account[a] \in AccountRow /\ WithinAllowance(account[a])
  BY <1>1 DEF IInv, TypeOK, BucketsWithinAllowance, WithinAllowance
<1>3. fresh \in AccountRow /\ WithinAllowance(fresh) /\ fresh.held = account[a].held
  BY <1>1, <1>2, RefreshRowKeepsRow
<1>5. /\ account' = [account EXCEPT ![a] = row]
      /\ entry' = [entry EXCEPT ![r.key] = e]
      /\ FreeKey(r.key)
      /\ tx' = [tx EXCEPT ![t] = Idle]
      /\ UNCHANGED <<hold, sweep, clock>>
  BY DEF SpendCommit, Post, Close
<1> HIDE DEF fresh
<1>6. /\ row \in AccountRow /\ WithinAllowance(row) /\ row.held = account[a].held
      /\ row.bucket = Minus(fresh.bucket, Debit(fresh.bucket, r.amount))
  BY <1>1, <1>3, TakenKeepsRow
<1>7. Minus(fresh.bucket, row.bucket) \in Bucket
  <2>1. fresh.bucket \in Bucket
    BY <1>3 DEF AccountRow
  <2>2. QED
    BY <2>1, <1>1, <1>6, DebitTakes
<1> HIDE DEF row
<1>8. Available(row.bucket) \in Nat
  BY <1>6 DEF AccountRow, Bucket, Available
<1>9. e \in EntryRow /\ e.kind # "capture"
  BY <1>1, <1>7, <1>8 DEF EntryRow
<1> HIDE DEF e, a, r
<1>10. QED
  BY <1>1, <1>5, <1>6, <1>9, MutationKeeps

(* A reset sets one balance and posts one entry.                           *)
LEMMA ResetCommitKeeps ==
  ASSUME IInv, NEW t \in Tx, ResetCommit(t)
  PROVE  IInv'
<1> DEFINE r == tx[t]
           a == r.account
           row == [account[a] EXCEPT !.bucket.permanent = r.amount]
           e == [kind |-> r.op, account |-> a, amount |-> r.amount - r.base,
                 after |-> r.amount, hold |-> r.hold, taken |-> Empty]
<1>1. /\ r \in Request /\ r.op = "reset" /\ a \in Accounts /\ r.key \in EntryKeys
      /\ r.amount \in Nat /\ r.base \in Nat /\ r.hold \in HoldKeys \cup {None}
  BY OpenRequest DEF ResetCommit, Open, NamesRows, Request
<1>2. account[a] \in AccountRow /\ WithinAllowance(account[a])
  BY <1>1 DEF IInv, TypeOK, BucketsWithinAllowance, WithinAllowance
<1>3. row \in AccountRow /\ WithinAllowance(row) /\ row.held = account[a].held
  BY <1>1, <1>2 DEF AccountRow, Bucket, WithinAllowance
<1>4. e \in EntryRow /\ e.kind # "capture"
  BY <1>1 DEF EntryRow, Bucket, Empty
<1>5. /\ account' = [account EXCEPT ![a] = row]
      /\ entry' = [entry EXCEPT ![r.key] = e]
      /\ FreeKey(r.key)
      /\ tx' = [tx EXCEPT ![t] = Idle]
      /\ UNCHANGED <<hold, sweep, clock>>
  <2>1. account' = [account EXCEPT ![a] = row]
    BY <1>1, <1>2 DEF ResetCommit, IInv, TypeOK, AccountRow
  <2>2. QED
    BY <2>1 DEF ResetCommit, Post, Close
<1> HIDE DEF row, e, a, r
<1>6. QED
  BY <1>1, <1>3, <1>4, <1>5, MutationKeeps

(* A hold moves a covered amount into a new hold and into held.            *)
LEMMA HoldCommitStep ==
  ASSUME IInv, NEW t \in Tx, HoldCommit(t)
  PROVE  IInv'
<1>1. /\ account' \in [Accounts -> AccountRow]
      /\ hold' \in [HoldKeys -> HoldRow]
      /\ HoldsOwned' /\ HeldMatchesHolds' /\ BucketsWithinAllowance'
  BY HoldCommitKeeps
<1>2. /\ tx' = [tx EXCEPT ![t] = Idle]
      /\ UNCHANGED <<entry, sweep, clock>>
      /\ hold[tx[t].hold] = NoHold
      /\ \E new : new.status = "active" /\ hold' = [hold EXCEPT ![tx[t].hold] = new]
  BY DEF HoldCommit, Close
<1>3. /\ HoldsPersist
      /\ \A h \in HoldKeys : \/ hold'[h] = hold[h]
                             \/ hold[h].status = "none" /\ hold'[h].status = "active"
  BY <1>2 DEF HoldsPersist, NoHold, IInv, TypeOK
<1>4. tx' \in [Tx -> Request] /\ RequestsNameRows'
  BY <1>2, <1>3, RequestsSurvive
<1>5. SettledOnce'
  BY <1>2, <1>3 DEF IInv, SettledOnce, Captures
<1>6. QED
  BY <1>1, <1>2, <1>4, <1>5 DEF IInv, TypeOK

(* A capture settles its hold and posts the one entry that names it.       *)
LEMMA CaptureCommitKeeps ==
  ASSUME IInv, NEW t \in Tx, CaptureCommit(t)
  PROVE  IInv'
<1> DEFINE r == tx[t]
           h == r.hold
           a == r.account
           k == r.key
           reserved == hold[h].reserved
           unused == Unused(reserved, r.amount)
           after == Available(account'[a].bucket)
           e == [kind |-> r.op, account |-> a, amount |-> -r.amount,
                 after |-> after, hold |-> h, taken |-> Minus(reserved, unused)]
<1>1. /\ r.op = "capture" /\ h \in HoldKeys /\ k \in EntryKeys /\ r.amount \in Nat
      /\ hold[h].status # "none" /\ a = hold[h].account /\ r.amount <= hold[h].amount
  BY OpenRequest DEF CaptureCommit, Open, NamesRows
<1>2. reserved \in Bucket /\ a \in Accounts
  BY <1>1 DEF IInv, TypeOK, HoldRow, HoldsOwned
<1>3. unused \in Bucket /\ Minus(reserved, unused) \in Bucket
  BY <1>1, <1>2, DebitLeaves, DebitTakes DEF Unused
<1>4. /\ Settle(h, "captured", unused)
      /\ FreeKey(k)
      /\ entry' = [entry EXCEPT ![k] = e]
      /\ tx' = [tx EXCEPT ![t] = Idle]
      /\ UNCHANGED <<sweep, clock>>
  BY DEF CaptureCommit, Post, Close
<1>5. "captured" \in HoldStatus \ {"active"}
  BY DEF HoldStatus
<1> HIDE DEF unused
<1>6. /\ account' \in [Accounts -> AccountRow]
      /\ hold' \in [HoldKeys -> HoldRow]
      /\ hold[h].status = "active"
      /\ hold' = [hold EXCEPT ![h].status = "captured"]
      /\ HoldsOwned' /\ HeldMatchesHolds' /\ BucketsWithinAllowance'
  BY <1>1, <1>3, <1>4, <1>5, SettleKeeps DEF IInv
<1>7. after \in Nat
  BY <1>2, <1>6 DEF AccountRow, Bucket, Available
<1> HIDE DEF after
<1>8. e \in EntryRow /\ e.kind = "capture" /\ e.hold = h /\ e.amount = -r.amount
  BY <1>1, <1>2, <1>3, <1>7 DEF EntryRow
<1> HIDE DEF e, h, a, k, reserved
<1>9. entry' \in [EntryKeys -> EntryRow]
  BY <1>1, <1>4, <1>8 DEF IInv, TypeOK
<1>10. \A g \in HoldKeys : /\ hold'[g].amount = hold[g].amount
                           /\ hold'[g].account = hold[g].account
                           /\ hold'[g].status = IF g = h THEN "captured" ELSE hold[g].status
  BY <1>6 DEF IInv, TypeOK, HoldRow
<1>11. HoldsPersist
  BY <1>10 DEF HoldsPersist
<1>12. tx' \in [Tx -> Request] /\ RequestsNameRows'
  BY <1>4, <1>11, RequestsSurvive
<1>13. SettledOnce'
  <2>1. \A j \in EntryKeys : entry'[j] = IF j = k THEN e ELSE entry[j]
    BY <1>1, <1>4 DEF IInv, TypeOK
  <2>2. entry[k].kind # "capture"
    BY <1>4 DEF FreeKey, NoEntry
  <2>3. Captures(h) = {}
    BY <1>1, <1>6 DEF IInv, SettledOnce
  <2>4. ASSUME NEW g \in HoldKeys
        PROVE  IF hold'[g].status = "captured"
               THEN \E j \in EntryKeys : Captures(g)' = {j} /\ -entry'[j].amount <= hold'[g].amount
               ELSE Captures(g)' = {}
    <3>1. CASE g = h
      <4>1. \A j \in EntryKeys : (entry'[j].kind = "capture" /\ entry'[j].hold = h) <=> j = k
        BY <1>8, <2>1, <2>2, <2>3 DEF Captures
      <4>2. Captures(g)' = {k}
        BY <1>1, <3>1, <4>1 DEF Captures
      <4>3. -entry'[k].amount <= hold'[g].amount
        BY <1>1, <1>8, <1>10, <2>1, <3>1
      <4>4. QED
        BY <1>1, <1>10, <3>1, <4>2, <4>3
    <3>2. CASE g # h
      <4>1. Captures(g)' = Captures(g)
        BY <1>8, <2>1, <2>2, <3>2 DEF Captures
      <4>2. \A j \in Captures(g) : entry'[j] = entry[j]
        BY <2>1, <2>2 DEF Captures
      <4>3. QED
        BY <1>10, <3>2, <4>1, <4>2 DEF IInv, SettledOnce
    <3>3. QED
      BY <3>1, <3>2
  <2>5. QED
    BY <2>4 DEF SettledOnce
<1>14. QED
  BY <1>4, <1>6, <1>9, <1>12, <1>13 DEF IInv, TypeOK

(* A release settles its hold.                                             *)
LEMMA ReleaseCommitKeeps ==
  ASSUME IInv, NEW t \in Tx, ReleaseCommit(t)
  PROVE  IInv'
<1>1. tx[t].hold \in HoldKeys
  BY OpenRequest DEF ReleaseCommit, Open, NamesRows
<1>2. /\ Settle(tx[t].hold, "released", hold[tx[t].hold].reserved)
      /\ tx' = [tx EXCEPT ![t] = Idle]
      /\ UNCHANGED <<entry, sweep, clock>>
  BY DEF ReleaseCommit, Close
<1>3. sweep' \in [Sweepers -> SweepState]
  BY <1>2 DEF IInv, TypeOK
<1>4. QED
  BY <1>1, <1>2, <1>3, ReturnKeeps

(* A deletion and a restoration change the state of one account.           *)
LEMMA LifecycleCommitKeeps ==
  ASSUME IInv, NEW t \in Tx, DeleteCommit(t) \/ RestoreCommit(t)
  PROVE  IInv'
<1> DEFINE a == tx[t].account
<1>1. a \in Accounts
  BY OpenRequest DEF DeleteCommit, RestoreCommit, Open, NamesRows
<1>2. PICK s \in {"active", "deleted"} : account' = [account EXCEPT ![a].state = s]
  BY DEF DeleteCommit, RestoreCommit
<1> DEFINE row == [account[a] EXCEPT !.state = s]
<1>3. account' = [account EXCEPT ![a] = row]
  BY <1>1, <1>2 DEF IInv, TypeOK
<1>4. row \in AccountRow /\ WithinAllowance(row) /\ row.held = account[a].held
  BY <1>1 DEF IInv, TypeOK, BucketsWithinAllowance, WithinAllowance, AccountRow
<1>5. tx' = [tx EXCEPT ![t] = Idle] /\ UNCHANGED <<hold, entry, sweep, clock>>
  BY DEF DeleteCommit, RestoreCommit, Close
<1>6. HoldsPersist
  BY <1>5 DEF HoldsPersist
<1>7. tx' \in [Tx -> Request] /\ RequestsNameRows'
  BY <1>5, <1>6, RequestsSurvive
<1> HIDE DEF row, a
<1>8. QED
  BY <1>1, <1>3, <1>4, <1>5, <1>7, RowStepKeeps

(* A transaction that does not commit changes no row.                      *)
LEMMA RollbackKeeps ==
  ASSUME IInv, NEW t \in Tx, Rollback(t)
  PROVE  IInv'
<1>1. tx' = [tx EXCEPT ![t] = Idle] /\ UNCHANGED <<account, hold, entry, sweep, clock>>
  BY DEF Rollback, Close
<1>2. Idle \in Request /\ NamesRows(Idle)
  BY DEF Idle, Request, NamesRows
<1>3. QED
  BY <1>1, <1>2, BeginKeeps

(* Creating an account and refreshing one rewrite its row.                 *)
LEMMA AccountStepsKeep ==
  ASSUME IInv, NEW a \in Accounts, CreateAccount(a) \/ RefreshAllowances(a)
  PROVE  IInv'
<1>1. account[a] \in AccountRow /\ WithinAllowance(account[a])
  BY DEF IInv, TypeOK, BucketsWithinAllowance, WithinAllowance
<1>2. UNCHANGED <<hold, entry, tx, sweep, clock>>
  BY DEF CreateAccount, RefreshAllowances
<1>3. tx' \in [Tx -> Request] /\ RequestsNameRows'
  BY <1>2 DEF IInv, TypeOK, RequestsNameRows, NamesRows
<1>4. CASE RefreshAllowances(a)
  <2>1. PICK t \in 0 .. clock : account' = [account EXCEPT ![a] = RefreshRow(account[a], t)]
    BY <1>4 DEF RefreshAllowances, IInv, TypeOK
  <2>2. t \in Nat
    BY <2>1 DEF IInv, TypeOK, Time
  <2> DEFINE row == RefreshRow(account[a], t)
  <2>3. row \in AccountRow /\ WithinAllowance(row) /\ row.held = account[a].held
    BY <1>1, <2>2, RefreshRowKeepsRow
  <2>4. account' = [account EXCEPT ![a] = row]
    BY <2>1
  <2> HIDE DEF row
  <2>5. QED
    BY <1>2, <1>3, <2>3, <2>4, RowStepKeeps
<1>5. CASE CreateAccount(a)
  <2> DEFINE row == [account[a] EXCEPT !.state = "active"]
  <2>1. row \in AccountRow /\ WithinAllowance(row) /\ row.held = account[a].held
    BY <1>1 DEF AccountRow, WithinAllowance
  <2>2. account' = [account EXCEPT ![a] = row]
    BY <1>5 DEF CreateAccount, IInv, TypeOK
  <2> HIDE DEF row
  <2>3. QED
    BY <1>2, <1>3, <2>1, <2>2, RowStepKeeps
<1>6. QED
  BY <1>4, <1>5

(* A sweep's bookkeeping touches no row.                                   *)
LEMMA SweepStateKeeps ==
  ASSUME IInv, sweep' \in [Sweepers -> SweepState],
         UNCHANGED <<account, hold, entry, tx, clock>>
  PROVE  IInv'
<1>1. TypeOK'
  BY DEF IInv, TypeOK
<1>2. HeldMatchesHolds' /\ BucketsWithinAllowance' /\ SettledOnce' /\ HoldsOwned'
  BY DEF IInv, HeldMatchesHolds, ActiveHoldsOf, BucketsWithinAllowance, SettledOnce,
         Captures, HoldsOwned
<1>3. RequestsNameRows'
  BY DEF IInv, RequestsNameRows, NamesRows
<1>4. QED
  BY <1>1, <1>2, <1>3 DEF IInv

(* Moving a sweep past a hold leaves it a sweep.                           *)
LEMMA AdvanceIsSweep ==
  ASSUME IInv, NEW s \in Sweepers, NEW h, Advance(s, h)
  PROVE  sweep' \in [Sweepers -> SweepState]
<1>1. sweep[s] \in SweepState
  BY DEF IInv, TypeOK
<1>2. NoSweep \in SweepState
  BY DEF NoSweep, SweepState
<1>3. [sweep[s] EXCEPT !.todo = sweep[s].todo \ {h}, !.current = None] \in SweepState
  BY <1>1 DEF SweepState
<1>4. sweep' = [sweep EXCEPT ![s] = NoSweep]
      \/ sweep' = [sweep EXCEPT ![s] = [sweep[s] EXCEPT !.todo = sweep[s].todo \ {h},
                                                        !.current = None]]
  BY DEF Advance
<1>5. QED
  BY <1>2, <1>3, <1>4 DEF IInv, TypeOK

(* Every step of a sweep keeps the invariant.                              *)
LEMMA SweepKeeps ==
  ASSUME IInv, NEW s \in Sweepers, Sweep(s)
  PROVE  IInv'
<1>1. sweep[s] \in SweepState /\ NoSweep \in SweepState
  BY DEF IInv, TypeOK, NoSweep, SweepState
<1>2. CASE SweepStart(s)
  <2>1. PICK due \in SUBSET HoldKeys :
          sweep' = [sweep EXCEPT ![s] = [at |-> clock, todo |-> due, current |-> None]]
    BY <1>2 DEF SweepStart
  <2>2. [at |-> clock, todo |-> due, current |-> None] \in SweepState
    BY DEF SweepState, IInv, TypeOK, Time
  <2>3. sweep' \in [Sweepers -> SweepState]
    BY <2>1, <2>2 DEF IInv, TypeOK
  <2>4. QED
    BY <1>2, <2>3, SweepStateKeeps DEF SweepStart
<1>3. CASE \E h \in HoldKeys : ReclaimBegin(s, h)
  <2>1. PICK h \in HoldKeys : ReclaimBegin(s, h)
    BY <1>3
  <2>2. ASSUME sweep' = [sweep EXCEPT ![s].current = h]
        PROVE  sweep' \in [Sweepers -> SweepState]
    <3>1. [sweep[s] EXCEPT !.current = h] \in SweepState
      BY <1>1 DEF SweepState
    <3>2. sweep' = [sweep EXCEPT ![s] = [sweep[s] EXCEPT !.current = h]]
      BY <2>2 DEF IInv, TypeOK
    <3>3. QED
      BY <3>1, <3>2 DEF IInv, TypeOK
  <2>3. sweep' \in [Sweepers -> SweepState]
    BY <2>1, <2>2, AdvanceIsSweep DEF ReclaimBegin
  <2>4. QED
    BY <2>1, <2>3, SweepStateKeeps DEF ReclaimBegin
<1>4. CASE ReclaimCommit(s)
  <2> DEFINE h == sweep[s].current
  <2>1. h \in HoldKeys
    BY <1>1, <1>4 DEF ReclaimCommit, SweepState
  <2>2. sweep' \in [Sweepers -> SweepState]
    BY <1>4, AdvanceIsSweep DEF ReclaimCommit
  <2>3. UNCHANGED <<entry, tx, clock>>
    BY <1>4 DEF ReclaimCommit
  <2>4. Settle(h, "expired", hold[h].reserved) \/ UNCHANGED <<account, hold>>
    BY <1>4 DEF ReclaimCommit
  <2> HIDE DEF h
  <2>5. CASE Settle(h, "expired", hold[h].reserved)
    BY <2>1, <2>2, <2>3, <2>5, ReturnKeeps
  <2>6. CASE UNCHANGED <<account, hold>>
    BY <2>2, <2>3, <2>6, SweepStateKeeps
  <2>7. QED
    BY <2>4, <2>5, <2>6
<1>5. CASE SweepFails(s)
  <2>1. sweep' \in [Sweepers -> SweepState]
    BY <1>1, <1>5 DEF SweepFails, IInv, TypeOK
  <2>2. QED
    BY <1>5, <2>1, SweepStateKeeps DEF SweepFails
<1>6. QED
  BY <1>2, <1>3, <1>4, <1>5 DEF Sweep

-----------------------------------------------------------------------------
(* The invariant.                                                          *)

(* It holds of a ledger with no hold and no entry.                         *)
LEMMA InitEstablishes == Init => IInv
<1> SUFFICES ASSUME Init PROVE IInv
  OBVIOUS
<1>1. Empty \in Bucket /\ NeverReset \in Boundary /\ Opening \in Nat /\ Allowance \in Allowances
  BY LedgerAssumption DEF Empty, Bucket, Boundary
<1>2. Allowance.daily \in Nat /\ Allowance.period \in Nat
  BY <1>1 DEF Allowances
<1>3. ASSUME NEW a \in Accounts
      PROVE  /\ account[a] \in AccountRow /\ account[a].held = 0
             /\ account[a].bucket.daily = 0 /\ account[a].bucket.period = 0
  <2> DEFINE open == [NoAccount EXCEPT !.state = "active", !.bucket.permanent = Opening]
  <2>1. NoAccount \in AccountRow /\ NoAccount.held = 0 /\ NoAccount.bucket = Empty
    BY <1>1 DEF NoAccount, AccountRow
  <2>2. /\ open \in AccountRow /\ open.held = 0
        /\ open.bucket.daily = 0 /\ open.bucket.period = 0
    BY <1>1 DEF NoAccount, AccountRow, Empty, Bucket
  <2>3. account[a] = open \/ account[a] = NoAccount
    BY DEF Init
  <2> HIDE DEF open
  <2>4. QED
    BY <2>1, <2>2, <2>3 DEF Empty
<1>4. account \in [Accounts -> AccountRow]
  <2>1. account = [a \in Accounts |-> account[a]]
    BY DEF Init
  <2>2. QED
    BY <1>3, <2>1
<1>5. NoHold \in HoldRow /\ NoEntry \in EntryRow /\ Idle \in Request /\ NoSweep \in SweepState
  BY <1>1 DEF NoHold, HoldRow, NoEntry, EntryRow, Idle, Request, NoSweep, SweepState
<1>6. TypeOK
  BY <1>4, <1>5, LedgerAssumption DEF Init, TypeOK, Time
<1>7. HoldsOwned /\ RequestsNameRows
  BY DEF Init, HoldsOwned, RequestsNameRows, NamesRows, NoHold, Idle
<1>8. HeldMatchesHolds
  <2> SUFFICES ASSUME NEW a \in Accounts
               PROVE  account[a].held = Total([h \in ActiveHoldsOf(a) |-> hold[h].amount])
    BY DEF HeldMatchesHolds
  <2>1. ActiveHoldsOf(a) = {}
    BY DEF Init, ActiveHoldsOf, NoHold
  <2>2. Total([h \in ActiveHoldsOf(a) |-> hold[h].amount]) = 0
    BY <2>1, TotalOfNone
  <2>3. QED
    BY <1>3, <2>2
<1>9. BucketsWithinAllowance
  BY <1>2, <1>3 DEF BucketsWithinAllowance
<1>10. SettledOnce
  BY DEF Init, SettledOnce, Captures, NoHold, NoEntry
<1>11. QED
  BY <1>6, <1>7, <1>8, <1>9, <1>10 DEF IInv

(* Every step keeps it.                                                    *)
LEMMA NextKeeps == IInv /\ [Next]_vars => IInv'
<1> SUFFICES ASSUME IInv, [Next]_vars PROVE IInv'
  OBVIOUS
<1>1. ASSUME NEW t \in Tx, Client(t) PROVE IInv'
  BY <1>1, BeginStepsKeep, GrantCommitKeeps, SpendCommitKeeps, ResetCommitKeeps,
     HoldCommitStep, CaptureCommitKeeps, ReleaseCommitKeeps, LifecycleCommitKeeps,
     RollbackKeeps
     DEF Client, FundingRequests, HoldRequests, ReleaseRequests, AccountRequests, ResetRequests
<1>2. ASSUME NEW s \in Sweepers, Sweep(s) PROVE IInv'
  BY <1>2, SweepKeeps
<1>3. ASSUME NEW a \in Accounts, CreateAccount(a) \/ RefreshAllowances(a) PROVE IInv'
  BY <1>3, AccountStepsKeep
<1>4. ASSUME Tick \/ UNCHANGED vars PROVE IInv'
  <2>1. UNCHANGED <<account, hold, entry, tx, sweep>>
    BY <1>4 DEF Tick, vars
  <2>2. TypeOK'
    BY <1>4, <2>1, LedgerAssumption DEF Tick, vars, IInv, TypeOK, Time
  <2>3. /\ HeldMatchesHolds' /\ BucketsWithinAllowance' /\ SettledOnce' /\ HoldsOwned'
        /\ RequestsNameRows'
    BY <2>1 DEF IInv, HeldMatchesHolds, ActiveHoldsOf, BucketsWithinAllowance, SettledOnce,
                Captures, HoldsOwned, RequestsNameRows, NamesRows
  <2>4. QED
    BY <2>2, <2>3 DEF IInv
<1>5. QED
  BY <1>1, <1>2, <1>3, <1>4 DEF Next

(* The ledger's invariant: every reachable state satisfies IInv.           *)
THEOREM Invariant == Spec => []IInv
<1>1. Init => IInv
  BY InitEstablishes
<1>2. IInv /\ [Next]_vars => IInv'
  BY NextKeeps
<1>3. QED
  BY <1>1, <1>2, PTL DEF Spec

(* Type correctness: no bucket, held amount or reported balance is negative, in any
   order of commits, for any amounts and plan.                             *)
THEOREM TypeCorrect == Spec => []TypeOK
<1>1. IInv => TypeOK
  BY DEF IInv
<1>2. QED
  BY <1>1, Invariant, PTL

(* heldMicros is the sum of the account's active holds, however captures, releases
   and any number of sweeps race.                                          *)
THEOREM HeldIsExact == Spec => []HeldMatchesHolds
<1>1. IInv => HeldMatchesHolds
  BY DEF IInv
<1>2. QED
  BY <1>1, Invariant, PTL

(* A hold is settled at most once, and charged exactly when it is captured.  *)
THEOREM SettlementIsSingle == Spec => []SettledOnce
<1>1. IInv => SettledOnce
  BY DEF IInv
<1>2. QED
  BY <1>1, Invariant, PTL

(* Time buckets never exceed the plan's allowance.                         *)
THEOREM AllowanceIsCap == Spec => []BucketsWithinAllowance
<1>1. IInv => BucketsWithinAllowance
  BY DEF IInv
<1>2. QED
  BY <1>1, Invariant, PTL

-----------------------------------------------------------------------------
(* Deleted accounts.                                                       *)

(* The holds of an account that is deleted, or that a request found without holds and
   is about to delete.                                                     *)
Shunned(a) == account[a].state = "deleted" \/ BeingDeleted(a)
HoldsNoticed ==
  \A a \in Accounts : Shunned(a) => \A h \in ActiveHoldsOf(a) : hold[h].raced

(* A step that places no hold and shuns no other account.                  *)
LEMMA FewerHolds ==
  ASSUME HoldsNoticed,
         \A h \in HoldKeys : hold'[h].status = "active" =>
            /\ hold[h].status = "active"
            /\ hold'[h].account = hold[h].account /\ hold'[h].raced = hold[h].raced,
         \A a \in Accounts : Shunned(a)' => Shunned(a)
  PROVE  HoldsNoticed'
BY DEF HoldsNoticed, ActiveHoldsOf

(* A settlement ends a hold and deletes no account.                        *)
LEMMA SettleEnds ==
  ASSUME TypeOK, NEW h \in HoldKeys, hold[h].account \in Accounts,
         NEW s \in HoldStatus \ {"active"}, NEW unused, Settle(h, s, unused)
  PROVE  /\ \A g \in HoldKeys : hold'[g].status = "active" => hold'[g] = hold[g]
         /\ \A a \in Accounts : account'[a].state = account[a].state
<1>1. /\ hold' = [hold EXCEPT ![h].status = s]
      /\ account' = [account EXCEPT ![hold[h].account] =
                       ApplyBucketReturn(@, unused, hold[h].amount)]
  BY DEF Settle
<1>2. hold \in [HoldKeys -> HoldRow] /\ account \in [Accounts -> AccountRow]
  BY DEF TypeOK
<1>3. \A row \in AccountRow : ApplyBucketReturn(row, unused, hold[h].amount).state = row.state
  BY DEF ApplyBucketReturn, AccountRow
<1>4. \A g \in HoldKeys : hold'[g].status = "active" => hold'[g] = hold[g]
  BY <1>1, <1>2 DEF HoldRow
<1>5. QED
  BY <1>1, <1>2, <1>3, <1>4

(* Closing a request shuns no account, nor does one that is no deletion.   *)
LEMMA RequestsShun ==
  ASSUME TypeOK, NEW t \in Tx, NEW r, tx' = [tx EXCEPT ![t] = r], r.op # "delete",
         \A a \in Accounts : account'[a].state = "deleted" => Shunned(a)
  PROVE  \A a \in Accounts : Shunned(a)' => Shunned(a)
<1>1. \A s \in Tx : tx'[s] = IF s = t THEN r ELSE tx[s]
  BY DEF TypeOK
<1>2. QED
  BY <1>1 DEF Shunned, BeingDeleted

(* A request that begins, and is no deletion, records what it is.          *)
LEMMA BeginsOther ==
  ASSUME NEW t \in Tx,
         \/ GrantBegin(t) \/ SpendBegin(t) \/ ResetBegin(t) \/ HoldBegin(t)
         \/ CaptureBegin(t) \/ ReleaseBegin(t) \/ RestoreBegin(t)
  PROVE  \E r : r.op # "delete" /\ tx' = [tx EXCEPT ![t] = r] /\ UNCHANGED <<hold, account>>
<1> USE DEF Begin, Idle
<1>1. CASE GrantBegin(t)
  <2>1. PICK k \in EntryKeys, a \in Accounts, n \in Amounts :
          Begin(t, "grant", [Idle EXCEPT !.key = k, !.account = a, !.amount = n])
    BY <1>1 DEF GrantBegin
  <2> DEFINE r == [[Idle EXCEPT !.key = k, !.account = a, !.amount = n] EXCEPT !.op = "grant"]
  <2>2. r.op # "delete" /\ tx' = [tx EXCEPT ![t] = r] /\ UNCHANGED <<hold, account>>
    BY <2>1
  <2> HIDE DEF r
  <2>3. QED
    BY <2>2
<1>2. CASE SpendBegin(t)
  <2>1. PICK k \in EntryKeys, a \in Accounts, n \in Amounts :
          Begin(t, "spend", [Idle EXCEPT !.key = k, !.account = a, !.amount = n, !.at = clock])
    BY <1>2 DEF SpendBegin
  <2> DEFINE r == [[Idle EXCEPT !.key = k, !.account = a, !.amount = n, !.at = clock] EXCEPT !.op = "spend"]
  <2>2. r.op # "delete" /\ tx' = [tx EXCEPT ![t] = r] /\ UNCHANGED <<hold, account>>
    BY <2>1
  <2> HIDE DEF r
  <2>3. QED
    BY <2>2
<1>3. CASE ResetBegin(t)
  <2>1. PICK k \in EntryKeys, a \in Accounts, n \in Targets :
          Begin(t, "reset", [Idle EXCEPT !.key = k, !.account = a, !.amount = n,
                                         !.base = account[a].bucket.permanent])
    BY <1>3 DEF ResetBegin
  <2> DEFINE r == [[Idle EXCEPT !.key = k, !.account = a, !.amount = n,
                                         !.base = account[a].bucket.permanent] EXCEPT !.op = "reset"]
  <2>2. r.op # "delete" /\ tx' = [tx EXCEPT ![t] = r] /\ UNCHANGED <<hold, account>>
    BY <2>1
  <2> HIDE DEF r
  <2>3. QED
    BY <2>2
<1>4. CASE HoldBegin(t)
  <2>1. PICK h \in HoldKeys, a \in Accounts, n \in Amounts,
             e \in {Never} \cup {clock + ttl : ttl \in Ttls} :
          Begin(t, "hold", [Idle EXCEPT !.hold = h, !.account = a, !.amount = n,
                                        !.at = clock, !.expiresAt = e])
    BY <1>4 DEF HoldBegin
  <2> DEFINE r == [[Idle EXCEPT !.hold = h, !.account = a, !.amount = n,
                                        !.at = clock, !.expiresAt = e] EXCEPT !.op = "hold"]
  <2>2. r.op # "delete" /\ tx' = [tx EXCEPT ![t] = r] /\ UNCHANGED <<hold, account>>
    BY <2>1
  <2> HIDE DEF r
  <2>3. QED
    BY <2>2
<1>5. CASE CaptureBegin(t)
  <2>1. PICK k \in EntryKeys, h \in HoldKeys, n \in Amounts :
          Begin(t, "capture", [Idle EXCEPT !.key = k, !.hold = h, !.amount = n,
                                           !.account = hold[h].account])
    BY <1>5 DEF CaptureBegin
  <2> DEFINE r == [[Idle EXCEPT !.key = k, !.hold = h, !.amount = n,
                                           !.account = hold[h].account] EXCEPT !.op = "capture"]
  <2>2. r.op # "delete" /\ tx' = [tx EXCEPT ![t] = r] /\ UNCHANGED <<hold, account>>
    BY <2>1
  <2> HIDE DEF r
  <2>3. QED
    BY <2>2
<1>6. CASE ReleaseBegin(t)
  <2>1. PICK h \in HoldKeys :
          Begin(t, "release", [Idle EXCEPT !.hold = h])
    BY <1>6 DEF ReleaseBegin
  <2> DEFINE r == [[Idle EXCEPT !.hold = h] EXCEPT !.op = "release"]
  <2>2. r.op # "delete" /\ tx' = [tx EXCEPT ![t] = r] /\ UNCHANGED <<hold, account>>
    BY <2>1
  <2> HIDE DEF r
  <2>3. QED
    BY <2>2
<1>7. CASE RestoreBegin(t)
  <2>1. PICK a \in Accounts :
          Begin(t, "restore", [Idle EXCEPT !.account = a])
    BY <1>7 DEF RestoreBegin
  <2> DEFINE r == [[Idle EXCEPT !.account = a] EXCEPT !.op = "restore"]
  <2>2. r.op # "delete" /\ tx' = [tx EXCEPT ![t] = r] /\ UNCHANGED <<hold, account>>
    BY <2>1
  <2> HIDE DEF r
  <2>3. QED
    BY <2>2
<1>8. QED
  BY <1>1, <1>2, <1>3, <1>4, <1>5, <1>6, <1>7

(* Refreshing a row or taking from it deletes no account.                  *)
LEMMA RowStates ==
  ASSUME NEW row \in AccountRow, NEW t, NEW n
  PROVE  /\ RefreshRow(row, t).state = row.state
         /\ Taken(RefreshRow(row, t), n).state = row.state
         /\ \A m : [Taken(RefreshRow(row, t), n) EXCEPT !.held = m].state = row.state
<1> DEFINE stale == [daily  |-> IsStale(row.dailyOn, DailyBoundary(t)),
                     period |-> IsStale(row.periodOn, PeriodBoundary(t))]
           b == Refresh(row.bucket, Allowance, stale)
           d == IF stale.daily THEN DailyBoundary(t) ELSE row.dailyOn
           p == IF stale.period THEN PeriodBoundary(t) ELSE row.periodOn
           fresh == [row EXCEPT !.bucket = b, !.dailyOn = d, !.periodOn = p]
           left == Minus(fresh.bucket, Debit(fresh.bucket, n))
<1>1. fresh = RefreshRow(row, t)
  BY DEF RefreshRow, AccountRow
<1> HIDE DEF b, d, p, stale
<1>2. /\ fresh.state = row.state
      /\ DOMAIN fresh = {"state", "bucket", "held", "dailyOn", "periodOn"}
      /\ fresh = [x \in DOMAIN fresh |-> fresh[x]]
  BY DEF AccountRow
<1>3. Taken(fresh, n) = [fresh EXCEPT !.bucket = left]
  BY DEF Taken
<1> HIDE DEF left, fresh
<1>4. Taken(fresh, n).state = row.state
  BY <1>2, <1>3
<1>5. \A m : [Taken(fresh, n) EXCEPT !.held = m].state = row.state
  BY <1>2, <1>3
<1>6. QED
  BY <1>1, <1>2, <1>4, <1>5

(* The other steps of a request move money only: no account becomes deleted or comes
   back, and no hold is placed.                                            *)
LEMMA FundsKeepStates ==
  ASSUME IInv, NEW t \in Tx, GrantCommit(t) \/ SpendCommit(t) \/ ResetCommit(t)
  PROVE  /\ tx' = [tx EXCEPT ![t] = Idle] /\ hold' = hold
         /\ \A a \in Accounts : account'[a].state = account[a].state
<1>1. account \in [Accounts -> AccountRow]
  BY DEF IInv, TypeOK
<1>2. CASE GrantCommit(t)
  BY <1>1, <1>2 DEF GrantCommit, Close, AccountRow
<1>3. CASE SpendCommit(t)
  <2> DEFINE a == tx[t].account
             row == Taken(RefreshRow(account[a], tx[t].at), tx[t].amount)
  <2>1. /\ a \in Accounts /\ account' = [account EXCEPT ![a] = row]
        /\ tx' = [tx EXCEPT ![t] = Idle] /\ hold' = hold
    BY <1>3, OpenRequest DEF SpendCommit, Open, Close, NamesRows
  <2>2. row.state = account[a].state
    BY <1>1, <2>1, RowStates
  <2> HIDE DEF row, a
  <2>3. QED
    BY <1>1, <2>1, <2>2
<1>4. CASE ResetCommit(t)
  BY <1>1, <1>4 DEF ResetCommit, Close, AccountRow
<1>5. QED
  BY <1>2, <1>3, <1>4

(* Nor does a settlement by a request.                                     *)
LEMMA RequestSettles ==
  ASSUME IInv, NEW t \in Tx, CaptureCommit(t) \/ ReleaseCommit(t)
  PROVE  /\ tx' = [tx EXCEPT ![t] = Idle]
         /\ \A h \in HoldKeys : hold'[h].status = "active" => hold'[h] = hold[h]
         /\ \A a \in Accounts : account'[a].state = account[a].state
<1> DEFINE h == tx[t].hold
<1>1. h \in HoldKeys
  BY OpenRequest DEF CaptureCommit, ReleaseCommit, Open, NamesRows
<1>2. PICK s, unused : s \in {"captured", "released"} /\ Settle(h, s, unused)
  BY DEF CaptureCommit, ReleaseCommit
<1>3. hold[h].account \in Accounts
  BY <1>1, <1>2 DEF Settle, WinsHold, IInv, HoldsOwned
<1>4. s \in HoldStatus \ {"active"}
  BY <1>2 DEF HoldStatus
<1> HIDE DEF h
<1>5. QED
  BY <1>1, <1>2, <1>3, <1>4, SettleEnds DEF IInv, CaptureCommit, ReleaseCommit, Close

(* A hold is placed on an account that is not deleted, marked if a deletion is open. *)
LEMMA HoldIsNoticed ==
  ASSUME IInv, HoldsNoticed, NEW t \in Tx, HoldCommit(t)
  PROVE  HoldsNoticed'
<1> DEFINE r == tx[t]
           row == [Taken(RefreshRow(account[r.account], r.at), r.amount) EXCEPT !.held = @ + r.amount]
<1>1. r.account \in Accounts /\ r.hold \in HoldKeys
  BY OpenRequest DEF HoldCommit, Open, NamesRows
<1>2. TypeOK
  BY DEF IInv
<1>3. account[r.account].state = "active" /\ account' = [account EXCEPT ![r.account] = row]
  BY DEF HoldCommit, Writable
<1>4. row.state = "active"
  BY <1>1, <1>2, <1>3, RowStates DEF TypeOK
<1>5. \A a \in Accounts : account'[a].state = account[a].state
  BY <1>1, <1>2, <1>3, <1>4 DEF TypeOK
<1>6. \A a \in Accounts : Shunned(a)' => Shunned(a)
  <2>1. tx' = [tx EXCEPT ![t] = Idle] /\ Idle.op # "delete"
    BY DEF HoldCommit, Close, Idle
  <2>2. QED
    BY <1>2, <1>5, <2>1, RequestsShun DEF Shunned
<1> DEFINE new == [status |-> "active", account |-> r.account, amount |-> r.amount,
                   reserved |-> Minus(RefreshRow(account[r.account], r.at).bucket, row.bucket),
                   expiresAt |-> r.expiresAt, raced |-> BeingDeleted(r.account)]
<1>7. hold' = [hold EXCEPT ![r.hold] = new]
  BY DEF HoldCommit
<1>13. new.account = r.account /\ new.raced = BeingDeleted(r.account)
  OBVIOUS
<1> HIDE DEF row, new
<1>8. \A h \in HoldKeys : hold'[h] = IF h = r.hold THEN new ELSE hold[h]
  BY <1>2, <1>7 DEF TypeOK
<1>9. SUFFICES ASSUME NEW a \in Accounts, Shunned(a)', NEW h \in HoldKeys,
                      hold'[h].status = "active", hold'[h].account = a
               PROVE  hold'[h].raced
  BY DEF HoldsNoticed, ActiveHoldsOf
<1>10. CASE h = r.hold
  BY <1>3, <1>6, <1>8, <1>9, <1>10, <1>13 DEF Shunned
<1>11. CASE h # r.hold
  BY <1>6, <1>8, <1>9, <1>11 DEF HoldsNoticed, ActiveHoldsOf
<1>12. QED
  BY <1>10, <1>11

(* No step of the ledger has a shunned account hold anything unmarked.     *)
LEMMA HoldsNoticedKept ==
  ASSUME IInv, HoldsNoticed, [Next]_vars
  PROVE  HoldsNoticed'
<1>1. TypeOK
  BY DEF IInv
<1>2. ASSUME \A h \in HoldKeys : hold'[h].status = "active" => hold'[h] = hold[h],
             \A a \in Accounts : Shunned(a)' => Shunned(a)
      PROVE  HoldsNoticed'
  BY <1>2, FewerHolds
<1>3. ASSUME NEW t \in Tx, NEW r, r.op # "delete", tx' = [tx EXCEPT ![t] = r],
             \A h \in HoldKeys : hold'[h].status = "active" => hold'[h] = hold[h],
             \A a \in Accounts : account'[a].state = "deleted" => Shunned(a)
      PROVE  HoldsNoticed'
  BY <1>1, <1>2, <1>3, RequestsShun
<1>4. ASSUME tx' = tx,
             \A h \in HoldKeys : hold'[h].status = "active" => hold'[h] = hold[h],
             \A a \in Accounts : account'[a].state = "deleted" => account[a].state = "deleted"
      PROVE  HoldsNoticed'
  BY <1>2, <1>4 DEF Shunned, BeingDeleted
<1>5. ASSUME NEW t \in Tx, Client(t) PROVE HoldsNoticed'
  <2>1. CASE \/ GrantBegin(t) \/ SpendBegin(t) \/ ResetBegin(t) \/ HoldBegin(t)
             \/ CaptureBegin(t) \/ ReleaseBegin(t) \/ RestoreBegin(t)
    <3>1. PICK r : r.op # "delete" /\ tx' = [tx EXCEPT ![t] = r] /\ UNCHANGED <<hold, account>>
      BY <2>1, BeginsOther
    <3>2. QED
      BY <1>3, <3>1 DEF Shunned
  <2>2. CASE GrantCommit(t) \/ SpendCommit(t) \/ ResetCommit(t)
    BY <1>3, <2>2, FundsKeepStates DEF Shunned, Idle
  <2>3. CASE CaptureCommit(t) \/ ReleaseCommit(t)
    BY <1>3, <2>3, RequestSettles DEF Shunned, Idle
  <2>4. CASE HoldCommit(t)
    BY <2>4, HoldIsNoticed
  <2>5. CASE DeleteBegin(t)
    <3>1. PICK a \in Accounts :
            ActiveHoldsOf(a) = {} /\ Begin(t, "delete", [Idle EXCEPT !.account = a])
      BY <2>5 DEF DeleteBegin
    <3>2. UNCHANGED <<hold, account>> /\ \A s \in Tx : s # t => tx'[s] = tx[s]
      BY <1>1, <3>1 DEF Begin, TypeOK
    <3>3. tx'[t].account = a
      BY <1>1, <3>1 DEF Begin, Idle, TypeOK
    <3>4. \A b \in Accounts : Shunned(b)' => Shunned(b) \/ b = a
      BY <3>2, <3>3 DEF Shunned, BeingDeleted
    <3>5. QED
      BY <3>1, <3>2, <3>4 DEF HoldsNoticed, ActiveHoldsOf
  <2>6. CASE DeleteCommit(t)
    <3>1. /\ tx[t].op = "delete" /\ tx[t].account \in Accounts /\ hold' = hold
          /\ tx' = [tx EXCEPT ![t] = Idle]
          /\ account' = [account EXCEPT ![tx[t].account].state = "deleted"]
      BY <2>6, OpenRequest DEF DeleteCommit, Open, Close, NamesRows
    <3>2. \A a \in Accounts : account'[a].state = "deleted" => Shunned(a)
      BY <1>1, <3>1 DEF Shunned, BeingDeleted, TypeOK
    <3>3. QED
      BY <1>3, <3>1, <3>2 DEF Idle
  <2>7. CASE RestoreCommit(t)
    <3>1. /\ tx[t].account \in Accounts /\ hold' = hold /\ tx' = [tx EXCEPT ![t] = Idle]
          /\ account' = [account EXCEPT ![tx[t].account].state = "active"]
      BY <2>7, OpenRequest DEF RestoreCommit, Open, Close, NamesRows
    <3>2. \A a \in Accounts : account'[a].state = "deleted" => Shunned(a)
      BY <1>1, <3>1 DEF Shunned, TypeOK, AccountRow
    <3>3. QED
      BY <1>3, <3>1, <3>2 DEF Idle
  <2>8. CASE Rollback(t)
    BY <1>3, <2>8 DEF Rollback, Close, Shunned, Idle
  <2>9. QED
    BY <1>5, <2>1, <2>2, <2>3, <2>4, <2>5, <2>6, <2>7, <2>8
       DEF Client, FundingRequests, HoldRequests, ReleaseRequests, AccountRequests, ResetRequests
<1>6. ASSUME NEW s \in Sweepers, Sweep(s) PROVE HoldsNoticed'
  <2>1. CASE UNCHANGED <<account, hold, tx>>
    BY <1>4, <2>1
  <2>2. CASE ReclaimCommit(s)
    <3>1. sweep[s].current \in HoldKeys /\ tx' = tx
      BY <1>1, <2>2 DEF ReclaimCommit, TypeOK, SweepState
    <3>2. CASE WinsHold(sweep[s].current)
      <4>1. /\ hold[sweep[s].current].account \in Accounts
            /\ Settle(sweep[s].current, "expired", hold[sweep[s].current].reserved)
        BY <2>2, <3>1, <3>2 DEF ReclaimCommit, WinsHold, IInv, HoldsOwned
      <4>2. /\ \A h \in HoldKeys : hold'[h].status = "active" => hold'[h] = hold[h]
            /\ \A a \in Accounts : account'[a].state = account[a].state
        BY <1>1, <3>1, <4>1, SettleEnds DEF HoldStatus
      <4>3. QED
        BY <1>4, <3>1, <4>2
    <3>3. QED
      BY <2>1, <2>2, <3>1, <3>2 DEF ReclaimCommit
  <2>3. QED
    BY <1>6, <2>1, <2>2 DEF Sweep, SweepStart, ReclaimBegin, SweepFails
<1>7. ASSUME NEW a \in Accounts, CreateAccount(a) \/ RefreshAllowances(a) PROVE HoldsNoticed'
  <2>1. tx' = tx /\ hold' = hold
    BY <1>7 DEF CreateAccount, RefreshAllowances
  <2>2. \A b \in Accounts : account'[b].state = "deleted" => account[b].state = "deleted"
    BY <1>1, <1>7 DEF CreateAccount, RefreshAllowances, RefreshRow, TypeOK, AccountRow
  <2>3. QED
    BY <1>4, <2>1, <2>2
<1>8. CASE UNCHANGED <<account, hold, tx>>
  BY <1>4, <1>8
<1>9. QED
  BY <1>5, <1>6, <1>7, <1>8 DEF Next, Tick, vars

(* A deleted account holds nothing that was not placed while it was being deleted. *)
THEOREM DeletedAreEmpty == Spec => []DeletedHoldsNothing
<1>1. Init => HoldsNoticed
  BY DEF Init, HoldsNoticed, ActiveHoldsOf, NoHold
<1>2. IInv /\ HoldsNoticed /\ [Next]_vars => HoldsNoticed'
  BY HoldsNoticedKept
<1>3. HoldsNoticed => DeletedHoldsNothing
  BY DEF HoldsNoticed, DeletedHoldsNothing, Shunned
<1>4. QED
  BY <1>1, <1>2, <1>3, Invariant, PTL DEF Spec

-----------------------------------------------------------------------------
(* What a step may never do.                                               *)

SettledStays ==
  \A h \in HoldKeys : hold[h].status \notin {"none", "active"} => hold'[h] = hold[h]

(* A settlement touches an active hold only.                               *)
LEMMA SettleStays ==
  ASSUME TypeOK, NEW h \in HoldKeys, NEW s, NEW unused, Settle(h, s, unused)
  PROVE  SettledStays
BY DEF Settle, WinsHold, SettledStays, TypeOK

(* A settled hold never changes again, whoever raced for it.               *)
THEOREM SettledForGood == Spec => SettlementIsFinal
<1>1. ASSUME IInv, [Next]_vars PROVE SettledStays
  <2>1. CASE UNCHANGED hold
    BY <2>1 DEF SettledStays
  <2>2. ASSUME NEW t \in Tx, Client(t) PROVE SettledStays
    <3>1. CASE HoldCommit(t)
      BY <1>1, <3>1 DEF HoldCommit, NoHold, SettledStays, IInv, TypeOK
    <3>2. CASE CaptureCommit(t)
      <4>1. tx[t].hold \in HoldKeys
        BY <1>1, <3>2, OpenRequest DEF CaptureCommit, Open, NamesRows
      <4>2. PICK unused : Settle(tx[t].hold, "captured", unused)
        BY <3>2 DEF CaptureCommit
      <4>3. QED
        BY <1>1, <4>1, <4>2, SettleStays DEF IInv
    <3>3. CASE ReleaseCommit(t)
      <4>1. tx[t].hold \in HoldKeys
        BY <1>1, <3>3, OpenRequest DEF ReleaseCommit, Open, NamesRows
      <4>2. QED
        BY <1>1, <3>3, <4>1, SettleStays DEF ReleaseCommit, IInv
    <3>4. CASE UNCHANGED hold
      BY <2>1, <3>4
    <3>5. QED
      BY <2>2, <3>1, <3>2, <3>3, <3>4
         DEF Client, FundingRequests, HoldRequests, ReleaseRequests,
         AccountRequests, ResetRequests, Begin, GrantBegin, GrantCommit, SpendBegin, SpendCommit, ResetBegin,
             ResetCommit, HoldBegin, CaptureBegin, ReleaseBegin, DeleteBegin, DeleteCommit,
             RestoreBegin, RestoreCommit, Rollback
  <2>3. ASSUME NEW s \in Sweepers, ReclaimCommit(s) PROVE SettledStays
    <3>1. sweep[s].current \in HoldKeys
      BY <1>1, <2>3 DEF ReclaimCommit, IInv, TypeOK, SweepState
    <3>2. CASE Settle(sweep[s].current, "expired", hold[sweep[s].current].reserved)
      BY <1>1, <3>1, <3>2, SettleStays DEF IInv
    <3>3. QED
      BY <2>1, <2>3, <3>2 DEF ReclaimCommit
  <2>4. QED
    BY <1>1, <2>1, <2>2, <2>3
       DEF Next, Sweep, SweepStart, ReclaimBegin, SweepFails, CreateAccount,
           RefreshAllowances, Tick, vars
<1>2. IInv /\ [Next]_vars => [SettledStays]_hold
  BY <1>1
<1>3. [][SettledStays]_hold => SettlementIsFinal
  BY DEF SettledStays, SettlementIsFinal
<1>4. QED
  BY <1>2, <1>3, Invariant, PTL DEF Spec

WatermarksStay ==
  \A a \in Accounts : /\ account'[a].dailyOn >= account[a].dailyOn
                      /\ account'[a].periodOn >= account[a].periodOn

(* A refresh moves no watermark back.                                      *)
LEMMA RefreshAdvances ==
  ASSUME NEW row \in AccountRow, NEW t \in Nat
  PROVE  /\ RefreshRow(row, t).dailyOn >= row.dailyOn
         /\ RefreshRow(row, t).periodOn >= row.periodOn
<1> DEFINE stale == [daily  |-> IsStale(row.dailyOn, DailyBoundary(t)),
                     period |-> IsStale(row.periodOn, PeriodBoundary(t))]
           d == IF stale.daily THEN DailyBoundary(t) ELSE row.dailyOn
           p == IF stale.period THEN PeriodBoundary(t) ELSE row.periodOn
<1>1. DailyBoundary(t) \in Nat /\ PeriodBoundary(t) \in Nat
  BY BoundaryIsNat
<1>2. d >= row.dailyOn /\ p >= row.periodOn
  <2>1. row.dailyOn \in Int /\ row.periodOn \in Int
    BY DEF AccountRow, Boundary, NeverReset
  <2>2. /\ stale.daily <=> row.dailyOn < DailyBoundary(t)
        /\ stale.period <=> row.periodOn < PeriodBoundary(t)
    BY DEF IsStale
  <2> HIDE DEF stale
  <2>3. QED
    BY <1>1, <2>1, <2>2
<1>3. RefreshRow(row, t).dailyOn = d /\ RefreshRow(row, t).periodOn = p
  BY DEF RefreshRow, AccountRow
<1>4. QED
  BY <1>2, <1>3

(* Rewriting one row with watermarks no earlier than its own.              *)
LEMMA RowAdvances ==
  ASSUME TypeOK, NEW a \in Accounts, NEW row, account' = [account EXCEPT ![a] = row],
         row.dailyOn >= account[a].dailyOn, row.periodOn >= account[a].periodOn
  PROVE  WatermarksStay
BY DEF WatermarksStay, TypeOK, AccountRow, Boundary, NeverReset

(* Taking from a row and settling one leave its watermarks alone.          *)
LEMMA WatermarksKept ==
  ASSUME NEW row \in AccountRow, NEW n, NEW unused
  PROVE  /\ Taken(row, n).dailyOn = row.dailyOn
         /\ Taken(row, n).periodOn = row.periodOn
         /\ ApplyBucketReturn(row, unused, n).dailyOn = row.dailyOn
         /\ ApplyBucketReturn(row, unused, n).periodOn = row.periodOn
<1>1. /\ Taken(row, n) = [row EXCEPT !.bucket = Taken(row, n).bucket]
      /\ ApplyBucketReturn(row, unused, n) =
           [row EXCEPT !.bucket = ApplyBucketReturn(row, unused, n).bucket,
                       !.held   = ApplyBucketReturn(row, unused, n).held]
  BY DEF Taken, ApplyBucketReturn, AccountRow
<1>2. QED
  BY <1>1 DEF AccountRow

(* A watermark never moves back, though requests refresh with the clock they read
   before they got the lock.                                               *)
THEOREM WatermarksOnlyAdvance == Spec => WatermarksAdvance
<1>1. ASSUME IInv, [Next]_vars PROVE WatermarksStay
  <2> USE <1>1 DEF IInv
  <2>1. CASE UNCHANGED account
    BY <2>1 DEF WatermarksStay, TypeOK, AccountRow, Boundary, NeverReset
  <2>2. ASSUME NEW h \in HoldKeys, NEW s, NEW unused, Settle(h, s, unused)
        PROVE  WatermarksStay
    <3> DEFINE a == hold[h].account
               row == ApplyBucketReturn(account[a], unused, hold[h].amount)
    <3>1. a \in Accounts
      BY <2>2 DEF Settle, WinsHold, HoldsOwned
    <3>2. account' = [account EXCEPT ![a] = row]
      BY <2>2 DEF Settle
    <3>3. row.dailyOn = account[a].dailyOn /\ row.periodOn = account[a].periodOn
      BY <3>1, WatermarksKept DEF TypeOK
    <3>4. account[a] \in AccountRow
      BY <3>1 DEF TypeOK
    <3>5. row.dailyOn >= account[a].dailyOn /\ row.periodOn >= account[a].periodOn
      BY <3>3, <3>4 DEF AccountRow, Boundary, NeverReset
    <3> HIDE DEF row, a
    <3>6. QED
      BY <3>1, <3>2, <3>5, RowAdvances
  <2>3. ASSUME NEW t \in Tx, Client(t) PROVE WatermarksStay
    <3>1. tx[t].at \in Nat /\ NamesRows(tx[t])
      BY OpenRequest
    <3>2. CASE GrantCommit(t) \/ ResetCommit(t) \/ DeleteCommit(t) \/ RestoreCommit(t)
      <4>1. \A a \in Accounts : /\ account'[a].dailyOn = account[a].dailyOn
                                /\ account'[a].periodOn = account[a].periodOn
        BY <3>2 DEF GrantCommit, ResetCommit, DeleteCommit, RestoreCommit, TypeOK, AccountRow
      <4>2. QED
        BY <4>1 DEF WatermarksStay, TypeOK, AccountRow, Boundary, NeverReset
    <3>3. CASE SpendCommit(t) \/ HoldCommit(t)
      <4> DEFINE a == tx[t].account
                 fresh == RefreshRow(account[a], tx[t].at)
                 left == Taken(fresh, tx[t].amount)
      <4>1. a \in Accounts /\ tx[t].amount \in Nat
        BY <3>1, <3>3, OpenRequest DEF SpendCommit, HoldCommit, Open, NamesRows
      <4>2. account[a] \in AccountRow /\ WithinAllowance(account[a])
        BY <4>1 DEF TypeOK, BucketsWithinAllowance, WithinAllowance
      <4>3. /\ fresh \in AccountRow /\ WithinAllowance(fresh)
            /\ fresh.dailyOn >= account[a].dailyOn /\ fresh.periodOn >= account[a].periodOn
        BY <3>1, <4>2, RefreshRowKeepsRow, RefreshAdvances
      <4>4. \/ account' = [account EXCEPT ![a] = left]
            \/ account' = [account EXCEPT ![a] = [left EXCEPT !.held = @ + tx[t].amount]]
        BY <3>3 DEF SpendCommit, HoldCommit
      <4> HIDE DEF fresh
      <4>5. left \in AccountRow /\ left.dailyOn = fresh.dailyOn /\ left.periodOn = fresh.periodOn
        BY <4>1, <4>3, TakenKeepsRow, WatermarksKept
      <4> HIDE DEF left
      <4>6. PICK row : /\ account' = [account EXCEPT ![a] = row]
                       /\ row.dailyOn = left.dailyOn /\ row.periodOn = left.periodOn
        BY <4>4, <4>5 DEF AccountRow
      <4> HIDE DEF a
      <4>7. QED
        BY <4>1, <4>3, <4>5, <4>6, RowAdvances
    <3>4. CASE CaptureCommit(t) \/ ReleaseCommit(t)
      <4>1. tx[t].hold \in HoldKeys
        BY <3>1, <3>4 DEF CaptureCommit, ReleaseCommit, Open, NamesRows
      <4>2. PICK s, unused : Settle(tx[t].hold, s, unused)
        BY <3>4 DEF CaptureCommit, ReleaseCommit
      <4>3. QED
        BY <2>2, <4>1, <4>2
    <3>5. CASE UNCHANGED account
      BY <2>1, <3>5
    <3>6. QED
      BY <2>3, <3>2, <3>3, <3>4, <3>5
         DEF Client, FundingRequests, HoldRequests, ReleaseRequests,
         AccountRequests, ResetRequests, Begin, GrantBegin, SpendBegin, ResetBegin, HoldBegin, CaptureBegin,
             ReleaseBegin, DeleteBegin, RestoreBegin, Rollback
  <2>4. ASSUME NEW s \in Sweepers, ReclaimCommit(s) PROVE WatermarksStay
    <3>1. sweep[s].current \in HoldKeys
      BY <2>4 DEF ReclaimCommit, TypeOK, SweepState
    <3>2. QED
      BY <2>1, <2>2, <2>4, <3>1 DEF ReclaimCommit
  <2>5. ASSUME NEW a \in Accounts, RefreshAllowances(a) PROVE WatermarksStay
    <3>1. PICK t \in 0 .. clock : account' = [account EXCEPT ![a] = RefreshRow(account[a], t)]
      BY <2>5 DEF RefreshAllowances
    <3>2. t \in Nat
      BY <3>1 DEF TypeOK, Time
    <3> DEFINE row == RefreshRow(account[a], t)
    <3>3. row.dailyOn >= account[a].dailyOn /\ row.periodOn >= account[a].periodOn
      BY <3>2, RefreshAdvances DEF TypeOK
    <3>4. account' = [account EXCEPT ![a] = row]
      BY <3>1
    <3> HIDE DEF row
    <3>5. QED
      BY <3>3, <3>4, RowAdvances
  <2>6. ASSUME NEW a \in Accounts, CreateAccount(a) PROVE WatermarksStay
    <3>1. \A b \in Accounts : /\ account'[b].dailyOn = account[b].dailyOn
                              /\ account'[b].periodOn = account[b].periodOn
      BY <2>6 DEF CreateAccount, TypeOK, AccountRow
    <3>2. QED
      BY <3>1 DEF WatermarksStay, TypeOK, AccountRow, Boundary, NeverReset
  <2>7. QED
    BY <2>1, <2>3, <2>4, <2>5, <2>6 DEF Next, Sweep, SweepStart, ReclaimBegin, SweepFails, Tick, vars
<1>2. IInv /\ [Next]_vars => [WatermarksStay]_account
  BY <1>1
<1>3. [][WatermarksStay]_account => WatermarksAdvance
  BY DEF WatermarksStay, WatermarksAdvance
<1>4. QED
  BY <1>2, <1>3, Invariant, PTL DEF Spec

-----------------------------------------------------------------------------
(* The arithmetic of the ledger's own operators.                           *)

(* What a capture takes off a reservation is the reservation less what it leaves
   unused.                                                                 *)
LEMMA UnusedBounds ==
  ASSUME NEW b \in Bucket, NEW n \in Nat
  PROVE  /\ Unused(b, n) \in Bucket
         /\ Minus(b, Unused(b, n)) \in Bucket
         /\ n <= Available(b) => Available(Minus(b, Unused(b, n))) = n
<1>1. Unused(b, n) \in Bucket
  BY DebitLeaves DEF Unused
<1>2. /\ Minus(b, Unused(b, n)) \in Bucket
      /\ Available(Minus(b, Unused(b, n))) = n - Debit(b, n).shortfall
  BY DebitTakes DEF Unused
<1>3. n <= Available(b) => Debit(b, n).shortfall = 0
  BY CoveredDebit
<1>4. QED
  BY <1>1, <1>2, <1>3

(* A refresh overwrites a stale time bucket with one allowance and moves its watermark
   on by a boundary at least; it leaves a fresh one and the permanent credit.  *)
LEMMA RefreshRowMoves ==
  ASSUME NEW row \in AccountRow, NEW t \in Nat
  PROVE  LET fresh == RefreshRow(row, t)
         IN  /\ \/ /\ fresh.bucket["daily"] = row.bucket["daily"]
                   /\ fresh.dailyOn = row.dailyOn
                \/ /\ fresh.bucket["daily"] = Allowance.daily
                   /\ fresh.dailyOn > row.dailyOn
             /\ \/ /\ fresh.bucket["period"] = row.bucket["period"]
                   /\ fresh.periodOn = row.periodOn
                \/ /\ fresh.bucket["period"] = Allowance.period
                   /\ fresh.periodOn > row.periodOn
             /\ fresh.bucket["permanent"] = row.bucket["permanent"]
<1> DEFINE stale == [daily  |-> IsStale(row.dailyOn, DailyBoundary(t)),
                     period |-> IsStale(row.periodOn, PeriodBoundary(t))]
           b == Refresh(row.bucket, Allowance, stale)
           d == IF stale.daily THEN DailyBoundary(t) ELSE row.dailyOn
           p == IF stale.period THEN PeriodBoundary(t) ELSE row.periodOn
<1>1. /\ RefreshRow(row, t).bucket = b
      /\ RefreshRow(row, t).dailyOn = d
      /\ RefreshRow(row, t).periodOn = p
  BY DEF RefreshRow, AccountRow
<1>2. /\ stale.daily <=> row.dailyOn < DailyBoundary(t)
      /\ stale.period <=> row.periodOn < PeriodBoundary(t)
  BY DEF IsStale
<1>3. /\ b["daily"] = IF stale.daily THEN Allowance.daily ELSE row.bucket["daily"]
      /\ b["period"] = IF stale.period THEN Allowance.period ELSE row.bucket["period"]
      /\ b["permanent"] = row.bucket["permanent"]
  BY DEF Refresh
<1>4. /\ DailyBoundary(t) \in Int /\ PeriodBoundary(t) \in Int
      /\ row.dailyOn \in Int /\ row.periodOn \in Int
  BY BoundaryIsNat DEF AccountRow, Boundary, NeverReset
<1> HIDE DEF stale, b
<1>5. QED
  BY <1>1, <1>2, <1>3, <1>4

-----------------------------------------------------------------------------
(* What an account has, has reserved and has spent.                        *)

(* What an account's active holds have reserved of one bucket, what its debits took
   out of it, and the whole of it: in the bucket, reserved or spent.       *)
ReservedOf(a, c) == Total([h \in ActiveHoldsOf(a) |-> hold[h].reserved[c]])
SpentFrom(a, c) == Total([k \in EntriesOf(a) |-> entry[k].taken[c]])
Kept(a, c) == account[a].bucket[c] + ReservedOf(a, c) + SpentFrom(a, c)

(* The three are natural numbers.                                          *)
LEMMA SumsAreNat ==
  ASSUME TypeOK, NEW a \in Accounts, NEW c \in BucketNames
  PROVE  /\ account[a].bucket[c] \in Nat
         /\ ReservedOf(a, c) \in Nat
         /\ SpentFrom(a, c) \in Nat
         /\ IsFiniteSet(ActiveHoldsOf(a)) /\ IsFiniteSet(EntriesOf(a))
         /\ [h \in ActiveHoldsOf(a) |-> hold[h].reserved[c]] \in [ActiveHoldsOf(a) -> Nat]
         /\ [k \in EntriesOf(a) |-> entry[k].taken[c]] \in [EntriesOf(a) -> Nat]
<1>1. account[a].bucket[c] \in Nat
  BY ByBucket DEF TypeOK, AccountRow
<1>2. ActiveHoldsOf(a) \in SUBSET HoldKeys /\ EntriesOf(a) \in SUBSET EntryKeys
  BY DEF ActiveHoldsOf, EntriesOf
<1>3. IsFiniteSet(ActiveHoldsOf(a)) /\ IsFiniteSet(EntriesOf(a))
  BY <1>2, LedgerAssumption, FS_Subset
<1>4. \A h \in HoldKeys : hold[h].reserved \in Bucket
  BY DEF TypeOK, HoldRow
<1>5. \A k \in EntryKeys : entry[k].taken \in Bucket
  BY DEF TypeOK, EntryRow
<1>6. [h \in ActiveHoldsOf(a) |-> hold[h].reserved[c]] \in [ActiveHoldsOf(a) -> Nat]
  BY <1>2, <1>4, ByBucket
<1>7. [k \in EntriesOf(a) |-> entry[k].taken[c]] \in [EntriesOf(a) -> Nat]
  BY <1>2, <1>5, ByBucket
<1>8. ReservedOf(a, c) \in Nat
  BY <1>3, <1>6, TotalIsNat DEF ReservedOf
<1>9. SpentFrom(a, c) \in Nat
  BY <1>3, <1>7, TotalIsNat DEF SpentFrom
<1>10. QED
  BY <1>1, <1>3, <1>6, <1>7, <1>8, <1>9

SumsNat == \A a \in Accounts, c \in BucketNames :
             /\ account[a].bucket[c] \in Nat
             /\ ReservedOf(a, c) \in Nat
             /\ SpentFrom(a, c) \in Nat

(* They are so after a step too.                                           *)
LEMMA SumsStayNat == TypeOK' => SumsNat'
<1>1. TypeOK => SumsNat
  BY SumsAreNat DEF SumsNat
<1>2. QED
  BY <1>1, PTL

(* Opening a hold adds its reservation to what its account has reserved.   *)
LEMMA HoldOpened ==
  ASSUME TypeOK, NEW h \in HoldKeys, NEW new \in HoldRow, new.status = "active",
         hold[h].status # "active", hold' = [hold EXCEPT ![h] = new],
         NEW b \in Accounts, NEW c \in BucketNames
  PROVE  ReservedOf(b, c)' = ReservedOf(b, c) + (IF b = new.account THEN new.reserved[c] ELSE 0)
<1>1. \A g \in HoldKeys : hold'[g] = IF g = h THEN new ELSE hold[g]
  BY DEF TypeOK
<1>2. h \notin ActiveHoldsOf(b)
  BY DEF ActiveHoldsOf
<1>3. ReservedOf(b, c) \in Nat /\ IsFiniteSet(ActiveHoldsOf(b))
      /\ [g \in ActiveHoldsOf(b) |-> hold[g].reserved[c]] \in [ActiveHoldsOf(b) -> Nat]
  BY SumsAreNat
<1>4. \A g \in ActiveHoldsOf(b) : hold'[g] = hold[g]
  BY <1>1, <1>2 DEF ActiveHoldsOf
<1>5. CASE b = new.account
  <2> DEFINE D == ActiveHoldsOf(b)
             f == [g \in D \cup {h} |-> hold'[g].reserved[c]]
  <2>1. ActiveHoldsOf(b)' = D \cup {h}
    BY <1>1, <1>5 DEF ActiveHoldsOf
  <2>2. hold'[h].reserved[c] = new.reserved[c] /\ new.reserved[c] \in Nat
    BY <1>1, ByBucket DEF HoldRow
  <2>3. f \in [D \cup {h} -> Nat] /\ f[h] = new.reserved[c]
    BY <1>3, <1>4, <2>2
  <2>4. [g \in D |-> f[g]] = [g \in D |-> hold[g].reserved[c]]
    BY <1>4
  <2>5. ReservedOf(b, c)' = Total(f)
    BY <2>1 DEF ReservedOf
  <2>6. ReservedOf(b, c) = Total([g \in D |-> hold[g].reserved[c]])
    BY DEF ReservedOf
  <2> HIDE DEF D, f
  <2>7. Total(f) = Total([g \in D |-> f[g]]) + f[h]
    BY <1>2, <1>3, <2>3, TotalWith DEF D
  <2>8. QED
    BY <1>5, <2>3, <2>4, <2>5, <2>6, <2>7
<1>6. CASE b # new.account
  <2>1. ActiveHoldsOf(b)' = ActiveHoldsOf(b)
    BY <1>1, <1>2, <1>6 DEF ActiveHoldsOf
  <2>2. ReservedOf(b, c)' = ReservedOf(b, c)
    BY <1>4, <2>1 DEF ReservedOf
  <2>3. QED
    BY <1>3, <1>6, <2>2
<1>7. QED
  BY <1>5, <1>6

(* Settling a hold takes its reservation off what its account has reserved.  *)
LEMMA HoldClosed ==
  ASSUME TypeOK, NEW h \in HoldKeys, hold[h].status = "active",
         NEW s, s # "active", hold' = [hold EXCEPT ![h].status = s],
         NEW b \in Accounts, NEW c \in BucketNames
  PROVE  /\ ReservedOf(b, c)' \in Nat
         /\ ReservedOf(b, c) = ReservedOf(b, c)'
              + (IF b = hold[h].account THEN hold[h].reserved[c] ELSE 0)
<1>1. \A g \in HoldKeys : /\ hold'[g].reserved = hold[g].reserved
                          /\ hold'[g].account = hold[g].account
                          /\ hold'[g].status = IF g = h THEN s ELSE hold[g].status
  BY DEF TypeOK, HoldRow
<1>2. ActiveHoldsOf(b)' = ActiveHoldsOf(b) \ {h}
  BY <1>1 DEF ActiveHoldsOf
<1> DEFINE D == ActiveHoldsOf(b)
           f == [g \in D |-> hold[g].reserved[c]]
           rest == [g \in D \ {h} |-> f[g]]
<1>3. ReservedOf(b, c) \in Nat /\ IsFiniteSet(D) /\ f \in [D -> Nat]
  BY SumsAreNat
<1>4. D \subseteq HoldKeys
  BY DEF ActiveHoldsOf
<1>5. ReservedOf(b, c)' = Total(rest)
  <2>1. [g \in ActiveHoldsOf(b)' |-> hold'[g].reserved[c]] = rest
    BY <1>1, <1>2, <1>4
  <2>2. QED
    BY <2>1 DEF ReservedOf
<1>6. Total(rest) \in Nat
  <2>1. IsFiniteSet(D \ {h}) /\ rest \in [D \ {h} -> Nat]
    BY <1>3, FS_RemoveElement
  <2> HIDE DEF D, f, rest
  <2>2. QED
    BY <2>1, TotalIsNat
<1>7. ReservedOf(b, c) = Total(f)
  BY DEF ReservedOf
<1>8. CASE b = hold[h].account
  <2>1. h \in D /\ f[h] = hold[h].reserved[c]
    BY <1>8 DEF ActiveHoldsOf
  <2> HIDE DEF D, f
  <2>2. Total(f) = Total(rest) + f[h]
    BY <1>3, <2>1, TotalWithout
  <2>3. QED
    BY <1>5, <1>6, <1>7, <1>8, <2>1, <2>2
<1>9. CASE b # hold[h].account
  <2>1. D \ {h} = D
    BY <1>9 DEF ActiveHoldsOf
  <2>2. rest = f
    BY <2>1
  <2> HIDE DEF D, f, rest
  <2>3. QED
    BY <1>3, <1>5, <1>7, <1>9, <2>2
<1>10. QED
  BY <1>8, <1>9

(* Posting an entry adds what it took to what its account has spent.       *)
LEMMA EntryPosted ==
  ASSUME TypeOK, NEW k \in EntryKeys, NEW e \in EntryRow, e.kind # "none",
         FreeKey(k), entry' = [entry EXCEPT ![k] = e],
         NEW b \in Accounts, NEW c \in BucketNames
  PROVE  SpentFrom(b, c)' = SpentFrom(b, c) + (IF b = e.account THEN e.taken[c] ELSE 0)
<1>1. \A j \in EntryKeys : entry'[j] = IF j = k THEN e ELSE entry[j]
  BY DEF TypeOK
<1>2. k \notin EntriesOf(b)
  BY DEF EntriesOf, FreeKey, NoEntry
<1>3. SpentFrom(b, c) \in Nat /\ IsFiniteSet(EntriesOf(b))
      /\ [j \in EntriesOf(b) |-> entry[j].taken[c]] \in [EntriesOf(b) -> Nat]
  BY SumsAreNat
<1>4. \A j \in EntriesOf(b) : entry'[j] = entry[j]
  BY <1>1, <1>2 DEF EntriesOf
<1>5. CASE b = e.account
  <2> DEFINE D == EntriesOf(b)
             f == [j \in D \cup {k} |-> entry'[j].taken[c]]
  <2>1. EntriesOf(b)' = D \cup {k}
    BY <1>1, <1>5 DEF EntriesOf
  <2>2. entry'[k].taken[c] = e.taken[c] /\ e.taken[c] \in Nat
    BY <1>1, ByBucket DEF EntryRow
  <2>3. f \in [D \cup {k} -> Nat] /\ f[k] = e.taken[c]
    BY <1>3, <1>4, <2>2
  <2>4. [j \in D |-> f[j]] = [j \in D |-> entry[j].taken[c]]
    BY <1>4
  <2>5. SpentFrom(b, c)' = Total(f)
    BY <2>1 DEF SpentFrom
  <2>6. SpentFrom(b, c) = Total([j \in D |-> entry[j].taken[c]])
    BY DEF SpentFrom
  <2> HIDE DEF D, f
  <2>7. Total(f) = Total([j \in D |-> f[j]]) + f[k]
    BY <1>2, <1>3, <2>3, TotalWith DEF D
  <2>8. QED
    BY <1>5, <2>3, <2>4, <2>5, <2>6, <2>7
<1>6. CASE b # e.account
  <2>1. EntriesOf(b)' = EntriesOf(b)
    BY <1>1, <1>2, <1>6 DEF EntriesOf, FreeKey, NoEntry
  <2>2. SpentFrom(b, c)' = SpentFrom(b, c)
    BY <1>4, <2>1 DEF SpentFrom
  <2>3. QED
    BY <1>3, <1>6, <2>2
<1>7. QED
  BY <1>5, <1>6

-----------------------------------------------------------------------------
(* What a step does to the credit, whichever request, sweep or timer takes it.  *)

(* The buckets of account a become b, its watermarks those of row.         *)
Moves(a, b, row) ==
  \A x \in Accounts :
    /\ account'[x].bucket = IF x = a THEN b ELSE account[x].bucket
    /\ account'[x].dailyOn = IF x = a THEN row.dailyOn ELSE account[x].dailyOn
    /\ account'[x].periodOn = IF x = a THEN row.periodOn ELSE account[x].periodOn

Posts(k, e) == FreeKey(k) /\ e \in EntryRow /\ entry' = [entry EXCEPT ![k] = e]

Quiet == UNCHANGED <<hold, entry>> /\ \A a \in Accounts : Moves(a, account[a].bucket, account[a])

Refreshes(a, t) ==
  /\ Moves(a, RefreshRow(account[a], t).bucket, RefreshRow(account[a], t))
  /\ UNCHANGED <<hold, entry>>

Grants(a, k, e) ==
  /\ Moves(a, [account[a].bucket EXCEPT !.permanent = @ + e.amount], account[a])
  /\ Posts(k, e)
  /\ e.kind = "grant" /\ e.account = a /\ e.amount \in Nat \ {0} /\ e.taken = Empty
  /\ hold' = hold

Resets(a, k, e) ==
  /\ "reset" \in Ops
  /\ \E n \in Nat : Moves(a, [account[a].bucket EXCEPT !.permanent = n], account[a])
  /\ Posts(k, e)
  /\ e.kind = "reset" /\ e.account = a /\ e.taken = Empty
  /\ hold' = hold

Spends(a, k, e, t) ==
  LET fresh == RefreshRow(account[a], t)
  IN  /\ Moves(a, Minus(fresh.bucket, e.taken), fresh)
      /\ Minus(fresh.bucket, e.taken) \in Bucket
      /\ Posts(k, e)
      /\ e.kind = "spend" /\ e.account = a /\ -e.amount = Available(e.taken)
      /\ hold' = hold

Reserves(a, h, new, t) ==
  LET fresh == RefreshRow(account[a], t)
  IN  /\ Moves(a, Minus(fresh.bucket, new.reserved), fresh)
      /\ Minus(fresh.bucket, new.reserved) \in Bucket
      /\ new \in HoldRow /\ new.status = "active" /\ new.account = a
      /\ new.amount = Available(new.reserved)
      /\ hold[h] = NoHold /\ hold' = [hold EXCEPT ![h] = new]
      /\ entry' = entry

Settles(h, s, unused) ==
  LET a == hold[h].account
  IN  /\ Moves(a, CreditBack(account[a].bucket, unused, Allowance), account[a])
      /\ a \in Accounts /\ unused \in Bucket
      /\ hold[h].status = "active" /\ s # "active" /\ hold' = [hold EXCEPT ![h].status = s]

Captured(h, unused, k, e) ==
  /\ Settles(h, "captured", unused)
  /\ Posts(k, e)
  /\ e.kind = "capture" /\ e.account = hold[h].account
  /\ -e.amount \in 0 .. hold[h].amount
  /\ unused = Unused(hold[h].reserved, -e.amount)
  /\ e.taken = Minus(hold[h].reserved, unused)

Returned(h, s) ==
  /\ s \in {"released", "expired"}
  /\ Settles(h, s, hold[h].reserved)
  /\ entry' = entry

Movement ==
  \/ Quiet
  \/ \E a \in Accounts, t \in Nat : Refreshes(a, t)
  \/ \E a \in Accounts, k \in EntryKeys, e \in EntryRow : Grants(a, k, e) \/ Resets(a, k, e)
  \/ \E a \in Accounts, k \in EntryKeys, e \in EntryRow, t \in Nat : Spends(a, k, e, t)
  \/ \E a \in Accounts, h \in HoldKeys, new \in HoldRow, t \in Nat : Reserves(a, h, new, t)
  \/ \E h \in HoldKeys, unused \in Bucket, k \in EntryKeys, e \in EntryRow : Captured(h, unused, k, e)
  \/ \E h \in HoldKeys, s \in HoldStatus : Returned(h, s)

(* Rewriting one account row.                                              *)
LEMMA RowMoves ==
  ASSUME TypeOK, NEW a \in Accounts, NEW row, account' = [account EXCEPT ![a] = row]
  PROVE  Moves(a, row.bucket, row)
BY DEF Moves, TypeOK

(* A step that leaves every bucket and watermark alone is quiet.           *)
LEMMA StillIsQuiet ==
  ASSUME UNCHANGED <<hold, entry>>,
         \A a \in Accounts : /\ account'[a].bucket = account[a].bucket
                             /\ account'[a].dailyOn = account[a].dailyOn
                             /\ account'[a].periodOn = account[a].periodOn
  PROVE  Movement
BY DEF Movement, Quiet, Moves

(* A grant.                                                                *)
LEMMA GrantMovement ==
  ASSUME IInv, NEW t \in Tx, GrantCommit(t)
  PROVE  Movement
<1> DEFINE r == tx[t]
           a == r.account
           row == [account[a] EXCEPT !.bucket.permanent = @ + r.amount]
           e == [kind |-> r.op, account |-> a, amount |-> r.amount,
                 after |-> row.bucket.permanent, hold |-> r.hold, taken |-> Empty]
<1>1. /\ r \in Request /\ r.op = "grant" /\ a \in Accounts /\ r.key \in EntryKeys
      /\ r.amount \in Nat \ {0} /\ r.hold \in HoldKeys \cup {None}
  BY OpenRequest DEF GrantCommit, Open, NamesRows, Request
<1>2. account[a] \in AccountRow
  BY <1>1 DEF IInv, TypeOK
<1>3. /\ row.bucket = [account[a].bucket EXCEPT !.permanent = @ + r.amount]
      /\ row.dailyOn = account[a].dailyOn /\ row.periodOn = account[a].periodOn
      /\ row.bucket.permanent \in Nat
  BY <1>1, <1>2 DEF AccountRow, Bucket
<1>4. /\ e \in EntryRow /\ e.kind = "grant" /\ e.account = a /\ e.amount = r.amount
      /\ e.taken = Empty
  BY <1>1, <1>3 DEF EntryRow, Bucket, Empty
<1>5. /\ account' = [account EXCEPT ![a] = row]
      /\ Posts(r.key, e)
      /\ hold' = hold
  BY <1>4 DEF GrantCommit, Post, Posts
<1> HIDE DEF row, e, a, r
<1>6. Moves(a, row.bucket, row)
  BY <1>1, <1>5, RowMoves DEF IInv
<1>7. Moves(a, [account[a].bucket EXCEPT !.permanent = @ + e.amount], account[a])
  BY <1>3, <1>4, <1>6 DEF Moves
<1>8. Grants(a, r.key, e)
  BY <1>1, <1>4, <1>5, <1>7 DEF Grants
<1>9. QED
  BY <1>1, <1>4, <1>8 DEF Movement

(* A reset.                                                                *)
LEMMA ResetMovement ==
  ASSUME IInv, NEW t \in Tx, ResetCommit(t)
  PROVE  Movement
<1> DEFINE r == tx[t]
           a == r.account
           row == [account[a] EXCEPT !.bucket.permanent = r.amount]
           e == [kind |-> r.op, account |-> a, amount |-> r.amount - r.base,
                 after |-> r.amount, hold |-> r.hold, taken |-> Empty]
<1>1. /\ r \in Request /\ r.op = "reset" /\ a \in Accounts /\ r.key \in EntryKeys
      /\ r.amount \in Nat /\ r.base \in Nat /\ r.hold \in HoldKeys \cup {None}
      /\ "reset" \in Ops
  BY OpenRequest DEF ResetCommit, Open, NamesRows, Request
<1>2. account[a] \in AccountRow
  BY <1>1 DEF IInv, TypeOK
<1>3. /\ row.bucket = [account[a].bucket EXCEPT !.permanent = r.amount]
      /\ row.dailyOn = account[a].dailyOn /\ row.periodOn = account[a].periodOn
  BY <1>1, <1>2 DEF AccountRow, Bucket
<1>4. e \in EntryRow /\ e.kind = "reset" /\ e.account = a /\ e.taken = Empty
  BY <1>1 DEF EntryRow, Bucket, Empty
<1>5. /\ account' = [account EXCEPT ![a] = row]
      /\ Posts(r.key, e)
      /\ hold' = hold
  <2>1. account' = [account EXCEPT ![a] = row]
    BY <1>1, <1>2 DEF ResetCommit, IInv, TypeOK, AccountRow
  <2>2. QED
    BY <1>4, <2>1 DEF ResetCommit, Post, Posts
<1> HIDE DEF row, e, a, r
<1>6. Moves(a, row.bucket, row)
  BY <1>1, <1>5, RowMoves DEF IInv
<1>7. Moves(a, [account[a].bucket EXCEPT !.permanent = r.amount], account[a])
  BY <1>3, <1>6 DEF Moves
<1>8. Resets(a, r.key, e)
  BY <1>1, <1>4, <1>5, <1>7 DEF Resets
<1>9. QED
  BY <1>1, <1>4, <1>8 DEF Movement

(* What taking a covered amount from a refreshed row does, for a spend and for a hold
   alike.                                                                  *)
LEMMA TakingMoves ==
  ASSUME IInv, NEW a \in Accounts, NEW n \in Nat, NEW at \in Nat,
         Covers(RefreshRow(account[a], at), n)
  PROVE  LET fresh == RefreshRow(account[a], at)
             row   == Taken(fresh, n)
             taken == Minus(fresh.bucket, row.bucket)
         IN  /\ fresh \in AccountRow /\ row \in AccountRow
             /\ row.bucket = Minus(fresh.bucket, taken)
             /\ taken \in Bucket /\ Available(taken) = n
             /\ row.held = account[a].held
             /\ row.dailyOn = fresh.dailyOn /\ row.periodOn = fresh.periodOn
<1> DEFINE fresh == RefreshRow(account[a], at)
           row == Taken(fresh, n)
<1>1. account[a] \in AccountRow /\ WithinAllowance(account[a])
  BY DEF IInv, TypeOK, BucketsWithinAllowance, WithinAllowance
<1>2. fresh \in AccountRow /\ WithinAllowance(fresh) /\ fresh.held = account[a].held
  BY <1>1, RefreshRowKeepsRow
<1>3. Debit(fresh.bucket, n).shortfall = 0
  BY DEF Covers
<1> HIDE DEF fresh
<1>4. /\ row \in AccountRow /\ row.held = fresh.held
      /\ row.bucket = Minus(fresh.bucket, Debit(fresh.bucket, n))
  BY <1>2, TakenKeepsRow
<1>5. row.dailyOn = fresh.dailyOn /\ row.periodOn = fresh.periodOn
  BY <1>2, WatermarksKept
<1>6. fresh.bucket \in Bucket /\ row.bucket \in Bucket
  BY <1>2, <1>4 DEF AccountRow
<1>7. /\ Minus(fresh.bucket, row.bucket) \in Bucket
      /\ Available(Minus(fresh.bucket, row.bucket)) = n
  BY <1>3, <1>4, <1>6, DebitTakes
<1> HIDE DEF row
<1>8. row.bucket = Minus(fresh.bucket, Minus(fresh.bucket, row.bucket))
  BY <1>6 DEF Minus, Bucket
<1>9. QED
  BY <1>2, <1>4, <1>5, <1>7, <1>8 DEF fresh, row

(* A spend.                                                                *)
LEMMA SpendMovement ==
  ASSUME IInv, NEW t \in Tx, SpendCommit(t)
  PROVE  Movement
<1> DEFINE r == tx[t]
           a == r.account
           fresh == RefreshRow(account[a], r.at)
           row == Taken(fresh, r.amount)
           taken == Minus(fresh.bucket, row.bucket)
           e == [kind |-> r.op, account |-> a, amount |-> -r.amount,
                 after |-> Available(row.bucket), hold |-> r.hold, taken |-> taken]
<1>1. /\ r \in Request /\ r.op = "spend" /\ a \in Accounts /\ r.key \in EntryKeys
      /\ r.amount \in Nat /\ r.at \in Nat /\ r.hold \in HoldKeys \cup {None}
  BY OpenRequest DEF SpendCommit, Open, NamesRows, Request
<1>2. /\ account' = [account EXCEPT ![a] = row]
      /\ FreeKey(r.key)
      /\ entry' = [entry EXCEPT ![r.key] = e]
      /\ hold' = hold
      /\ Covers(fresh, r.amount)
  BY DEF SpendCommit, Post
<1>3. /\ row \in AccountRow /\ row.bucket = Minus(fresh.bucket, taken)
      /\ taken \in Bucket /\ Available(taken) = r.amount
      /\ row.dailyOn = fresh.dailyOn /\ row.periodOn = fresh.periodOn
  BY <1>1, <1>2, TakingMoves
<1>4. row.bucket \in Bucket /\ Available(row.bucket) \in Nat
  BY <1>3 DEF AccountRow, Bucket, Available
<1> HIDE DEF taken, row
<1>5. /\ e \in EntryRow /\ e.kind = "spend" /\ e.account = a /\ e.taken = taken
      /\ -e.amount = Available(e.taken)
  BY <1>1, <1>3, <1>4 DEF EntryRow
<1> HIDE DEF e, a, r, fresh
<1>6. Moves(a, row.bucket, row)
  BY <1>1, <1>2, RowMoves DEF IInv
<1>7. Moves(a, Minus(fresh.bucket, e.taken), fresh)
  BY <1>3, <1>5, <1>6 DEF Moves
<1>8. Spends(a, r.key, e, r.at)
  BY <1>2, <1>3, <1>4, <1>5, <1>7 DEF Spends, Posts, fresh
<1>9. QED
  BY <1>1, <1>5, <1>8 DEF Movement

(* A hold.                                                                 *)
LEMMA HoldMovement ==
  ASSUME IInv, NEW t \in Tx, HoldCommit(t)
  PROVE  Movement
<1> DEFINE r == tx[t]
           a == r.account
           h == r.hold
           n == r.amount
           fresh == RefreshRow(account[a], r.at)
           left == Taken(fresh, n)
           row == [left EXCEPT !.held = @ + n]
           taken == Minus(fresh.bucket, left.bucket)
           new == [status |-> "active", account |-> a, amount |-> n,
                   reserved |-> Minus(fresh.bucket, row.bucket),
                   expiresAt |-> r.expiresAt, raced |-> BeingDeleted(a)]
<1>1. /\ r \in Request /\ a \in Accounts /\ h \in HoldKeys
      /\ n \in Nat /\ r.at \in Nat /\ r.expiresAt \in Nat \cup {Never}
  BY OpenRequest DEF HoldCommit, Open, NamesRows, Request
<1>2. /\ account' = [account EXCEPT ![a] = row]
      /\ hold' = [hold EXCEPT ![h] = new]
      /\ hold[h] = NoHold
      /\ entry' = entry
      /\ Covers(fresh, n)
  BY DEF HoldCommit
<1>3. /\ left \in AccountRow /\ left.bucket = Minus(fresh.bucket, taken)
      /\ taken \in Bucket /\ Available(taken) = n
      /\ left.dailyOn = fresh.dailyOn /\ left.periodOn = fresh.periodOn
  BY <1>1, <1>2, TakingMoves
<1> HIDE DEF left, fresh
<1>4. /\ row.bucket = left.bucket /\ left.bucket \in Bucket
      /\ row.dailyOn = left.dailyOn /\ row.periodOn = left.periodOn
  BY <1>3 DEF AccountRow
<1>5. new.reserved = taken
  BY <1>4
<1> HIDE DEF taken, row
<1>6. /\ new \in HoldRow /\ new.status = "active" /\ new.account = a
      /\ new.amount = Available(new.reserved)
  <2>1. new.reserved \in Bucket /\ Available(new.reserved) = n
    BY <1>3, <1>5
  <2>2. QED
    BY <1>1, <2>1 DEF HoldRow, HoldStatus, BeingDeleted
<1> HIDE DEF new, a, h, n
<1>7. Moves(a, row.bucket, row)
  BY <1>1, <1>2, RowMoves DEF IInv
<1>8. Moves(a, Minus(fresh.bucket, new.reserved), fresh)
  BY <1>3, <1>4, <1>5, <1>7 DEF Moves
<1>9. Reserves(a, h, new, r.at)
  BY <1>2, <1>3, <1>4, <1>5, <1>6, <1>8 DEF Reserves, fresh
<1>10. QED
  BY <1>1, <1>6, <1>9 DEF Movement

(* A settlement, whoever makes it.                                         *)
LEMMA SettleMoves ==
  ASSUME IInv, NEW h \in HoldKeys, NEW s \in HoldStatus \ {"active"}, NEW unused \in Bucket,
         Settle(h, s, unused)
  PROVE  Settles(h, s, unused)
<1> DEFINE a == hold[h].account
           row == ApplyBucketReturn(account[a], unused, hold[h].amount)
<1>1. hold[h].status = "active" /\ hold' = [hold EXCEPT ![h].status = s]
  BY DEF Settle, WinsHold
<1>2. a \in Accounts /\ account[a] \in AccountRow
  BY <1>1 DEF IInv, HoldsOwned, TypeOK
<1>3. account' = [account EXCEPT ![a] = row]
  BY <1>2 DEF Settle, IInv, TypeOK
<1>4. /\ row.bucket = CreditBack(account[a].bucket, unused, Allowance)
      /\ row.dailyOn = account[a].dailyOn /\ row.periodOn = account[a].periodOn
  <2>1. row.dailyOn = account[a].dailyOn /\ row.periodOn = account[a].periodOn
    BY <1>2, WatermarksKept
  <2> DEFINE b == CreditBack(account[a].bucket, unused, Allowance)
  <2>2. row = [account[a] EXCEPT !.bucket = b, !.held = account[a].held - hold[h].amount]
    BY <1>2 DEF ApplyBucketReturn, AccountRow
  <2> HIDE DEF b
  <2>3. row.bucket = b
    BY <1>2, <2>2 DEF AccountRow
  <2>4. QED
    BY <2>1, <2>3 DEF b
<1> HIDE DEF row
<1>5. Moves(a, row.bucket, row)
  BY <1>2, <1>3, RowMoves DEF IInv
<1>6. Moves(a, CreditBack(account[a].bucket, unused, Allowance), account[a])
  BY <1>4, <1>5 DEF Moves
<1>7. QED
  BY <1>1, <1>2, <1>6 DEF Settles

(* A capture.                                                              *)
LEMMA CaptureMovement ==
  ASSUME IInv, NEW t \in Tx, CaptureCommit(t)
  PROVE  Movement
<1> DEFINE r == tx[t]
           h == r.hold
           k == r.key
           reserved == hold[h].reserved
           unused == Unused(reserved, r.amount)
           after == Available(account'[r.account].bucket)
           e == [kind |-> r.op, account |-> r.account, amount |-> -r.amount,
                 after |-> after, hold |-> h, taken |-> Minus(reserved, unused)]
<1>1. /\ r.op = "capture" /\ h \in HoldKeys /\ k \in EntryKeys /\ r.amount \in Nat
      /\ hold[h].status # "none" /\ r.account = hold[h].account /\ r.amount <= hold[h].amount
      /\ hold[h].amount \in Nat
  BY OpenRequest DEF CaptureCommit, Open, NamesRows, IInv, TypeOK, HoldRow
<1>2. reserved \in Bucket /\ r.account \in Accounts
  BY <1>1 DEF IInv, TypeOK, HoldRow, HoldsOwned
<1>3. unused \in Bucket /\ Minus(reserved, unused) \in Bucket
  BY <1>1, <1>2, UnusedBounds
<1>4. /\ Settle(h, "captured", unused)
      /\ FreeKey(k)
      /\ entry' = [entry EXCEPT ![k] = e]
  BY DEF CaptureCommit, Post
<1>5. Settles(h, "captured", unused)
  BY <1>1, <1>3, <1>4, SettleMoves DEF HoldStatus
<1>6. after \in Nat
  <2>1. account'[r.account].bucket \in Bucket
    BY <1>2, CaptureCommitKeeps DEF IInv, TypeOK, AccountRow
  <2>2. QED
    BY <2>1 DEF Bucket, Available
<1> HIDE DEF after, unused
<1>7. /\ e \in EntryRow /\ e.kind = "capture" /\ e.account = hold[h].account
      /\ e.amount = -r.amount /\ e.taken = Minus(reserved, unused)
  BY <1>1, <1>2, <1>3, <1>6 DEF EntryRow
<1>8. -e.amount = r.amount /\ -e.amount \in 0 .. hold[h].amount
  BY <1>1, <1>7
<1> HIDE DEF e
<1>9. Captured(h, unused, k, e)
  BY <1>4, <1>5, <1>7, <1>8 DEF Captured, Posts, unused
<1>10. QED
  BY <1>1, <1>3, <1>7, <1>9 DEF Movement

(* A release or an expiry.                                                 *)
LEMMA ReturnMovement ==
  ASSUME IInv, NEW h \in HoldKeys, NEW s \in {"released", "expired"},
         Settle(h, s, hold[h].reserved), entry' = entry
  PROVE  Movement
<1>1. s \in HoldStatus \ {"active"} /\ hold[h].reserved \in Bucket
  BY DEF HoldStatus, IInv, TypeOK, HoldRow
<1>2. Settles(h, s, hold[h].reserved)
  BY <1>1, SettleMoves
<1>3. QED
  BY <1>1, <1>2 DEF Movement, Returned

(* Every step of the ledger is one of these movements.                     *)
LEMMA StepIsMovement ==
  ASSUME IInv, [Next]_vars
  PROVE  Movement
<1>1. ASSUME UNCHANGED <<account, hold, entry>> PROVE Movement
  BY <1>1, StillIsQuiet
<1>2. ASSUME NEW t \in Tx, Client(t) PROVE Movement
  <2>1. CASE DeleteCommit(t) \/ RestoreCommit(t)
    <3>1. UNCHANGED <<hold, entry>>
      BY <2>1 DEF DeleteCommit, RestoreCommit
    <3>2. \A a \in Accounts : /\ account'[a].bucket = account[a].bucket
                              /\ account'[a].dailyOn = account[a].dailyOn
                              /\ account'[a].periodOn = account[a].periodOn
      BY <2>1 DEF DeleteCommit, RestoreCommit, IInv, TypeOK, AccountRow
    <3>3. QED
      BY <3>1, <3>2, StillIsQuiet
  <2>2. CASE ReleaseCommit(t)
    <3>1. tx[t].hold \in HoldKeys
      BY <2>2, OpenRequest DEF ReleaseCommit, Open, NamesRows
    <3>2. Settle(tx[t].hold, "released", hold[tx[t].hold].reserved) /\ entry' = entry
      BY <2>2 DEF ReleaseCommit
    <3>3. QED
      BY <3>1, <3>2, ReturnMovement
  <2>3. CASE UNCHANGED <<account, hold, entry>>
    BY <1>1, <2>3
  <2>4. CASE GrantCommit(t) \/ SpendCommit(t) \/ ResetCommit(t) \/ HoldCommit(t) \/ CaptureCommit(t)
    BY <2>4, GrantMovement, SpendMovement, ResetMovement, HoldMovement, CaptureMovement
  <2>5. QED
    BY <1>2, <2>1, <2>2, <2>3, <2>4
       DEF Client, FundingRequests, HoldRequests, ReleaseRequests, AccountRequests,
           ResetRequests, Begin, GrantBegin, SpendBegin, ResetBegin, HoldBegin, CaptureBegin,
           ReleaseBegin, DeleteBegin, RestoreBegin, Rollback
<1>3. ASSUME NEW s \in Sweepers, Sweep(s) PROVE Movement
  <2>1. CASE ReclaimCommit(s)
    <3>1. sweep[s].current \in HoldKeys
      BY <2>1 DEF ReclaimCommit, IInv, TypeOK, SweepState
    <3>2. CASE Settle(sweep[s].current, "expired", hold[sweep[s].current].reserved)
      BY <2>1, <3>1, <3>2, ReturnMovement DEF ReclaimCommit
    <3>3. CASE UNCHANGED <<account, hold>>
      BY <1>1, <2>1, <3>3 DEF ReclaimCommit
    <3>4. QED
      BY <2>1, <3>2, <3>3 DEF ReclaimCommit
  <2>2. QED
    BY <1>1, <1>3, <2>1 DEF Sweep, SweepStart, ReclaimBegin, SweepFails
<1>4. ASSUME NEW a \in Accounts, RefreshAllowances(a) PROVE Movement
  <2>1. PICK t \in 0 .. clock : account' = [account EXCEPT ![a] = RefreshRow(account[a], t)]
    BY <1>4 DEF RefreshAllowances
  <2>2. t \in Nat /\ UNCHANGED <<hold, entry>>
    BY <1>4, <2>1 DEF RefreshAllowances, IInv, TypeOK, Time
  <2> DEFINE row == RefreshRow(account[a], t)
  <2>3. account' = [account EXCEPT ![a] = row]
    BY <2>1
  <2> HIDE DEF row
  <2>4. Moves(a, row.bucket, row)
    BY <2>3, RowMoves DEF IInv
  <2>5. QED
    BY <2>2, <2>4 DEF Movement, Refreshes, row
<1>5. ASSUME NEW a \in Accounts, CreateAccount(a) PROVE Movement
  <2>1. \A b \in Accounts : /\ account'[b].bucket = account[b].bucket
                            /\ account'[b].dailyOn = account[b].dailyOn
                            /\ account'[b].periodOn = account[b].periodOn
    BY <1>5 DEF CreateAccount, IInv, TypeOK, AccountRow
  <2>2. QED
    BY <1>5, <2>1, StillIsQuiet DEF CreateAccount
<1>6. QED
  BY <1>1, <1>2, <1>3, <1>4, <1>5 DEF Next, Tick, vars

(* A row that exists and what it may be refreshed to are rows.             *)
LEMMA FreshIsRow ==
  ASSUME IInv, NEW a \in Accounts, NEW t \in Nat
  PROVE  /\ account[a] \in AccountRow /\ account[a].bucket \in Bucket
         /\ RefreshRow(account[a], t) \in AccountRow
         /\ RefreshRow(account[a], t).bucket \in Bucket
<1>1. account[a] \in AccountRow /\ WithinAllowance(account[a])
  BY DEF IInv, TypeOK, BucketsWithinAllowance, WithinAllowance
<1>2. RefreshRow(account[a], t) \in AccountRow
  BY <1>1, RefreshRowKeepsRow
<1>3. QED
  BY <1>1, <1>2 DEF AccountRow

(* Posting adds what the entry took; with no posting the sum stays.        *)
LEMMA SpentMoves ==
  ASSUME IInv, NEW b \in Accounts, NEW c \in BucketNames
  PROVE  /\ entry' = entry => SpentFrom(b, c)' = SpentFrom(b, c)
         /\ \A k \in EntryKeys : \A e : Posts(k, e) /\ e.kind # "none" =>
              SpentFrom(b, c)' = SpentFrom(b, c) + (IF b = e.account THEN e.taken[c] ELSE 0)
         /\ hold' = hold => ReservedOf(b, c)' = ReservedOf(b, c)
<1>1. entry' = entry => SpentFrom(b, c)' = SpentFrom(b, c)
  BY DEF SpentFrom, EntriesOf
<1>2. hold' = hold => ReservedOf(b, c)' = ReservedOf(b, c)
  BY DEF ReservedOf, ActiveHoldsOf
<1>3. ASSUME NEW k \in EntryKeys, NEW e, Posts(k, e), e.kind # "none"
      PROVE SpentFrom(b, c)' = SpentFrom(b, c) + (IF b = e.account THEN e.taken[c] ELSE 0)
  BY <1>3, EntryPosted DEF Posts, IInv
<1>4. QED
  BY <1>1, <1>2, <1>3

(* A settlement keeps the account's credit: what comes back and what the capture took
   make up the reservation, less what the clamp on a time bucket forfeits.  *)
LEMMA SettlementKept ==
  ASSUME IInv, IInv', NEW h \in HoldKeys, NEW s, NEW unused \in Bucket, Settles(h, s, unused),
         NEW b \in Accounts, NEW c \in BucketNames, NEW taken \in Bucket,
         taken = Minus(hold[h].reserved, unused),
         SpentFrom(b, c)' = SpentFrom(b, c)
            + (IF b = hold[h].account THEN taken[c] ELSE 0)
  PROVE  /\ Kept(b, c)' <= Kept(b, c)
         /\ c = "permanent" => Kept(b, c)' = Kept(b, c)
<1> DEFINE a == hold[h].account
           back == CreditBack(account[a].bucket, unused, Allowance)
<1>1. a \in Accounts /\ hold[h].reserved \in Bucket
  BY DEF Settles, IInv, TypeOK, HoldRow
<1>2. account[a].bucket \in Bucket /\ account[b].bucket \in Bucket
  BY <1>1 DEF IInv, TypeOK, AccountRow
<1>3. /\ hold[h].reserved[c] \in Nat /\ unused[c] \in Nat
      /\ taken[c] = hold[h].reserved[c] - unused[c]
  BY <1>1, ByBucket
<1>4. /\ back[c] <= account[a].bucket[c] + unused[c]
      /\ c = "permanent" => back[c] = account[a].bucket[c] + unused[c]
      /\ back[c] \in Nat /\ account[a].bucket[c] \in Nat /\ account[b].bucket[c] \in Nat
  <2>1. Allowance \in Allowances
    BY LedgerAssumption
  <2> DEFINE w == account[a].bucket
  <2>2. w \in Bucket
    BY <1>2
  <2> HIDE DEF w
  <2>3. /\ CreditBack(w, unused, Allowance) \in Bucket
        /\ CreditBack(w, unused, Allowance)[c] <= w[c] + unused[c]
        /\ CreditBack(w, unused, Allowance)["permanent"] = w["permanent"] + unused["permanent"]
    BY <2>1, <2>2, CreditBackAdds
  <2>4. w[c] \in Nat /\ CreditBack(w, unused, Allowance)[c] \in Nat /\ account[b].bucket[c] \in Nat
    BY <1>2, <2>2, <2>3, ByBucket
  <2>5. QED
    BY <2>3, <2>4 DEF w
<1>5. account'[b].bucket = IF b = a THEN back ELSE account[b].bucket
  BY DEF Settles, Moves
<1>6. /\ ReservedOf(b, c)' \in Nat
      /\ ReservedOf(b, c) = ReservedOf(b, c)' + (IF b = a THEN hold[h].reserved[c] ELSE 0)
  BY HoldClosed DEF Settles, IInv
<1>7. SpentFrom(b, c) \in Nat /\ SpentFrom(b, c)' \in Nat
  BY SumsAreNat, SumsStayNat DEF IInv, SumsNat
<1> DEFINE r0 == ReservedOf(b, c) r1 == ReservedOf(b, c)'
           s0 == SpentFrom(b, c) s1 == SpentFrom(b, c)'
<1>8. Kept(b, c) = account[b].bucket[c] + r0 + s0 /\ Kept(b, c)' = account'[b].bucket[c] + r1 + s1
  BY DEF Kept
<1> HIDE DEF r0, r1, s0, s1
<1>9. CASE b = a
  <2>1. r0 = r1 + hold[h].reserved[c] /\ s1 = s0 + taken[c] /\ r1 \in Nat /\ s0 \in Nat
    BY <1>6, <1>7, <1>9 DEF r0, r1, s0, s1
  <2>2. account'[b].bucket[c] = back[c] /\ account[b].bucket[c] = account[a].bucket[c]
    BY <1>5, <1>9
  <2> HIDE DEF back, a
  <2>3. QED
    BY <1>3, <1>4, <1>8, <2>1, <2>2
<1>10. CASE b # a
  <2>1. r0 = r1 /\ s1 = s0 /\ r1 \in Nat /\ s0 \in Nat
    BY <1>6, <1>7, <1>10 DEF r0, r1, s0, s1
  <2>2. account'[b].bucket[c] = account[b].bucket[c]
    BY <1>5, <1>10
  <2> HIDE DEF back, a
  <2>3. QED
    BY <1>4, <1>8, <2>1, <2>2
<1>11. QED
  BY <1>9, <1>10

(* The time credit of an account grows by a refresh alone: by what the refresh put in
   the bucket in place of what it found there.                             *)
LEMMA TimeCreditMoves ==
  ASSUME IInv, IInv', Movement, NEW b \in Accounts, NEW c \in {"daily", "period"}
  PROVE  \E row \in AccountRow :
           /\ row = account[b] \/ \E t \in Nat : row = RefreshRow(account[b], t)
           /\ account'[b].dailyOn = row.dailyOn /\ account'[b].periodOn = row.periodOn
           /\ Kept(b, c)' <= Kept(b, c) - account[b].bucket[c] + row.bucket[c]
<1> DEFINE Same == /\ account'[b].dailyOn = account[b].dailyOn
                   /\ account'[b].periodOn = account[b].periodOn
                   /\ Kept(b, c)' <= Kept(b, c)
<1>1. /\ c \in BucketNames /\ c # "permanent"
      /\ account[b] \in AccountRow /\ account[b].bucket \in Bucket
      /\ account[b].bucket[c] \in Nat
      /\ ReservedOf(b, c) \in Nat /\ SpentFrom(b, c) \in Nat
      /\ Kept(b, c) \in Nat
  BY SumsAreNat DEF BucketNames, IInv, TypeOK, AccountRow, Kept
<1>2. /\ account'[b].bucket[c] \in Nat
      /\ ReservedOf(b, c)' \in Nat /\ SpentFrom(b, c)' \in Nat
      /\ Kept(b, c)' \in Nat
  BY <1>1, SumsStayNat DEF IInv, SumsNat, Kept
<1>3. Same => \E row \in AccountRow :
           /\ row = account[b] \/ \E t \in Nat : row = RefreshRow(account[b], t)
           /\ account'[b].dailyOn = row.dailyOn /\ account'[b].periodOn = row.periodOn
           /\ Kept(b, c)' <= Kept(b, c) - account[b].bucket[c] + row.bucket[c]
  BY <1>1, <1>2
<1>4. CASE Quiet
  BY <1>1, <1>2, <1>3, <1>4, SpentMoves DEF Quiet, Moves, Kept
<1>5. ASSUME NEW a \in Accounts, NEW t \in Nat, Refreshes(a, t)
      PROVE \E row \in AccountRow :
           /\ row = account[b] \/ \E u \in Nat : row = RefreshRow(account[b], u)
           /\ account'[b].dailyOn = row.dailyOn /\ account'[b].periodOn = row.periodOn
           /\ Kept(b, c)' <= Kept(b, c) - account[b].bucket[c] + row.bucket[c]
  <2>1. ReservedOf(b, c)' = ReservedOf(b, c) /\ SpentFrom(b, c)' = SpentFrom(b, c)
    BY <1>1, <1>5, SpentMoves DEF Refreshes
  <2>2. CASE b = a
    <3> DEFINE row == RefreshRow(account[b], t)
    <3>1. row \in AccountRow /\ row.bucket \in Bucket /\ row.bucket[c] \in Nat
      BY <1>1, FreshIsRow, ByBucket
    <3>2. /\ account'[b].bucket = row.bucket
          /\ account'[b].dailyOn = row.dailyOn /\ account'[b].periodOn = row.periodOn
      BY <1>5, <2>2 DEF Refreshes, Moves
    <3>3. \E u \in Nat : row = RefreshRow(account[b], u)
      OBVIOUS
    <3> HIDE DEF row
    <3>4. Kept(b, c)' <= Kept(b, c) - account[b].bucket[c] + row.bucket[c]
      BY <1>1, <2>1, <3>1, <3>2 DEF Kept
    <3>5. QED
      BY <3>1, <3>2, <3>3, <3>4
  <2>3. CASE b # a
    BY <1>1, <1>2, <1>3, <1>5, <2>1, <2>3 DEF Refreshes, Moves, Kept
  <2>4. QED
    BY <2>2, <2>3
<1>6. ASSUME NEW a \in Accounts, NEW k \in EntryKeys, NEW e \in EntryRow,
             Grants(a, k, e) \/ Resets(a, k, e)
      PROVE Same
  <2>1. /\ Posts(k, e) /\ e.kind # "none" /\ e.taken = Empty /\ hold' = hold
        /\ \E n : Moves(a, [account[a].bucket EXCEPT !.permanent = n], account[a])
    BY <1>6 DEF Grants, Resets
  <2>2. SpentFrom(b, c)' = SpentFrom(b, c) /\ ReservedOf(b, c)' = ReservedOf(b, c)
    BY <1>1, <2>1, SpentMoves, ByBucket
  <2>3. account'[b].bucket[c] = account[b].bucket[c]
    BY <1>1, <2>1 DEF Moves, Bucket
  <2>4. QED
    BY <1>1, <2>1, <2>2, <2>3 DEF Moves, Kept
<1>7. ASSUME NEW a \in Accounts, NEW t \in Nat, NEW taken \in Bucket,
             Moves(a, Minus(RefreshRow(account[a], t).bucket, taken), RefreshRow(account[a], t)),
             ReservedOf(b, c)' + SpentFrom(b, c)' =
               ReservedOf(b, c) + SpentFrom(b, c) + (IF b = a THEN taken[c] ELSE 0)
      PROVE \E row \in AccountRow :
           /\ row = account[b] \/ \E u \in Nat : row = RefreshRow(account[b], u)
           /\ account'[b].dailyOn = row.dailyOn /\ account'[b].periodOn = row.periodOn
           /\ Kept(b, c)' <= Kept(b, c) - account[b].bucket[c] + row.bucket[c]
  <2>1. CASE b = a
    <3> DEFINE row == RefreshRow(account[b], t)
    <3>1. row \in AccountRow /\ row.bucket \in Bucket /\ row.bucket[c] \in Nat /\ taken[c] \in Nat
      BY <1>1, FreshIsRow, ByBucket
    <3>2. /\ account'[b].bucket = Minus(row.bucket, taken)
          /\ account'[b].dailyOn = row.dailyOn /\ account'[b].periodOn = row.periodOn
      BY <1>7, <2>1 DEF Moves
    <3>3. \E u \in Nat : row = RefreshRow(account[b], u)
      OBVIOUS
    <3> HIDE DEF row
    <3>4. account'[b].bucket[c] = row.bucket[c] - taken[c]
      BY <1>1, <3>1, <3>2, ByBucket
    <3>5. Kept(b, c)' <= Kept(b, c) - account[b].bucket[c] + row.bucket[c]
      BY <1>1, <1>2, <1>7, <2>1, <3>1, <3>4 DEF Kept
    <3>6. QED
      BY <3>1, <3>2, <3>3, <3>5
  <2>2. CASE b # a
    BY <1>1, <1>2, <1>3, <1>7, <2>2 DEF Moves, Kept
  <2>3. QED
    BY <2>1, <2>2
<1>8. ASSUME NEW a \in Accounts, NEW k \in EntryKeys, NEW e \in EntryRow, NEW t \in Nat,
             Spends(a, k, e, t)
      PROVE /\ Moves(a, Minus(RefreshRow(account[a], t).bucket, e.taken), RefreshRow(account[a], t))
            /\ ReservedOf(b, c)' + SpentFrom(b, c)' =
                 ReservedOf(b, c) + SpentFrom(b, c) + (IF b = a THEN e.taken[c] ELSE 0)
            /\ e.taken \in Bucket
  <2>1. /\ Posts(k, e) /\ e.kind # "none" /\ e.account = a /\ hold' = hold
        /\ Moves(a, Minus(RefreshRow(account[a], t).bucket, e.taken), RefreshRow(account[a], t))
    BY <1>8 DEF Spends
  <2>2. /\ SpentFrom(b, c)' = SpentFrom(b, c) + (IF b = a THEN e.taken[c] ELSE 0)
        /\ ReservedOf(b, c)' = ReservedOf(b, c)
    BY <1>1, <2>1, SpentMoves
  <2>3. e.taken \in Bucket /\ e.taken[c] \in Nat
    BY <1>1, ByBucket DEF EntryRow
  <2>4. QED
    BY <1>1, <2>1, <2>2, <2>3
<1>9. ASSUME NEW a \in Accounts, NEW h \in HoldKeys, NEW new \in HoldRow, NEW t \in Nat,
             Reserves(a, h, new, t)
      PROVE /\ Moves(a, Minus(RefreshRow(account[a], t).bucket, new.reserved), RefreshRow(account[a], t))
            /\ ReservedOf(b, c)' + SpentFrom(b, c)' =
                 ReservedOf(b, c) + SpentFrom(b, c) + (IF b = a THEN new.reserved[c] ELSE 0)
            /\ new.reserved \in Bucket
  <2>1. /\ new.status = "active" /\ new.account = a /\ entry' = entry
        /\ hold[h].status # "active" /\ hold' = [hold EXCEPT ![h] = new]
        /\ Moves(a, Minus(RefreshRow(account[a], t).bucket, new.reserved), RefreshRow(account[a], t))
    BY <1>9 DEF Reserves, NoHold
  <2>2. ReservedOf(b, c)' = ReservedOf(b, c) + (IF b = a THEN new.reserved[c] ELSE 0)
    BY <1>1, <2>1, HoldOpened DEF IInv
  <2>3. SpentFrom(b, c)' = SpentFrom(b, c)
    BY <1>1, <2>1, SpentMoves
  <2>4. new.reserved \in Bucket /\ new.reserved[c] \in Nat
    BY <1>1, ByBucket DEF HoldRow
  <2>5. QED
    BY <1>1, <2>1, <2>2, <2>3, <2>4
<1>10. ASSUME NEW h \in HoldKeys, NEW s, NEW unused \in Bucket, Settles(h, s, unused),
              Kept(b, c)' <= Kept(b, c)
       PROVE  Same
  BY <1>10 DEF Settles, Moves
<1>11. ASSUME NEW h \in HoldKeys, NEW unused \in Bucket, NEW k \in EntryKeys, NEW e \in EntryRow,
              Captured(h, unused, k, e)
       PROVE  Same
  <2>1. /\ Settles(h, "captured", unused)
        /\ Posts(k, e) /\ e.kind # "none" /\ e.account = hold[h].account
        /\ e.taken = Minus(hold[h].reserved, unused)
    BY <1>11 DEF Captured
  <2>2. SpentFrom(b, c)' = SpentFrom(b, c) + (IF b = hold[h].account THEN e.taken[c] ELSE 0)
    BY <1>1, <2>1, SpentMoves
  <2>3. e.taken \in Bucket
    BY DEF EntryRow
  <2>4. Kept(b, c)' <= Kept(b, c)
    BY <1>1, <2>1, <2>2, <2>3, SettlementKept
  <2>5. QED
    BY <1>10, <2>1, <2>4
<1>12. ASSUME NEW h \in HoldKeys, NEW s \in HoldStatus, Returned(h, s)
       PROVE  Same
  <2>1. Settles(h, s, hold[h].reserved) /\ entry' = entry /\ hold[h].reserved \in Bucket
    BY <1>12 DEF Returned, IInv, TypeOK, HoldRow
  <2> DEFINE taken == Minus(hold[h].reserved, hold[h].reserved)
  <2>2. taken = Empty /\ taken \in Bucket
    BY <2>1 DEF Minus, Empty, Bucket
  <2>3. SpentFrom(b, c)' = SpentFrom(b, c) + (IF b = hold[h].account THEN taken[c] ELSE 0)
    BY <1>1, <2>1, <2>2, SpentMoves, ByBucket
  <2> HIDE DEF taken
  <2>4. Kept(b, c)' <= Kept(b, c)
    BY <1>1, <2>1, <2>2, <2>3, SettlementKept DEF taken
  <2>5. QED
    BY <1>10, <2>1, <2>4
<1> HIDE DEF Same
<1>13. QED
  BY <1>3, <1>4, <1>5, <1>6, <1>7, <1>8, <1>9, <1>11, <1>12 DEF Movement

-----------------------------------------------------------------------------
(* Time credit.                                                            *)

(* A watermark moved on by one boundary at least pays for one allowance.   *)
LEMMA MintBound ==
  ASSUME NEW A \in Nat, NEW on \in Boundary, NEW on2 \in Boundary,
         NEW kept \in Nat, NEW kept2 \in Nat, NEW b \in Nat, NEW f \in Nat,
         kept <= A * (on + 1), kept2 <= kept - b + f,
         (f = b /\ on2 = on) \/ (f = A /\ on2 > on)
  PROVE  kept2 <= A * (on2 + 1)
<1> DEFINE x == on + 1 y == on2 + 1
<1>1. x \in Nat /\ y \in Nat
  BY DEF Boundary, NeverReset
<1>2. kept <= A * x
  OBVIOUS
<1>3. CASE f = b /\ on2 = on
  <2>1. kept2 <= kept /\ y = x
    BY <1>3
  <2> HIDE DEF x, y
  <2>2. A * x \in Nat
    BY <1>1
  <2>3. QED
    BY <1>2, <2>1, <2>2 DEF y
<1>4. CASE f = A /\ on2 > on
  <2>1. x < y
    BY <1>4 DEF Boundary, NeverReset
  <2> HIDE DEF x, y
  <2>2. A * x + A <= A * y
    BY <1>1, <2>1
  <2>3. A * x \in Nat /\ A * y \in Nat
    BY <1>1
  <2>4. kept2 <= kept + A
    BY <1>4
  <2>5. QED
    BY <1>2, <2>2, <2>3, <2>4 DEF y
<1>5. QED
  BY <1>3, <1>4

(* TimeCreditNotMinted, bucket by bucket.                                  *)
NotMinted ==
  \A a \in Accounts : /\ Kept(a, "daily") <= Allowance.daily * (account[a].dailyOn + 1)
                      /\ Kept(a, "period") <= Allowance.period * (account[a].periodOn + 1)

(* It says the same.                                                       *)
LEMMA NotMintedSays == TypeOK => (NotMinted <=> TimeCreditNotMinted)
BY DEF NotMinted, TimeCreditNotMinted, Kept, ReservedOf, SpentFrom, TypeOK, AccountRow,
       HoldRow, EntryRow, Bucket

(* No account starts with time credit.                                     *)
LEMMA NothingAtFirst ==
  ASSUME Init, NEW a \in Accounts, NEW c \in BucketNames
  PROVE  /\ ReservedOf(a, c) = 0 /\ SpentFrom(a, c) = 0
         /\ c # "permanent" => account[a].bucket[c] = 0
         /\ account[a].bucket["permanent"] = IF a \in Opened THEN Opening ELSE 0
         /\ account[a].dailyOn = NeverReset /\ account[a].periodOn = NeverReset
         /\ EntriesOf(a) = {}
<1>1. ActiveHoldsOf(a) = {} /\ EntriesOf(a) = {}
  BY DEF Init, ActiveHoldsOf, EntriesOf, NoHold, NoEntry
<1>2. ReservedOf(a, c) = 0 /\ SpentFrom(a, c) = 0
  BY <1>1, TotalOfNone DEF ReservedOf, SpentFrom
<1> DEFINE open == [NoAccount EXCEPT !.state = "active", !.bucket.permanent = Opening]
<1>3. account[a] = IF a \in Opened THEN open ELSE NoAccount
  BY DEF Init
<1>4. /\ open.bucket = [daily |-> 0, period |-> 0, permanent |-> Opening]
      /\ open.dailyOn = NeverReset /\ open.periodOn = NeverReset
      /\ NoAccount.bucket = [daily |-> 0, period |-> 0, permanent |-> 0]
      /\ NoAccount.dailyOn = NeverReset /\ NoAccount.periodOn = NeverReset
  BY DEF NoAccount, Empty
<1> HIDE DEF open
<1>5. QED
  BY <1>1, <1>2, <1>3, <1>4 DEF BucketNames

(* A step mints no time credit.                                            *)
LEMMA NotMintedKept ==
  ASSUME IInv, IInv', Movement, NotMinted
  PROVE  NotMinted'
<1> SUFFICES ASSUME NEW a \in Accounts
             PROVE  /\ Kept(a, "daily")' <= Allowance.daily * (account'[a].dailyOn + 1)
                    /\ Kept(a, "period")' <= Allowance.period * (account'[a].periodOn + 1)
  BY DEF NotMinted
<1>1. /\ Allowance.daily \in Nat /\ Allowance.period \in Nat
      /\ account[a] \in AccountRow /\ account'[a] \in AccountRow
  BY LedgerAssumption DEF Allowances, IInv, TypeOK
<1>2. \A c \in BucketNames : /\ Kept(a, c) \in Nat /\ Kept(a, c)' \in Nat
                             /\ account[a].bucket[c] \in Nat
  BY SumsAreNat, SumsStayNat DEF SumsNat, IInv, Kept
<1>3. Kept(a, "daily")' <= Allowance.daily * (account'[a].dailyOn + 1)
  <2>1. PICK row \in AccountRow :
           /\ row = account[a] \/ \E t \in Nat : row = RefreshRow(account[a], t)
           /\ account'[a].dailyOn = row.dailyOn
           /\ Kept(a, "daily")' <= Kept(a, "daily") - account[a].bucket["daily"] + row.bucket["daily"]
    BY TimeCreditMoves
  <2>2. \/ row.bucket["daily"] = account[a].bucket["daily"] /\ row.dailyOn = account[a].dailyOn
        \/ row.bucket["daily"] = Allowance.daily /\ row.dailyOn > account[a].dailyOn
    BY <1>1, <2>1, RefreshRowMoves
  <2>3. row.bucket["daily"] \in Nat /\ row.dailyOn \in Boundary /\ account[a].dailyOn \in Boundary
    BY <1>1 DEF AccountRow, Bucket
  <2>4. Kept(a, "daily") <= Allowance.daily * (account[a].dailyOn + 1)
    BY DEF NotMinted
  <2>5. Kept(a, "daily")' <= Allowance.daily * (row.dailyOn + 1)
    <3> DEFINE k0 == Kept(a, "daily") k1 == Kept(a, "daily")'
               b == account[a].bucket["daily"] f == row.bucket["daily"]
    <3>1. k0 \in Nat /\ k1 \in Nat /\ b \in Nat /\ f \in Nat
      BY <1>2, <2>3 DEF BucketNames
    <3>2. k1 <= k0 - b + f /\ k0 <= Allowance.daily * (account[a].dailyOn + 1)
      BY <2>1, <2>4
    <3>3. \/ f = b /\ row.dailyOn = account[a].dailyOn
          \/ f = Allowance.daily /\ row.dailyOn > account[a].dailyOn
      BY <2>2
    <3> HIDE DEF k0, k1, b, f
    <3>4. k1 <= Allowance.daily * (row.dailyOn + 1)
      BY <1>1, <2>3, <3>1, <3>2, <3>3, MintBound
    <3>5. QED
      BY <3>4 DEF k1
  <2>6. QED
    BY <2>1, <2>5
<1>4. Kept(a, "period")' <= Allowance.period * (account'[a].periodOn + 1)
  <2>1. PICK row \in AccountRow :
           /\ row = account[a] \/ \E t \in Nat : row = RefreshRow(account[a], t)
           /\ account'[a].periodOn = row.periodOn
           /\ Kept(a, "period")' <= Kept(a, "period") - account[a].bucket["period"] + row.bucket["period"]
    BY TimeCreditMoves
  <2>2. \/ row.bucket["period"] = account[a].bucket["period"] /\ row.periodOn = account[a].periodOn
        \/ row.bucket["period"] = Allowance.period /\ row.periodOn > account[a].periodOn
    BY <1>1, <2>1, RefreshRowMoves
  <2>3. row.bucket["period"] \in Nat /\ row.periodOn \in Boundary /\ account[a].periodOn \in Boundary
    BY <1>1 DEF AccountRow, Bucket
  <2>4. Kept(a, "period") <= Allowance.period * (account[a].periodOn + 1)
    BY DEF NotMinted
  <2>5. Kept(a, "period")' <= Allowance.period * (row.periodOn + 1)
    <3> DEFINE k0 == Kept(a, "period") k1 == Kept(a, "period")'
               b == account[a].bucket["period"] f == row.bucket["period"]
    <3>1. k0 \in Nat /\ k1 \in Nat /\ b \in Nat /\ f \in Nat
      BY <1>2, <2>3 DEF BucketNames
    <3>2. k1 <= k0 - b + f /\ k0 <= Allowance.period * (account[a].periodOn + 1)
      BY <2>1, <2>4
    <3>3. \/ f = b /\ row.periodOn = account[a].periodOn
          \/ f = Allowance.period /\ row.periodOn > account[a].periodOn
      BY <2>2
    <3> HIDE DEF k0, k1, b, f
    <3>4. k1 <= Allowance.period * (row.periodOn + 1)
      BY <1>1, <2>3, <3>1, <3>2, <3>3, MintBound
    <3>5. QED
      BY <3>4 DEF k1
  <2>6. QED
    BY <2>1, <2>5
<1>5. QED
  BY <1>3, <1>4

(* Time credit is never minted, for any allowance, calendar and number of racing
   requests: what an account has, has reserved and has spent of a time bucket never
   exceeds one allowance per boundary its watermark has reached.           *)
THEOREM TimeCreditIsNotMinted == Spec => []TimeCreditNotMinted
<1>1. Init => NotMinted
  <2> SUFFICES ASSUME Init, NEW a \in Accounts
               PROVE  /\ Kept(a, "daily") <= Allowance.daily * (account[a].dailyOn + 1)
                      /\ Kept(a, "period") <= Allowance.period * (account[a].periodOn + 1)
    BY DEF NotMinted
  <2>1. Kept(a, "daily") = 0 /\ Kept(a, "period") = 0
    BY NothingAtFirst DEF Kept, BucketNames
  <2>2. account[a].dailyOn + 1 = 0 /\ account[a].periodOn + 1 = 0
    BY NothingAtFirst DEF BucketNames, NeverReset
  <2>3. Allowance.daily \in Nat /\ Allowance.period \in Nat
    BY LedgerAssumption DEF Allowances
  <2>4. QED
    BY <2>1, <2>2, <2>3
<1>2. IInv /\ IInv' /\ NotMinted /\ [Next]_vars => NotMinted'
  BY StepIsMovement, NotMintedKept
<1>3. IInv /\ NotMinted => TimeCreditNotMinted
  BY NotMintedSays DEF IInv
<1>4. QED
  BY <1>1, <1>2, <1>3, Invariant, PTL DEF Spec

-----------------------------------------------------------------------------
(* What the ledger charges.                                                *)

(* A hold reserved exactly its amount.                                     *)
HoldsReserve ==
  \A h \in HoldKeys : hold[h].status # "none" => Available(hold[h].reserved) = hold[h].amount

(* What an entry charges left the buckets, and a hold set aside its amount.  *)
LEMMA ChargesKept ==
  ASSUME IInv, Movement, HoldsReserve, DebitsAreCharged
  PROVE  HoldsReserve' /\ DebitsAreCharged'
<1>1. hold' = hold => HoldsReserve'
  BY DEF HoldsReserve
<1>2. entry' = entry => DebitsAreCharged'
  BY DEF DebitsAreCharged
<1>3. ASSUME NEW k \in EntryKeys, NEW e, Posts(k, e),
             e.kind \in {"spend", "capture"} => -e.amount = Available(e.taken)
      PROVE  DebitsAreCharged'
  <2>1. \A j \in EntryKeys : entry'[j] = IF j = k THEN e ELSE entry[j]
    BY <1>3 DEF Posts, IInv, TypeOK
  <2>2. QED
    BY <1>3, <2>1 DEF DebitsAreCharged
<1>4. ASSUME NEW h \in HoldKeys, NEW s, NEW unused, Settles(h, s, unused)
      PROVE  HoldsReserve'
  <2>1. \A g \in HoldKeys : /\ hold'[g].reserved = hold[g].reserved
                            /\ hold'[g].amount = hold[g].amount
                            /\ g # h => hold'[g].status = hold[g].status
    BY <1>4 DEF Settles, IInv, TypeOK, HoldRow
  <2>2. hold[h].status # "none"
    BY <1>4 DEF Settles
  <2>3. QED
    BY <2>1, <2>2 DEF HoldsReserve
<1>5. CASE Quiet \/ \E a \in Accounts, t \in Nat : Refreshes(a, t)
  BY <1>1, <1>2, <1>5 DEF Quiet, Refreshes
<1>6. ASSUME NEW a \in Accounts, NEW k \in EntryKeys, NEW e \in EntryRow,
             Grants(a, k, e) \/ Resets(a, k, e)
      PROVE  HoldsReserve' /\ DebitsAreCharged'
  BY <1>1, <1>3, <1>6 DEF Grants, Resets
<1>7. ASSUME NEW a \in Accounts, NEW k \in EntryKeys, NEW e \in EntryRow, NEW t \in Nat,
             Spends(a, k, e, t)
      PROVE  HoldsReserve' /\ DebitsAreCharged'
  BY <1>1, <1>3, <1>7 DEF Spends
<1>8. ASSUME NEW a \in Accounts, NEW h \in HoldKeys, NEW new \in HoldRow, NEW t \in Nat,
             Reserves(a, h, new, t)
      PROVE  HoldsReserve' /\ DebitsAreCharged'
  <2>1. \A g \in HoldKeys : hold'[g] = IF g = h THEN new ELSE hold[g]
    BY <1>8 DEF Reserves, IInv, TypeOK
  <2>2. new.amount = Available(new.reserved) /\ entry' = entry
    BY <1>8 DEF Reserves
  <2>3. QED
    BY <1>2, <2>1, <2>2 DEF HoldsReserve
<1>9. ASSUME NEW h \in HoldKeys, NEW unused \in Bucket, NEW k \in EntryKeys, NEW e \in EntryRow,
             Captured(h, unused, k, e)
      PROVE  HoldsReserve' /\ DebitsAreCharged'
  <2> DEFINE n == -e.amount
  <2>1. /\ Settles(h, "captured", unused) /\ Posts(k, e)
        /\ n \in 0 .. hold[h].amount
        /\ unused = Unused(hold[h].reserved, n)
        /\ e.taken = Minus(hold[h].reserved, unused)
    BY <1>9 DEF Captured
  <2>2. /\ hold[h].reserved \in Bucket /\ hold[h].amount \in Nat
        /\ Available(hold[h].reserved) = hold[h].amount
    BY <2>1 DEF Settles, HoldsReserve, IInv, TypeOK, HoldRow
  <2>3. n \in Nat /\ n <= Available(hold[h].reserved)
    BY <2>1, <2>2
  <2> HIDE DEF n
  <2>4. n = Available(e.taken)
    BY <2>1, <2>2, <2>3, UnusedBounds
  <2>5. QED
    BY <1>3, <1>4, <2>1, <2>4 DEF n
<1>10. ASSUME NEW h \in HoldKeys, NEW s \in HoldStatus, Returned(h, s)
       PROVE  HoldsReserve' /\ DebitsAreCharged'
  BY <1>2, <1>4, <1>10 DEF Returned
<1>11. QED
  BY <1>5, <1>6, <1>7, <1>8, <1>9, <1>10 DEF Movement

(* What a spend or a capture charges is what left the buckets, for any amounts and
   any split of the reservation.                                           *)
THEOREM ChargesLeftTheBuckets == Spec => []DebitsAreCharged
<1>1. Init => HoldsReserve /\ DebitsAreCharged
  BY DEF Init, HoldsReserve, DebitsAreCharged, NoHold, NoEntry
<1>2. IInv /\ HoldsReserve /\ DebitsAreCharged /\ [Next]_vars => HoldsReserve' /\ DebitsAreCharged'
  BY StepIsMovement, ChargesKept
<1>3. QED
  BY <1>1, <1>2, Invariant, PTL DEF Spec

-----------------------------------------------------------------------------
(* Permanent credit.                                                       *)

(* What grants added to an account, when no reset has been posted.         *)
NoResets == \A k \in EntryKeys : entry[k].kind # "reset"
Funded(a) == Total([k \in Credits(a) |-> entry[k].amount])

(* The amounts of an account's grants are summable.                        *)
LEMMA CreditsSummable ==
  ASSUME TypeOK, NEW a \in Accounts
  PROVE  /\ IsFiniteSet(Credits(a)) /\ Credits(a) \subseteq EntryKeys
         /\ [k \in Credits(a) |-> entry[k].amount] \in [Credits(a) -> Nat]
         /\ Funded(a) \in Nat
<1>1. Credits(a) \in SUBSET EntryKeys
  BY DEF Credits, EntriesOf
<1>2. IsFiniteSet(Credits(a))
  BY <1>1, LedgerAssumption, FS_Subset
<1>3. \A k \in Credits(a) : entry[k].amount \in Nat
  BY <1>1 DEF Credits, TypeOK, EntryRow
<1>4. [k \in Credits(a) |-> entry[k].amount] \in [Credits(a) -> Nat]
  BY <1>3
<1>5. Funded(a) \in Nat
  BY <1>2, <1>4, TotalIsNat DEF Funded
<1>6. QED
  BY <1>1, <1>2, <1>4, <1>5

FundedNat == \A a \in Accounts : Funded(a) \in Nat

(* And they stay so after a step.                                          *)
LEMMA FundedStaysNat == TypeOK' => FundedNat'
<1>1. TypeOK => FundedNat
  BY CreditsSummable DEF FundedNat
<1>2. QED
  BY <1>1, PTL

(* A posted grant adds its amount, a posted debit nothing.                 *)
LEMMA FundedMoves ==
  ASSUME TypeOK, NEW b \in Accounts
  PROVE  /\ entry' = entry => Funded(b)' = Funded(b)
         /\ \A k \in EntryKeys : \A e :
              Posts(k, e) /\ e.kind \in {"spend", "capture"} => Funded(b)' = Funded(b)
         /\ \A k \in EntryKeys : \A e :
              Posts(k, e) /\ e.kind = "grant" /\ e.amount \in Nat \ {0} =>
                Funded(b)' = Funded(b) + (IF b = e.account THEN e.amount ELSE 0)
<1>1. entry' = entry => Funded(b)' = Funded(b)
  BY DEF Funded, Credits, EntriesOf
<1> DEFINE D == Credits(b)
           f == [j \in D |-> entry[j].amount]
<1>2. /\ IsFiniteSet(D) /\ D \subseteq EntryKeys /\ f \in [D -> Nat]
      /\ Funded(b) \in Nat /\ Funded(b) = Total(f)
  BY CreditsSummable DEF Funded
<1>3. ASSUME NEW k \in EntryKeys, NEW e, Posts(k, e)
      PROVE  /\ \A j \in EntryKeys : entry'[j] = IF j = k THEN e ELSE entry[j]
             /\ k \notin D
             /\ \A j \in D : entry'[j] = entry[j]
  BY <1>2, <1>3 DEF Posts, TypeOK, FreeKey, NoEntry, Credits, EntriesOf
<1>4. ASSUME NEW k \in EntryKeys, NEW e, Posts(k, e),
             \/ e.kind \in {"spend", "capture"}
             \/ b # e.account
      PROVE  Funded(b)' = Funded(b)
  <2>1. D' = D
    BY <1>3, <1>4 DEF Credits, EntriesOf, Posts, FreeKey, NoEntry
  <2>2. \A j \in D : entry'[j].amount = entry[j].amount
    BY <1>3, <1>4
  <2>3. QED
    BY <2>1, <2>2 DEF Funded
<1>5. ASSUME NEW k \in EntryKeys, NEW e, Posts(k, e), e.kind = "grant", e.amount \in Nat \ {0},
             b = e.account
      PROVE  Funded(b)' = Funded(b) + e.amount
  <2>1. e.amount > 0 /\ e.amount \in Nat
    BY <1>5
  <2>2. D' = D \cup {k}
    BY <1>3, <1>5, <2>1 DEF Credits, EntriesOf
  <2> DEFINE g == [j \in D \cup {k} |-> entry'[j].amount]
  <2>3. Funded(b)' = Total(g)
    BY <2>2 DEF Funded
  <2>4. g[k] = e.amount /\ k \notin D
    BY <1>3, <1>5
  <2>5. g \in [D \cup {k} -> Nat]
    BY <1>2, <1>3, <1>5, <2>1
  <2>6. [j \in D |-> g[j]] = f
    BY <1>3, <1>5
  <2> HIDE DEF g, D, f
  <2>7. Total(g) = Total([j \in D |-> g[j]]) + g[k]
    BY <1>2, <2>4, <2>5, TotalWith
  <2>8. QED
    BY <1>2, <2>3, <2>4, <2>6, <2>7
<1>6. ASSUME NEW k \in EntryKeys, NEW e, Posts(k, e), e.kind = "grant", e.amount \in Nat \ {0}
      PROVE  Funded(b)' = Funded(b) + (IF b = e.account THEN e.amount ELSE 0)
  BY <1>2, <1>4, <1>5, <1>6
<1>7. QED
  BY <1>1, <1>4, <1>6

(* The permanent credit of an account moves with its grants alone.         *)
LEMMA PaidMoves ==
  ASSUME IInv, IInv', Movement, "reset" \notin Ops, NEW b \in Accounts
  PROVE  Kept(b, "permanent")' + Funded(b) = Kept(b, "permanent") + Funded(b)'
<1> DEFINE c == "permanent"
<1>1. /\ c \in BucketNames
      /\ account[b].bucket \in Bucket /\ account[b].bucket[c] \in Nat
      /\ ReservedOf(b, c) \in Nat /\ SpentFrom(b, c) \in Nat
      /\ Kept(b, c) \in Nat /\ Funded(b) \in Nat
  BY SumsAreNat, CreditsSummable DEF BucketNames, IInv, TypeOK, AccountRow, Kept
<1>2. /\ account'[b].bucket[c] \in Nat
      /\ ReservedOf(b, c)' \in Nat /\ SpentFrom(b, c)' \in Nat
  BY <1>1, SumsStayNat DEF IInv, SumsNat
<1> HIDE DEF c
<1> SUFFICES Kept(b, c)' + Funded(b) = Kept(b, c) + Funded(b)'
  BY DEF c
<1>3. ASSUME Kept(b, c)' = Kept(b, c), Funded(b)' = Funded(b)
      PROVE  Kept(b, c)' + Funded(b) = Kept(b, c) + Funded(b)'
  BY <1>1, <1>3
<1>4. CASE Quiet
  <2>1. Funded(b)' = Funded(b)
    BY <1>4, FundedMoves DEF Quiet, IInv
  <2>2. Kept(b, c)' = Kept(b, c)
    BY <1>1, <1>4, SpentMoves DEF Quiet, Moves, Kept
  <2>3. QED
    BY <1>3, <2>1, <2>2
<1>5. ASSUME NEW a \in Accounts, NEW t \in Nat, NEW taken \in Bucket,
             Moves(a, Minus(RefreshRow(account[a], t).bucket, taken), RefreshRow(account[a], t)),
             ReservedOf(b, c)' + SpentFrom(b, c)' =
               ReservedOf(b, c) + SpentFrom(b, c) + (IF b = a THEN taken[c] ELSE 0)
      PROVE  Kept(b, c)' = Kept(b, c)
  <2>1. CASE b = a
    <3> DEFINE row == RefreshRow(account[b], t)
    <3>1. row \in AccountRow /\ row.bucket \in Bucket /\ taken[c] \in Nat
      BY <1>1, FreshIsRow, ByBucket
    <3>2. account[b] \in AccountRow
      BY DEF IInv, TypeOK
    <3>3. row.bucket[c] = account[b].bucket[c]
      BY <3>2, RefreshRowMoves DEF c
    <3>4. account'[b].bucket = Minus(row.bucket, taken)
      BY <1>5, <2>1 DEF Moves
    <3> HIDE DEF row
    <3>5. account'[b].bucket[c] = row.bucket[c] - taken[c]
      BY <1>1, <3>1, <3>4, ByBucket
    <3>6. QED
      BY <1>1, <1>2, <1>5, <2>1, <3>1, <3>3, <3>5 DEF Kept
  <2>2. CASE b # a
    BY <1>1, <1>2, <1>5, <2>2 DEF Moves, Kept
  <2>3. QED
    BY <2>1, <2>2
<1>6. ASSUME NEW a \in Accounts, NEW t \in Nat, Refreshes(a, t)
      PROVE  Kept(b, c)' = Kept(b, c) /\ Funded(b)' = Funded(b)
  <2>1. RefreshRow(account[a], t).bucket \in Bucket
    BY FreshIsRow
  <2>2. Empty \in Bucket /\ Minus(RefreshRow(account[a], t).bucket, Empty) = RefreshRow(account[a], t).bucket
    BY <2>1 DEF Minus, Empty, Bucket
  <2>3. Moves(a, Minus(RefreshRow(account[a], t).bucket, Empty), RefreshRow(account[a], t))
    BY <1>6, <2>2 DEF Refreshes
  <2>4. ReservedOf(b, c)' + SpentFrom(b, c)' =
          ReservedOf(b, c) + SpentFrom(b, c) + (IF b = a THEN Empty[c] ELSE 0)
    <3>1. ReservedOf(b, c)' = ReservedOf(b, c) /\ SpentFrom(b, c)' = SpentFrom(b, c)
      BY <1>1, <1>6, SpentMoves DEF Refreshes
    <3>2. Empty[c] = 0
      BY <1>1, <2>2, ByBucket
    <3>3. QED
      BY <1>1, <3>1, <3>2
  <2>5. Kept(b, c)' = Kept(b, c)
    BY <1>5, <2>2, <2>3, <2>4
  <2>6. Funded(b)' = Funded(b)
    BY <1>6, FundedMoves DEF Refreshes, IInv
  <2>7. QED
    BY <2>5, <2>6
<1>7. ASSUME NEW a \in Accounts, NEW k \in EntryKeys, NEW e \in EntryRow, Grants(a, k, e)
      PROVE  Kept(b, c)' + Funded(b) = Kept(b, c) + Funded(b)'
  <2>1. /\ Posts(k, e) /\ e.kind = "grant" /\ e.taken = Empty /\ hold' = hold
        /\ e.account = a /\ e.amount \in Nat \ {0}
        /\ Moves(a, [account[a].bucket EXCEPT !.permanent = @ + e.amount], account[a])
    BY <1>7 DEF Grants
  <2>2. SpentFrom(b, c)' = SpentFrom(b, c) /\ ReservedOf(b, c)' = ReservedOf(b, c)
    BY <1>1, <2>1, SpentMoves, ByBucket
  <2>3. account'[b].bucket[c] = account[b].bucket[c] + (IF b = a THEN e.amount ELSE 0)
    BY <1>1, <2>1 DEF Moves, Bucket, c
  <2>4. Funded(b)' = Funded(b) + (IF b = a THEN e.amount ELSE 0)
    BY <2>1, FundedMoves DEF IInv
  <2>5. QED
    BY <1>1, <2>1, <2>2, <2>3, <2>4 DEF Kept
<1>8. ASSUME NEW a \in Accounts, NEW k \in EntryKeys, NEW e \in EntryRow, Resets(a, k, e)
      PROVE  FALSE
  BY <1>8 DEF Resets
<1>9. ASSUME NEW a \in Accounts, NEW k \in EntryKeys, NEW e \in EntryRow, NEW t \in Nat,
             Spends(a, k, e, t)
      PROVE  Kept(b, c)' = Kept(b, c) /\ Funded(b)' = Funded(b)
  <2>1. /\ Posts(k, e) /\ e.kind = "spend" /\ e.account = a /\ hold' = hold
        /\ Moves(a, Minus(RefreshRow(account[a], t).bucket, e.taken), RefreshRow(account[a], t))
    BY <1>9 DEF Spends
  <2>2. /\ SpentFrom(b, c)' = SpentFrom(b, c) + (IF b = a THEN e.taken[c] ELSE 0)
        /\ ReservedOf(b, c)' = ReservedOf(b, c)
    BY <1>1, <2>1, SpentMoves
  <2>3. e.taken \in Bucket /\ e.taken[c] \in Nat
    BY <1>1, ByBucket DEF EntryRow
  <2>4. ReservedOf(b, c)' + SpentFrom(b, c)' =
          ReservedOf(b, c) + SpentFrom(b, c) + (IF b = a THEN e.taken[c] ELSE 0)
    BY <1>1, <2>2, <2>3
  <2>5. Kept(b, c)' = Kept(b, c)
    BY <1>5, <2>1, <2>3, <2>4
  <2>6. Funded(b)' = Funded(b)
    BY <2>1, FundedMoves DEF IInv
  <2>7. QED
    BY <2>5, <2>6
<1>10. ASSUME NEW a \in Accounts, NEW h \in HoldKeys, NEW new \in HoldRow, NEW t \in Nat,
              Reserves(a, h, new, t)
       PROVE  Kept(b, c)' = Kept(b, c) /\ Funded(b)' = Funded(b)
  <2>1. /\ new.status = "active" /\ new.account = a /\ entry' = entry
        /\ hold[h].status # "active" /\ hold' = [hold EXCEPT ![h] = new]
        /\ Moves(a, Minus(RefreshRow(account[a], t).bucket, new.reserved), RefreshRow(account[a], t))
    BY <1>10 DEF Reserves, NoHold
  <2>2. ReservedOf(b, c)' = ReservedOf(b, c) + (IF b = a THEN new.reserved[c] ELSE 0)
    BY <1>1, <2>1, HoldOpened DEF IInv
  <2>3. SpentFrom(b, c)' = SpentFrom(b, c)
    BY <1>1, <2>1, SpentMoves
  <2>4. new.reserved \in Bucket /\ new.reserved[c] \in Nat
    BY <1>1, ByBucket DEF HoldRow
  <2>5. ReservedOf(b, c)' + SpentFrom(b, c)' =
          ReservedOf(b, c) + SpentFrom(b, c) + (IF b = a THEN new.reserved[c] ELSE 0)
    BY <1>1, <2>2, <2>3, <2>4
  <2>6. Kept(b, c)' = Kept(b, c)
    BY <1>5, <2>1, <2>4, <2>5
  <2>7. Funded(b)' = Funded(b)
    BY <2>1, FundedMoves DEF IInv
  <2>8. QED
    BY <2>6, <2>7
<1>11. ASSUME NEW h \in HoldKeys, NEW unused \in Bucket, NEW k \in EntryKeys, NEW e \in EntryRow,
              Captured(h, unused, k, e)
       PROVE  Kept(b, c)' = Kept(b, c) /\ Funded(b)' = Funded(b)
  <2>1. /\ Settles(h, "captured", unused)
        /\ Posts(k, e) /\ e.kind = "capture" /\ e.account = hold[h].account
        /\ e.taken = Minus(hold[h].reserved, unused)
    BY <1>11 DEF Captured
  <2>2. SpentFrom(b, c)' = SpentFrom(b, c) + (IF b = hold[h].account THEN e.taken[c] ELSE 0)
    BY <1>1, <2>1, SpentMoves
  <2>3. e.taken \in Bucket
    BY DEF EntryRow
  <2>4. Kept(b, c)' = Kept(b, c)
    BY <1>1, <2>1, <2>2, <2>3, SettlementKept DEF c
  <2>5. Funded(b)' = Funded(b)
    BY <2>1, FundedMoves DEF IInv
  <2>6. QED
    BY <2>4, <2>5
<1>12. ASSUME NEW h \in HoldKeys, NEW s \in HoldStatus, Returned(h, s)
       PROVE  Kept(b, c)' = Kept(b, c) /\ Funded(b)' = Funded(b)
  <2>1. Settles(h, s, hold[h].reserved) /\ entry' = entry /\ hold[h].reserved \in Bucket
    BY <1>12 DEF Returned, IInv, TypeOK, HoldRow
  <2> DEFINE taken == Minus(hold[h].reserved, hold[h].reserved)
  <2>2. taken = Empty /\ taken \in Bucket
    BY <2>1 DEF Minus, Empty, Bucket
  <2>3. SpentFrom(b, c)' = SpentFrom(b, c) + (IF b = hold[h].account THEN taken[c] ELSE 0)
    BY <1>1, <2>1, <2>2, SpentMoves, ByBucket
  <2> HIDE DEF taken
  <2>4. Kept(b, c)' = Kept(b, c)
    BY <1>1, <2>1, <2>2, <2>3, SettlementKept DEF taken, c
  <2>5. Funded(b)' = Funded(b)
    BY <2>1, FundedMoves DEF IInv
  <2>6. QED
    BY <2>4, <2>5
<1>13. QED
  BY <1>3, <1>4, <1>6, <1>7, <1>8, <1>9, <1>10, <1>11, <1>12 DEF Movement

(* Without resets what an account has, has reserved and has spent of its permanent
   credit is what it opened with and what grants added.                    *)
Explained ==
  /\ NoResets
  /\ \A a \in Accounts :
       Kept(a, "permanent") = (IF a \in Opened THEN Opening ELSE 0) + Funded(a)

(* No entry is a reset when no client resets.                              *)
LEMMA NoResetsKept ==
  ASSUME IInv, Movement, "reset" \notin Ops, NoResets
  PROVE  NoResets'
<1>1. ASSUME NEW k \in EntryKeys, NEW e, Posts(k, e), e.kind # "reset" PROVE NoResets'
  BY <1>1 DEF Posts, NoResets, IInv, TypeOK
<1>2. entry' = entry => NoResets'
  BY DEF NoResets
<1>3. QED
  BY <1>1, <1>2 DEF Movement, Quiet, Refreshes, Grants, Resets, Spends, Reserves, Captured, Returned

(* Explained is what PaidCreditExplained says when there is no reset.      *)
LEMMA ExplainedSays ==
  ASSUME TypeOK, Explained
  PROVE  PaidCreditExplained
<1> SUFFICES ASSUME NEW a \in Accounts
             PROVE  account[a].bucket.permanent
                      + Total([h \in ActiveHoldsOf(a) |-> hold[h].reserved.permanent])
                      + Total([k \in EntriesOf(a) |-> entry[k].taken.permanent])
                      + Total([k \in Lowerings(a) |-> -entry[k].amount])
                  = (IF a \in Opened THEN Opening ELSE 0)
                      + Total([k \in Credits(a) |-> entry[k].amount])
  BY DEF PaidCreditExplained
<1>1. Lowerings(a) = {}
  BY DEF Explained, NoResets, Lowerings, EntriesOf
<1>2. Total([k \in Lowerings(a) |-> -entry[k].amount]) = 0
  BY <1>1, TotalOfNone
<1> DEFINE p == account[a].bucket.permanent
           r == Total([h \in ActiveHoldsOf(a) |-> hold[h].reserved.permanent])
           s == Total([k \in EntriesOf(a) |-> entry[k].taken.permanent])
<1>3. p = account[a].bucket["permanent"] /\ r = ReservedOf(a, "permanent") /\ s = SpentFrom(a, "permanent")
  BY DEF ReservedOf, SpentFrom
<1>4. p \in Nat /\ r \in Nat /\ s \in Nat
  BY <1>3, SumsAreNat DEF BucketNames
<1>5. p + r + s = (IF a \in Opened THEN Opening ELSE 0) + Funded(a)
  BY <1>3 DEF Explained, Kept
<1> HIDE DEF p, r, s
<1>6. p + r + s + Total([k \in Lowerings(a) |-> -entry[k].amount]) =
        (IF a \in Opened THEN Opening ELSE 0) + Funded(a)
  BY <1>2, <1>4, <1>5
<1>7. QED
  BY <1>6 DEF p, r, s, Funded

(* Without administrators' resets the ledger explains the permanent credit: grants,
   spends, holds, their settlements and sweeps lose and mint none, in any order of
   commits.                                                                *)
THEOREM PaidCreditIsExplained == "reset" \notin Ops /\ Spec => []PaidCreditExplained
<1>1. Init => Explained
  <2> SUFFICES ASSUME Init PROVE Explained
    OBVIOUS
  <2>1. NoResets
    BY DEF Init, NoResets, NoEntry
  <2>2. ASSUME NEW a \in Accounts
        PROVE  Kept(a, "permanent") = (IF a \in Opened THEN Opening ELSE 0) + Funded(a)
    <3>1. /\ ReservedOf(a, "permanent") = 0 /\ SpentFrom(a, "permanent") = 0
          /\ account[a].bucket["permanent"] = (IF a \in Opened THEN Opening ELSE 0)
          /\ EntriesOf(a) = {}
      BY NothingAtFirst DEF BucketNames
    <3>2. Funded(a) = 0
      <4>1. Credits(a) = {}
        BY <3>1 DEF Credits
      <4>2. QED
        BY <4>1, TotalOfNone DEF Funded
    <3>3. Opening \in Nat
      BY LedgerAssumption
    <3>4. QED
      BY <3>1, <3>2, <3>3 DEF Kept
  <2>3. QED
    BY <2>1, <2>2 DEF Explained
<1>2. "reset" \notin Ops /\ IInv /\ IInv' /\ Explained /\ [Next]_vars => Explained'
  <2> SUFFICES ASSUME "reset" \notin Ops, IInv, IInv', Explained, [Next]_vars
               PROVE  Explained'
    OBVIOUS
  <2>1. Movement
    BY StepIsMovement
  <2>2. NoResets'
    BY <2>1, NoResetsKept DEF Explained
  <2>3. ASSUME NEW a \in Accounts
        PROVE  Kept(a, "permanent")' = (IF a \in Opened THEN Opening ELSE 0) + Funded(a)'
    <3> DEFINE k0 == Kept(a, "permanent") k1 == Kept(a, "permanent")'
               f0 == Funded(a) f1 == Funded(a)'
    <3>1. k1 + f0 = k0 + f1 /\ k0 = (IF a \in Opened THEN Opening ELSE 0) + f0
      BY <2>1, PaidMoves DEF Explained
    <3>2. k0 \in Nat /\ f0 \in Nat
      BY SumsAreNat, CreditsSummable DEF IInv, Kept, BucketNames
    <3>3. k1 \in Nat
      BY SumsStayNat DEF IInv, SumsNat, Kept, BucketNames
    <3>4. f1 \in Nat
      BY FundedStaysNat DEF IInv, FundedNat
    <3>5. Opening \in Nat
      BY LedgerAssumption
    <3> HIDE DEF k0, k1, f0, f1
    <3>6. k1 = (IF a \in Opened THEN Opening ELSE 0) + f1
      BY <3>1, <3>2, <3>3, <3>4, <3>5
    <3>7. QED
      BY <3>6 DEF k1, f1
  <2>4. QED
    BY <2>2, <2>3 DEF Explained
<1>3. IInv /\ Explained => PaidCreditExplained
  BY ExplainedSays DEF IInv
<1>4. "reset" \notin Ops => ("reset" \notin Ops)'
  OBVIOUS
<1>5. QED
  BY <1>1, <1>2, <1>3, <1>4, Invariant, PTL DEF Spec

-----------------------------------------------------------------------------
(* The escrow of permanent credit.                                         *)

Paid == [a \in Accounts |-> account[a].bucket.permanent]
EscrowOf(h) == [state  |-> EscrowState(hold[h].status),
                owner  |-> hold[h].account,
                amount |-> IF hold[h].status = "active"
                           THEN hold[h].reserved.permanent ELSE 0]
Escrows == [h \in HoldKeys |-> EscrowOf(h)]

(* The balance of one account moves.                                       *)
LEMMA PaidRewritten ==
  ASSUME NEW a, NEW b, NEW row, Moves(a, b, row), a \in Accounts
  PROVE  /\ Paid' = [Paid EXCEPT ![a] = b.permanent]
         /\ Paid'[a] = b.permanent
         /\ Paid[a] = account[a].bucket.permanent
BY DEF Moves, Paid

(* Holds untouched, escrows untouched.                                     *)
LEMMA EscrowsStay == ASSUME hold' = hold PROVE Escrows' = Escrows
BY DEF Escrows, EscrowOf

EscrowStates == {"unopened", "open", "settled", "returned"}
EscrowRecord == [state: EscrowStates, owner: Accounts \cup {None}, amount: Nat]

(* What a spend maps to is one of the states of the escrow.               *)
LEMMA StatesOnly == ASSUME NEW s PROVE EscrowState(s) \in EscrowStates
<1>1. CASE s = "none"
  BY <1>1 DEF EscrowState, EscrowStates
<1>2. CASE s = "active"
  BY <1>2 DEF EscrowState, EscrowStates
<1>3. CASE s = "captured"
  BY <1>3 DEF EscrowState, EscrowStates
<1>4. CASE s \notin {"none", "active", "captured"}
  BY <1>4 DEF EscrowState, EscrowStates
<1>5. QED
  BY <1>1, <1>2, <1>3, <1>4

(* Settling a hold shuts its escrow.                                       *)
LEMMA EscrowShut ==
  ASSUME TypeOK, NEW h \in HoldKeys, NEW s, s # "active", hold' = [hold EXCEPT ![h].status = s]
  PROVE  Escrows' = [Escrows EXCEPT ![h].state = EscrowState(s), ![h].amount = 0]
<1>1. \A g \in HoldKeys : /\ hold'[g].reserved = hold[g].reserved
                          /\ hold'[g].account = hold[g].account
                          /\ hold'[g].status = IF g = h THEN s ELSE hold[g].status
  BY DEF TypeOK, HoldRow
<1>2. \A g \in HoldKeys : g # h => EscrowOf(g)' = EscrowOf(g)
  BY <1>1 DEF EscrowOf
<1>3. EscrowOf(h)' = [state |-> EscrowState(s), owner |-> hold[h].account, amount |-> 0]
  BY <1>1 DEF EscrowOf
<1>4. [Escrows EXCEPT ![h].state = EscrowState(s), ![h].amount = 0] =
        [Escrows EXCEPT ![h] = [state |-> EscrowState(s), owner |-> hold[h].account, amount |-> 0]]
  <2>1. \A g \in HoldKeys : EscrowOf(g) \in EscrowRecord
    <3> SUFFICES ASSUME NEW g \in HoldKeys PROVE EscrowOf(g) \in EscrowRecord
      OBVIOUS
    <3>1. hold[g] \in HoldRow /\ hold[g].reserved \in Bucket
      BY DEF TypeOK, HoldRow
    <3>2. EscrowState(hold[g].status) \in EscrowStates
      BY StatesOnly
    <3>3. hold[g].reserved.permanent \in Nat
      BY <3>1 DEF Bucket
    <3>4. hold[g].account \in Accounts \cup {None}
      BY <3>1 DEF HoldRow
    <3>5. QED
      BY <3>2, <3>3, <3>4 DEF EscrowOf, EscrowRecord
  <2>2. Escrows \in [HoldKeys -> EscrowRecord]
    BY <2>1 DEF Escrows
  <2>3. EscrowState(s) \in EscrowStates
    BY StatesOnly
  <2>4. Escrows[h].owner = hold[h].account
    BY DEF Escrows, EscrowOf
  <2>5. PICK es : es = Escrows
    OBVIOUS
  <2>6. PICK to : to = EscrowState(s)
    OBVIOUS
  <2>7. es \in [HoldKeys -> EscrowRecord] /\ to \in EscrowStates
    BY <2>2, <2>3, <2>5, <2>6
  <2>8. [es EXCEPT ![h].state = to, ![h].amount = 0] =
          [es EXCEPT ![h] = [state |-> to, owner |-> es[h].owner, amount |-> 0]]
    <3>1. PICK r : r = es[h]
      OBVIOUS
    <3>2. r \in EscrowRecord
      BY <2>7, <3>1
    <3>3. PICK q : q = [r EXCEPT !.state = to]
      OBVIOUS
    <3>4. q \in EscrowRecord /\ q.state = to /\ q.owner = r.owner
      BY <2>7, <3>2, <3>3 DEF EscrowRecord
    <3>5. PICK p : p = [q EXCEPT !.amount = 0]
      OBVIOUS
    <3>6. p \in EscrowRecord /\ p.state = to /\ p.owner = r.owner /\ p.amount = 0
      BY <3>4, <3>5 DEF EscrowRecord
    <3>7. p = [state |-> to, owner |-> r.owner, amount |-> 0]
      BY <3>6 DEF EscrowRecord
    <3>8. [es EXCEPT ![h].state = to, ![h].amount = 0] = [es EXCEPT ![h] = p]
      BY <2>7, <3>1, <3>3, <3>5
    <3>9. QED
      BY <3>1, <3>7, <3>8
  <2>9. QED
    BY <2>4, <2>5, <2>6, <2>8
<1>5. QED
  BY <1>2, <1>3, <1>4 DEF Escrows

(* Every movement of credit is one escrow step or none.                    *)
LEMMA MovementIsEscrowStep ==
  ASSUME IInv, IInv', Movement
  PROVE  [Escrow!Next]_(Escrow!vars)
<1> DEFINE Still == Paid' = Paid /\ Escrows' = Escrows
           Adjusts(a) == /\ Paid'[a] \in Nat
                         /\ Paid' = [Paid EXCEPT ![a] = Paid'[a]]
                         /\ Escrows' = Escrows
<1>1. Still => [Escrow!Next]_(Escrow!vars)
  BY DEF Escrow!vars, Paid, Escrows, EscrowOf
<1>2. ASSUME NEW a \in Accounts, Adjusts(a) PROVE [Escrow!Next]_(Escrow!vars)
  <2>1. Escrow!Adjust(a)
    BY <1>2 DEF Escrow!Adjust, Paid, Escrows, EscrowOf
  <2>2. QED
    BY <2>1 DEF Escrow!Next
<1>3. \A a \in Accounts : /\ account[a].bucket \in Bucket /\ account'[a].bucket \in Bucket
                          /\ account[a].bucket.permanent \in Nat
                          /\ account'[a].bucket.permanent \in Nat
  BY DEF IInv, TypeOK, AccountRow, Bucket
<1>4. CASE Quiet
  <2>1. Paid' = Paid
    BY <1>4 DEF Quiet, Moves, Paid
  <2>2. QED
    BY <1>1, <1>4, <2>1, EscrowsStay DEF Quiet
<1>5. ASSUME NEW a \in Accounts, NEW b, NEW row, Moves(a, b, row), hold' = hold
      PROVE  Adjusts(a)
  <2>1. account'[a].bucket = b
    BY <1>5 DEF Moves
  <2>2. b.permanent \in Nat
    BY <1>3, <2>1
  <2>3. /\ Paid' = [Paid EXCEPT ![a] = b.permanent]
        /\ Paid'[a] = b.permanent
        /\ Escrows' = Escrows
    BY <1>5, PaidRewritten, EscrowsStay
  <2>4. QED
    BY <2>2, <2>3
<1>6. ASSUME NEW a \in Accounts, NEW t \in Nat, Refreshes(a, t)
      PROVE  [Escrow!Next]_(Escrow!vars)
  BY <1>2, <1>5, <1>6 DEF Refreshes
<1>7. ASSUME NEW a \in Accounts, NEW k \in EntryKeys, NEW e \in EntryRow,
             Grants(a, k, e) \/ Resets(a, k, e)
      PROVE  [Escrow!Next]_(Escrow!vars)
  BY <1>2, <1>5, <1>7 DEF Grants, Resets
<1>8. ASSUME NEW a \in Accounts, NEW k \in EntryKeys, NEW e \in EntryRow, NEW t \in Nat,
             Spends(a, k, e, t)
      PROVE  [Escrow!Next]_(Escrow!vars)
  BY <1>2, <1>5, <1>8 DEF Spends
<1>9. ASSUME NEW a \in Accounts, NEW h \in HoldKeys, NEW new \in HoldRow, NEW t \in Nat,
             Reserves(a, h, new, t)
      PROVE  [Escrow!Next]_(Escrow!vars)
  <2> DEFINE fresh == RefreshRow(account[a], t)
  <2>1. /\ Moves(a, Minus(fresh.bucket, new.reserved), fresh)
        /\ Minus(fresh.bucket, new.reserved) \in Bucket
        /\ new.status = "active" /\ new.account = a
        /\ hold[h] = NoHold /\ hold' = [hold EXCEPT ![h] = new]
    BY <1>9 DEF Reserves
  <2>2. /\ fresh.bucket \in Bucket /\ new.reserved \in Bucket
        /\ fresh.bucket.permanent = account[a].bucket.permanent
    <3>1. account[a] \in AccountRow /\ fresh \in AccountRow /\ fresh.bucket \in Bucket
      BY FreshIsRow
    <3>2. fresh.bucket["permanent"] = account[a].bucket["permanent"]
      BY <3>1, RefreshRowMoves
    <3>3. QED
      BY <3>1, <3>2 DEF HoldRow
  <2> HIDE DEF fresh
  <2>3. /\ Paid'[a] = Paid[a] - new.reserved.permanent
        /\ Paid' = [Paid EXCEPT ![a] = Paid'[a]]
        /\ Paid[a] \in Nat /\ Paid'[a] \in Nat /\ new.reserved.permanent \in Nat
    <3>1. /\ Paid' = [Paid EXCEPT ![a] = Minus(fresh.bucket, new.reserved).permanent]
          /\ Paid'[a] = Minus(fresh.bucket, new.reserved).permanent
          /\ Paid[a] = account[a].bucket.permanent
      BY <2>1, PaidRewritten
    <3>2. Minus(fresh.bucket, new.reserved).permanent = fresh.bucket.permanent - new.reserved.permanent
      BY DEF Minus
    <3>3. new.reserved.permanent \in Nat /\ Minus(fresh.bucket, new.reserved).permanent \in Nat
      BY <2>1, <2>2 DEF Bucket
    <3>4. QED
      BY <1>3, <2>2, <3>1, <3>2, <3>3
  <2>4. \A g \in HoldKeys : hold'[g] = IF g = h THEN new ELSE hold[g]
    BY <2>1 DEF IInv, TypeOK
  <2>5. Escrows[h] = [state |-> "unopened", owner |-> None, amount |-> 0]
    BY <2>1 DEF Escrows, EscrowOf, EscrowState, NoHold
  <2>6. Escrows' = [Escrows EXCEPT ![h] =
                      [state |-> "open", owner |-> a, amount |-> new.reserved.permanent]]
    <3>1. EscrowOf(h)' = [state |-> "open", owner |-> a, amount |-> new.reserved.permanent]
      BY <2>1, <2>4 DEF EscrowOf, EscrowState
    <3>2. \A g \in HoldKeys : g # h => EscrowOf(g)' = EscrowOf(g)
      BY <2>4 DEF EscrowOf
    <3>3. QED
      BY <3>1, <3>2 DEF Escrows
  <2>7. Paid[a] - Paid'[a] = new.reserved.permanent /\ Paid'[a] \in 0 .. Paid[a]
    BY <2>3
  <2>8. Escrow!OpenEscrow(h, a)
    <3>1. /\ Escrows[h] = Escrow!Unopened
          /\ Paid'[a] \in 0 .. Paid[a]
          /\ Paid' = [Paid EXCEPT ![a] = Paid'[a]]
          /\ Escrows' = [Escrows EXCEPT ![h] =
                           [state |-> "open", owner |-> a, amount |-> Paid[a] - Paid'[a]]]
      BY <2>3, <2>5, <2>6, <2>7 DEF Escrow!Unopened
    <3>2. QED
      BY <3>1 DEF Escrow!OpenEscrow, Paid, Escrows, EscrowOf
  <2>9. QED
    BY <2>8 DEF Escrow!Next
<1>10. ASSUME NEW h \in HoldKeys, NEW s, NEW unused \in Bucket, Settles(h, s, unused)
       PROVE  LET a == hold[h].account
              IN  /\ a \in Accounts
                  /\ Paid'[a] = Paid[a] + unused.permanent
                  /\ Paid' = [Paid EXCEPT ![a] = Paid'[a]]
                  /\ Paid[a] \in Nat
                  /\ Escrows[h].state = "open" /\ Escrows[h].owner = a
                  /\ Escrows[h].amount = hold[h].reserved.permanent
                  /\ Escrows' = [Escrows EXCEPT ![h].state = EscrowState(s), ![h].amount = 0]
  <2> DEFINE a == hold[h].account
             back == CreditBack(account[a].bucket, unused, Allowance)
  <2>1. /\ Moves(a, back, account[a]) /\ a \in Accounts
        /\ hold[h].status = "active" /\ s # "active" /\ hold' = [hold EXCEPT ![h].status = s]
    BY <1>10 DEF Settles
  <2>2. back.permanent = account[a].bucket.permanent + unused.permanent
    BY DEF CreditBack
  <2> HIDE DEF back
  <2>3. /\ Paid' = [Paid EXCEPT ![a] = Paid'[a]]
        /\ Paid'[a] = Paid[a] + unused.permanent
        /\ Paid[a] \in Nat
    BY <1>3, <2>1, <2>2, PaidRewritten
  <2>4. /\ Escrows[h].state = "open" /\ Escrows[h].owner = a
        /\ Escrows[h].amount = hold[h].reserved.permanent
    BY <2>1 DEF Escrows, EscrowOf, EscrowState
  <2>5. Escrows' = [Escrows EXCEPT ![h].state = EscrowState(s), ![h].amount = 0]
    BY <2>1, EscrowShut DEF IInv
  <2>6. QED
    BY <2>1, <2>3, <2>4, <2>5
<1>11. ASSUME NEW h \in HoldKeys, NEW unused \in Bucket, NEW k \in EntryKeys, NEW e \in EntryRow,
              Captured(h, unused, k, e)
       PROVE  [Escrow!Next]_(Escrow!vars)
  <2> DEFINE a == hold[h].account
             n == -e.amount
             reserved == hold[h].reserved
  <2>1. /\ Settles(h, "captured", unused)
        /\ n \in 0 .. hold[h].amount
        /\ unused = Unused(reserved, n)
        /\ hold[h].amount \in Nat /\ reserved \in Bucket
    BY <1>11 DEF Captured, IInv, TypeOK, HoldRow
  <2>2. unused.permanent \in 0 .. reserved.permanent
    <3>1. n \in Nat
      BY <2>1
    <3> HIDE DEF n, reserved
    <3>2. Unused(reserved, n) \in Bucket /\ Minus(reserved, Unused(reserved, n)) \in Bucket
      BY <2>1, <3>1, UnusedBounds
    <3>3. unused.permanent \in Nat /\ reserved.permanent \in Nat
          /\ reserved.permanent - unused.permanent \in Nat
      BY <2>1, <3>2 DEF Bucket, Minus
    <3>4. QED
      BY <3>3
  <2>3. /\ a \in Accounts
        /\ Paid'[a] = Paid[a] + unused.permanent
        /\ Paid' = [Paid EXCEPT ![a] = Paid'[a]]
        /\ Paid[a] \in Nat
        /\ Escrows[h].state = "open" /\ Escrows[h].owner = a
        /\ Escrows[h].amount = reserved.permanent
        /\ Escrows' = [Escrows EXCEPT ![h].state = EscrowState("captured"), ![h].amount = 0]
    BY <1>10, <2>1
  <2>4. Paid'[a] \in Paid[a] .. Paid[a] + Escrows[h].amount
    <3>1. reserved.permanent \in Nat
      BY <2>1 DEF Bucket
    <3> HIDE DEF a, reserved
    <3>2. QED
      BY <2>2, <2>3, <3>1
  <2>5. EscrowState("captured") = "settled"
    BY DEF EscrowState
  <2>6. Escrow!SettleEscrow(h)
    <3>1. LET o == Escrows[h].owner
          IN  /\ Escrows[h].state = "open"
              /\ Paid'[o] \in Paid[o] .. Paid[o] + Escrows[h].amount
              /\ Paid' = [Paid EXCEPT ![o] = Paid'[o]]
              /\ Escrows' = [Escrows EXCEPT ![h].state = "settled", ![h].amount = 0]
      BY <2>3, <2>4, <2>5
    <3>2. QED
      BY <3>1 DEF Escrow!SettleEscrow, Escrow!Shut, Paid, Escrows, EscrowOf
  <2>7. QED
    BY <2>6 DEF Escrow!Next
<1>12. ASSUME NEW h \in HoldKeys, NEW s \in HoldStatus, Returned(h, s)
       PROVE  [Escrow!Next]_(Escrow!vars)
  <2> DEFINE a == hold[h].account
             reserved == hold[h].reserved
  <2>1. /\ Settles(h, s, reserved) /\ s \in {"released", "expired"}
        /\ reserved \in Bucket
    BY <1>12 DEF Returned, IInv, TypeOK, HoldRow
  <2>2. /\ a \in Accounts
        /\ Paid'[a] = Paid[a] + reserved.permanent
        /\ Paid' = [Paid EXCEPT ![a] = Paid'[a]]
        /\ Escrows[h].state = "open" /\ Escrows[h].owner = a
        /\ Escrows[h].amount = reserved.permanent
        /\ Escrows' = [Escrows EXCEPT ![h].state = EscrowState(s), ![h].amount = 0]
    BY <1>10, <2>1
  <2>3. EscrowState(s) = "returned"
    BY <2>1 DEF EscrowState
  <2>4. Escrow!ReturnEscrow(h)
    <3>1. /\ Escrows[h].state = "open"
          /\ Paid' = [Paid EXCEPT ![Escrows[h].owner] = @ + Escrows[h].amount]
          /\ Escrows' = [Escrows EXCEPT ![h].state = "returned", ![h].amount = 0]
      BY <2>2, <2>3
    <3>2. QED
      BY <3>1 DEF Escrow!ReturnEscrow, Escrow!Shut, Paid, Escrows, EscrowOf
  <2>5. QED
    BY <2>4 DEF Escrow!Next
<1> HIDE DEF Still, Adjusts
<1>13. QED
  BY <1>4, <1>6, <1>7, <1>8, <1>9, <1>11, <1>12 DEF Movement

(* The ledger implements CreditEscrow, for every set of accounts, keys, requests and
   sweeps: whatever leaves a balance for a hold is spent by that hold's capture or
   comes back to that balance, once.                                       *)
THEOREM EscrowImplemented == Spec => ImplementsEscrow
<1>1. Init /\ IInv => Escrow!Init
  <2> SUFFICES ASSUME Init, IInv PROVE Escrow!Init
    OBVIOUS
  <2>1. Paid \in [Accounts -> Nat]
    BY DEF Paid, IInv, TypeOK, AccountRow, Bucket
  <2>2. Escrows = [h \in HoldKeys |-> [state |-> "unopened", owner |-> None, amount |-> 0]]
    BY DEF Init, Escrows, EscrowOf, EscrowState, NoHold
  <2>3. QED
    BY <2>1, <2>2 DEF Escrow!Init, Escrow!Unopened, Paid, Escrows, EscrowOf
<1>2. IInv /\ IInv' /\ [Next]_vars => [Escrow!Next]_(Escrow!vars)
  BY StepIsMovement, MovementIsEscrowStep
<1>3. QED
  BY <1>1, <1>2, Invariant, PTL DEF Spec, ImplementsEscrow, Escrow!Spec

-----------------------------------------------------------------------------
(* The wallets.                                                            *)

(* Every debit of a wallet the ledger reaches is the thriftiest split, for every
   allowance, calendar and amount.                                         *)
THEOREM DebitsAreThriftiest == Spec => []DebitIsThriftiest
<1>1. IInv => DebitIsThriftiest
  <2> SUFFICES ASSUME IInv, NEW b \in Wallets, NEW n \in 0 .. Available(b) + 1
               PROVE  Thriftiest(b, n)
    BY DEF DebitIsThriftiest
  <2>1. b \in Bucket /\ n \in Nat
    BY DEF Wallets, IInv, TypeOK, AccountRow, Bucket, Available
  <2>2. QED
    BY <2>1, DebitThriftiest
<1>2. QED
  BY <1>1, Invariant, PTL

(* Capturing part of a reservation spends what a spend would, and returning all of it
   restores the wallet: every wallet the ledger reaches is within its allowance, so
   the clamp of creditBack costs nothing.                                  *)
THEOREM ReservationsAreNeutral == Spec => []ReservationIsNeutral
<1>1. IInv => ReservationIsNeutral
  <2> SUFFICES ASSUME IInv, NEW b \in Wallets, NEW n \in 0 .. Available(b)
               PROVE  /\ \A m \in 0 .. n : CaptureIsSpend(b, n, m)
                      /\ ReturnCancels(b, n, Allowance)
    BY DEF ReservationIsNeutral
  <2>1. b \in Bucket /\ b.daily <= Allowance.daily /\ b.period <= Allowance.period
    BY DEF Wallets, IInv, TypeOK, AccountRow, BucketsWithinAllowance, WithinAllowance
  <2>2. Allowance \in Allowances
    BY LedgerAssumption
  <2>3. QED
    BY <2>1, <2>2, CapturesAsSpent, ReturnsCancel
<1>2. QED
  BY <1>1, Invariant, PTL
=============================================================================
