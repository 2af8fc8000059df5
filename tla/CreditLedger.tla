---------------------------- MODULE CreditLedger ----------------------------
(***************************************************************************)
(* The credit ledger of kokoro-credit: accounts, holds and ledger entries  *)
(* as PrismaCreditRepository keeps them in MySQL                           *)
(* (kokoro-credit/src/infrastructure/prisma/prisma-credit-repository.ts).  *)
(*                                                                         *)
(* Every mutation is one database transaction under REPEATABLE READ.  Its  *)
(* plain reads see the snapshot taken at its first read; its UPDATEs, its  *)
(* SELECT ... FOR UPDATE and its unique indexes see the latest committed   *)
(* rows and keep them locked until it commits.  A transaction is therefore *)
(* two steps here: <Op>Begin takes the snapshot and makes the checks that  *)
(* read it, <Op>Commit does the locking work and commits.  Between the two *)
(* any other transaction may commit.  Rollback is every way not to commit: *)
(* a check that fails under the lock, a unique-key conflict (the caller    *)
(* then gets the row that won), a deadlock, a lost connection, a crash.    *)
(* A request whose first checks fail changes nothing and is no step.       *)
(*                                                                         *)
(* A hold and a ledger entry are named by their idempotency key, which a   *)
(* unique index protects; a key no row uses has a "none" row.              *)
(***************************************************************************)
EXTENDS Buckets, Totals

CONSTANTS
  Accounts,      \* the credit accounts
  EntryKeys,     \* idempotency keys of ledger entries
  HoldKeys,      \* idempotency keys of holds
  Tx,            \* connections: how many transactions run at once
  Sweepers,      \* the expiry sweeps that may run at once (timer and HTTP)
  None,          \* NULL
  Ops,           \* the operations clients issue
  Amounts,       \* amounts clients ask for
  Targets,       \* balances administrators reset to
  Allowance,     \* the allowances of every account's plan
  Opened,        \* the accounts that exist at the start
  Opening,       \* the permanent credit they hold then
  Ttls,          \* how long holds may live, when they expire at all
  Horizon,       \* bound: the last instant of the clock
  DayLength,     \* instants in a UTC day
  PeriodLength   \* instants in a UTC month

OpNames == {"grant", "spend", "reset", "hold", "capture", "release",
            "delete", "restore"}

ASSUME LedgerAssumption ==
  /\ None \notin Accounts \cup EntryKeys \cup HoldKeys
  /\ IsFiniteSet(HoldKeys) /\ IsFiniteSet(EntryKeys)
  /\ Ops \subseteq OpNames
  /\ Amounts \subseteq Nat \ {0}     \* parsePositiveBigIntString
  /\ Targets \subseteq Nat           \* parseNonNegativeBigIntString
  /\ Allowance \in Allowances
  /\ Opened \subseteq Accounts /\ Opening \in Nat
  /\ Ttls \subseteq Nat
  /\ Horizon \in Nat
  /\ DayLength \in Nat \ {0} /\ PeriodLength \in Nat \ {0}

VARIABLES
  account,   \* the rows of credit_accounts
  hold,      \* the rows of credit_holds
  entry,     \* the rows of credit_ledger_entries
  tx,        \* the transaction each connection has open, after its snapshot
  sweep,     \* where each expiry sweep is in its loop
  clock      \* the wall clock

vars == <<account, hold, entry, tx, sweep, clock>>

-----------------------------------------------------------------------------
(* Rows.                                                                   *)

Time == 0 .. Horizon
Never == -1
Boundary == Nat \cup {NeverReset}

AccountRow == [state : {"absent", "active", "deleted"}, bucket : Bucket,
               held : Nat, dailyOn : Boundary, periodOn : Boundary]
HoldStatus == {"active", "captured", "released", "expired"}
HoldRow == [status : HoldStatus \cup {"none"}, account : Accounts \cup {None},
            amount : Nat, reserved : Bucket, expiresAt : Nat \cup {Never},
            raced : BOOLEAN]
EntryRow == [kind : {"none", "grant", "spend", "reset", "capture"},
             account : Accounts \cup {None}, amount : Int, after : Nat,
             hold : HoldKeys \cup {None}, taken : Bucket]
Request == [op : OpNames \cup {"idle"}, account : Accounts \cup {None},
            key : EntryKeys \cup {None}, hold : HoldKeys \cup {None},
            amount : Nat, base : Nat, at : Nat, expiresAt : Nat \cup {Never}]
SweepState == [at : Nat, todo : SUBSET HoldKeys, current : HoldKeys \cup {None}]

NoAccount == [state |-> "absent", bucket |-> Empty, held |-> 0,
              dailyOn |-> NeverReset, periodOn |-> NeverReset]
NoHold == [status |-> "none", account |-> None, amount |-> 0,
           reserved |-> Empty, expiresAt |-> Never, raced |-> FALSE]
NoEntry == [kind |-> "none", account |-> None, amount |-> 0, after |-> 0,
            hold |-> None, taken |-> Empty]
Idle == [op |-> "idle", account |-> None, key |-> None, hold |-> None,
         amount |-> 0, base |-> 0, at |-> 0, expiresAt |-> Never]
NoSweep == [at |-> 0, todo |-> {}, current |-> None]

-----------------------------------------------------------------------------
(* The calendar: the index of the UTC day and month an instant falls in.   *)

DailyBoundary(t) == t \div DayLength
PeriodBoundary(t) == t \div PeriodLength

(* refreshRow: the row with its stale time buckets reset and its watermarks
   moved to the boundaries of instant t; a fresh bucket keeps both.        *)
RefreshRow_KeepsWatermark(row, t) ==
  LET stale == [daily  |-> IsStale(row.dailyOn, DailyBoundary(t)),
                period |-> IsStale(row.periodOn, PeriodBoundary(t))]
  IN  [row EXCEPT !.bucket = Refresh(@, Allowance, stale)]

RefreshRow_Never(row, t) == row

RefreshRow(row, t) ==
  LET stale == [daily  |-> IsStale(row.dailyOn, DailyBoundary(t)),
                period |-> IsStale(row.periodOn, PeriodBoundary(t))]
  IN  [row EXCEPT !.bucket   = Refresh(@, Allowance, stale),
                  !.dailyOn  = IF stale.daily THEN DailyBoundary(t) ELSE @,
                  !.periodOn = IF stale.period THEN PeriodBoundary(t) ELSE @]

(* applyBucketReturn: credit returned clamped into the row, held reduced.  *)
ApplyBucketReturn_KeepsHeld(row, returned, amount) ==
  [row EXCEPT !.bucket = CreditBack(@, returned, Allowance)]

ApplyBucketReturn(row, returned, amount) ==
  [row EXCEPT !.bucket = CreditBack(@, returned, Allowance),
              !.held   = @ - amount]

-----------------------------------------------------------------------------
(* Transactions.                                                           *)

Begin(t, op, fields) ==
  /\ tx[t] = Idle
  /\ op \in Ops
  /\ tx' = [tx EXCEPT ![t] = [fields EXCEPT !.op = op]]
  /\ UNCHANGED <<account, hold, entry, sweep, clock>>

Open(t, op) == tx[t].op = op
Close(t) == tx' = [tx EXCEPT ![t] = Idle]

(* The unique index on credit_ledger_entries.idempotencyKey.               *)
FreeKey_Unchecked(k) == TRUE
FreeKey(k) == entry[k] = NoEntry

(* The entry a transaction posts under its key; after is the balance it
   reports.  Two fields are history: the hold a capture settled, and taken,
   the buckets a debit came out of (the code's row has only their sum).    *)
Post(r, amount, after, taken) ==
  entry' = [entry EXCEPT ![r.key] =
              [kind |-> r.op, account |-> r.account, amount |-> amount,
               after |-> after, hold |-> r.hold, taken |-> taken]]

(* The account row a transaction reads under its lock and may still write: it
   exists and is not deleted.                                              *)
Writable_IgnoresDeletion(a) == account[a].state # "absent"
Writable(a) == account[a].state = "active"

(* updateMany ... WHERE id AND status = 'active': the conditional transition
   at most one settlement of a hold wins.                                  *)
WinsHold_Unconditional(h) == TRUE
WinsHold(h) == hold[h].status = "active"

ActiveHoldsOf(a) == {h \in HoldKeys : hold[h].status = "active" /\ hold[h].account = a}

-----------------------------------------------------------------------------
(* ensureAccount: the create branch; the row of an absent account already holds
   the column defaults (NoAccount).  Ensuring an account that exists sets its
   status to "active", which nothing in the program ever changes; a deleted
   account is refused; a concurrent creation loses to the unique index.    *)
CreateAccount(a) ==
  /\ account[a].state = "absent"
  /\ account' = [account EXCEPT ![a].state = "active"]
  /\ UNCHANGED <<hold, entry, tx, sweep, clock>>

(* grantCredits: the deletion check reads the snapshot; the increment and the
   entry's balance are those of the current row.                           *)
GrantBegin(t) ==
  \E k \in EntryKeys, a \in Accounts, n \in Amounts :
    /\ FreeKey(k)
    /\ Writable(a)
    /\ Begin(t, "grant", [Idle EXCEPT !.key = k, !.account = a, !.amount = n])

GrantCommit(t) ==
  LET r   == tx[t]
      row == [account[r.account] EXCEPT !.bucket.permanent = @ + r.amount]
  IN  /\ Open(t, "grant")
      /\ FreeKey(r.key)
      /\ account' = [account EXCEPT ![r.account] = row]
      /\ Post(r, r.amount, row.bucket.permanent, Empty)
      /\ Close(t)
      /\ UNCHANGED <<hold, sweep, clock>>

(* The row after taking amount from its refreshed buckets.  now is read when
   the call arrives, the row when the lock is granted.                     *)
Taken(row, amount) == [row EXCEPT !.bucket = Minus(@, Debit(@, amount))]
Covers(row, amount) == Debit(row.bucket, amount).shortfall = 0

(* spendCredits.                                                           *)
SpendBegin(t) ==
  \E k \in EntryKeys, a \in Accounts, n \in Amounts :
    /\ FreeKey(k)
    /\ Begin(t, "spend", [Idle EXCEPT !.key = k, !.account = a, !.amount = n,
                                      !.at = clock])

SpendCommit(t) ==
  LET r     == tx[t]
      fresh == RefreshRow(account[r.account], r.at)
      row   == Taken(fresh, r.amount)
  IN  /\ Open(t, "spend")
      /\ Writable(r.account)
      /\ Covers(fresh, r.amount)
      /\ FreeKey(r.key)
      /\ account' = [account EXCEPT ![r.account] = row]
      /\ Post(r, -r.amount, Available(row.bucket), Minus(fresh.bucket, row.bucket))
      /\ Close(t)
      /\ UNCHANGED <<hold, sweep, clock>>

(* resetBalance: the deletion check, the held check and the base of the delta
   read the snapshot; the balance is then set whatever the row now holds.  *)
ResetBegin(t) ==
  \E k \in EntryKeys, a \in Accounts, target \in Targets :
    /\ FreeKey(k)
    /\ Writable(a)
    /\ target >= account[a].held
    /\ Begin(t, "reset", [Idle EXCEPT !.key = k, !.account = a, !.amount = target,
                                      !.base = account[a].bucket.permanent])

ResetCommit(t) ==
  LET r == tx[t]
  IN  /\ Open(t, "reset")
      /\ FreeKey(r.key)
      /\ account' = [account EXCEPT ![r.account].bucket.permanent = r.amount]
      /\ Post(r, r.amount - r.base, r.amount, Empty)
      /\ Close(t)
      /\ UNCHANGED <<hold, sweep, clock>>

-----------------------------------------------------------------------------
(* holdCredits: a hold moves its amount out of the buckets, remembering what
   came from which, and adds it to held.  raced is history: whether the account was
   being deleted, its holds counted already, when the hold was placed.     *)
BeingDeleted(a) == \E s \in Tx : tx[s].op = "delete" /\ tx[s].account = a

HoldBegin(t) ==
  \E h \in HoldKeys, a \in Accounts, n \in Amounts,
     e \in {Never} \cup {clock + ttl : ttl \in Ttls} :
    /\ hold[h] = NoHold
    /\ Begin(t, "hold", [Idle EXCEPT !.hold = h, !.account = a, !.amount = n,
                                     !.at = clock, !.expiresAt = e])

HoldCommit(t) ==
  LET r     == tx[t]
      fresh == RefreshRow(account[r.account], r.at)
      row   == [Taken(fresh, r.amount) EXCEPT !.held = @ + r.amount]
  IN  /\ Open(t, "hold")
      /\ Writable(r.account)
      /\ Covers(fresh, r.amount)
      /\ hold[r.hold] = NoHold
      /\ account' = [account EXCEPT ![r.account] = row]
      /\ hold' = [hold EXCEPT ![r.hold] =
                    [status |-> "active", account |-> r.account, amount |-> r.amount,
                     reserved |-> Minus(fresh.bucket, row.bucket),
                     expiresAt |-> r.expiresAt, raced |-> BeingDeleted(r.account)]]
      /\ Close(t)
      /\ UNCHANGED <<entry, sweep, clock>>

(* The transition of hold h to status, its unused reservation returned.    *)
Settle(h, status, unused) ==
  /\ WinsHold(h)
  /\ hold' = [hold EXCEPT ![h].status = status]
  /\ account' = [account EXCEPT ![hold[h].account] =
                   ApplyBucketReturn(@, unused, hold[h].amount)]

(* captureHold: the actual amount is spent out of the reservation in the order
   the reservation was taken; the rest goes back.                          *)
CaptureBegin(t) ==
  \E k \in EntryKeys, h \in HoldKeys, n \in Amounts :
    /\ FreeKey(k)
    /\ hold[h].status = "active"
    /\ n <= hold[h].amount
    /\ Begin(t, "capture", [Idle EXCEPT !.key = k, !.hold = h, !.amount = n,
                                        !.account = hold[h].account])

Unused(reserved, actual) == Minus(reserved, Debit(reserved, actual))

CaptureCommit(t) ==
  LET r        == tx[t]
      reserved == hold[r.hold].reserved
      unused   == Unused(reserved, r.amount)
  IN  /\ Open(t, "capture")
      /\ FreeKey(r.key)
      /\ Settle(r.hold, "captured", unused)
      /\ Post(r, -r.amount, Available(account'[r.account].bucket), Minus(reserved, unused))
      /\ Close(t)
      /\ UNCHANGED <<sweep, clock>>

(* releaseHold: the whole reservation goes back; no entry is posted.  A hold
   already released is answered as it is.                                  *)
ReleaseBegin(t) ==
  \E h \in HoldKeys :
    /\ hold[h].status = "active"
    /\ Begin(t, "release", [Idle EXCEPT !.hold = h])

ReleaseCommit(t) ==
  LET h == tx[t].hold
  IN  /\ Open(t, "release")
      /\ Settle(h, "released", hold[h].reserved)
      /\ Close(t)
      /\ UNCHANGED <<entry, sweep, clock>>

-----------------------------------------------------------------------------
(* refreshAllowances: one locking transaction; now was read when the call
   arrived, so it may lie behind the clock when the lock is granted.       *)
RefreshAllowances(a) ==
  \E t \in 0 .. clock :
    /\ account[a].state # "absent"
    /\ account' = [account EXCEPT ![a] = RefreshRow(@, t)]
    /\ UNCHANGED <<hold, entry, tx, sweep, clock>>

(* deleteAccount: both checks read the snapshot, the update takes any row. *)
DeleteBegin(t) ==
  \E a \in Accounts :
    /\ Writable(a)
    /\ ActiveHoldsOf(a) = {}
    /\ Begin(t, "delete", [Idle EXCEPT !.account = a])

DeleteCommit(t) ==
  /\ Open(t, "delete")
  /\ account' = [account EXCEPT ![tx[t].account].state = "deleted"]
  /\ Close(t)
  /\ UNCHANGED <<hold, entry, sweep, clock>>

(* restoreAccount: a read, then an update, outside any transaction.        *)
RestoreBegin(t) ==
  \E a \in Accounts :
    /\ account[a].state = "deleted"
    /\ Begin(t, "restore", [Idle EXCEPT !.account = a])

RestoreCommit(t) ==
  /\ Open(t, "restore")
  /\ account' = [account EXCEPT ![tx[t].account].state = "active"]
  /\ Close(t)
  /\ UNCHANGED <<hold, entry, sweep, clock>>

Rollback(t) ==
  /\ tx[t] # Idle
  /\ Close(t)
  /\ UNCHANGED <<account, hold, entry, sweep, clock>>

-----------------------------------------------------------------------------
(* sweepExpiredHolds: list the active holds past their expiry, then reclaim
   them one after the other, each in a transaction of its own.             *)
Expired_NotYet(h, now) == hold[h].expiresAt # Never /\ hold[h].expiresAt > now
Expired(h, now) == hold[h].expiresAt # Never /\ hold[h].expiresAt < now

SweepStart(s) ==
  LET due == {h \in HoldKeys : hold[h].status = "active" /\ Expired(h, clock)}
  IN  /\ sweep[s] = NoSweep
      /\ due # {}
      /\ sweep' = [sweep EXCEPT ![s] = [at |-> clock, todo |-> due, current |-> None]]
      /\ UNCHANGED <<account, hold, entry, tx, clock>>

(* The loop moves past hold h; a sweep with nothing left is over.          *)
Advance(s, h) ==
  LET left == sweep[s].todo \ {h}
  IN  sweep' = [sweep EXCEPT ![s] = IF left = {} THEN NoSweep
                                    ELSE [@ EXCEPT !.todo = left, !.current = None]]

(* reclaimExpiredHold up to its snapshot read: a hold that is no longer active
   is skipped.                                                             *)
ReclaimBegin(s, h) ==
  /\ h \in sweep[s].todo
  /\ sweep[s].current = None
  /\ IF hold[h].status = "active" /\ Expired(h, sweep[s].at)
     THEN sweep' = [sweep EXCEPT ![s].current = h]
     ELSE Advance(s, h)
  /\ UNCHANGED <<account, hold, entry, tx, clock>>

(* The rest of it: the sweep takes the hold if it still is active.         *)
ReclaimCommit(s) ==
  LET h == sweep[s].current
  IN  /\ h # None
      /\ IF WinsHold(h)
         THEN Settle(h, "expired", hold[h].reserved)
         ELSE UNCHANGED <<account, hold>>
      /\ Advance(s, h)
      /\ UNCHANGED <<entry, tx, clock>>

(* Nothing catches an error inside the loop: a failed transaction ends the
   sweep, and the timer's next one starts from a new list.                 *)
SweepFails(s) ==
  /\ sweep[s] # NoSweep
  /\ sweep' = [sweep EXCEPT ![s] = NoSweep]
  /\ UNCHANGED <<account, hold, entry, tx, clock>>

Tick ==
  /\ clock < Horizon
  /\ clock' = clock + 1
  /\ UNCHANGED <<account, hold, entry, tx, sweep>>

-----------------------------------------------------------------------------
Init ==
  /\ account = [a \in Accounts |->
                  IF a \in Opened
                  THEN [NoAccount EXCEPT !.state = "active", !.bucket.permanent = Opening]
                  ELSE NoAccount]
  /\ hold = [h \in HoldKeys |-> NoHold]
  /\ entry = [k \in EntryKeys |-> NoEntry]
  /\ tx = [t \in Tx |-> Idle]
  /\ sweep = [s \in Sweepers |-> NoSweep]
  /\ clock = 0

(* The routes of the service, each its transaction's two halves.           *)
FundingRequests(t) ==
  \/ GrantBegin(t) \/ GrantCommit(t)
  \/ SpendBegin(t) \/ SpendCommit(t)
HoldRequests(t) ==
  \/ HoldBegin(t)    \/ HoldCommit(t)
  \/ CaptureBegin(t) \/ CaptureCommit(t)
ReleaseRequests(t) == ReleaseBegin(t) \/ ReleaseCommit(t)
AccountRequests(t) ==
  \/ DeleteBegin(t)  \/ DeleteCommit(t)
  \/ RestoreBegin(t) \/ RestoreCommit(t)
ResetRequests(t) == ResetBegin(t) \/ ResetCommit(t)

Client(t) ==
  \/ FundingRequests(t) \/ HoldRequests(t) \/ ReleaseRequests(t)
  \/ AccountRequests(t) \/ ResetRequests(t)
  \/ Rollback(t)

Sweep(s) ==
  \/ SweepStart(s)
  \/ \E h \in HoldKeys : ReclaimBegin(s, h)
  \/ ReclaimCommit(s)
  \/ SweepFails(s)

Next ==
  \/ \E t \in Tx : Client(t)
  \/ \E s \in Sweepers : Sweep(s)
  \/ \E a \in Accounts : CreateAccount(a) \/ RefreshAllowances(a)
  \/ Tick

Spec == Init /\ [][Next]_vars

(* The scheduling the service promises: setInterval starts a sweep over and over,
   and a database that is asked over and over does not fail every time.    *)
Fairness ==
  \A s \in Sweepers :
    /\ WF_vars(SweepStart(s))
    /\ SF_vars(\E h \in HoldKeys : ReclaimBegin(s, h))
    /\ SF_vars(ReclaimCommit(s))

FairSpec == Spec /\ Fairness

-----------------------------------------------------------------------------
(* Properties.                                                             *)

(* Every variable holds rows of the schema; no bucket, held amount or entry
   balance is ever negative.                                               *)
TypeOK ==
  /\ account \in [Accounts -> AccountRow]
  /\ hold \in [HoldKeys -> HoldRow]
  /\ entry \in [EntryKeys -> EntryRow]
  /\ tx \in [Tx -> Request]
  /\ sweep \in [Sweepers -> SweepState]
  /\ clock \in Time

(* heldMicros of an account is the sum of its active holds, whatever the order
   in which captures, releases and sweeps of the same holds commit.        *)
HeldMatchesHolds ==
  \A a \in Accounts :
    account[a].held = Total([h \in ActiveHoldsOf(a) |-> hold[h].amount])

EntriesOf(a) == {k \in EntryKeys : entry[k].kind # "none" /\ entry[k].account = a}
Credits(a) == {k \in EntriesOf(a) : entry[k].kind \in {"grant", "reset"} /\ entry[k].amount > 0}
Lowerings(a) == {k \in EntriesOf(a) : entry[k].kind = "reset" /\ entry[k].amount < 0}

(* The ledger explains the permanent credit: what an account and its active
   holds have, what it spent and what resets took equal what it started with
   and what grants and resets added.  No commit order loses or mints any.  *)
PaidCreditExplained ==
  \A a \in Accounts :
      account[a].bucket.permanent
        + Total([h \in ActiveHoldsOf(a) |-> hold[h].reserved.permanent])
        + Total([k \in EntriesOf(a) |-> entry[k].taken.permanent])
        + Total([k \in Lowerings(a) |-> -entry[k].amount])
    = (IF a \in Opened THEN Opening ELSE 0)
        + Total([k \in Credits(a) |-> entry[k].amount])

(* Time credit is never minted: all the daily (period) credit an account has, has
   in active holds or has spent came from one allowance for each day (month)
   its watermark has reached, races around midnight included.              *)
TimeCreditNotMinted ==
  \A a \in Accounts :
    /\ account[a].bucket.daily
         + Total([h \in ActiveHoldsOf(a) |-> hold[h].reserved.daily])
         + Total([k \in EntriesOf(a) |-> entry[k].taken.daily])
       <= Allowance.daily * (account[a].dailyOn + 1)
    /\ account[a].bucket.period
         + Total([h \in ActiveHoldsOf(a) |-> hold[h].reserved.period])
         + Total([k \in EntriesOf(a) |-> entry[k].taken.period])
       <= Allowance.period * (account[a].periodOn + 1)

(* Returning a reservation never lifts a time bucket above its allowance, even
   when the bucket was refreshed between the hold and its settlement.      *)
BucketsWithinAllowance ==
  \A a \in Accounts : /\ account[a].bucket.daily <= Allowance.daily
                      /\ account[a].bucket.period <= Allowance.period

Captures(h) == {k \in EntryKeys : entry[k].kind = "capture" /\ entry[k].hold = h}

(* A hold is settled once: it is captured exactly when one capture entry, of at
   most its amount, was posted for it; a released or expired hold has none. *)
SettledOnce ==
  \A h \in HoldKeys :
    IF hold[h].status = "captured"
    THEN \E k \in EntryKeys : Captures(h) = {k} /\ -entry[k].amount <= hold[h].amount
    ELSE Captures(h) = {}

(* An account that is deleted has no active hold, though it is deleted and restored
   while requests that found it active are open (deleteAccount counts holds, and
   holdCredits looks at the account under the lock), but for holds that were placed
   between the count and the deletion.                                     *)
DeletedHoldsNothing ==
  \A a \in Accounts :
    account[a].state = "deleted" => \A h \in ActiveHoldsOf(a) : hold[h].raced

(* What the ledger charges is what left the buckets: the amount a spend or a
   capture posts is what it took from the account or kept of the reservation,
   whatever part of the reservation went back.                             *)
DebitsAreCharged ==
  \A k \in EntryKeys :
    entry[k].kind \in {"spend", "capture"} => -entry[k].amount = Available(entry[k].taken)

(* A settled hold never changes again: a capture, a release and a sweep that
   raced for it leave what the winner wrote.                               *)
SettlementIsFinal ==
  [][\A h \in HoldKeys : hold[h].status \notin {"none", "active"} => hold'[h] = hold[h]]_hold

(* A watermark never moves back: a request that read the clock before midnight
   and got the row lock after one that read it later resets no bucket again. *)
WatermarksAdvance ==
  [][\A a \in Accounts : /\ account'[a].dailyOn >= account[a].dailyOn
                         /\ account'[a].periodOn >= account[a].periodOn]_account

(* Every hold past its expiry eventually leaves "active", whoever settles it:
   suspended credit comes back although sweeps fail and requests race them. *)
ExpiredHoldsReclaimed ==
  \A h \in HoldKeys :
    (hold[h].status = "active" /\ hold[h].expiresAt \in 0 .. clock - 1)
      ~> (hold[h].status # "active")

(* The ledger implements CreditEscrow: to the permanent credit, every transaction
   is one escrow step of its hold, one adjustment, or nothing.             *)
EscrowState(status) ==
  CASE status = "none"     -> "unopened"
    [] status = "active"   -> "open"
    [] status = "captured" -> "settled"
    [] OTHER               -> "returned"

Escrow == INSTANCE CreditEscrow WITH
  Escrows <- HoldKeys,
  paid    <- [a \in Accounts |-> account[a].bucket.permanent],
  escrow  <- [h \in HoldKeys |->
                [state  |-> EscrowState(hold[h].status),
                 owner  |-> hold[h].account,
                 amount |-> IF hold[h].status = "active"
                            THEN hold[h].reserved.permanent ELSE 0]]

ImplementsEscrow == Escrow!Spec

=============================================================================
