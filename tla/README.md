# kokoro-platform in TLA+

kokoro-platform is the control plane of a multi-site AI product: a pnpm
monorepo of TypeScript services (Fastify over HTTP, MySQL through Prisma,
MongoDB for the hub) that keep sites, users and teams, model bindings, skills
and MCP servers, payments, and the credit that model runs are paid from.
This directory models the parts of it whose correctness depends on the order
of events: transactions that overlap, requests that are repeated, services
that crash between two calls, timers that race with requests.

Contents:

1. Inventory of the system
2. Modules, runs, conventions
3. The credit ledger
4. Usage billing and active checks
5. Payments and webhooks
6. Users: sessions and teams
7. Admin: approvals and receipts
8. Directories: skills, MCP servers, secrets, sites, models
9. Proofs
10. What is not modelled, and why

## 1. Inventory

State is what a component keeps in its database or in memory. "Hard" names the
behaviour that tests reach badly; each has its line under `hazards` in
`PROJECT.json`.

| Component | State | Operations | Talks to | Hard | Correct when |
|---|---|---|---|---|---|
| credit: buckets (`kokoro-credit/src/domain`) | none, pure functions | `available`, `debit`, `refresh`, `creditBack`, boundaries | called by the ledger | empty, exact and short buckets; a return after a refresh | the debit spares lasting credit, a hold does not change who pays, a return never lifts a bucket above its allowance |
| credit: ledger (`prisma-credit-repository.ts`) | accounts (three buckets, `heldMicros`, watermarks), holds, ledger entries | ensure, grant, spend, reset, hold, capture, release, refresh, delete, restore, sweep | MySQL; called by usage billing, payment, admin | overlapping transactions, snapshot reads, retries with one key, midnight, the sweep against late settlements | held is the sum of the active holds, a hold is settled once, the entries explain the balance, expired holds come back |
| credit: usage billing (`credit-service.ts`) | pricing rules, quota of an account | holdForUsage, settleUsage, ensureAccount with welcome grant, setQuota | ledger, checker | gate and hold are two transactions; a crash before the welcome grant; prices that change before settlement | the quota holds, a run is charged once and never above its hold |
| credit: owner and site checks (`owner-site-checker.ts`) | two bounded positive caches with a TTL | ensureAccountActive | site, user | a ban in flight, a full cache | a banned owner is refused within one TTL |
| payment: orders (`payment-service.ts`) | plans, orders, refunds, subscriptions | checkout, confirm, sweep of stale confirmations, refund, subscription events | credit over HTTP | a crash between two services, a plan changed in between, two refunds | paid means granted once, refunded means reversed |
| payment: webhooks (`webhook-service.ts`) | payment events, providers | receive, process, replay | orders | duplicates, concurrent deliveries, a crash before the outcome is recorded | a processed event has had its effect, once |
| user: refresh tokens (`refresh-service.ts`) | refresh tokens | issue, rotate, revoke | signer | rotation against logout, replay and its grace window | one live token per chain, none after a logout |
| user: magic links (`magic-link-service.ts`, rate limiters) | links, windows | request, consume | mailer, Redis | two requests for one address, window edges | one consumable link per address, each consumed once |
| user: teams (`prisma-user-repository.ts`) | users, teams, memberships, invites, service accounts | upsert, role changes, removal, invite, accept, decline, delete and restore cascades | MySQL | write skew between two owners, accept against decline, replayed accept | a team keeps an owner, a removed member stays out |
| admin: approvals (`approval.ts`) | approval requests | create, approve, reject | other services | a crash between claim and outcome | an action runs at most once, only after approval by another operator |
| admin: operator sign-in (`admin-auth-*.ts`) | receipts, verification tokens, events | issue and use tokens, record events | MySQL, Connect RPC | two deliveries of one command | one effect for each command, replayed exactly |
| admin: gateway, RBAC | operators, roles | forward actions | all services | - | permission checks (pure) |
| site (`kokoro-site`) | sites, domains, apps, policies, flags | upserts, delete, restore, domain verification | DNS | the domain changes during the lookup | a verified domain had its token in DNS |
| model (`kokoro-model`) | provider accounts, bindings, labels, site policies | upserts, ensure, delete, restore, resolve | - | two reads for one answer, switches and relabelling in between | a site is served nothing that was withheld from it all the while |
| hub: skills | skills, revisions, per-namespace state, packages | upload, upsert (compare and set), delete, curation | MongoDB, S3 | two uploads at once, a failure after the write | history has every revision, the quota holds |
| hub: MCP servers | servers, revision snapshots | register, migrate, enable, delete, resolve | MongoDB | two registrations of one revision, a reader that migrates meanwhile, a crash before the snapshot | a revision names one configuration for good |
| hub: secrets | sealed values, key ring | create, delete, refer to, exchange | MongoDB, DNS, user | a deletion during a lookup, key rotation | a value leaves for its own namespace only, and a registered server can be assembled |
| platform-kit | none | HTTP and RPC helpers | - | - | - |

Interactions: payment calls credit (`/credit/accounts/ensure`, `/credit/grant`,
`/credit/spend`) with idempotency keys; the agent runtime calls credit
(`holdForUsage`, `settleUsage`); credit asks user and site whether an owner is
active; webhooks enter payment from providers; admin forwards approved actions
to every service. There is no transaction across services: what holds them
together is order, idempotency keys and sweeps.

## 2. Modules, runs, conventions

| Module | Models | Composed in |
|---|---|---|
| `Totals`, `Buckets`, `BucketReference` | sums over rows; bucket arithmetic, and what it should compute | `CreditLedger` |
| `CreditEscrow` | abstract: bought credit leaves the balance for a hold or for good, and comes back at most once | implemented by `CreditLedger` and by `UsageBilling` |
| `CreditLedger` | the credit service's repository | `MCCreditLedger` |
| `LedgerWallets` | `CreditLedger`, with its buckets held against `BucketReference` | `MCCreditLedger` |
| `ActiveChecks` | owner and site checks and their caches | `UsageBilling` |
| `UsageBilling` | holds and settlements of runs, quota, prices | `MCUsage` |
| `Purchase` | abstract: an order moves credit to its team once, and back at most once and in full | implemented by `Payments` |
| `Payments` | orders, refunds, subscriptions, provider events, the sweep | `MCPayments` |
| `WebhookAdapters` | the four adapters and what providers send them | `Webhooks` |
| `Webhooks` | `Payments`, whose events are what the adapters read | `MCWebhooks` |
| `Sessions` | magic links, rate limit, refresh tokens | `MCSessions` |
| `Teams` | users, teams, memberships, invites, service accounts | `MCTeams` |
| `Approvals`, `Receipts` | the gateway's dangerous actions; the commands of operator sign-in | `MCAdmin` |
| `SkillHub`, `McpHub`, `McpSecrets`, `Sites`, `Models` | the directories | `Catalog` |
| `Catalog` | the five of them side by side, their requests apart | `MCCatalog` |
| `LedgerArithmetic`, `*Proofs` | theorems, section 9 | - |

Modules that share no state (`Approvals` and `Receipts`; the five directories;
`ActiveChecks` and the billing half of `UsageBilling`) run in one instance
whose first state chooses a scene, and a behaviour is of one of them. A scene
also says which requests overlap in it, where all of them together would be out
of TLC's reach; each MC module states its scenes.

| Run | Checks | Distinct states |
|---|---|---|
| `ledger_holds`, `ledger_funds`, `ledger_calendar` | section 3 | 81,165; 294,590; 23,416 |
| `ledger_reset_race` | section 3, expects a violation | - |
| `usage` | section 4 | 1,631,727 |
| `payments_races`, `payments_webhooks`, `payments_sweep` | section 5 | 44,858; 344,134; 11,140 |
| `sessions`, `teams` | section 6 | 606,400; 352,763 |
| `admin` | section 7 | 572,652 |
| `catalog` | section 8 | 691,990 |

Conventions: one action per transaction step or awaited call, parameters as
`CONSTANTS` with a named `ASSUME`, no `RECURSIVE` operator in a module with
proofs or below one. A field or variable that the code does not have is called
history where it is declared. A definition `X_Something` next to `X` is a
variant of `X` with one plausible mistake; `PROJECT.json` pairs each with the
property that notices it. A property that the code keeps only when nothing
overlaps says so with a history field (`raced`, `late`, `crowded`, `clobbered`,
`overlapped`), which is as narrow as the race: the races themselves are listed
under "What the code does not promise" in each section.

Deadlock is checked in every run: a client can always be rolled back or asked
again.

## 3. The credit ledger

### How the model corresponds to the code

`Buckets.tla` has `domain/buckets.ts` as operators on records
`[daily, period, permanent]`. `IsStale` and the boundaries follow
`reset-boundary.ts`: the code compares instants of UTC midnight and of the
first of the month, the model the index of the day and of the month.

`CreditLedger.tla` has the three tables as functions from their unique keys:

| Model | Code |
|---|---|
| `account[a]`: state, bucket, held, dailyOn, periodOn | `credit_accounts`: existence and `deletedAt`, `dailyMicros`/`periodMicros`/`balanceMicros`, `heldMicros`, `dailyResetAt`, `periodResetAt` |
| `hold[h]` | `credit_holds`, `h` being the idempotency key |
| `entry[k]` | `credit_ledger_entries`, `k` being the idempotency key |
| `tx[t]` | an open database transaction of one request, after its snapshot |
| `sweep[s]` | the list and position of one run of `sweepExpiredHolds` |
| `clock` | `Date.now()` |

Prisma runs a transaction at MySQL's default isolation, REPEATABLE READ. Plain
reads see the snapshot of the transaction's first read; `UPDATE`, `SELECT ...
FOR UPDATE` and unique indexes see the latest committed row and lock it until
the end. A transaction is therefore two steps: `XBegin` takes the snapshot and
makes the checks that read it, `XCommit` does the locking work, with the checks
the code makes under the lock as guards. Every other transaction may commit in
between. `Rollback` stands for each way not to commit: a check that fails under
the lock, a lost race for a unique key, a deadlock, a lost connection, a
crash. `CreateAccount` and `RefreshAllowances` have no check on a snapshot and
are one step. A request that its first checks refuse changes nothing and is no
step. The wall clock that a request reads on arrival (`at`) can lie behind the
clock at its commit, which is what happens around midnight.

Three fields are history, for the properties only: `entry.hold`, `entry.taken`
and `hold.raced`, which says that a hold was placed while a deletion of its account
was between its two statements.

Symbols left out: `requestId`, reasons, feature keys, timestamps nobody
compares, and the wording of errors.

### What is checked

| Run | Question | Bounds |
|---|---|---|
| `ledger_holds` | Do `held` and hold states survive captures, releases and overlapping sweeps that fail? Does every expired hold come back, though single reclaims fail? (liveness) | 2 holds, 2 connections, 2 sweeps, amount 1 |
| `ledger_funds` | Do the entries explain the balance when requests repeat keys and overlap, and the account is deleted and restored under them? Does a deleted account hold nothing, but for what was placed while it was being deleted (`DeletedHoldsNothing`)? Does the ledger implement `CreditEscrow`? | 2 entry keys, 1 hold, 2 connections, 1 sweep, amounts 1 and 2, a daily allowance of 1 |
| `ledger_calendar` | Is time credit ever minted, or a watermark moved back, around midnight and month end? Are the bucket operators right on every wallet the ledger reaches? | 3 midnights, a change of month, allowances 2 and 1, 2 connections, creation and resets included |

The bounds are the least at which each race exists: a race needs two
connections (or one and a sweep), a contested hold needs one hold, the sum of
`held` needs two to be more than one of them, a repeated key needs two requests
with one key, which two connections give; a stale refresh needs one midnight
between the clock read and the lock, an old reservation returned to a newer day
a second one, and a third separates the month boundary from the day's. Amounts
1 and 2 against an opening of 2 reach the exact, the partial and the refused
debit. Keys, holds, connections and sweeps are symmetric in every run without
liveness.

`PaidCreditExplained` is checked where no reset runs, because with a reset that
overlaps a spend it fails (below). `BucketReference` holds what the bucket
operators are compared with: the best of all splits of an amount
(`Thriftiest`), and two identities between holding, capturing and releasing
(`CaptureIsSpend`, `ReturnCancels`).

Fairness (`FairSpec`, used by `ledger_holds` only): `setInterval` in
`kokoro-credit/src/interfaces/http/server.ts` starts a sweep again and again,
hence weak fairness of `SweepStart`. A reclaim may fail any number of times, but
a database that is asked over and over does not fail every time, hence strong
fairness of the two halves of a reclaim. Nothing is assumed of clients: they may
crash after any step and never come back.

### A disagreement with the repository's own statements

`ledger_reset_race` expects a violation of `PaidCreditExplained`. A comment at
`prisma-credit-repository.ts:294` has the entries of a reset explain the
balance; `resetBalance` computes its delta from a snapshot and then sets the
balance, so a spend committed in between is overwritten while its entry stays.

### What the code does not promise

- `deleteAccount` checks for active holds and deletes in two statements with
  nothing locked between them, so a hold can slip in (`:692`, `:701`). It is `raced`, and the one exception
  of `DeletedHoldsNothing`; a hold that comes later is refused under the lock.
- `creditBack` clamps to the allowance but cannot tell yesterday's reservation
  from today's: a hold of yesterday released today refills what today's
  requests used (`domain/buckets.ts:68-79`). `TimeCreditNotMinted` bounds what
  that amounts to.
- The sweep's loop has no `catch`: one failing reclaim ends it (`:568-583`) and
  the next sweep starts over, which is what `ExpiredHoldsReclaimed` relies on.

## 4. Usage billing and active checks

`UsageBilling.tla` has the requests of the agent runtime (`holdForUsage`,
`settleUsage`, release) and of operators (grants, quotas, pricing rules), each a
job that awaits one repository call after another: ensure the account, grant
the welcome if it is new, price each line of the usage, pass the quota gate,
hold. The ledger of section 3 appears as single steps on a balance, a held
amount and holds; `UsesEscrow` shows that runs use it as the `CreditEscrow` that
`CreditLedger` implements.

`ActiveChecks.tla` has the check that precedes every change of an account. The
call to kokoro-site or kokoro-user is three steps, question, answer and hearing,
with suspensions, other checks and time in between; `cache` is both
`PositiveTtlCache`s in insertion order, which is the order of eviction.

| Property of `usage` | Question |
|---|---|
| `QuotaRespected` | Does a hold that nothing overlapped leave the month's usage and what is held within the quota, though the gate reads them at different moments? |
| `SettlementsAgree` | Does a repeated settlement get the first one's answer, though prices change and releases and sweeps come in between? |
| `UsesEscrow` | Refinement of `CreditEscrow`: each hold leaves the balance once and closes once |
| `BanTakesEffect` | Is a suspended site or a banned owner served from the cache for less than one TTL after the suspension or the last answer that was under way? |

Bounds: two accounts of two sites with the same owner id, two runs of 3 and 0
tokens (an estimate of 2 and a buffer of one half: a run above, and one far
below its estimate; prices 0, 1, 2, credits of 2 micros), a quota of 6, which
one hold or two reach, months of length 2, caches of one entry, a TTL of 2.
Each behaviour mixes a few kinds of requests (`Mixes`); where prices change no
time passes.

What the code does not promise:

- Two holds that overlap both pass the gate (`credit-service.ts:193`): the
  quota is checked outside the transaction that holds.
- A hold that is retried passes the gate again, where its own first attempt
  already counts (`:254`), and may be refused although the hold exists.
- `settleUsage` prices a run with the rules in force then: once a rule has
  lapsed, a replay is refused rather than answered as before (`:343`, `:357`).
- A crash between the creation of an account and its welcome loses the welcome
  (`:109`): the next caller finds the account there.
- The TTL runs from when an answer is heard (`owner-site-checker.ts:38`), so an
  answer that travels long outlives the "one TTL" of the comment at `:13`.

## 5. Payments and webhooks

### How the model corresponds to the code

`Payments.tla` has the payment service's tables, the credit entries its calls
leave behind, and the position of every request in its handler:

| Model | Code |
|---|---|
| `plan[p]`: price, deleted | `payment_plans`: `creditMicros`, `deletedAt` |
| `order[o]`: status, plan, team, stale | `payment_orders`; `stale` says that `updatedAt` is older than the sweep's threshold |
| `refunds[o]` | how many rows of `payment_refunds` name the order |
| `sub[s]`: status, period | `payment_subscriptions` |
| `event[e]`: status, what | `payment_events`, `e` being (provider, eventId) and `what` the parsed payload |
| `job[p]`: at, order, plan, event, price, ok | the local variables of one running handler, and the call it is about to make |
| `sweep[s]` | the orders one run of `sweepStaleConfirmingOrders` has listed and not visited |
| `granted[o]`, `reversed[o]`, `renewed[s][q]` | amounts of the credit entries under the keys `order:<id>`, `order-refund:<id>`, `subscription:<id>:<period>` (0: no entry) |
| `balance[t]` | what the team may spend |

A job is a request (`Workers`) or a sweep (`Sweepers`). Each call that a handler
awaits is one step: a read, a conditional update, an HTTP call to credit. Before
each the job may be at any distance behind the others. `Throws` is the call
failing before it has an effect; `GrantAnswerLost`, `ReverseAnswerLost` and
`RenewAnswerLost` are the call having its effect and the answer being lost;
`Crash` drops the job, and for a sweep its list, and leaves what was written. A
handler that runs for a provider event ends by recording the outcome
(`SettleEvent`), which is a step of its own, so a crash between the effect and
the record is possible.

The credit service is the one of section 3 seen from here: an entry under a key
is made once, whatever amount a later call with that key asks for, and a spend
needs its amount. That the real one keeps these promises is what
`PaidCreditExplained` and `CreditEscrow` are about.

`WebhookAdapters.tla` has the four adapters (`verifySignature`, `parseEvent`) as
operators from a provider's notification to the payload `Payments` works with,
and the notifications providers send for what happened at them (`Report`).
Whether a signature verifies is a fact of the notification. Stripe's adapter reads
every `customer.subscription.*` type there is.

Two steps of the code are one here: `markOrderConfirming`'s conditional update
and the read of the row after it, and `createOrder`'s look for an existing order
and its insert, whose race the unique key decides. The sweep visits its list in
any order.

### What is checked

| Run | Question | Bounds |
|---|---|---|
| `payments_races` | Does an order survive checkout, award, confirmation, refund and sweep at once, with a plan edited in between? | 1 order, 2 requests, 1 sweep, prices 1 and 2 |
| `payments_webhooks` | Is an event, recorded, delivered twice, processed twice at once, abandoned and replayed, processed only with the effect of what happened at the provider (`ProcessedAsSaid`), and for good (`ProcessedIsFinal`)? Does the service implement `Purchase`? | 2 events of every kind, 1 order, 1 subscription, 2 requests, price 2, the plan deleted and restored, credit used |
| `payments_sweep` | Does the sweep finish what a crash left, and does one hopeless order keep it from the others? (liveness) | 2 orders of 2 plans, 1 request, 1 sweep |

Two requests and a sweep on one order are every pair of handlers that can meet
there, and a third that finds what they left. Two events make both a refund
overtake its payment and one event run twice. Prices 1 and 2 make a price that
changed visible; `ImplementsPurchase` is checked with one price, because a
refund takes back today's price (below). The second order in `payments_sweep`
is the one whose plan is deleted. `ProcessedAsSaid` looks at every report whose
notification verifies and parses to an event's payload: the event must have the
effect of each of them.

Fairness (`FairSpec`, used by `payments_sweep`): an order that stays confirming
grows old (`Age`). `setInterval` in `kokoro-payment/src/interfaces/http/server.ts`
starts the sweep over and over, and its loop goes on because each awaited call
returns or throws, at the latest when `fetch` gives up on a silent peer: weak
fairness of `SweepLoop`, which a throw or a crash also satisfies. Of the calls
that sweeps make for orders on sale, not all fail: strong fairness of each kind
of call, over all such orders together. No request, no operator and no
particular order is assumed to be served.

### What the code does not promise

- A refund takes back the plan's price at the time of the refund
  (`payment-service.ts:246`): a plan set to 0 after the purchase leaves an order
  refunded with its credit not taken back.
- Every attempt to confirm first refuses a deleted plan (`:117`), so an order
  whose plan is deleted while it is confirming stays so; the comment at `:119`
  has the sweep finish it. `LiveOrdersPaid` is what holds instead.
- Subscription events are applied in the order they arrive, an older status
  over a newer one.
- A partial refund at the provider refunds the whole order.
- `POST /payment-events/record` takes what it is told without a signature; here
  it tells the truth.
- Replay parses the stored payload with the provider's configuration of then;
  configurations do not change in the model.

## 6. Users: sessions and teams

### Sessions

`Sessions.tla`: `link` and `token` are the tables `magic_links` and
`refresh_tokens`, `window` is the rate limiter's (in memory: a window starts with
the request that opens it; in Redis: aligned, every request counted, and a
failure of Redis lets the request through, with its counts of none of the keys made,
of the address or of both). It counts by address, whatever the site, while links are
issued by site and address (`Emails`). A request is a job that reads the
clock and then awaits one call after another. `issue` of a link is one step: its
first statement is an `updateMany` that locks the index range of the address.
Consuming a link opens a session, so both are one module.

| Property of `sessions` | Question |
|---|---|
| `OneLiveLink` | Has an address at most one link that can be used, however many are asked for at once? |
| `LinkOpensOneSession` | Does a link open one session, however often and by however many requests it is shown? |
| `AdmissionsBounded` | Are at most two windows' worth of requests let through to an address, from whatever sites, in any stretch as long as a window? |
| `OneTokenPerLogin` | Has a login one usable token, or one rotation about to make it, whatever tabs refresh at once and wherever a rotation dies? |
| `RevocationEndsLogin` | Is a login of which any token was revoked at an end, but for what a rotation mints that the revocation ran into? |

Bounds: one address, one team, three links or three tokens (a chain of a first
token, its successor and theirs), two requests at once, a clock of 3 or 4 with a
TTL of 2 and a grace of 1, so that expiry, the grace and what is after it all
happen. Behaviours are of links asked for at one site and used, of links asked for
at two sites while Redis counts (and fails for one request at most), or of tokens.

What the code does not promise: a logout that falls between the consumption of
the old token and the minting of the new one leaves the new one live
(`refresh-service.ts:73`; the comment at `:85` says that one logout ends the
whole chain). A team's namespace is shared, so one member's logout revokes the
team sessions of all.

### Teams

`Teams.tla`: `user`, `team`, `member`, `invite`, `account` are the tables; a user
also names their personal team. Self-service operations read a snapshot
(REPEATABLE READ, no locks) and write in a second step; `raced` says that a row of
the job's team changed in between. `TeamsOf`, `TeamDetail` and `PendingInvites` are
what the BFF shows.

| Property of `teams` | Question |
|---|---|
| `SiteIsolation` | Do users and teams of two sites never meet, although people have accounts with one address on several sites and operations name bare ids? |
| `AcceptedHasMember` | Has an accepted invite made someone it was addressed to a member, through deletions and restorations? |
| `SettledInvitesStay` | Does a settled invite stay settled, unless two answers to it overlap? |
| `LastOwnerStays` | Does a team keep an owner, unless another write overlaps? |

Bounds: three users (two of one site, one of another with the address of the
second), one shared team, one invite, one service account, two requests; two
requests overlap in the scene `members`, operators delete, restore and disable
between the halves of one in the scene `lifecycle`.

What the code does not promise: two owners who demote each other leave none
(`prisma-user-repository.ts:332`, write skew); accept and decline of one invite at
once leave it revoked with its member active (`:303`); two pending invites of one
address (the comment at `:156` excludes them); accepting an invite may demote the
last owner; a restore revives rows that were deleted for another reason; login
re-activates a disabled user's personal team (`:734`, against `:442`).

## 7. Admin: approvals and receipts

`Approvals.tla` follows a request through the gateway: the operator and the role
are read at its start, then permission, scope, the request's row, the claim
(`pending` to `approved`, conditional), the call to the module, the audit row and
the outcome are awaited one by one, any of which may fail or be the last the
process does. A module may answer with an error after it has had its effect. Changes
of operators and roles are such requests too: they are written by an operator who
was allowed to when the request began. `Receipts.tla` has `executeOnce`: a look for the receipt in a
snapshot, then the effect and the receipt in one transaction whose insert waits
for others with the same id or key; a lost race is retried once.

| Property of `admin` | Question |
|---|---|
| `TwoOperators` | Does what needs an approval reach its module once at most, approved by another operator than asked and never after a rejection? |
| `ExecutedMeansDone` | Was a request that is marked executed done, once, and logged under the name of its approver? |
| `DoneOnce` | Does a command take effect once at most, and no two that share an id or a key, and may a client who was told so rely on it? |

Bounds: three operators, one request, two actions (one dangerous), two requests
at once; a change of an operator or a role overlaps one other request (scene `staff`); four
commands of which two reuse an id or a key, three deliveries at once: the two
that race for a key, and one that finds what they left.

What the code does not promise: a crash leaves a request approved for ever; one
marked failed may have been done, with its answer or its entry lost; permissions
are those of the start of a request. Consuming a token does not look at its
expiry. Manifests are constants here.

## 8. Directories

MongoDB runs one operation on one document, and site and model services run no
transactions: every query of a handler is a step. `Catalog` declares the variables of
all five and instantiates each (`H`, `B`, `S`, `D`; skills under their own names), so
that runs and proofs are about the same definitions.

| Module | State | Property of `catalog` |
|---|---|---|
| `SkillHub` | skills, their history, the package store, switches of namespaces | `HistoryTells`: the history tells one content for each revision, and all of it can be fetched; `QuotaHolds`: an upload of many items keeps the quota; `RequiredIsServed`: a pool has every skill operators require |
| `McpHub` | servers, snapshots of their configurations, grants | `GrantsResolve`: a session gets the configuration it was granted or nothing, through migrations and crashes |
| `McpSecrets` | sealed values, key ring, references of servers | `SecretsServeTheirOwner`: a value leaves for its namespace only, and a server's reference resolves until its secret is deleted |
| `Sites` | sites, domains, apps, policies and flags | `DeletedIsFrozen`: what is deleted stays as it is until restored, though a verification waits for DNS |
| `Models` | accounts, bindings, labels, hidden labels | `HiddenIsNotServed`: an answer of two reads has nothing that was withheld all the while |

Bounds: one namespace and the official scope; three skills and two contents of one
and two bytes with a quota of two packages and three bytes, so that either part of
the quota can be what refuses an item (scene `quota`; one skill elsewhere); one
server and two configurations; two handles, two master keys; two sites, of which one
has parts, and one domain; one account, one binding and two labels, of which the
catalog has one where models are served; two requests at once, of the kinds the scene says.

What the code does not promise:

- Skills: two first uploads of one skill at once both find it missing, and the
  second overwrites the first and counts revisions anew
  (`mongo-skill-repository.ts:237`); a history row that fails to be written
  (`:275`) is not made up for by a retry, which the same content cuts short
  (against `:227`); uploads that overlap may exceed the quota together.
- MCP servers: overlapping registrations both write the next revision; a reader's
  late migration rewinds it. A crash between document and snapshot leaves a grant
  without snapshot until the next registration.
- Secrets: a user who is demoted between the answer about their role and the
  write gets through; a server may be registered with a handle that was deleted
  during the lookup of its host, and then resolves to nothing. Old keys are
  assumed kept in `KOKORO_HUB_SECRET_MASTER_KEY_PREVIOUS`; the user service's
  answer is any role.
- Sites: a domain that moves keeps its token and its proof; a verification
  re-activates a domain an operator switched off; an upsert changes a row deleted
  meanwhile.
- Models: with relabelling between the two reads a binding may be served under a
  label that was hidden throughout, which the comment at
  `prisma-model-repository.ts:225` excludes; `ensure` re-activates what was
  disabled. Nothing writes `healthStatus`.

## 9. Proofs

### The ledger

`CreditLedgerProofs` proves, for all accounts, keys, amounts, plans, calendars
and any number of connections and sweeps:

| Theorem | Property |
|---|---|
| `TypeCorrect` | `TypeOK`: no bucket, held amount or reported balance is negative |
| `HeldIsExact` | `HeldMatchesHolds` |
| `SettlementIsSingle` | `SettledOnce` |
| `AllowanceIsCap` | `BucketsWithinAllowance` |
| `SettledForGood` | `SettlementIsFinal` (action property) |
| `DeletedAreEmpty` | `DeletedHoldsNothing` |
| `WatermarksOnlyAdvance` | `WatermarksAdvance` (action property) |

Its second half goes on from there to where the credit goes:

| Theorem | Property |
|---|---|
| `TimeCreditIsNotMinted` | `TimeCreditNotMinted` |
| `ChargesLeftTheBuckets` | `DebitsAreCharged` |
| `PaidCreditIsExplained` | `PaidCreditExplained`, where no administrator resets a balance |
| `EscrowImplemented` | `ImplementsEscrow`: the ledger implements `CreditEscrow` |
| `DebitsAreThriftiest` | `DebitIsThriftiest` |
| `ReservationsAreNeutral` | `ReservationIsNeutral` |

Assumption: `LedgerAssumption`, which TLC evaluates in every run. `SettledOnce`,
`BucketsWithinAllowance` and `DebitsAreCharged` have no run of their own. The hypothesis of
`PaidCreditIsExplained`, that `"reset"` is not among the requests, cannot be
dropped: `ledger_reset_race` is the counterexample.

The argument: none of the properties is inductive alone. A settlement
subtracts the hold's amount from `held`; that the result is not negative
(`TypeOK`) needs `held` to be the sum of the active holds; that the sum is kept
needs an open capture to name a hold that exists, with its account
(`RequestsNameRows`, `HoldsOwned`), and the conditional update to let one
settlement through. `IInv` is the conjunction of `TypeOK`, `HoldsOwned`,
`RequestsNameRows`, `HeldMatchesHolds`, `BucketsWithinAllowance` and
`SettledOnce`. Its preservation is one lemma per action, above lemmas about
rows: `OneRowMoves` (a row changes, no hold does), `SettleKeeps` (a hold
leaves "active"), `HoldCommitKeeps` (one enters it), `PostKeeps` (an entry is
posted). `SettledForGood` and `WatermarksOnlyAdvance` are then proved of one
step from a state in `IInv`. For `DeletedHoldsNothing` the state between the two
statements of a deletion counts as well: an account that is deleted, or of which a
deletion has seen no active hold, is `Shunned`, and holds nothing that is not
marked (`HoldsNoticed`).

`Total`, the sum over a set of rows, is the cardinality of the set of pairs
(row, unit) rather than a fold: the provers have theorems about finite sets and
none that instantiate induction over a recursive definition. `LedgerArithmetic`
has what the ledger needs of it, bounds what `Debit`, `Refresh` and `CreditBack`
return, and shows that they are what `BucketReference` asks for. One identity
there needs a wallet within its allowance (a returned reservation is clamped),
which is why `ReservationsAreNeutral` rests on `BucketsWithinAllowance`.

The second half first classifies the steps. `StepIsMovement` shows that each
is one of seven movements of credit (grant, spend, hold, capture, return,
refresh, reset) or none, and says which bucket lost what, which hold and which
entry recorded it. Everything after it argues about movements, not actions.
`Kept` is what an account has, has reserved and has spent of a bucket: a spend, a
hold and a capture leave it alone, a return never raises it, a refresh raises it
by one allowance and its watermark by a boundary at least, which gives
`TimeCreditNotMinted`; for permanent credit the same sums balance against the
opening and the grants, which gives `PaidCreditExplained`. A hold's reservation
is exactly its amount (`HoldsReserve`); that is what the charge of a capture, and
the step of the escrow that a hold, a capture or a return maps to, need to know.

### Usage billing and active checks

`UsageProofs` proves, for all accounts, runs, prices, quotas, months and any number
of requests at once, which may fail between any two calls (`UsageSpec`), and for
all sites, owners, TTLs and cache sizes (`ChecksSpec`):

| Theorem | Property |
|---|---|
| `QuotaIsRespected` | `QuotaRespected` (action property) |
| `AnswersAgree` | `SettlementsAgree` (action property) |
| `EscrowUsed` | `UsesEscrow`: billing implements `CreditEscrow` |
| `BansTakeEffect` | `BanTakesEffect` (action property) |

Assumptions: `UsageAssumption`, which includes that there are finitely many runs
(sums are over rows), and `ChecksAssumption`. The run `usage` checks the two
specifications side by side, one of them in each behaviour. The argument for the
quota: `HeldExact` says that what an account holds is what its active holds add up
to, and `ReqFresh` what a request may rely on until somebody changes its account:
what it read of it, and, once through the gate, that the month's usage, what it read
as held and its own amount are within the quota. Time may pass between gate and
hold; the start of the month only moves on (`MonthGoesOn`), and a sum of fewer rows
is no larger (`CapturedLater`). `Overtaken` carries the other requests across a step
that changes an account, and marks those that had read it. For settlements,
`AnswersTell` ties every answer to the row that it was read from, which nothing
rewrites: a capture to its usage record, a release to the hold's status. Each kind
of step is then one step of the escrow or none (`BalanceMoves`,
`HoldOpensEscrow`, `CaptureSettles`, `CloseReturns`).

For active checks `CacheInv` says that no entry of a cache outlives its subject's
last suspension or positive answer by more than one TTL; entries are dropped, pushed
out and appended (`Fewer`, `SetAdds`) but never renewed, and only a kept answer takes
a check on without asking (`OnlyHits`).

### Payments

`PaymentsProofs` proves, for all plans, prices, orders, teams, subscriptions,
events and any number of requests and sweeps, with throws, lost answers and
crashes anywhere:

| Theorem | Property |
|---|---|
| `TypeCorrect` | `TypeOK`: no team's balance is negative |
| `PaidIsGranted` | `PaidMeansGranted` |
| `ReversedWasPaid` | `OnlyPaidReversed` |
| `RefundIsSingle` | `OneRefundRow` |
| `ProcessedHasEffect` | `ProcessedMeansDone` |
| `StatusNeverBack` | `StatusAdvances` (action property) |
| `ProcessedForGood` | `ProcessedIsFinal` (action property) |
| `PurchaseImplemented` | `ImplementsPurchase`, while plans have one positive price (`FixedPrice`) |
| `ReportsHaveEffect` | `ProcessedAsSaid`, where orders are confirmed and refunded by events alone (`ByEventsOnly`) |

Assumption: `PaymentsAssumption`, which TLC evaluates in every run. The theorems
about `OneRefundRow` and `ProcessedMeansDone` have no run of their own. The
hypothesis `ByEventsOnly` is the setting of the run `payments_webhooks`: an order
that somebody confirms by hand is touched without an event.

The argument: the properties speak of rows, but what keeps them true is in
flight. The job that marks an order paid does not look at credit; it relies on
having been answered by it, several steps and any number of other jobs ago. So
`IInv` says of every job what it has learnt on the way to the step it is at
(`Learnt`: the order exists, was seen paid, its grant is there) and, if it runs
for an event, that it does what the event asks and ends well only when that has
happened (`Serves`). Such knowledge is only safe because nobody can undo it:
`Forward` lists what no step takes back (rows, advanced statuses, credit
entries, payloads), every action is shown to go `Forward`, and `SoundStays`
carries the knowledge of all other jobs across it. Each action then has one
lemma, about the one job and the one row it touches. For the refinement
`Balanced` adds that both entries of an order are of the plan's price and that a
job about to close a refund has the reversal behind it; `NoneComesToClose` names
the steps for which that is nothing new.

`ReportsHaveEffect` is about `Webhooks`, where what an event asks for is what an
adapter read. `ParsedAsMeant` shows, case by case over everything a provider may
send, that a notification whose signature verifies is parsed to what it was sent
for, by each of the four adapters. `Traced` adds to `IInv` that every order which
has left `pending`, and every order that a job or a sweep has in hand, is named by
an event that was recorded.

### Approvals

`AdminProofs` proves of `Approvals`, for all operators, roles, sites, actions and any number
of requests at once, with failures and crashes anywhere:

| Theorem | Property |
|---|---|
| `SecondOperator` | `TwoOperators` |
| `ExecutedWasDone` | `ExecutedMeansDone` |

Assumption: `ApprovalsAssumption`. The argument: a request that is claimed
belongs to one handler until its outcome is written, and the step that handler is
at tells whether the effect has happened (`ClaimHeld`, `OneClaim`). `IInv` is
`TypeOK`, `RowsWhole` (a row has what its status says it has), `JobsWhole` (a job
knows the request it works on, and what it knows is so), `OneClaim` and the two
properties.

### Receipts

`AdminProofs` proves of `Receipts` `CommandsDoneOnce`, that is `DoneOnce`, for all
commands, however ids and keys are reused. Assumption: `ReceiptsAssumption`, that
every command has an operation and a target. `ReceiptsInv` is `ReceiptsTypeOK`,
`ReceiptTells` (a receipt is there exactly if the effect was committed, once),
`ReceiptsApart` (no two share an id or a key), `AnswersTold` and
`RpcsNameCommands`.

### Sessions

`SessionsProofs` proves, for all addresses, teams, links, tokens, lifetimes and any
number of requests at once, with failures and crashes between any two calls:

| Theorem | Property |
|---|---|
| `OneLink` | `OneLiveLink` |
| `LinkSpentOnce` | `LinkOpensOneSession` |
| `OneToken` | `OneTokenPerLogin` |
| `RevocationEnds` | `RevocationEndsLogin` |
| `LimiterHolds` | `AdmissionsBounded` |

Assumption: `SessionsAssumption`, which includes that there are finitely many
links and requests at once. The argument: between spending a link and minting
the session's token, and between consuming a token and minting the next, the row
no longer says that it can be used and the request alone knows that something is to
come of it. `IInv` therefore treats such a request as an owner: of the link
(`LinksSpent`) or of the login (`OneMaker`: a usable token or one rotation in
flight). A revocation cannot reach a token that does not exist yet, so `MintersTold`
has it mark the rotations it runs into, and every rotation of a login that was
revoked bears the mark. `JobsWhole` and `TokensWhole` say that tokens of one login are of
one namespace, which is what a revocation goes by. Steps that write no row go
through one lemma (`GoOn`), those that age tokens through `AgedKeeps`, the two
mintings through `MintKeeps`.

The rate limit has an invariant of its own, `LimiterInv`. `Through` counts what
was let through to an address in a stretch of time: the links issued under the
limit from any of its sites and the requests that passed it and have yet to write theirs. The open
window covers (`Covering`) all that was let through since it opened, whatever
became of it since, and nothing was let through past its end; the stretch a
window's length before it let through no more than the limit. When a window opens
the last one is over (`OpensAfter`). Any stretch meets two windows at most
(`Straddles`), which is where the factor two in `AdmissionsBounded` comes from. Both backends are covered: Redis counts in aligned windows,
and what it lets through when it fails is not under the limit; the memory backend
opens one with the first request that finds none.

### Teams

`TeamsProofs` proves, for all users, sites, teams, invites, roles and any number
of requests in flight, with operators deleting and restoring rows under them:

| Theorem | Property |
|---|---|
| `SitesApart` | `SiteIsolation` |
| `AcceptedIsMember` | `AcceptedHasMember` |
| `SettledStay` | `SettledInvitesStay` (action property) |
| `OwnerStays` | `LastOwnerStays` (action property) |

Assumption: `TeamsAssumption`, among others that users are neither teams nor
invites. The argument: a request checks one snapshot and writes over whatever is
there later, so two kinds of knowledge have to be told apart. What it may rely on
for good (`JobWhole`) is what no writer of any kind undoes: rows are marked and
never vanish (`MembersGrow`, `InvitesGrow`), and no invite changes its team or its
address; that gives `SiteIsolation` and `AcceptedHasMember`, overlaps
included. What it may rely on only while its team is not written to
(`JobFresh`: the invite is pending, the team has another owner) holds until the
job is `raced`, which is the exception both action properties make. `Noticed`
and `JobsKept` carry the jobs of all other requests across a step; `SoundKeeps`,
`AtOnceKeeps` and `SnapshotKeeps` reduce each operation to the rows it writes.

### Directories

`CatalogProofs` proves of the five parts of `Catalog`, each under its own
specification, for all names, contents and any number of requests at once:

| Theorem | Of | Property |
|---|---|---|
| `HistoryNeverLies` | `SkillHub` | `HistoryTells` |
| `QuotaIsKept` | `SkillHub` | `QuotaHolds` |
| `RequiredAreServed` | `SkillHub` | `RequiredIsServed` (action property) |
| `GrantsAgree` | `McpHub` | `GrantsResolve` |
| `SecretsServe` | `McpSecrets` | `SecretsServeTheirOwner` |
| `DeletedStays` | `Sites` | `DeletedIsFrozen` (action property) |
| `WithheldIsNotServed` | `Models` | `HiddenIsNotServed` |

Assumption: `SkillHubAssumption` for skills, none for the others. What the five
arguments share is a request that knows something from a read and writes later;
they differ in what keeps that knowledge true.

- Skills (`SkillsSound`): the document is written before its history row, so the
  history alone is not inductive. `Told` is the history with the rows that uploads in
  flight have yet to append, and is told once (`ToldOnce`): the revision in the
  filter lets one write of a revision through. A package is stored before anything
  names it (`PackagesKept`). For the quota, an upload to a scope that is not
  `crowded` is alone in it (`AloneUnlessCrowded`), and what it counts covers what
  is live (`CountsCover`), deletions and failed items included.
- MCP servers (`HubInv`): of a server that is not `overlapped`, grants, snapshots and
  grants about to be made agree with its document on what a revision is (`Facts`), a
  registration that is to write is the only writer while migrations, which all write
  revision one, may overlap each other (`Alone`), and what a writer
  read of the server is still so (`UpToDate`).
- Secrets (`SecretsInv`): the scope of a secret is fixed once it is `Stored`, its key
  is in the ring, and a registration past its check of the handle refers to a secret
  its namespace stored, deleted since or not.
- Sites (`SitesInv`): a request past its last check of a row which is deleted now has
  marked the row `late` (`Aware`); a request that has not is yet to look.
- Models (`ModelsInv`): what a resolution read was in service when it read
  (`Serves`), and what has been withheld all along only shrinks while it runs
  (`ObservedLess`), so the first read stays good until the answer.

### Beyond the provers

Model-checked only: `ExpiredHoldsReclaimed` and `LiveOrdersPaid`. They are liveness
properties under fairness; reasoning about fairness needs `ENABLED`, which is beyond
the provers used. Every other property of a passing run is the property of a theorem.

## 10. Not modelled

- Everything marked `not_modelled` in `PROJECT.json`, with the reason there:
  generated code, stateless plumbing, configuration.
- Of the ledger's repository: the read-only lists, sums and statistics.
- Of billing: quotes and summaries, which only read, and holds without a run.
- Of payments: the creation of a plan, money amounts and currencies, writing and
  deleting provider configurations; the creation of the credit account that each
  call to credit ensures first, which changes nothing an order depends on.
- Of users: names, slugs and profiles, operators' lists and statistics, API keys
  (single-row writes).
- Of admin: authentication of a request, discovery of manifests, forwarded reads.
- Of models and skills: priorities, features, pins and weights, which order and
  filter an answer; the parsing of packages.
- Overflow: amounts are `BigInt` in the code and `BIGINT` columns in MySQL;
  reaching 2^63 micro-credits is not a state the program gets to.
- Deadlocks inside MySQL: a victim is rolled back, which is `Rollback`.
