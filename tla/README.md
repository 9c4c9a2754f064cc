# AuthLedger: specifications and proofs

TLA+ models of AuthLedger (an identity service with a payments ledger: Fastify,
Postgres, Stripe, a pg-boss mail queue), the TLC runs that check them and the
theorems TLAPS proves about them. Paths are relative to the repository.
`PROJECT.json` lists the runs, the source lines each definition stands for, the
hazards each property is aimed at, and the theorems.

## The system

| Component | State it keeps | Operations | Talks to |
| --- | --- | --- | --- |
| Checkout (`routes/payments.ts`) | `payments` rows | create a payment | provider (call), browser (client secret) |
| Stripe webhook (`routes/stripe-webhooks.ts`, `stripe-mapping.ts`) | `provider_events` (the inbox) | claim an event, apply it, post it | payments, ledger, one transaction |
| Payment state machine (`domain/payments.ts`) | `payments.status`, `last_event_at` | apply an event, record a payment | called by the two above |
| Ledger (`domain/ledger.ts`, migration 0009) | `ledger_entries`, `ledger_postings` | post a balanced entry once | called by the webhook and reconciliation |
| Refunds (`routes/payments.ts`) | `refunds` rows | refund under a key and a ceiling | provider (call); the ledger hears of it by webhook |
| Reconciliation (`domain/reconciliation.ts`, `jobs/reconcile.ts`) | `reconciliations` | list the provider's settlements, post fees, report differences | provider, ledger |
| Accounts, tokens, sessions (`domain/accounts.ts`, `tokens.ts`, `sessions.ts`, `routes/auth.ts`, `account.ts`) | `users`, `auth_tokens`, `sessions` | register, log in, lock, verify, reset, revoke, delete | mail queue; deletion cascades to payments and refunds |
| MFA (`domain/mfa.ts`, `routes/mfa.ts`) | secret, step, recovery codes, challenges | set up, enable, verify, disable | login |
| OAuth (`domain/oauth.ts`, `routes/oauth.ts`) | `oauth_flows`, `provider_identities` | start, callback, link | login |
| Roles (`domain/authz.ts`, `routes/admin.ts`) | `user_roles` | grant, revoke, boot grant | every request reads permissions |
| Denial audit (`plugins/authz-guard.ts`) | counters in memory | count and audit 403s | audit log |
| Mail (`domain/dispatch.ts`, `jobs/queue.ts`) | `email_dispatches`, the queue | claim, cap, send, mark | SMTP, suppression list |
| Bounces (`routes/webhooks.ts`, `domain/suppression.ts`) | `email_suppressions`, `processed_sns_messages` | claim, suppress | SNS |
| Purge (`domain/purge.ts`) | none | drop expired rows | tokens, sessions, SNS ids |

What is hard: everything runs as concurrent requests over Postgres at READ
COMMITTED, mostly without row locks, so a handler acts on what it read an `await`
ago; the provider delivers its events at least once, in any order, with times in
whole seconds; calls to the provider and the database fail or lose their answer
half way; and the deletion of an account cascades into all of it.

What makes each part correct:

- *payments and webhook*: a payment moves only on a decision made while it was
  live, so with one request at a time a finished one stays finished; a settled one
  is in the journal; each movement is posted once; an event is acknowledged exactly
  with its effects; the books say nothing the provider did not do.
- *refunds*: rows and replies match the provider's refunds; a retry changes
  nothing; the ceiling holds.
- *reconciliation*: every settlement is read by some successful run as long as the
  windows fit in the pages; fees are posted once; a settlement that is not in the
  journal is reported.
- *identity*: a reset ends every session it finds and spends its link once; guesses
  are bounded however they are pipelined; a new link ends the old ones; nothing
  outlives a deleted account.
- *second factor*: a code, a recovery code and a challenge are each good once; one
  sheet of recovery codes is live; MFA goes on with a confirmed secret and off by
  a code.
- *sign-in by OAuth*: every account has a way in; an identity reaches its own
  account or that of an address its provider has verified.
- *roles*: a role is never held by a deleted account, and the last admin is not
  demoted, which two revocations at once refute.
- *mail*: a message is sent once unless an attempt is lost, within the daily cap,
  and never to an address known to bounce.

## Modules

| Module | What it is |
| --- | --- |
| `PaymentPipeline` | checkout, provider, webhook transactions, inbox, payment rows, journal, account deletion |
| `PaymentLifecycle` | what the pipeline promises: a payment moves on a decision made while it was live, and is charged in the step that settles it |
| `PaymentPipelineProofs` | the inductive invariants of `PaymentPipeline` and six theorems |
| `PaymentLifecycleProofs` | the refinement of `PaymentLifecycle`, with any number of webhook requests |
| `Refunds`, `RefundsProofs` | the refund handler, one action per `await`, and the provider's idempotency keys |
| `Reconciliation`, `ReconciliationProofs` | reconciliation runs over a growing list of settlements |
| `Identity`, `IdentityProofs` | one account: login, lockout, reset links, resets, sessions, deletion |
| `Mfa`, `MfaProofs` | the second factor of one account: setup, enable, disable, challenges, codes |
| `Accounts` | how accounts come to be: registration, verification, OAuth linking, deletion |
| `Roles`, `RolesProofs` | extends `Accounts`: grants, revocations, the last-admin rule, the boot grant |
| `EmailDelivery`, `EmailDeliveryProofs` | mail queue, dispatch with its daily cap, bounces, suppression, purge |
| `MCPaymentPipeline`, `MCRefunds`, `MCReconciliation`, `MCIdentity`, `MCMfa`, `MCRoles`, `MCEmailDelivery` | the finite instances and symmetry sets of the runs |

An operator whose comment begins "Faulty variant" is not part of a specification:
it is the neighbouring definition with a plausible bug, and each property is
checked to fail when the variant takes the definition's place.

### PaymentPipeline

The provider's side (`provider`, `event`, `now`) is how the code uses Stripe: an
intent is confirmed by whoever holds its `client_secret`, a declined card leaves
it open, events carry the second they were made in, one occurrence may get two
event ids. `Deliver` may pick any emitted event at any time, which is every
delay, repetition and reordering.

The application's side is the database (`accounts`, `status`, `lastAt`, `inbox`,
`journal`) and, for each webhook request, a transaction record `tx[h]`. One
statement of the handler is one action, `Claim`, `Read`, `Update`, `Post`,
`Commit`, and what a statement writes is kept in `tx[h]` until `Commit`, since
nobody else sees it; `Abort` drops it. Postgres makes a transaction wait in three
places, and these are guards: the insert of an event id another transaction has
inserted (`ClaimHeld`), the update of a row another transaction has updated
(`RowLocked`), the insert of a `(kind, reference)` another transaction has
inserted (`KeyHeld`). `Read` takes no lock: what it decides stays decided, which
is what `pipeline_overlap` is about. `DeleteAccount` waits for row locks too.

Left out: amounts and currencies (fixed per intent, `CHECK (amount_minor > 0)`),
the postings of an entry, signatures, replies, the audit log. An intent has at
most one refund and one dispute, referred to by the intent; the code refers to
them by their own ids, so the model merges no two keys the code keeps apart.

### PaymentLifecycle

What a reader of `payments` and of the journal may rely on, in three variables.
`state` is the row, `erased` once the account is gone; `charged` the payments with
a charge; `decided` the moves that some request has decided on. `Decide` needs a
live payment, and `Apply` needs a decision but not a live payment: that is as much
as `applyPaymentEvent` guarantees, whose SELECT takes no lock and whose UPDATE
names the id alone. A finished payment can so move again, once for each decision
that was open when it finished, and never otherwise. In `Apply` the charge comes
with the settlement, no charge is ever taken back, and nothing brings an erased
payment back. The mapping reads `decided` off the requests between their SELECT
and their commit (`Decisions`).

### Refunds

Each request is a record `req[r]` and goes through `Ask`, `Find`, `Check`, `Call`,
`Record`: the reads, the provider call and the INSERT are separate awaits with no
transaction. `CallLosesAnswer` is a refund that was done and answered 502, `Dies`
a crash between two awaits. The row is keyed by payment and header, as
`refundKey` is; `rows` and `provider` are separate maps over the same keys. A
repeated call under one key gets the first answer if payment and amount agree and
an error otherwise, as Stripe does. The refund a dashboard user makes at the
provider is not modelled.

### Reconciliation

The provider's list is `created`, the times at which transactions 1, 2, ... N
settled. A run `run[r]` reads the watermark (`Start`), lists (`List`, then `Page`
while there are more), goes through each transaction (`Fee`, a database
transaction of its own, and `Check`, the read of the ledger) and writes its row
(`Record`, or `RecordFailed` on any exception). `Fails` is an exception or a crash
before any of these steps. Settlements, charges from the webhook and other runs
come between any two of them. As in the code, pages are listed newest first from
the last one seen, so what settles meanwhile is not in the listing, and the run
with no watermark reads one page. Which transactions have no fee, no payment
intent, another amount, or are payouts are constants (`Free`, `Direct`,
`Differing`, `Payouts`). Amounts are not modelled further, nor is the sum the
report shows.

The watermark is the time a run is recorded, not the time it listed. That a
settlement made in between is not lost depends on the overlap of an hour
(`WATERMARK_OVERLAP_S`) being longer than a run; this is the assumption
`MaxRun <= Overlap` of the instances, enforced by the guard of `Tick`.

### Identity

All statements of the handlers name one account, so one is modelled. `users` is
`account`, `password` (a number per password), `failed` and `locked`; sessions and
reset links are maps over a few ids. A request `req[h]` is at one of the awaits
of `POST /login` (`Login`, `Clear`, `Count`, `Lock`, `Rotate`, `CreateSession`),
`POST /password-reset/request` (`AsksForLink`, `Supersede`, `Mark`, `Issue`) or
`POST /password-reset` (`UsesLink`, `Consume`, `Change`, `Revoke`, `Commit`). Login
is single statements, each visible at once; the other two are transactions,
whose writes are kept in the request (`marks`, `kill`) until they commit and whose
row locks are the guards `RowHeld` and `LinkHeld`. An `UPDATE` works on what was
committed when it began, and looks again at a row it waited for: hence
`Supersede` and `Mark` are two steps of one statement. Deletion waits for locks,
cascades, and makes later inserts fail on their foreign keys.

`older` and `setBy` record which links were there when a link was issued and which
link set which password; `guesses` counts wrong passwords since the counter was
last forgiven (a success, a reset, the end of a lock). A session is `late` if it
was inserted when a reset had already looked for sessions, or had committed,
since its login checked the password: `createSession` asks nothing of the
password, so such a session of the old password stays. `ResetEndsSessions` says
that no other does.

### Mfa

One account again, since every statement names it. The row of `users` is `secret`
(a number per setup), `enabled` and `lastStep`; `recovery` has one element for
each batch of ten codes; `challenge` is `mfa_challenges`. A right code is the pair
of a secret and a step in `Window`, the current one and the two beside it
(`EPOCH_TOLERANCE_SECONDS`). `enableTotp` and `disableTotp` are transactions: the
UPDATE takes the row (`holder`), the DELETE finds the codes committed so far, the
INSERT and the commit are one action because nobody sees anything between them.
Everything else is single statements. `verifyTotpForUser` reads the row and later
runs its UPDATE guarded by `totp_last_step`: `ReadsRow` and `Advance`.

Setup, enable and disable test `totp_enabled_at` in the preHandler, a read ago.
Two races follow, and the properties name them as their only exceptions. A setup
begun before an enable may replace the secret and turn MFA off with no code
(`early`). A setup or a disable that commits between the check of a code and the
UPDATE of an enable leaves MFA on with a secret nobody confirmed, or with none
(`crossed`), though migration 0004 says that a staged secret does not gate the
login until it is confirmed. `SingleUse` counts codes from one enable to the next,
because enabling clears `totp_last_step`.

### Accounts and Roles

`Accounts` has many users over few addresses: here accounts do meet, in the
`UNIQUE` keys of `users.email` and `provider_identities`. The transaction of
`resolveOAuthUser` is `Look`, `Create`, `Link` and `Commit`; its rows stay in the
request until `Commit`, and an INSERT of a key that an open transaction has
inserted waits (`EmailHeld`, `IdentityHeld`). When the key turns out to be taken
the only way on is `Fails`, as the code has no retry. `known` is the provider's
word that an address is verified, and it may differ from one callback to the
next; `vouched` records that it was given. `synthetic` addresses are those of
`syntheticEmail`. `DeleteAccount` removes identities and links, and waits for a
transaction whose foreign key holds the account. A registration's link is spent as
a whole when a new one is issued, since `Identity` has the details of `issueToken`.

`Roles` adds `user_roles` and the requests of admins: the preHandler's permission
check, the SELECT of the target, the INSERT; `isLastAdmin` and then the DELETE.
All are separate awaits. `Boot` is `ensureAdminRole`, which every process runs.
`LastAdminNotDemoted` is what the threat model says of the check, with no exception
but a deletion of the last admin's account, and the code refutes it: see
`roles_last_admin`. Until the next boot with `ADMIN_EMAIL` nobody can grant roles.

### EmailDelivery

A job is in the queue (`job`, `tries`) and, while a worker has it, an attempt
`worker[w]` at one of the awaits of `deliverEmail`: `Check`, `Claim`, `Count`,
`Withdraw`, `Lookup`, `Send`, `Mark`, then `Complete`. All are single statements.
`Throws` is any of them failing, a mail server that took the message and did not
say so included; `Crash` is the process; `Expire` is the queue giving up on an
attempt, which may be dead or only slow: then it is `stale`, goes on, and a
second attempt of the job runs beside it. `holds` is whether the row whose id it
knows is still there. `Lapse` is the retention of a job nobody takes.

The bounce webhook is one transaction per notification (`Notify`,
`NotifyCommits`, `NotifyFails`); the provider may repeat a notification at any
time. `Purge` drops the ids of days gone by. A job belongs to one address; a
deletion sets `user_id` of its rows to NULL, and its own notice has none and is
not counted.

`faults` counts attempts lost while the message may have been taken. `uncapped`
are the jobs the code counts on no day: those that resume the row of an earlier
attempt, and those claimed before midnight and counted after. `tainted` are
the jobs enqueued after a bounce of their address was acknowledged.

## Runs

| Run | Instance | Result |
| --- | --- | --- |
| `pipeline_concurrent` | 1 payment and 1 intent of someone else's, 2 events, 2 handlers, 2 seconds, 1 rollback, fairness | passes: six invariants, refinement, liveness |
| `pipeline_overlap` | 1 payment, 3 events, 2 handlers | `TerminalNeverMoves` fails |
| `pipeline_declined` | 1 payment, 2 events, 1 handler | `SettledIsCharged` fails |
| `refunds_race` | 2 payments of 2 units, 2 headers, 2 requests, 1 lost | passes: rows, replies and provider agree |
| `refunds_ceiling` | 1 payment, 2 headers, 2 requests | `CeilingHolds` fails |
| `reconcile_overlap` | 2 runs at once, 3 transactions, pages of 1, 1 failure | passes: fees, windows, clean reports, an overflow is final |
| `reconcile_live` | 1 runner, 2 transactions, 1 failure, fairness | passes: every settlement reached |
| `identity_requests` | 2 requests, 2 sessions, 3 links, 2 resets, lock at 2 failures | passes: links, guesses, sessions, deletion |
| `mfa_requests` | 2 requests, 2 challenges, 2 secrets, 2 batches, 3 steps | passes: codes, recovery codes, enabling and disabling |
| `roles_and_accounts` | 2 users, 1 address, 1 identity, 2 requests, 2 admin requests | passes: ways in, linking, no role without an account |
| `roles_last_admin` | 2 users, 2 addresses, 1 request, 2 admin requests | `LastAdminNotDemoted` fails |
| `email_delivery` | 2 jobs of 1 address, 2 workers, 1 retry, a cap of 1, 2 days, 1 bounce | passes: once, capped, never to a bounced address |

Bounds. `MaxTime` = 2 is enough for "older", "same second" and "newer".
`MaxAborts` = 1 puts one failure at every point; a second one repeats it, since a
rolled back transaction leaves no trace. Two handlers show each race of two
transactions: every wait and every stale read is between a pair. Two events allow
a decline and a success, a success and its duplicate, a success and its refund;
`pipeline_overlap` has three. Payments do not share rows, so one is enough where
keys are not compared, beside one intent that has no row; the `refunds_race` run has two because its keys join two names.
`Captured` = 2 and `Ceiling` = 1 allow a partial refund, the rest, and the sum of
two over the ceiling. `MaxLost` = 1 as `MaxAborts`.

For reconciliation, N = 3 with two pages of one gives a window of several pages,
one that overflows, one transaction that settles during the listing and one that
is a payout or has neither fee nor intent; three seconds give an old window, the overlap and the
present. For identity, `MAX_FAILED_LOGINS` = 2 separates the first failure from
the one that locks, two requests race every pair of handlers, three links allow
two to be issued at once over an old one, and two resets allow one link to be
tried for both. `MaxDropped` = 1 is a request that dies between counting and
locking, which costs one more guess.

For the second factor, two secrets let a setup replace an enabled one, two batches
let two enables cross, two times of the clock with three steps let a code of an
older step come after a newer one; two challenges let two logins race. For accounts,
one address that is registered, verified by a provider and the operator's is
where every rule meets; two users allow the address to change hands after a
deletion and one admin to outlive the other; `MaxFlows` bounds the flows open at
once, not how often one is started. Roles other than admin take the same steps
without the last-admin rule, so the instance has none. For mail, two jobs over a
cap of one make the count matter, `RetryLimit` = 1 gives two attempts, which two
workers run at once, and two days give one midnight and one purge that matters.

Deadlock is checked for reconciliation. For the others it is not: once every id
is used, every account deleted and every request answered, they rightly stop.

### What the failing runs show

1. *A finished payment moves* (`pipeline_overlap`). `applyPaymentEvent` selects
   the row without `FOR UPDATE` and updates it by `id` alone
   (`src/api/src/domain/payments.ts:38` to 61). Two deliveries that both read
   `created` pass both checks; the second UPDATE waits for the first transaction
   and then overwrites it. A success can be overwritten by a decline or by
   processing. The journal keeps the charge, so the table and the books
   disagree. A condition on the status in the UPDATE would close it. With one
   request at a time `TerminalNeverMoves` holds (`FinishedPaymentsStay`).
2. *A success after a decline is never booked* (`pipeline_declined`).
   `payment_failed` is terminal here; at the provider the intent is open again
   and the form is still on the screen. The success that follows is
   acknowledged as `processed` and posts nothing. Reconciliation reports the
   difference; nothing repairs it. `SuccessAccountedFor` says this is the only
   way a processed success goes unbooked.
3. *Two partial refunds pass the ceiling* (`refunds_ceiling`). The total is read
   before the call and recorded after it.
4. *The last admins revoke each other* (`roles_last_admin`). `isLastAdmin` counts
   and `revokeRole` deletes, with an await between them and no lock
   (`src/api/src/routes/admin.ts:120` to 123). With two admins, a revocation of
   each finds the other still there, and both go through. The same happens if one
   admin sends both. `docs/THREATMODEL.md` says that the last admin cannot be
   demoted; the test of it sends one request at a time.

### What a passing run shows against the documentation

`OverflowIsFinal` (`reconcile_overlap`) holds, and `docs/OPERATIONS.md` says
otherwise. A window of more than `MAX_PAGES` pages fails the run, the failed run
leaves the watermark where it was, and the next one has the same window and
more: from then on no run succeeds, where the document has the next day's run heal
the window. The code avoids this for the first run, and says why
(`src/api/src/domain/reconciliation.ts:159`), but for no other.
`EverySettlementReconciled` is checked where windows fit.

One claim of the code is contradicted by the model without a property of its own.
The webhook calls an event without a row reachable only for an intent that was made
elsewhere (`src/api/src/routes/stripe-webhooks.ts:83`), and migration 0007 says
that such an event is "retried once the row appears". A cancellation from the
provider's dashboard needs no client secret, so it can be delivered between the
provider's answer to checkout and the INSERT; it is then acknowledged as
`unmatched`, nothing in `src/` reads that status again, and the row stays
`created`. `SuccessAccountedFor` says that this cannot happen to a success, the
only payment event that moves money: the browser gets the secret after the INSERT.

Three more things the models show are exceptions inside passing properties, named
there: a session of a login that a reset overtakes (`late`), the two races of MFA
(`early`, `crossed`), and mail beyond the cap when a job is resumed or spans
midnight (`uncapped`).

## Fairness

`FairSpec` assumes weak fairness of `Runs(h)`: an accepted request goes on, since
the event loop and the database do. It assumes strong fairness of a delivery of
each event that is not yet acknowledged: the provider redelivers until it gets a
200, and a handler is free again and again but not always. Nothing is assumed of
customers, of the provider's other steps, of deletions or of rollbacks, which
`MaxAborts` bounds. `FairSpec` of `Reconciliation` assumes weak fairness of
`Start(r)`, the daily schedule, and of `Works(r)`, the steps of a run in progress;
`MaxFailures` bounds the failures, since a provider that never answers would let
no run succeed. That retries go on for as long as needed is an idealisation
of the provider's three days.

## Proofs

Every invariant and every action property of a passing run, the refinement
included, is also a theorem for all values of the constants that satisfy the
named assumptions of the module: any number of requests, workers, accounts and
events, and any bound on time, failures and retries. Each `...Proofs` module extends its component, defines an
inductive invariant (checked with TLC before it was proved), shows that each
action keeps it, and ends with the theorems.

Assumptions on the constants. They say that foreign intents are intents, owners
are users, bounds are natural numbers and the null values are not members of what
they stand beside. Where a property counts, the set counted is finite: `Payments`
and `Headers`, `Handlers` of `Identity`, `Workers`. Two theorems assume more, in
their statements:

- `WindowsMeet` assumes `MaxRun <= Overlap`: a run is no longer than
  `WATERMARK_OVERLAP_S`, an hour. The comment beside that constant gives this
  as its purpose; the code does not enforce it, and a longer run does skip.
- `FinishedPaymentsStay` assumes `Serial`, one webhook request at a time, which
  `pipeline_overlap` shows to be needed. It proves `TerminalNeverMoves`, which no
  passing run checks.

### PaymentPipelineProofs

None of the properties is inductive: each speaks of committed state, and a commit
depends on what the transaction holds. `IInv` is for the journal:

- `TypeInv`: the types, and that a handler at work holds an emitted event, of the
  kind its statement handles;
- `Claims`: a claim is held by one handler, and the event it claims is absent
  from the inbox. So no commit finds its event processed already;
- `Keys`: a pending entry is the only pending one of its key and is not in the
  journal. So a commit adds no second entry;
- `Settled`: a handler about to commit a success holds a pending charge or the
  journal has one. So the row and the charge appear together;
- `Effects`: the same for the entry that an event claims to have posted.

`AllInv` adds what events say of the provider and of the rows:

- `BooksInv`: an event that settles or cancels was emitted by an intent that is
  settled or canceled, and stays so;
- `FoundInv`: an intent whose secret a browser holds has a row, unless it is
  foreign or its account is gone; all payment events but a cancellation need the
  secret, so only a cancellation can find no row for another reason
  (`UnmatchedExplained`), and no success does;
- `OrderInv`: nothing is emitted for an intent after its success, and
  `last_event_at` is the time of some event of the intent. So `ignored_stale`
  never hits a success, even with times in whole seconds;
- `SuccessInv`: a failed row has had a decline processed; a transaction that is
  to commit a success updates the row or found it charged or declined.

### PaymentLifecycleProofs

`PipelineFollowsLifecycle` is the refinement, for any number of requests. `RowInv`
is what it needs beyond `AllInv`: a row that a transaction has updated stays until
it commits, has no second writer, and a pending charge goes with an updated row. A
SELECT that goes on to the UPDATE is `Decide`, or a stutter if the same move is
decided already; a commit is `Apply`, and the decision goes unless another request
has it too; a rollback, or an UPDATE that finds no row, is `Withdraw`; the INSERT of
checkout is `Record`, a deletion is `Erase`, and the rest stutters.

`FinishedPaymentsStay` is `TerminalNeverMoves` under `Serial`. `SerialInv` adds that
a row is live, or erased, between the SELECT and the UPDATE of a transaction, and
live from the UPDATE to the commit.

### RefundsProofs

`CallInv` says that a key belongs to one payment, for ever, and that a request
about to record holds what the provider refunded under its key. With it the three
properties are inductive: whatever crosses, rows and replies copy one map of the
provider that is only ever added to. `Total` counts units of money, so that sums
over keys can be reasoned about with cardinalities.

### ReconciliationProofs

`FeesInv`: a fee posted by a run in flight is in the ledger, in no row yet, and
that run's alone. `CleanInv`: what a run has gone through and not called missing
is charged. `WindowInv`: everything settled, and not the first run's, before the
start of the window of a watermark is reconciled (`Covered`); each run in flight
started from such a watermark, and what it has left behind is in its list or
older than its window. A run that records itself at `now` makes `now` such a
watermark because it started at most `MaxRun` ago.

`BoundInv` is for `OverflowCannotHeal`: no run started from a newer watermark than
the newest, and a run has passed no more transactions than its pages hold. A run
that gets to its record has passed its window, so the window fitted; a run yet to
list gets a window that reaches at least as far back as the oversized one, which
later settlements leave where it starts. This needs no assumption on the length
of a run.

### IdentityProofs

`GuessInv` relates the two counters to the requests at each await. While the
account is open, guesses are at most the failures counted, and at most the limit
less one plus the requests that are at the lock or died before it; while it is
locked, only the requests past the check can add one. The proof corrected
`TypeOK`: `failed` is bounded by the limit and *twice* the number of requests,
since the failures counted during a lock are still there when it ends. Two
requests do not get that far; three do. `LinksInv`: a reset marks only links that are
unconsumed, no two transactions mark one, and a link that set a password is
spent. `NewestInv`: what an issue has seen it has marked, or it is over already.
`SessionsInv`: a session a reset about to commit does not revoke is `late`.

### MfaProofs

- `TypeInv`: the types, and that a request's step agrees with its route: a
  disable past its check has had a right code, only a login holds a challenge;
- `BatchInv`: what a transaction's DELETE has found covers the live codes until it
  commits. This holds because the UPDATE comes first and takes the row;
- `CodeInv`: a step that has been used is not above `totp_last_step`, and a live
  recovery code, or one yet to be made, is unspent;
- `ChallengeInv`: a challenge belongs to one request at most and is spent from then on;
- `ConfirmInv`: an enable past its check has a confirmed secret, or was crossed;
- `EarlyInv`: a setup that finds MFA on was there before it was enabled.

### RolesProofs

`OpenInv`: the id and the address of an uncommitted user are nobody else's.
`LinkInv`: an account that a callback is about to link had the address of the
identity, which its provider has vouched for, or is the callback's own; and
an uncommitted link is the only one of an identity nobody has. With them `WayIn`
and `IdentityOwnsAddress` are inductive, through the actions of `Roles` too.

### EmailDeliveryProofs

The longest, since "sent once" has to be counted. `QueueInv`: one attempt at most
of a job runs that the queue has not given up on. `RowInv` and `SentInv`: who holds
a row, and that a row, an outcome or a step that says "sent" is true. `PaidInv` is
the core: the messages sent, plus the attempts given up on that may yet send,
less the attempts lost, is at most one. It is at most zero until the first message
is accounted for (`Free`: its attempt is about to mark it, or the row says so with
no attempt past the row, or the job is done), and below zero while a running
attempt that has lost its row is about to send. So each message beyond the first
is paid for by a lost attempt.
`AttemptsInv` bounds both by the attempts begun. `CapInv` counts, for each account
and day, the rows whose message may be sent: a claim that is not withdrawn was
counted within the cap. `BounceInv`: an answered or remembered notification has
suppressed its address, and a job enqueued after that gets no further than the
check.

### Only model-checked

Liveness (`SettlementReachesJournal`, `EverySettlementReconciled`) stays with
TLC: the provers do not handle fairness. So do the four failing properties, of
course: `TerminalNeverMoves` with two requests, `SettledIsCharged`,
`CeilingHolds` and `LastAdminNotDemoted`.

## Plan

In this order; each module brings its runs and the theorems named.

1. Proofs: the ceiling of refunds, and the last admin, for one request at a time.
2. `Ledger`: the postings of an entry, the deferred balance trigger and the
   append-only triggers. Theorem: every committed entry balances.
3. `Checkout` with the expiry of the provider's keys; `DenialAudit`, the counters
   of refused requests and their reset; the idle expiry of sessions.
4. An abstract at-least-once mailer for `EmailDelivery` to refine, with its
   liveness: a job is completed or failed in the end.

## Not modelled

- Postings and amounts of the ledger, checkout keys that expire and the denial
  counters: planned, above.
- Cryptography (passwords, encryption, code hashes), signatures, cookies, rate
  limits, e-mail wording, the audit log: nothing is decided by them that these
  models leave open, or they are written after the act.
- The protocols of the OAuth providers and of SNS subscriptions: external; the
  models have what the handlers make of their answers.
- Reads that change nothing: lists of users and payments, the export of an account.
- Start and stop of the process, tracing, Terraform, and the parts of the web
  client that only render.
