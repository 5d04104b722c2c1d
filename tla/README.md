# Filosage in TLA+

Filosage is a Next.js application that generates courses and lessons with paid
AI calls, sells subscriptions, and keeps its state as JSON documents in
Cloudflare D1, in PostgreSQL or, for development, in a local file. Nothing in
it runs in the background: all of its logic is in request handlers, which may
be served by several processes at once, be repeated by the client, be slower
than the leases they hold, and die between any two transactions. What is hard
in it is therefore not an algorithm but the order of small transactions of
many requests, and the money that depends on it.

This directory holds TLA+ specifications of that logic, TLC configurations that
check them on small instances, and TLAPS proofs for every instance. Paths below
are relative to the root of the repository; the application's own source is in
its `src/`.

| Part | Module | TLC | Proofs |
| --- | --- | --- | --- |
| What a transaction promises | `DocumentStore` | | |
| Transactions on D1 | `D1Store` | `MCD1Store` | `D1StoreProofs` |
| Transactions on PostgreSQL | `PgStore` | `MCPgStore` | `PgStoreProofs` |
| Durable generation operations | `GenerationOperation` | `MCGenerationOperation` | `GenerationOperationProofs` |
| Single paid calls | `AiUsage` | `MCAiUsage` | `AiUsageProofs` |
| Course credits and their refund | `CourseCredits` | `MCCourseCredits` | `CourseCreditsProofs` |
| Account deletion and the write fence | `AccountDeletion` | `MCAccountDeletion` | `AccountDeletionProofs` |
| Checkout sessions and their containment | `Checkout` | `MCCheckout` | `CheckoutProofs` |
| Stripe events and the entitlement | `Billing` | `MCBilling` | `BillingProofs` |

The modules stand on each other as the code does. `DocumentStore` says that a
transaction is one atomic step on the current contents; `PgStore` implements it, and
`D1Store` does for documents that are never deleted (see below). The other modules use
that: each of their actions is one transaction of the code, with everything the
callback reads and writes, or one step outside the store (a provider, blob storage,
the clock, a process that dies). `AccountDeletion` has the whole job with one condition
for billing and one for a reservation; `Checkout` has its billing stage in detail, and
`AiUsage` and `GenerationOperation` have what it does to reservations and operations.

## 1. Inventory

For every component: its state, its operations, what it works with, what is hard
in it, and what makes it correct. Components without a module have the reason in
`PROJECT.json`.

### Document store (`document-store.ts`, `d1-document-store.ts`, `postgres-document-store.ts`)
*State*: documents by path; on D1 a version per row. *Operations*:
`runStoredDocumentTransaction` reads a set of paths, runs a callback that may
ask for further paths (the account fence does), and commits its writes, with
retries; put, patch, delete and batches go the same way. D1 cannot hold a
transaction open, so a commit is a batch of version assertions and writes;
PostgreSQL takes advisory locks in the order of the paths, with a timer of 30
seconds. *Hard*: reads that are not one snapshot, conflicts and how often they are
retried, lost replies, sets of paths that grow in later passes (deadlock), the
timer that fires while the callback runs. *Correct if* every commit is based on
the contents at its moment, and every call ends.

### Durable generation operations (`generation-operations.ts`, `course-pipeline/lesson-commit.ts`, `ai-usage-lock.ts`)
*State*: per operation a `generationOperations` document with status, attempt token
and lease, a stage per provider call, a usage receipt; per user and
month a period for courses and one for lessons, each with its locks, and a budget; a global
pool; a credit claim. *Operations*: begin or resume,
deny, run a provider call (claim, send, record, save), pause, finish, reconcile,
abandon, account for late answers. *Works with* the provider, course credits,
account deletion. *Hard*: leases that expire under a working request, answers that
arrive after the end, calls of which nobody knows whether they were made,
accounting in two halves of which one may fail. *Correct if* nothing is paid twice,
no cost is lost or counted twice, a lock has one attempt that may write, credits
are conserved, and every operation ends.

### Course credits (`course-credits.ts`, `course-credit-policy.ts`, `DELETE api/courses/[courseId]`)
*State*: the ledger (balance, allocation of the period, next refill, freeze), claims,
refund intents, refunds and their count per month. *Operations*: bring the ledger up
to date, reserve, redeem, release; delete a course and restore its credit within
a day. *Hard*: the refund is several transactions around a deletion that is itself
several; plans change, lapse and recover in between. *Correct if* no sequence of
plan changes mints credits, each course is refunded once and within the limit of
the month, and a refund survives the request that began it.

### Account deletion and write fence (`account-deletion.ts`, `account-write-fence.ts`, `account-lifecycle.ts`)
*State*: the lifecycle of the account, a job with stage, inventory, lease; the fence
is a check inside every commit. *Operations*: begin, resume through seven stages,
repeat. *Works with* everything that writes. *Hard*: requests admitted before the
deletion commit after it; two DELETE requests work on one job and one of them is
slower than its lease; AI reservations must be settled before their records go;
uploads race the removal of their objects. *Correct if* nothing removed comes back,
the job only goes forward, no cost and no object is lost, and the deletion ends.

### Stripe: checkout and containment (`stripe-server.ts`, `billing-lock.ts`, `api/billing/checkout`)
*State*: a checkout claim per account with the id of its session, the account's customer
and subscription. *Operations*: claim, reuse, resume after two minutes and replace a
claim; create a session under the claim's id as idempotency key; contain what was
created too late, certify that nothing was; expire sessions and cancel subscriptions of
a deleted account. *Works with* the deletion's billing stage and Stripe. *Hard*: every
Stripe call may be slower than the claim, fail, or succeed without the caller learning
it; customers pay meanwhile. *Correct if* a deleted account keeps no subscription and no
session that can be paid, a certificate is never wrong, and one account cannot come to
pay twice.

### Stripe: webhook and entitlement (`api/billing/webhook`, `stripe-server.ts`, `billing-lock.ts`)
*State*: a document per event, a reconciliation lease, the account's subscription, payment
state and consent. *Operations*: claim, process and fail an event; fetch subscription,
invoice and charge under the lease, and apply them; record a consent, or make up for
it. *Hard*: events out of order, repeated, and claimed again after five minutes while
the first handler still runs; what was fetched is applied in a later transaction.
*Correct if* an older state of a subscription never replaces a newer one, no event is
answered before the account has it, a disputed or refunded payment gives no access, and
every event is answered at last.

### AI usage without an operation (`ai-usage.ts`, `ai-usage-lock.ts`, the routes that call them)
*State*: per idempotency key a request and its attempts; per user a period with a lock and
a budget; a sharded global pool; receipts. *Operations*: reserve, checkpoint the
provider's result, settle it with the product's writes, finalise, contain what is
unknown, recover, abandon. *Works with* the provider, the products (assessments, decks),
an operator's run over expired leases, account deletion. *Hard*: the result is paid for
before it is saved, and may arrive after its reservation was contained or its account
deleted. *Correct if* a key pays for one call at most, what was paid is on the books at
what it cost, a saved result is neither lost nor delivered twice, and the strict checks
of documents against each other never block the code itself.

### Spark tutoring and its budget (`spark/*`, `infra/cloudflare/d1/002_spark_budget.sql`)
*State*: sessions, turns, attempts; a ledger per month and category whose rules are SQL
triggers. *Operations*: reserve, dispatch, settle, mark unknown, release, reconcile a
turn's budget; append a turn under an idempotency key. *Hard*: the turn is settled,
saved and finalised one after the other, and sent again after any failure. *Correct if*
no category or month exceeds its cap, and nothing dispatched is released. Not modelled
yet.

### Evaluation budget (`evaluation-budget.ts`)
*State*: a ledger of calls under an approval with a ceiling. *Hard*: calls in flight reserve
their upper bound; a lost answer blocks the operation until it is reconciled. Not modelled yet.

### Identity registry and linking (`identity-link-server.ts`, `identity-link-policy.ts`)
*State*: links, owners of e-mail addresses, intents. *Operations*: register, begin and
complete a link, backfill. *Hard*: the intent is read first to know what to read in the
transaction. *Correct if* a provider identity leads to one account for ever, and an
intent is used once. Not modelled yet.

### Courses: generation, repair, publication, deletion (`api/generate-*`, `api/courses/*`, `publication-*.ts`, `course-deletion.ts`)
*State*: courses, lessons, attempts, proofs, events. *Hard*: long handlers with many awaits;
proofs bound to contents that may change; a deletion that is a sweep of several
transactions. *Correct if* what is published is what was proved. The durable part is in
`GenerationOperation`; the deletion's order is in `CourseCredits`; its late writers are in
`AccountDeletion`.

### Banners and illustrations (`course-banners.ts`, `course-illustrations.ts`, `course-illustration-budget.ts`)
*State*: an asset record, an object in blob storage, a budget. *Hard*: the record is claimed
before the upload and completed after it. Banners are in `AccountDeletion`.

### Support command center (`command-center-server.ts`)
*State*: tickets, approvals, drafts, controls, audit events. *Operations*: each one transaction
with an expected version and an idempotency key. *Correct if* a decision is made once and on
the ticket that was seen. Not modelled yet.

### Flashcards, evidence shares, learner state (`flashcards-server.ts`, `evidence-shares.ts`, `learner-sync.ts`)
*State*: decks with counters and cards; shares with references; a queue of changes in the
browser. *Hard*: an acknowledgement that arrives after a newer edit. Not modelled yet.

### The rest
Sessions and sign-in (checks without state), rate limits (one transaction over two
counters, a refusal elsewhere), the local store (one process), the user interface, and the
scripts of operation and release are not modelled.

## 2. The modules and the code

### DocumentStore, D1Store, PgStore
`DocumentStore` is the promise of `runStoredDocumentTransaction`: a transaction
is shown documents, and commits only if all of them still are what it was
shown. `D1Store` has a row with a version per path, and per caller what it read,
how many conflicts it met and which pass of the loop it is in. `ReadRow` is one
`SELECT`; `Commit` is the batch, which is atomic; `ReadSetHolds` is its
assertions, `After` its writes. `PgStore` has the holder of each advisory lock:
`Lock` is one statement, `Select` the `FOR UPDATE`, `Expire` the timer.
In both, `Expand` is a callback that asks for further paths and starts over, and
`Commit` may end with "failed" although it was applied, since replies get lost.
Contents are model values; queries and conversions of documents are left out.

What D1 cannot keep: a row that is deleted takes its version with it and one that
is created again begins with 1, so a transaction that read the first passes its
assertion on the second. D1 is therefore shown to implement `DocumentStore` over
`Permanent`, the documents that are never deleted, while the same transactions read,
delete and create others. All documents on which the modules below rely for a
decision are of this kind while an account is active.

### GenerationOperation
One user's operations. `op` has status, attempt token, whether the lease is fresh,
and the calls not confirmed yet; `stage`, `receipt`, `calls`, `accounted`, `lock`,
`personal` (period and budget), `global` (the pool), `credits` and `claim` are the
documents; `exec` is where the server code of a call is, and `sent` counts requests
to the provider. A call is `Claim`, `Execute` (with `Claim`), `Answer`, `Record`,
`SaveStage`; or `Refuse`, when the provider provably did not take it; or `Lose`,
when the server dies or the answer does. `Begin` and `Resume` are the branches of
`beginGenerationOperation`, `Complete` the commit of lesson or course with its
accounting, `Fail`, `Reconcile` and `Abandon` the other ends, `AccountLate` the
personal half of what was recorded late. `DeleteAccount`, `AbandonUsage` and
`RemoveRecords` are what account deletion does to operations.
`Key` says which lock an operation needs. The usage period is a document of one feature and one
month (`usagePeriods/<uid>__<feature>__<month>`): courses lock theirs as a whole, lessons the
lesson in theirs, and `NoConflict` looks at that one lock. So a course and a lesson run side by
side, and so do two operations that were admitted in different months, be they for the same
lesson; the model gives them different keys. `aiUsageConflictingUntil` also lets an unscoped
lock exclude all scoped ones of its document and the reverse; such a lock of lessons comes from
older writers only, and nothing in the repository writes one any more, so it is left out.
`personal` adds up the periods of both features and the budget they share.
Costs are small numbers; one of them exceeds the reserve. The rate per minute, the
pinned configuration and the attempt documents of lessons are left out.

### CourseCredits
Time is counted in ticks of the refund's window. `Reconciled` is
`reconcileCourseCreditLedger`, with `Frozen` for an account without a paid plan and
`Accrued` for one with it; every action that uses the ledger brings it up to date
first, as the code does. A DELETE request is `Enter`, `Record` (the intent),
`Delete`, `ReadIntent`, `Settle`, and `Crash` between any two of them; it begins at
`ReadIntent` when the course is gone already and an intent is pending. `given` counts
what was ever granted, for `NoFarming`. Months are equally long. Left out: the unlimited
credits of the owner, the guard of 120 accruals, and a deletion by the owner of another
author's course.

### AccountDeletion
`Allows` and `Removable` are `assertAccountMutation` for the requests of the account,
of others and of the deletion; `Admit` and `CommitLate` are the two ends of a request,
with anything in between. A DELETE request begins or finds the job (`Begin`, `Again`),
claims the lease (`Claim`, or `Turned` away), goes through the stages `Checkout`,
`Inventory`, `Billing`, `Abandon` and `Delete`, the assets, `Verify` and `Close`, and
frees the lease in `Finally`; `Fail` is an exception, `Die` a process that ends. A
stage is two actions where the code reads, awaits and then saves. `scope` is the
token that the request read with the job and `token` the one it claimed with: the
fence compares the first, `save` the second. Tokens are UUIDs, so one that nothing
refers to may be used again for a new one. There is one account and at most one
course; the stages of Stripe are one condition, `busy`. Late records of pipeline events
(section 6) are written by `CommitLate` and left out of `NothingLeft`.

### Checkout
A claim, its session and its subscription have one name, since the claim's id is the
idempotency key at Stripe. A request is `Enter`, then one of `Reuse`, `Resume`, `New` or
`Turned` on the claim, then `Customer`, `List` (no nonterminal subscription), `Previous`
(the replaced session is expired), `Allowed`, `Create`, `Opening`; where the account was
deleted meanwhile, `Contain` and `Certify`; where a call failed, `Mark`, with what the
request knows of a session that may exist (`mayExist`, `contained`). `Fail` and `Die` are
faults, and so is `ClaimAges` when the holder is still at work (`overtaken`). The
deletion is `Begin`, `CheckoutStage` (the inventory between it and billing is left out), the
two lists with `ExpireSession` and `CancelSub` one by one, and the two confirmations.
Customers pay (`Complete`), cancel, or let a session run out, and signed events arrive
late (`Consent`, `Sync`, `ContainLate`). A resumed `Create` gets the session its key made
before; that Stripe may reject it for the new `expires_at` it carries is a `Fail`. `creating` and `replacing` are one status: no code
tells them apart. Offers, prices and the portal keep no state here.

### Billing
Every change at Stripe makes one event, named by the number of the change, so that
`account.at` can say at which version the applied state was fetched. A handler is `Claim`,
`Look` (the first fetch and, for a checkout, the consent), `Take` (the lease), `Fetch`,
`FetchInvoice`, `FetchCharge`, `Apply`, `Release`, perhaps `Consent` and once more from
`Take`, and `Finish`, whose 200 may be lost. The lease is the handler whose token is
alive, or `None`; a record is `old` when its claim is older than five minutes. That
either runs out while its holder works is a fault. `Finish` writes the outcome without
looking whose claim it is, as the code does. `Look` folds the awaits before the lease into
one step. Subscriptions are numbered in their
order. Left out: changes of plan, partial refunds, trials, checks of prices; a closed
account is in `Checkout`, the ledger of credits in `CourseCredits`.

### AiUsage
One user, one feature, one month, as many keys as one likes. `request`, `attempt`, `saved`
(the checkpoint), `receipt`, `pool`, `lock` and `product` are the documents; `personal` is
the usage period and the budget, which are always written alike; `handler` is what a
request knows. `Route` says which keys are served by a product route (`assess-baseline`
stands for it) and which by one that books directly (the tutor and Spark). A request is
`Read`, `reserveAiUsage`, `Dispatch`, `Answer` or `NoAnswer`, then `checkpointAiUsageResult`
and `settleAiUsageProduct`, or `FinalizeTurn`; a failure ends in `FinalizeFailed` with the
answer, `FinalizeUnsent` where surely nothing was sent (only Spark knows), or
`FinalizeUnknown`, which contains the reserve as uncertain. `recoverAiUsageResult` is a
repeated key; `reconcileExpiredAiUsage` the operator's run; `abandonAiUsage`, `RemoveRequest`
and `RemoveLedger` the deletion. `Held` and `HeldInPool` are what the code's strict checks
of request, attempt and receipt come to. `spent` is what the provider charged.
Left out: the month's turn, legacy and minimal receipts, the rate per minute, prices, a
read of the original attempt before the transaction, the illustration route (section 6).

## 3. Runs

All runs together take some fifteen minutes on two cores.

| Run | Specification, instance | Properties |
| --- | --- | --- |
| `d1_store` | `D1Store`: 2 callers, a permanent and a deletable document, 2 contents, fair | `PermanentReadsCurrent`, `ImplementsDocumentStore`, `CallEnds` |
| `pg_store` | `PgStore`: 3 callers, 2 documents, fair | `SomeoneCanMove`, `ImplementsDocumentStore`, `CallEnds` |
| `gen_one` | `GenerationOperation`: one course, two calls, two attempts | `PoolMatchesReceipts`, `LedgerMatchesOperations`, `PaidOnce`, `ClosedBooks`, `NoTakeoverDuringCall` |
| `gen_two` | two courses that need one lock, or a course and a lesson; one call each, fair | `CreditsConserved`, `OneOwner`, `ClosedKeysStayUnused`, `EndIsFinal`, `EventuallyEnds`, `LateUsageAccounted`, `DeletionCompletes` |
| `credits_refund` | `CourseCredits`: 2 courses, 2 requests, 2 ticks | `RefundsCounted`, `RefundRecoverable` |
| `credits_accrual` | 1 course, 1 request, 4 months | `NoFarming` |
| `deletion_safety` | `AccountDeletion`: 2 slow requests, a late one, a death | `NothingLeft`, `SettledBeforeRemoval`, `StageForward` |
| `deletion_live` | 2 requests, 2 banners (one shared), a failure, a death, fair | `NoOrphanObject`, `EndsUnlessOneDies` |
| `deletion_death` | violated: see section 6 | `DeletionEnds` |
| `checkout` | `Checkout`: 2 requests, 2 claims, 2 faults, fair | `Contained`, `NotCreated`, `OneUnlessFault`, `DeletionContains` |
| `billing` | `Billing`: 2 handlers, 2 subscriptions, 3 changes, 2 invoices, 1 fault, fair | `Covered`, `Converges`, `HoldKept`, `ForwardOnly`, `EventuallyQuiet` |
| `usage` | `AiUsage`: an assessment and a turn, 2 requests, 2 attempts, fair | `LedgersMatch`, `SpendKept`, `NeverBlocked`, `ResultKept`, `DeletionSettles` |

Type invariants are proved (section 5) and not run again; the other invariants and the action
properties are both run and proved.

*Bounds.* `MaxConflicts` and `MaxTries` are constants of the code (there 5 and 16),
taken smaller; two callers suffice for a conflict and three, on two documents, for a
cycle of waiting with one to spare. `MaxVersion` stops the counting of versions: beyond
2 nothing compares differently. Two attempts of an operation are one takeover; two
calls let one be confirmed while the other is open, and the cost 4 exceeds the reserve
of 3, so that rounding and overrun both occur. `gen_two` has three operations of which a
behaviour uses two (`TwoUsed`): the two courses, which pass their lock on by expiry, takeover and
late end (so there are two credits), or a course and the lesson, whose leases may be fresh
together. Its calls cost less than the reserve: its properties are about who acts and what
ends, the amounts are `gen_one`'s. In the credits, the cap of the month is 1 so that the second refund meets it. Freeze (4 ticks) and months (2) are short enough
for a freeze to pass, and 8 ticks are four refills. In the deletion the numbers of
deaths, failures and late requests are bounded by `MaxDeaths`, `MaxFailures` and
`MaxLate`; one of each reaches every branch, and the proofs hold for any number.
Six tokens are one for the job and the scope and token of each request, with one to
spare. In `Checkout`, `Claims` bounds the claims that anything refers to at once, not those
ever made; two faults are a request that dies and one that fails or is overtaken. In
`Billing`, three changes (`MaxChanges`) are enough for a dispute that is won, a renewal that is
paid, and an end with a new subscription, each with its events in any order; `MaxInvoices`
2 is one renewal; one fault is one handler outliving its lease, and with two the run takes
more than five minutes, while `BillingProofs` has any number. In `AiUsage` the cost exceeds the
reserve, the limits admit both keys but not a third reservation, two attempts
(`MaxAttempts`) are a key that is repeated after it surely was not sent, and one change
of the product (`MaxEdits`) is a checkpoint that can never be settled. `CHECK_DEADLOCK FALSE`
stands where the system may really stop: all operations ended, the last tick, all
events answered, the account gone.

*Mutants.* Each property is accompanied by a variant of one definition, marked "Mutant" in
its comment, that changes the code's behaviour as a plausible bug would and breaks it.

## 4. Fairness

*Stores.* A caller that is running goes on: none of its steps waits, except for an
advisory lock. PostgreSQL queues the waiters of a lock, so a lock that becomes free
again and again reaches each: strong fairness of `Lock`. Fairness of the whole of
"read, decide, fail" lets the caller choose; that a call ends despite conflicts
follows from the loop's bounds, not from fairness.

*Operations.* Leases run out; `Reconcile` and `AccountLate` happen, because every
status query of an operation calls `reconcileGenerationOperation`, and because
`scripts/reconcile-generation-operations.ts` does it for operations nobody looks at. The
repository installs no scheduler for that script, so for a page that was closed the
assumption is that somebody runs it. Nothing is assumed of the provider or of the server
that made the call: it may stay silent for ever.

*Deletion.* A request that is served goes on; the user repeats the DELETE while the
answer says pending (409 with `Retry-After`, or "Retry to resume it"); uploads and checkouts end; a lease that
nobody renews expires. `deletion_live` also assumes that requests are not slower than
their lease (`SlowWorkers` is false): two that are can take it from each other for ever.
Deaths are bounded, and `EndsUnlessOneDies` demands nothing after one.

*Checkout.* A request that was called goes on, and the deletion's stage is repeated until it is
done. Nothing is assumed of the customer, of the time at which sessions run out and claims grow
old, or of requests that have not begun.

*Billing.* Stripe sends an event until it is answered with 200 (for three days; the model has
no end of it), a handler that was called goes on, a lease and a claim grow old. All of it
is weak fairness. It is not enough for all events: section 6 has those that stay.

*Single calls.* Only what a begun deletion repeats is fair: `abandonAiUsage`, `RemoveRequest`,
`RemoveLedger`. The operator's run over expired leases is started by hand ("No scheduler is
installed"), so nothing is claimed to be contained at last while the account is active.

## 5. What is proved

The proofs need of the constants only the assumptions named in the modules: finite
sets where something is counted, model values apart from each other, amounts that are
natural numbers, and that the plan "plus" does not allot more than "pro" (2 and 5 in
`membership-plans.ts`). They hold for any number of callers, operations, courses, records,
handlers and requests, and for any bounds. `TypeOK` is proved of every module but
`DocumentStore`, which is only an abstraction (for `PgStore` as part of `LocksMatch`), and so is
every invariant that a run checks, and every action property. The strengthenings of sums, of
the months and of the account's knowledge below were checked by TLC, on the instances of the
runs and some larger ones, before they were proved.

- `D1StoreProofs`. The strengthening is `VersionsTell`: the version of a permanent
  document never falls behind what anybody read of it, and an equal version means an
  equal row. From it the assertions of a batch imply that every permanent document read
  is current, and every step of `D1Store` is a step of `DocumentStore` over `Permanent` or
  none (`D1Implements`), whatever happens to the other documents.
- `PgStoreProofs`. `LocksMatch` (who decides holds the locks of what it was shown, who ended
  holds none), `Sorted` (who waits holds just the locks before the one it waits for) and
  `Fresh` (what is shown under locks is current) are inductive together. `NoDeadlock` takes the
  greatest locked path, which exists by the well-foundedness of the order turned round over a
  finite set: its holder waits for a path beyond it, which is free, or for none.
  `PgImplements` maps `Commit` to the abstract one, deletions included.
- `GenerationOperationProofs`. `TypeOK` is not inductive: that the reserved amounts stay
  natural depends on which operations are open. `IInv` adds, per call, what its
  stage, receipt and server code say of each other (`CallFacts`: `sent` is 1 exactly when the
  intent is not claimable any more), per operation what status, receipt and claim say
  (`OpFacts`), and what lease and lock say (`LockFacts`). There is a lemma per action;
  `OneOwner`, `PaidOnce`, `ClosedBooks`, `ClosedKeysStayUnused` and `NoTakeoverDuringCall`
  follow from `IInv`, `EndIsFinal` from `IInv` and the action. `CreditsConserved` is a second
  induction on top of it, over the cardinality of the held claims; `Books` a third, for
  `PoolMatchesReceipts` and `LedgerMatchesOperations`. `Entries` is what the documents of one
  operation say of its bills (what the receipt holds, which calls have a cost, which of them the
  user's ledger has already); `Balanced` is the two properties, said of functions from operations
  to amounts, so that a step at one operation is a change of these functions at one argument.
- `AiUsageProofs`. `SpendKept` needs to know that a key which may be reserved has spent nothing,
  which rests on four others: `NothingSent` (what a request knows between reservation and
  call, that no other is as far, and that its attempt is the key's last),
  `WasSent`, `Roots` (a saved result has the cost that was spent; a request that failed "before
  the provider" spent nothing) and `Receipted` (every attempt but an open last one has its
  receipt, which is why the deletion may remove the documents). `Deleting` says that only a
  closed account is abandoned. `ResultKept` follows from the types and each action's guard on
  the request's status. `BooksInv` adds `Agree`, what request, attempt, checkpoint and receipt
  of a key say of each other, and `Balanced`, `LedgersMatch` said of functions. `NeverBlocked`
  follows: a strict check demands of the totals no more than the one attempt adds to the sums.
- Sums. An amount over the keys, or the operations, is a fold over a finite set, and the
  induction theorems of the library take an operator, which the provers cannot instantiate.
  `NatLeast` (a non-empty set of numbers has a least one, from the well-foundedness of the order)
  and `SmallestSubset` (of the subsets of a finite set with some property one is minimal) say
  the same of sets; from them follow what a sum is after one term has changed (`SumChanged`), and
  that it is no less than a term. The lemmas stand in `AiUsageProofs` and in
  `GenerationOperationProofs`, the modules that need them.
- `CourseCreditsProofs`. `Bounds` ties a request to its course; `Facts` says that a course
  that is about to be deleted or was deleted is refunded, refused for the month, or has a
  pending intent; `Counted` ties the counters of the months to the refunds. `Earned` is for
  `NoFarming`: the ledger's next boundary lies a whole number of months after the first grant,
  k + 1 say, and no more than a month ahead, and what was granted is at most k of the largest
  allocations and the grant of the month that runs. It rests on the boundary's surviving a
  freeze, and on `Past` and `Facts`: a refund that works with an older time finds the account
  with a first grant behind it. `AccruedEarns` has the arithmetic of one reconciliation.
- `AccountDeletionProofs`. Five invariants, each inductive on the ones before. `Control`: nobody
  works before the fence, tokens of requests at work are their own, and whoever holds the
  lease is where the job is; from it, `StageForward`. `Stored`: an object exists only
  under a record, and an upload only under one that says "uploading". `Paid`: a request that
  still holds the lease and is about to remove the AI request has settled it. `Linked`: a
  lesson has its course, or the job knows the course. `Gone`: what was verified is clean,
  for the request about to save it too. The slow request is the reason for each "and holds
  the lease": one that lost it believes things that are no longer true, and only the
  comparison of tokens in `save` keeps it from acting on them.
- `CheckoutProofs`. `AtStripe`: what is at Stripe was asked for with the account's customer and
  shown before it was paid. `Swept`: what the deletion has listed covers what is still open or
  alive, in the order of its stages; `Contained` is its last case. `Alone`: until a claim is
  taken over nobody else works on it, and who did not call Stripe has no session; from it
  `NotCreated`. `Faultless`: without a fault, what is payable is known to the one request that
  works; from it `OneUnlessFault`.
- `BillingProofs`. `Leasing`: what a handler fetched is no older than its event and, as long as
  it holds the lease, no older than what the account has. `ForwardOnly` and `Covered` follow,
  however many handlers outlive their leases and claims. `Knowing` is for `Converges` and
  `HoldKept`, and has four parts. `Told`: the events tell what the provider went through. `Known`
  and `PaidAs`, of the account and of every handler at work: what was fetched at a version is
  true of the provider unless a later event of the subscription says otherwise, and a payment
  that was not known then was not disputed then. `Matches` or `Later`, of a handler that fetched
  a charge: it shows what the charge is still, or another event about it is to come.
  `Reflected`: an event that was applied (answered, recorded, or about to be) is followed by the
  account, whose hold is the one of the last event about the charge. What keeps `Reflected` is
  that a handler under its own lease has fetched no less than the account has (`AppliedKnows`).

Only model-checked: liveness under fairness, which is outside the prover (`CallEnds`,
`EventuallyEnds`, `LateUsageAccounted`, `DeletionCompletes`, `EndsUnlessOneDies`,
`DeletionContains`, `EventuallyQuiet`, `DeletionSettles`).

## 6. Disagreements found

*A dead request blocks a deletion* (`deletion_death`). `resumeAccountDeletion` works in the
scope of the job as it was read, with the lease token of the request before. If that
one died, the token is there; after the lease was claimed with a new one the fence
compares the scope's with the job's and refuses every save, that of the `finally` block
included, so that the next request is no better off. The run is one request, one
death and then retries for ever. `EndsUnlessOneDies` shows that this is the only obstacle.

Disagreements of code and documents that no run states; the models have the steps, and the
properties exempt them by name:

- *A refund can wipe out frozen credits.* The reconciled ledger of an account that is not paid
  has the ceiling 0 (`course-credit-policy.ts:69`), and the refund of a course of the last day
  stores the smaller of ceiling and balance plus one (`course-credits.ts:227`): 0. The plan
  document keeps frozen credits for twelve months.
- *Two sessions can be paid.* A request that replaces an open session writes the new claim and
  dies before it has expired the old session. The takeover sets `previousSessionId` undefined
  (`stripe-server.ts:214`) and creates its own session beside the old one. If both are paid,
  the event of the second is refused (`:915`). `tests/billing-lifecycle.spec.ts:330` expects one.
  `OneUnlessFault` is therefore about runs without faults.
- *Certified too early.* A claim can be certified as never created while the request that it was
  taken over from still has its POST in flight; the deletion report of 2026-09-06 says that an
  unknown outcome must never be certified. `NotCreated` exempts `overtaken`.
- *A deletion waits for a claim of nobody* (`Abandoned` in `DeletionContains`): a checkout dies with
  its claim `creating`, and after the fence nobody may take it over. The same without a death,
  when a failed request finds the account active, the deletion begins, and the mark of the
  failure is refused and swallowed.
- *An event of a removed course.* Records of the pipeline name no owner
  (`course-pipeline/observability.ts:58`); once the course is gone the fence finds none
  (`account-write-fence.ts:135`), and a late one of the site's owner is accepted after the
  deletion's verification.
- *Illustrations certify too much.* `course-illustrations.ts:296` finalises as "not_started" after
  the provider was called and failed, against the comment at `ai-usage.ts:1835`.
  `docs/AGENT_PROGRESS.md:154` lists it as open. The route is left out of `AiUsage`; what it does
  is the mutant of `SpendKept`.
- *A downgrade cuts the balance* to the lower ceiling (`course-credit-policy.ts:124`), where the plan
  document preserves it.

Seen as well:

- *Plan against assessment.* `PUT api/mastery` reads the outcome, and puts it back whole with the
  assessment it has read (`mastery/route.ts:142-148`). One that is settled in between is paid,
  counted against the allowance, and gone from the outcome; only a repetition of its key still
  shows it, without writing it back.
- *A late event stays.* An event of an earlier subscription (a refund, say) that is processed when a
  later one is applied fails with 500 until Stripe gives up (`Stuck`).
- *Contended consent.* The account has one record of a consent. A late checkout of one subscription
  takes it from the other just before that one is applied, which then takes it back: under weak
  fairness this can go on for ever (`Contended`).
- *A checkpoint nobody can settle.* The guard of a product is read before the reservation; if the
  product changes, the result stays saved, its reserve stays held and its key answers 409, until
  the account is deleted. `NeverBlocked` says that the accounts would allow it.
- *Uncertain although known.* Where the input is refused before the call, the assessment, chat and
  flashcard routes contain the reserve as uncertain, since only Spark certifies; usage answered
  between the fence and the removal of the documents stays uncertain as well; the flashcard
  route forgets the usage it saw when it fails.
- A slow superseded checkout may mark an open claim as failed (`markCheckoutClaimFailed`); an
  expired previous session fails one attempt. Containment confirms subscriptions before sessions,
  which is safe only since the sessions were expired first.
- A slower handler may overwrite "processed" with "failed": the event is then applied once more,
  which `Covered` shows to be harmless. `shouldApplyBillingEvent` is not called.
- The intent of a failed deletion keeps its date, so a course deleted days later is still refunded
  (`course-credits.ts:175`); and the recreated document of section 2
  (`d1-document-store.ts:415`).

## 7. Not modelled, and what comes next

The modules cover the transactions in which money, access and personal data are decided. By
lines that is a small part: most of the repository is pages and components, prompts, parsing
and validation of content, administration, and scripts. They keep no shared state, or one
transaction each, and a module of them would be a transliteration.

What has state worth a module and none yet, in the order of what can go wrong:

1. `SparkBudget` with its SQL triggers as guards, and a turn of `spark/orchestration.ts` over it and
   `AiUsage` (the budget is settled, the turn saved, the allowance finalised, one after the other);
   `EvaluationBudget` with calls in flight under a ceiling. To prove: the caps.
2. `IdentityLink`: registry, intents, linking against registration and deletion.
3. `LearnerSync`: the browser's queue against acknowledgements and reads that overtake each other.
4. An abstract ledger (each call is held, uncertain or booked, once) that `AiUsage` and
   `GenerationOperation` are shown to implement.
5. `CourseDeletion` as a sweep, refined by `Delete` of `CourseCredits`; publication proofs; the save of
   a lesson.
6. `CommandCenter`, `Flashcards`.

Simplifications to undo: the turn of a month in `AiUsage` and `CourseCredits` (months are of equal
length there), changes of plan and partial refunds in `Billing`, several courses in
`AccountDeletion`. The SDKs of the providers retry by themselves and may pay twice; that is outside
of this code and of the models.
